---------------------------- MODULE MCMailSync ----------------------------
(* Small instances of MailSync. *)
EXTENDS MailSync
=============================================================================
