---------------------------- MODULE MCPublishing ----------------------------
(* Small instances of Publishing. *)
EXTENDS Publishing

LowThenHigh == <<"low", "high">>
=============================================================================
