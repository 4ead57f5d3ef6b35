----------------------------- MODULE BankMirror -----------------------------
(***************************************************************************)
(* What a bank synchronisation promises, without saying how: the rows in    *)
(* the database are a mirror of the bank's feed of updates that may run     *)
(* behind or ahead of a checkpoint (the stored cursor), and everything the  *)
(* feed says up to the checkpoint is in the rows.                           *)
(***************************************************************************)
EXTENDS Naturals

CONSTANTS
    Txns,  \* Plaid transaction ids
    Known  \* those whose account has a row: the others cannot be stored

VARIABLES
    addedAt,   \* position of each transaction's posting in the feed, 0 = none
    removedAt, \* position of its removal, 0 = none
    tip,       \* last position of the feed
    stored,    \* transactions that have a row
    removed,   \* rows that are marked as removed
    cursor     \* the checkpoint

vars == <<addedAt, removedAt, tip, stored, removed, cursor>>

AddedBy(n) == {t \in Txns : addedAt[t] \in 1..n}
RemovedBy(n) == {t \in Txns : removedAt[t] \in 1..n}

\* Everything up to position n is in the rows.
MirroredUpTo(n) ==
    /\ Known \cap (AddedBy(n) \ RemovedBy(n)) \subseteq stored
    /\ RemovedBy(n) \cap stored \subseteq removed

Init ==
    /\ addedAt = [t \in Txns |-> 0]
    /\ removedAt = [t \in Txns |-> 0]
    /\ tip = 0
    /\ stored = {}
    /\ removed = {}
    /\ cursor = 0

\* The bank appends an update: a posting, a removal, or a change of details.
Publish ==
    /\ tip' = tip + 1
    /\ \/ /\ \E t \in Txns :
               addedAt[t] = 0 /\ addedAt' = [addedAt EXCEPT ![t] = tip + 1]
          /\ UNCHANGED removedAt
       \/ /\ \E t \in AddedBy(tip) :
               removedAt[t] = 0 /\ removedAt' = [removedAt EXCEPT ![t] = tip + 1]
          /\ UNCHANGED addedAt
       \/ UNCHANGED <<addedAt, removedAt>>
    /\ UNCHANGED <<stored, removed, cursor>>

\* A row appears for a transaction the bank has published.
Store ==
    /\ \E t \in Known \cap AddedBy(tip) : stored' = stored \cup {t}
    /\ UNCHANGED <<addedAt, removedAt, tip, removed, cursor>>

\* Rows of removed transactions are marked, never dropped.
MarkRemoved ==
    /\ removed \subseteq removed'
    /\ removed' \subseteq removed \cup (stored \cap RemovedBy(tip))
    /\ UNCHANGED <<addedAt, removedAt, tip, stored, cursor>>

\* The checkpoint moves forward over what is mirrored.
Checkpoint ==
    /\ \E n \in cursor..tip : MirroredUpTo(n) /\ cursor' = n
    /\ UNCHANGED <<addedAt, removedAt, tip, stored, removed>>

Next == Publish \/ Store \/ MarkRemoved \/ Checkpoint

Spec == Init /\ [][Next]_vars
=============================================================================
