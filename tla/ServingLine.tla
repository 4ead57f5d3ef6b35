----------------------------- MODULE ServingLine -----------------------------
(***************************************************************************)
(* What the limiter of LLM calls is for: at most MaxConcurrent callers are  *)
(* served at a time, the others stand in line, nobody stands in line while  *)
(* a place is free, and whoever came first is served first.                 *)
(***************************************************************************)
EXTENDS Naturals, Sequences, FiniteSets, SequencesExt

CONSTANTS Callers, MaxConcurrent

VARIABLES served, line

Init == served = {} /\ line = <<>>

Come(c) ==
    /\ c \notin served /\ c \notin ToSet(line)
    /\ IF Cardinality(served) < MaxConcurrent
       THEN served' = served \cup {c} /\ UNCHANGED line
       ELSE line' = Append(line, c) /\ UNCHANGED served

Go(c) ==
    /\ c \in served
    /\ IF line = <<>>
       THEN served' = served \ {c} /\ UNCHANGED line
       ELSE served' = (served \ {c}) \cup {Head(line)} /\ line' = Tail(line)

\* The process ends, and the line with it.
Close == served' = {} /\ line' = <<>>

Next == Close \/ \E c \in Callers : Come(c) \/ Go(c)

Spec == Init /\ [][Next]_<<served, line>>

=============================================================================
