----------------------------- MODULE LlmLimiter -----------------------------
(***************************************************************************)
(* makeConcurrencyLimiter (concurrency.ts): a counter and a list of         *)
(* callbacks.  A caller that ends hands its place to the first callback     *)
(* before anybody else can take it, for both happen in one turn of the      *)
(* event loop.                                                              *)
(*                                                                          *)
(* An operator named Something_Wrong, before Something, is a mistake in the *)
(* same place of the code that a property is to notice.                     *)
(***************************************************************************)
EXTENDS Naturals, Sequences, FiniteSets

CONSTANTS Callers, MaxConcurrent

VARIABLES
    running,  \* the counter
    waiters,  \* the callbacks, by caller
    phase     \* where each caller is: out, waiting or calling

limiterVars == <<running, waiters, phase>>

Init ==
    /\ running = 0
    /\ waiters = <<>>
    /\ phase = [c \in Callers |-> "out"]

Admits == running < MaxConcurrent

Acquire(c) ==
    /\ phase[c] = "out"
    /\ IF Admits
       THEN /\ running' = running + 1
            /\ phase' = [phase EXCEPT ![c] = "calling"]
            /\ UNCHANGED waiters
       ELSE /\ waiters' = Append(waiters, c)
            /\ phase' = [phase EXCEPT ![c] = "waiting"]
            /\ UNCHANGED running

\* The counter after the place went to the first callback, which counts itself.
Handed_NotCounted == running - 1

Handed == running - 1 + 1

Release(c) ==
    /\ phase[c] = "calling"
    /\ IF waiters = <<>>
       THEN /\ running' = running - 1
            /\ phase' = [phase EXCEPT ![c] = "out"]
            /\ UNCHANGED waiters
       ELSE /\ running' = Handed
            /\ phase' = [phase EXCEPT ![c] = "out", ![Head(waiters)] = "calling"]
            /\ waiters' = Tail(waiters)

\* The process ends and another one starts.
Restart ==
    /\ running' = 0
    /\ waiters' = <<>>
    /\ phase' = [c \in Callers |-> "out"]

Next == Restart \/ \E c \in Callers : Acquire(c) \/ Release(c)

Spec == Init /\ [][Next]_limiterVars

-----------------------------------------------------------------------------
TypeOK ==
    /\ running \in 0 .. MaxConcurrent
    /\ waiters \in Seq(Callers)
    /\ phase \in [Callers -> {"out", "waiting", "calling"}]

Calling == {c \in Callers : phase[c] = "calling"}

Line == INSTANCE ServingLine WITH served <- Calling, line <- waiters

\* The limiter keeps a counter and callbacks, and with them serves its callers as
\* a line at so many counters does (concurrency.ts:3-38).
ServedInLine == Line!Spec

=============================================================================
