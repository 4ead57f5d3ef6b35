------------------------------ MODULE JobQueue ------------------------------
(***************************************************************************)
(* One BullMQ queue as packages/queue uses it: makeJobProducer adds jobs,   *)
(* the Worker that makeJobConsumer starts takes them, and runHandler        *)
(* decides between success, retry and the dead-letter queue.                *)
(*                                                                          *)
(* An operator named Something_Wrong, before Something, is a mistake in the  *)
(* same place of the code that the properties below are to notice.          *)
(*                                                                          *)
(* What is external (BullMQ 5 over Redis, with the defaults the code        *)
(* leaves in place): a job id that is already known is ignored by add,      *)
(* whatever the state of that job, because the producer never asks for      *)
(* finished jobs to be removed; a worker owns its job through a lock; a     *)
(* job whose lock is gone is "stalled" and goes back to waiting, at most    *)
(* MaxStalls times, after which BullMQ itself fails it.                     *)
(***************************************************************************)
EXTENDS Naturals

CONSTANTS
    Jobs,        \* job ids of the queue
    FixedIds,    \* the ids a producer passes as opts.jobId; the others are fresh
    Slots,       \* concurrent handler slots, of one or more worker processes
    NoJob,       \* what an idle slot holds
    MaxAttempts, \* settings.maxAttempts
    MaxStalls,   \* BullMQ's maxStalledCount
    MaxFaults,   \* bound: worker crashes and lost locks
    MaxRequests  \* bound: enqueue calls per job id

ASSUME JobsAssumption == NoJob \notin Jobs /\ FixedIds \subseteq Jobs
ASSUME LimitsAssumption ==
    /\ MaxAttempts \in Nat \ {0}
    /\ MaxStalls \in Nat
    /\ MaxFaults \in Nat
    /\ MaxRequests \in Nat

VARIABLES
    state,    \* what Redis knows of each job
    made,     \* job.attemptsMade
    stalls,   \* BullMQ's stalled counter of the job
    owner,    \* the slot that took the job last
    locked,   \* is the lock of that slot alive
    job,      \* the job whose handler a slot runs
    pc,       \* how far the slot is
    dlq,      \* entries of the dead-letter queue, per job
    asked,    \* enqueue calls, per job
    starts,   \* history: handler invocations, per job
    finished, \* history: a handler invocation of the job returned
    faults

queueVars == <<state, made, stalls, owner, locked>>
vars == <<state, made, stalls, owner, locked, job, pc, dlq, asked, starts,
          finished, faults>>

Live == {"waiting", "active"}       \* waiting stands for waiting and delayed
Settled == {"completed", "failed"}

Init ==
    /\ state = [j \in Jobs |-> "absent"]
    /\ made = [j \in Jobs |-> 0]
    /\ stalls = [j \in Jobs |-> 0]
    /\ owner \in [Jobs -> Slots]
    /\ locked = [j \in Jobs |-> FALSE]
    /\ job = [w \in Slots |-> NoJob]
    /\ pc = [w \in Slots |-> "idle"]
    /\ dlq = [j \in Jobs |-> 0]
    /\ asked = [j \in Jobs |-> 0]
    /\ starts = [j \in Jobs |-> 0]
    /\ finished = [j \in Jobs |-> FALSE]
    /\ faults = 0

-----------------------------------------------------------------------------
(* The producer. *)

\* Queue.add: a known id is ignored, and only a fixed id is ever added twice.
Enqueue(j) ==
    /\ asked[j] < IF j \in FixedIds THEN MaxRequests ELSE 1
    /\ asked' = [asked EXCEPT ![j] = @ + 1]
    /\ state' = [state EXCEPT ![j] = IF @ = "absent" THEN "waiting" ELSE @]
    /\ UNCHANGED <<made, stalls, owner, locked, job, pc, dlq, starts,
                   finished, faults>>

-----------------------------------------------------------------------------
(* A slot of the worker. *)

Take(w, j) ==
    /\ pc[w] = "idle"
    /\ state[j] = "waiting"
    /\ state' = [state EXCEPT ![j] = "active"]
    /\ owner' = [owner EXCEPT ![j] = w]
    /\ locked' = [locked EXCEPT ![j] = TRUE]
    /\ job' = [job EXCEPT ![w] = j]
    /\ pc' = [pc EXCEPT ![w] = "handler"]
    /\ starts' = [starts EXCEPT ![j] = @ + 1]
    /\ UNCHANGED <<made, stalls, dlq, asked, finished, faults>>

HandlerReturns(w) ==
    /\ pc[w] = "handler"
    /\ pc' = [pc EXCEPT ![w] = "return"]
    /\ finished' = [finished EXCEPT ![job[w]] = TRUE]
    /\ UNCHANGED <<queueVars, job, dlq, asked, starts, faults>>

\* handleJobFailure: what the handler, or the validation of the payload
\* before it (never retryable), threw.
LastAttempt(j) == made[j] + 1 >= MaxAttempts

AfterThrow_Forgets(j, retryable) ==
    IF ~retryable THEN "return" ELSE IF LastAttempt(j) THEN "bury" ELSE "throw"

AfterThrow(j, retryable) ==
    IF ~retryable \/ LastAttempt(j) THEN "bury" ELSE "throw"

HandlerThrows(w, retryable) ==
    /\ pc[w] = "handler"
    /\ pc' = [pc EXCEPT ![w] = AfterThrow(job[w], retryable)]
    /\ UNCHANGED <<queueVars, job, dlq, asked, starts, finished, faults>>

\* moveToDeadLetter, after which runHandler returns normally ...
AfterBury_Throws == "throw"

AfterBury == "return"

Bury(w) ==
    /\ pc[w] = "bury"
    /\ dlq' = [dlq EXCEPT ![job[w]] = @ + 1]
    /\ pc' = [pc EXCEPT ![w] = AfterBury]
    /\ UNCHANGED <<queueVars, job, asked, starts, finished, faults>>

\* ... or whose own failure leaves runHandler as an exception.
BuryFails(w) ==
    /\ pc[w] = "bury"
    /\ faults < MaxFaults
    /\ faults' = faults + 1
    /\ pc' = [pc EXCEPT ![w] = "throw"]
    /\ UNCHANGED <<queueVars, job, dlq, asked, starts, finished>>

Release(w) ==
    /\ job' = [job EXCEPT ![w] = NoJob]
    /\ pc' = [pc EXCEPT ![w] = "idle"]

Owns_Unchecked(w, j) == w \in Slots /\ j \in Jobs

Owns(w, j) == owner[j] = w /\ locked[j]

\* runHandler returned: BullMQ completes the job, for its lock's owner only.
Complete(w) ==
    /\ pc[w] = "return"
    /\ Owns(w, job[w])
    /\ state' = [state EXCEPT ![job[w]] = "completed"]
    /\ locked' = [locked EXCEPT ![job[w]] = FALSE]
    /\ Release(w)
    /\ UNCHANGED <<made, stalls, owner, dlq, asked, starts, finished, faults>>

\* The attempts option that the producer sets on every job.
Attempts_OneMore == MaxAttempts + 1

Attempts == MaxAttempts

\* runHandler threw: BullMQ counts the attempt and delays or fails the job.
Fail(w) ==
    LET j == job[w] IN
    /\ pc[w] = "throw"
    /\ Owns(w, j)
    /\ made' = [made EXCEPT ![j] = @ + 1]
    /\ state' = [state EXCEPT ![j] =
                   IF made[j] + 1 < Attempts THEN "waiting" ELSE "failed"]
    /\ locked' = [locked EXCEPT ![j] = FALSE]
    /\ Release(w)
    /\ UNCHANGED <<stalls, owner, dlq, asked, starts, finished, faults>>

\* A slot that no longer owns the job is refused by Redis and goes on.
LateResult(w) ==
    /\ pc[w] \in {"return", "throw"}
    /\ ~Owns(w, job[w])
    /\ Release(w)
    /\ UNCHANGED <<queueVars, dlq, asked, starts, finished, faults>>

-----------------------------------------------------------------------------
(* Faults, and BullMQ's stalled check. *)

Unlock(w) ==
    locked' = [j \in Jobs |-> locked[j] /\ ~(owner[j] = w /\ job[w] = j)]

\* The process of the slot dies; the job stays active until the check.
Crash(w) ==
    /\ pc[w] # "idle"
    /\ faults < MaxFaults
    /\ faults' = faults + 1
    /\ Unlock(w)
    /\ Release(w)
    /\ UNCHANGED <<state, made, stalls, owner, dlq, asked, starts, finished>>

\* The lock is not renewed in time but the handler is still running.
LoseLock(w) ==
    /\ pc[w] # "idle"
    /\ Owns(w, job[w])
    /\ faults < MaxFaults
    /\ faults' = faults + 1
    /\ Unlock(w)
    /\ UNCHANGED <<state, made, stalls, owner, job, pc, dlq, asked, starts,
                   finished>>

Stalled_Forgotten(j) == ~locked[j] /\ stalls[j] < MaxStalls

Stalled(j) == ~locked[j]

StalledCheck(j) ==
    /\ state[j] = "active"
    /\ Stalled(j)
    /\ stalls' = [stalls EXCEPT ![j] = @ + 1]
    /\ state' = [state EXCEPT ![j] =
                   IF stalls[j] < MaxStalls THEN "waiting" ELSE "failed"]
    /\ UNCHANGED <<made, owner, locked, job, pc, dlq, asked, starts, finished,
                   faults>>

-----------------------------------------------------------------------------
SlotStep(w) ==
    \/ \E j \in Jobs : Take(w, j)
    \/ HandlerReturns(w)
    \/ \E retryable \in BOOLEAN : HandlerThrows(w, retryable)
    \/ Bury(w)
    \/ Complete(w)
    \/ Fail(w)
    \/ LateResult(w)

Next ==
    \/ \E j \in Jobs : Enqueue(j) \/ StalledCheck(j)
    \/ \E w \in Slots : SlotStep(w) \/ BuryFails(w) \/ Crash(w) \/ LoseLock(w)

\* Workers keep polling, handlers end, BullMQ's stalled check keeps running.
Fairness ==
    /\ \A w \in Slots : WF_vars(SlotStep(w))
    /\ \A j \in Jobs : WF_vars(StalledCheck(j))

Spec == Init /\ [][Next]_vars

FairSpec == Spec /\ Fairness

-----------------------------------------------------------------------------
TypeOK ==
    /\ state \in [Jobs -> {"absent"} \cup Live \cup Settled]
    /\ made \in [Jobs -> Nat]
    /\ stalls \in [Jobs -> Nat]
    /\ owner \in [Jobs -> Slots]
    /\ locked \in [Jobs -> BOOLEAN]
    /\ job \in [Slots -> Jobs \cup {NoJob}]
    /\ pc \in [Slots -> {"idle", "handler", "bury", "return", "throw"}]
    /\ \A w \in Slots : pc[w] = "idle" <=> job[w] = NoJob
    /\ dlq \in [Jobs -> Nat]
    /\ asked \in [Jobs -> Nat]
    /\ starts \in [Jobs -> Nat]
    /\ finished \in [Jobs -> BOOLEAN]
    /\ faults \in Nat

\* However retries, crashes, lost locks and repeated enqueue calls with the
\* same id combine, the handler of a job is invoked at most maxAttempts times
\* plus once per stall that BullMQ forgives (run-handler.ts:103 and the
\* attempts option of producer.ts:36 have to agree for this).
HandlerRunsBounded == \A j \in Jobs : starts[j] <= MaxAttempts + MaxStalls

\* handleJobFailure swallows the error of a job it buries, so that BullMQ
\* shows the job as completed: a completed job either had a handler run that
\* returned or has its entry in the dead-letter queue (run-handler.ts:97-110).
CompletedIsAccounted ==
    \A j \in Jobs : state[j] = "completed" => finished[j] \/ dlq[j] > 0

\* What already reached the dead-letter queue is handed to a handler again
\* only as the consequence of a stall, never as an ordinary retry.
BuriedRunsAgainOnlyAfterStall ==
    [][\A j \in Jobs :
         starts'[j] > starts[j] /\ dlq[j] > 0 => stalls[j] > 0]_vars

\* A settled job is never put back: a slot that lost its lock cannot bring a
\* job back with its late result.
SettledForGood ==
    [][\A j \in Jobs : state[j] \in Settled => state'[j] = state[j]]_vars

\* Every job that enters the queue is settled, whatever crashes (finitely
\* often) and whatever its handler throws.
EveryJobSettles ==
    \A j \in Jobs : state[j] = "waiting" ~> state[j] \in Settled

=============================================================================
