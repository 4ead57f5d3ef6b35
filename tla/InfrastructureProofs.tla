--------------------------- MODULE InfrastructureProofs --------------------------
(***************************************************************************)
(* Proofs about what the services stand on.                                *)
(*                                                                         *)
(* JobQueue, for every set of jobs and slots and every value of the        *)
(* limits: type correctness, the bound on handler invocations, that a      *)
(* completed job is accounted for, that settled jobs stay settled and that *)
(* a buried job runs again only after a stall.                             *)
(*                                                                         *)
(* Repositories, for any users, rows and batches and any number of calls:  *)
(* the repositories of the tests and those of production stay alike, so    *)
(* that both answer the same.                                              *)
(***************************************************************************)
EXTENDS JobQueue, Repositories, FiniteSetTheorems, NaturalsInduction, WellFoundedInduction, TLAPS

\* Counting argument: every past invocation of the handler was ended by a
\* counted attempt or by a counted stall; the one that runs now comes on top.
RunsCounted ==
    \A j \in Jobs :
      /\ state[j] = "absent" =>
           starts[j] = 0 /\ made[j] = 0 /\ stalls[j] = 0 /\ dlq[j] = 0
      /\ state[j] \in Live => made[j] < MaxAttempts /\ stalls[j] <= MaxStalls
      /\ state[j] = "waiting" => starts[j] = made[j] + stalls[j]
      /\ state[j] = "active" => starts[j] = made[j] + stalls[j] + 1
      /\ state[j] \in Settled => starts[j] <= MaxAttempts + MaxStalls

\* A live lock belongs to a slot that is busy with the active job.
LocksHeld ==
    \A j \in Jobs :
      locked[j] => state[j] = "active" /\ job[owner[j]] = j

\* runHandler returns normally only after success or burial.
ReturnsAccounted ==
    /\ \A w \in Slots :
         pc[w] = "return" => finished[job[w]] \/ dlq[job[w]] > 0
    /\ CompletedIsAccounted

\* Until a job stalls, only the slot that took it last can be busy with it.
SoloBeforeStall ==
    \A j \in Jobs : stalls[j] = 0 =>
      /\ \A w \in Slots :
           job[w] = j => owner[j] = w /\ state[j] = "active"
      /\ dlq[j] > 0 =>
           /\ state[j] \in {"active", "completed"}
           /\ locked[j] => pc[owner[j]] = "return"

IInv == TypeOK /\ RunsCounted /\ LocksHeld /\ ReturnsAccounted /\ SoloBeforeStall

\* Every step keeps the types.
LEMMA TypeStep ==
  ASSUME TypeOK, [Next]_vars
  PROVE  TypeOK'
<1>. USE JobsAssumption, LimitsAssumption DEF TypeOK, Live, Settled
<1>1. ASSUME NEW j \in Jobs, Enqueue(j)
      PROVE  TypeOK'
  BY <1>1 DEF Enqueue
<1>2. ASSUME NEW j \in Jobs, StalledCheck(j)
      PROVE  TypeOK'
  BY <1>2 DEF StalledCheck, Stalled, Live, Settled
<1>3. ASSUME NEW w \in Slots, NEW j \in Jobs, Take(w, j)
      PROVE  TypeOK'
  BY <1>3 DEF Take, Live, Settled
<1>4. ASSUME NEW w \in Slots, HandlerReturns(w)
      PROVE  TypeOK'
  BY <1>4 DEF HandlerReturns, queueVars
<1>5. ASSUME NEW w \in Slots, NEW r \in BOOLEAN, HandlerThrows(w, r)
      PROVE  TypeOK'
  BY <1>5 DEF HandlerThrows, AfterThrow, queueVars, LastAttempt
<1>6. ASSUME NEW w \in Slots, Bury(w)
      PROVE  TypeOK'
  BY <1>6 DEF Bury, AfterBury, queueVars
<1>7. ASSUME NEW w \in Slots, BuryFails(w)
      PROVE  TypeOK'
  BY <1>7 DEF BuryFails, queueVars
<1>8. ASSUME NEW w \in Slots, Complete(w)
      PROVE  TypeOK'
  BY <1>8 DEF Complete, Owns, Release, Live, Settled
<1>9. ASSUME NEW w \in Slots, Fail(w)
      PROVE  TypeOK'
  BY <1>9 DEF Fail, Attempts, Owns, Release, Live, Settled
<1>10. ASSUME NEW w \in Slots, LateResult(w)
      PROVE  TypeOK'
  BY <1>10 DEF LateResult, Owns, Release, queueVars
<1>11. ASSUME NEW w \in Slots, Crash(w)
      PROVE  TypeOK'
  BY <1>11 DEF Crash, Unlock, Release
<1>12. ASSUME NEW w \in Slots, LoseLock(w)
      PROVE  TypeOK'
  BY <1>12 DEF LoseLock, Owns, Unlock
<1>13. CASE UNCHANGED vars
  BY <1>13 DEF vars
<1>. QED
  BY <1>1, <1>2, <1>3, <1>4, <1>5, <1>6, <1>7, <1>8, <1>9, <1>10, <1>11, <1>12, <1>13 DEF Next, SlotStep

\* Every step keeps the count of the handler's invocations.
LEMMA RunsStep ==
  ASSUME TypeOK, RunsCounted, LocksHeld, SoloBeforeStall, [Next]_vars
  PROVE  RunsCounted'
<1>. USE JobsAssumption, LimitsAssumption DEF TypeOK, RunsCounted, LocksHeld, Live, Settled
<1>1. ASSUME NEW j \in Jobs, Enqueue(j)
      PROVE  RunsCounted'
  BY <1>1 DEF Enqueue
<1>2. ASSUME NEW j \in Jobs, StalledCheck(j)
      PROVE  RunsCounted'
  BY <1>2 DEF StalledCheck, Stalled, Live, Settled
<1>3. ASSUME NEW w \in Slots, NEW j \in Jobs, Take(w, j)
      PROVE  RunsCounted'
  BY <1>3 DEF Take, Live, Settled
<1>4. ASSUME NEW w \in Slots, HandlerReturns(w)
      PROVE  RunsCounted'
  BY <1>4 DEF HandlerReturns, queueVars
<1>5. ASSUME NEW w \in Slots, NEW r \in BOOLEAN, HandlerThrows(w, r)
      PROVE  RunsCounted'
  BY <1>5 DEF HandlerThrows, AfterThrow, queueVars, LastAttempt
<1>6. ASSUME NEW w \in Slots, Bury(w)
      PROVE  RunsCounted'
  BY <1>6 DEF Bury, AfterBury, queueVars, SoloBeforeStall
<1>7. ASSUME NEW w \in Slots, BuryFails(w)
      PROVE  RunsCounted'
  BY <1>7 DEF BuryFails, queueVars
<1>8. ASSUME NEW w \in Slots, Complete(w)
      PROVE  RunsCounted'
  BY <1>8 DEF Complete, Owns, Release, Live, Settled
<1>9. ASSUME NEW w \in Slots, Fail(w)
      PROVE  RunsCounted'
  BY <1>9 DEF Fail, Attempts, Owns, Release, Live, Settled
<1>10. ASSUME NEW w \in Slots, LateResult(w)
      PROVE  RunsCounted'
  BY <1>10 DEF LateResult, Owns, Release, queueVars
<1>11. ASSUME NEW w \in Slots, Crash(w)
      PROVE  RunsCounted'
  BY <1>11 DEF Crash, Unlock, Release
<1>12. ASSUME NEW w \in Slots, LoseLock(w)
      PROVE  RunsCounted'
  BY <1>12 DEF LoseLock, Owns, Unlock
<1>13. CASE UNCHANGED vars
  BY <1>13 DEF vars
<1>. QED
  BY <1>1, <1>2, <1>3, <1>4, <1>5, <1>6, <1>7, <1>8, <1>9, <1>10, <1>11, <1>12, <1>13 DEF Next, SlotStep

\* Every step keeps a live lock with the slot that is busy with the job.
LEMMA LocksStep ==
  ASSUME TypeOK, LocksHeld, [Next]_vars
  PROVE  LocksHeld'
<1>. USE JobsAssumption, LimitsAssumption DEF TypeOK, LocksHeld
<1>1. ASSUME NEW j \in Jobs, Enqueue(j)
      PROVE  LocksHeld'
  BY <1>1 DEF Enqueue
<1>2. ASSUME NEW j \in Jobs, StalledCheck(j)
      PROVE  LocksHeld'
  BY <1>2 DEF StalledCheck, Stalled, Live, Settled
<1>3. ASSUME NEW w \in Slots, NEW j \in Jobs, Take(w, j)
      PROVE  LocksHeld'
  BY <1>3 DEF Take, Live, Settled
<1>4. ASSUME NEW w \in Slots, HandlerReturns(w)
      PROVE  LocksHeld'
  BY <1>4 DEF HandlerReturns, queueVars
<1>5. ASSUME NEW w \in Slots, NEW r \in BOOLEAN, HandlerThrows(w, r)
      PROVE  LocksHeld'
  BY <1>5 DEF HandlerThrows, AfterThrow, queueVars, LastAttempt
<1>6. ASSUME NEW w \in Slots, Bury(w)
      PROVE  LocksHeld'
  BY <1>6 DEF Bury, AfterBury, queueVars
<1>7. ASSUME NEW w \in Slots, BuryFails(w)
      PROVE  LocksHeld'
  BY <1>7 DEF BuryFails, queueVars
<1>8. ASSUME NEW w \in Slots, Complete(w)
      PROVE  LocksHeld'
  BY <1>8 DEF Complete, Owns, Release, Live, Settled
<1>9. ASSUME NEW w \in Slots, Fail(w)
      PROVE  LocksHeld'
  BY <1>9 DEF Fail, Attempts, Owns, Release, Live, Settled
<1>10. ASSUME NEW w \in Slots, LateResult(w)
      PROVE  LocksHeld'
  BY <1>10 DEF LateResult, Owns, Release, queueVars
<1>11. ASSUME NEW w \in Slots, Crash(w)
      PROVE  LocksHeld'
  BY <1>11 DEF Crash, Unlock, Release
<1>12. ASSUME NEW w \in Slots, LoseLock(w)
      PROVE  LocksHeld'
  BY <1>12 DEF LoseLock, Owns, Unlock
<1>13. CASE UNCHANGED vars
  BY <1>13 DEF vars
<1>. QED
  BY <1>1, <1>2, <1>3, <1>4, <1>5, <1>6, <1>7, <1>8, <1>9, <1>10, <1>11, <1>12, <1>13 DEF Next, SlotStep

\* Every step keeps what runHandler's normal return stands for.
LEMMA ReturnsStep ==
  ASSUME TypeOK, ReturnsAccounted, [Next]_vars
  PROVE  ReturnsAccounted'
<1>. USE JobsAssumption, LimitsAssumption DEF TypeOK, ReturnsAccounted, CompletedIsAccounted
<1>1. ASSUME NEW j \in Jobs, Enqueue(j)
      PROVE  ReturnsAccounted'
  BY <1>1 DEF Enqueue
<1>2. ASSUME NEW j \in Jobs, StalledCheck(j)
      PROVE  ReturnsAccounted'
  BY <1>2 DEF StalledCheck, Stalled, Live, Settled
<1>3. ASSUME NEW w \in Slots, NEW j \in Jobs, Take(w, j)
      PROVE  ReturnsAccounted'
  BY <1>3 DEF Take, Live, Settled
<1>4. ASSUME NEW w \in Slots, HandlerReturns(w)
      PROVE  ReturnsAccounted'
  BY <1>4 DEF HandlerReturns, queueVars
<1>5. ASSUME NEW w \in Slots, NEW r \in BOOLEAN, HandlerThrows(w, r)
      PROVE  ReturnsAccounted'
  BY <1>5 DEF HandlerThrows, AfterThrow, queueVars, LastAttempt
<1>6. ASSUME NEW w \in Slots, Bury(w)
      PROVE  ReturnsAccounted'
  BY <1>6 DEF Bury, AfterBury, queueVars
<1>7. ASSUME NEW w \in Slots, BuryFails(w)
      PROVE  ReturnsAccounted'
  BY <1>7 DEF BuryFails, queueVars
<1>8. ASSUME NEW w \in Slots, Complete(w)
      PROVE  ReturnsAccounted'
  BY <1>8 DEF Complete, Owns, Release, Live, Settled
<1>9. ASSUME NEW w \in Slots, Fail(w)
      PROVE  ReturnsAccounted'
  BY <1>9 DEF Fail, Attempts, Owns, Release, Live, Settled
<1>10. ASSUME NEW w \in Slots, LateResult(w)
      PROVE  ReturnsAccounted'
  BY <1>10 DEF LateResult, Owns, Release, queueVars
<1>11. ASSUME NEW w \in Slots, Crash(w)
      PROVE  ReturnsAccounted'
  BY <1>11 DEF Crash, Unlock, Release
<1>12. ASSUME NEW w \in Slots, LoseLock(w)
      PROVE  ReturnsAccounted'
  BY <1>12 DEF LoseLock, Owns, Unlock
<1>13. CASE UNCHANGED vars
  BY <1>13 DEF vars
<1>. QED
  BY <1>1, <1>2, <1>3, <1>4, <1>5, <1>6, <1>7, <1>8, <1>9, <1>10, <1>11, <1>12, <1>13 DEF Next, SlotStep

\* Every step keeps an unstalled job with one slot.
LEMMA SoloStep ==
  ASSUME TypeOK, RunsCounted, LocksHeld, SoloBeforeStall, [Next]_vars
  PROVE  SoloBeforeStall'
<1>. USE JobsAssumption, LimitsAssumption DEF TypeOK, RunsCounted, LocksHeld, SoloBeforeStall
<1>1. ASSUME NEW j \in Jobs, Enqueue(j)
      PROVE  SoloBeforeStall'
  BY <1>1 DEF Enqueue
<1>2. ASSUME NEW j \in Jobs, StalledCheck(j)
      PROVE  SoloBeforeStall'
  BY <1>2 DEF StalledCheck, Stalled, Live, Settled
<1>3. ASSUME NEW w \in Slots, NEW j \in Jobs, Take(w, j)
      PROVE  SoloBeforeStall'
  BY <1>3 DEF Take, Live, Settled
<1>4. ASSUME NEW w \in Slots, HandlerReturns(w)
      PROVE  SoloBeforeStall'
  BY <1>4 DEF HandlerReturns, queueVars
<1>5. ASSUME NEW w \in Slots, NEW r \in BOOLEAN, HandlerThrows(w, r)
      PROVE  SoloBeforeStall'
  BY <1>5 DEF HandlerThrows, AfterThrow, queueVars, LastAttempt
<1>6. ASSUME NEW w \in Slots, Bury(w)
      PROVE  SoloBeforeStall'
  BY <1>6 DEF Bury, AfterBury, queueVars
<1>7. ASSUME NEW w \in Slots, BuryFails(w)
      PROVE  SoloBeforeStall'
  BY <1>7 DEF BuryFails, queueVars
<1>8. ASSUME NEW w \in Slots, Complete(w)
      PROVE  SoloBeforeStall'
  BY <1>8 DEF Complete, Owns, Release, Live, Settled
<1>9. ASSUME NEW w \in Slots, Fail(w)
      PROVE  SoloBeforeStall'
  BY <1>9 DEF Fail, Attempts, Owns, Release, Live, Settled
<1>10. ASSUME NEW w \in Slots, LateResult(w)
      PROVE  SoloBeforeStall'
  BY <1>10 DEF LateResult, Owns, Release, queueVars
<1>11. ASSUME NEW w \in Slots, Crash(w)
      PROVE  SoloBeforeStall'
  <2>1. \A i \in Jobs : locked'[i] => locked[i] /\ owner[i] # w
    <3>1. \A i \in Jobs :
            locked'[i] = (locked[i] /\ ~(owner[i] = w /\ job[w] = i))
      BY <1>11 DEF Crash, Unlock
    <3>2. \A i \in Jobs : locked[i] => job[owner[i]] = i
      OBVIOUS
    <3>. TAKE i \in Jobs
    <3>. HAVE locked'[i]
    <3>3. locked[i] /\ ~(owner[i] = w /\ job[w] = i)
      BY <3>1, Zenon
    <3>. QED
      BY <3>2, <3>3
  <2>2. \A v \in Slots : v # w => job'[v] = job[v] /\ pc'[v] = pc[v]
    BY <1>11 DEF Crash, Release
  <2>3. job'[w] = NoJob
    BY <1>11 DEF Crash, Release
  <2>. QED
    BY <1>11, <2>1, <2>2, <2>3 DEF Crash
<1>12. ASSUME NEW w \in Slots, LoseLock(w)
      PROVE  SoloBeforeStall'
  BY <1>12 DEF LoseLock, Owns, Unlock
<1>13. CASE UNCHANGED vars
  BY <1>13 DEF vars
<1>. QED
  BY <1>1, <1>2, <1>3, <1>4, <1>5, <1>6, <1>7, <1>8, <1>9, <1>10, <1>11, <1>12, <1>13 DEF Next, SlotStep

-----------------------------------------------------------------------------
\* IInv is inductive: it holds at the start and every step keeps it.
THEOREM Inductive == Spec => []IInv
<1>1. Init => IInv
  BY JobsAssumption, LimitsAssumption
  DEF Init, IInv, TypeOK, RunsCounted, LocksHeld, ReturnsAccounted,
      CompletedIsAccounted, SoloBeforeStall, Live, Settled
<1>2. IInv /\ [Next]_vars => IInv'
  <2>. SUFFICES ASSUME IInv, [Next]_vars
                PROVE  IInv'
    OBVIOUS
  <2>1. TypeOK /\ RunsCounted /\ LocksHeld /\ ReturnsAccounted /\ SoloBeforeStall
    BY DEF IInv
  <2>2. TypeOK'
    BY <2>1, TypeStep
  <2>3. RunsCounted'
    BY <2>1, RunsStep
  <2>4. LocksHeld'
    BY <2>1, LocksStep
  <2>5. ReturnsAccounted'
    BY <2>1, ReturnsStep
  <2>6. SoloBeforeStall'
    BY <2>1, SoloStep
  <2>. QED
    BY <2>2, <2>3, <2>4, <2>5, <2>6 DEF IInv
<1>. QED
  BY <1>1, <1>2, PTL DEF Spec

\* The queue's variables keep their types.
THEOREM TypeCorrect == Spec => []TypeOK
<1>1. IInv => TypeOK
  BY DEF IInv
<1>. QED
  BY <1>1, Inductive, PTL

\* Whatever is retried, stalls or is requested again, a job's handler is
\* invoked at most MaxAttempts + MaxStalls times.
THEOREM HandlerRunsAreBounded == Spec => []HandlerRunsBounded
<1>1. IInv => HandlerRunsBounded
  <2>. SUFFICES ASSUME IInv, NEW j \in Jobs
                PROVE  starts[j] <= MaxAttempts + MaxStalls
    BY DEF HandlerRunsBounded
  <2>1. state[j] \in {"absent", "waiting", "active", "completed", "failed"}
    BY DEF IInv, TypeOK, Live, Settled
  <2>2. /\ made[j] \in Nat /\ stalls[j] \in Nat
        /\ MaxAttempts \in Nat /\ MaxStalls \in Nat
    BY LimitsAssumption DEF IInv, TypeOK
  <2>. QED
    BY <2>1, <2>2 DEF IInv, RunsCounted, Live, Settled
<1>. QED
  BY <1>1, Inductive, PTL

\* A job that the queue shows as completed had a handler run that returned or
\* left an entry in the dead-letter queue.
THEOREM CompletedJobsAreAccounted == Spec => []CompletedIsAccounted
<1>1. IInv => CompletedIsAccounted
  BY DEF IInv, ReturnsAccounted
<1>. QED
  BY <1>1, Inductive, PTL

\* No late result and no repeated request brings a settled job back.
THEOREM SettledJobsStaySettled == Spec => SettledForGood
<1>1. IInv /\ [Next]_vars =>
        [\A j \in Jobs : state[j] \in Settled => state'[j] = state[j]]_vars
  <2>. SUFFICES ASSUME IInv, Next, NEW j \in Jobs, state[j] \in Settled
                PROVE  state'[j] = state[j]
    BY DEF vars
  <2>. USE DEF IInv, TypeOK, LocksHeld, Settled
  <2>1. ASSUME NEW i \in Jobs, Enqueue(i)
        PROVE  state'[j] = state[j]
    BY <2>1 DEF Enqueue
  <2>2. ASSUME NEW i \in Jobs, StalledCheck(i)
        PROVE  state'[j] = state[j]
    BY <2>2 DEF StalledCheck
  <2>3. ASSUME NEW w \in Slots, NEW i \in Jobs, Take(w, i)
        PROVE  state'[j] = state[j]
    BY <2>3 DEF Take
  <2>4. ASSUME NEW w \in Slots, Complete(w) \/ Fail(w)
        PROVE  state'[j] = state[j]
    BY <2>4 DEF Complete, Fail, Owns
  <2>5. CASE UNCHANGED state
    BY <2>5
  <2>. QED
    BY <2>1, <2>2, <2>3, <2>4, <2>5
    DEF Next, SlotStep, HandlerReturns, HandlerThrows, Bury, BuryFails,
        LateResult, Crash, LoseLock, queueVars
<1>. QED
  BY <1>1, Inductive, PTL DEF Spec, SettledForGood

\* A job that already has its dead-letter entry is handed to a handler again
\* only when it has stalled before: an ordinary retry never does it.
THEOREM BuriedJobsRunAgainOnlyAfterStall == Spec => BuriedRunsAgainOnlyAfterStall
<1>1. IInv /\ [Next]_vars =>
        [\A j \in Jobs :
           starts'[j] > starts[j] /\ dlq[j] > 0 => stalls[j] > 0]_vars
  <2>. SUFFICES ASSUME IInv, Next, NEW j \in Jobs,
                       starts'[j] > starts[j], dlq[j] > 0
                PROVE  stalls[j] > 0
    BY DEF vars
  <2>1. starts[j] \in Nat /\ stalls[j] \in Nat
    BY DEF IInv, TypeOK
  <2>2. PICK w \in Slots, i \in Jobs : Take(w, i)
    BY <2>1 DEF Next, SlotStep, Enqueue, StalledCheck, HandlerReturns,
                HandlerThrows, Bury, BuryFails, Complete, Fail, LateResult,
                Crash, LoseLock, queueVars
  <2>3. state[j] = "waiting"
    BY <2>1, <2>2 DEF Take, IInv, TypeOK
  <2>. QED
    BY <2>1, <2>3 DEF IInv, SoloBeforeStall
<1>. QED
  BY <1>1, Inductive, PTL DEF Spec, BuriedRunsAgainOnlyAfterStall

-----------------------------------------------------------------------------
(* The repositories.  What relates the store of the tests to the tables of  *)
(* production, table by table.  Rows are the images of memory's records     *)
(* while memory has no two records with the same unique key: the database   *)
(* refuses or ignores the second one and memory keeps both.                 *)

MemoryTables ==
    {"users", "items", "byPlaid", "txns", "merchants", "baselines", "digests", "reports",
     "anomalies", "accounts", "byAddress", "tokens", "messages", "byGmail", "receipts",
     "linkOfTxn", "linkOfReceipt"}

DatabaseTables ==
    {"users", "items", "txns", "merchants", "baselines", "digests", "reports", "anomalies",
     "accounts", "messages", "receipts", "links"}

\* Rows that are kept by their id, and the same rows as a table.
EntitiesAlike(map, rows) ==
    /\ \A id \in DOMAIN map : "id" \in DOMAIN map[id] /\ map[id].id = id
    /\ rows = Range(map)

MerchantsAlike(map, rows) ==
    /\ \A k \in DOMAIN map : map[k].merchant = k
    /\ rows = Range(map)

IsBaseline(b) ==
    /\ b = [user |-> b.user, category |-> b.category, period |-> b.period,
            mean |-> b.mean, median |-> b.median]
    /\ IsMoney(b.mean) /\ IsMoney(b.median) /\ b.mean.currency = b.median.currency

BaselinesAlike(map, rows) ==
    /\ \A k \in DOMAIN map : IsBaseline(map[k]) /\ k = <<map[k].user, map[k].category, map[k].period>>
    /\ rows = {Db!BaselineUpsertData(map[k]) : k \in DOMAIN map}

\* What was sent is numbered in the order of creation.
Listing(list) ==
    /\ list \in Seq(Range(list))
    /\ \A i \in DOMAIN list :
         /\ {"id", "user", "at", "deliveredAt"} \subseteq DOMAIN list[i]
         /\ list[i].id = i /\ list[i].at \in Int

SentAlike(list, rows) == Listing(list) /\ rows = Range(list)

ReportsUnique(list) ==
    \A i, j \in DOMAIN list : list[i].user = list[j].user /\ list[i].month = list[j].month => i = j

ReportsAlike(list, rows) ==
    /\ Listing(list)
    /\ \A i \in DOMAIN list : "month" \in DOMAIN list[i]
    /\ ReportsUnique(list) => rows = Range(list)

\* The rows of a map are numbered.
Counted(map) == \E n \in Nat : DOMAIN map = 1 .. n

IsTxn(id, t) == t = Numbered(id, t) /\ IsMoney(t.amount)

TxnsUnique(txns) == \A i, j \in DOMAIN txns : txns[i].plaid = txns[j].plaid => i = j

\* byPlaid holds the row of a Plaid id that was written last.
TxnsAlike(txns, byPlaid, rows) ==
    /\ Counted(txns)
    /\ \A id \in DOMAIN txns : IsTxn(id, txns[id]) /\ txns[id].plaid \in DOMAIN byPlaid
    /\ \A p \in DOMAIN byPlaid :
         LET t == byPlaid[p]
         IN /\ IsTxn(t.id, t) /\ t.plaid = p
            /\ t.id \in DOMAIN txns /\ txns[t.id].plaid = p /\ txns[t.id].user = t.user
    /\ TxnsUnique(txns) =>
         /\ \A id \in DOMAIN txns : byPlaid[txns[id].plaid] = txns[id]
         /\ rows = {Db!TransactionCreateData(txns[id]) : id \in DOMAIN txns}

IsAccount(id, a) ==
    /\ a = [id |-> id, user |-> a.user, address |-> a.address, status |-> a.status,
            history |-> a.history, watch |-> a.watch]
    /\ a.address = [name |-> a.address.name, upper |-> a.address.upper]
    /\ a.address.upper \in BOOLEAN

AccountsUnique(accounts) ==
    \A i, j \in DOMAIN accounts :
        Memory!Lower(accounts[i].address) = Memory!Lower(accounts[j].address) => i = j

AccountRow(a, token) ==
    [id |-> a.id, user |-> a.user, address |-> Db!Lower(a.address), status |-> a.status,
     history |-> a.history, watch |-> a.watch, token |-> Db!Encrypted(token)]

AccountsAlike(accounts, byAddress, tokens, rows) ==
    /\ Counted(accounts) /\ DOMAIN tokens = DOMAIN accounts
    /\ \A id \in DOMAIN accounts :
         IsAccount(id, accounts[id]) /\ Memory!Lower(accounts[id].address) \in DOMAIN byAddress
    /\ \A a \in DOMAIN byAddress :
         byAddress[a] \in DOMAIN accounts /\ Memory!Lower(accounts[byAddress[a]].address) = a
    /\ AccountsUnique(accounts) => rows = {AccountRow(accounts[id], tokens[id]) : id \in DOMAIN accounts}

IsMessage(id, m) ==
    m = [id |-> id, user |-> m.user, account |-> m.account, gmail |-> m.gmail,
         status |-> m.status, reason |-> m.reason, kind |-> m.kind]

\* A message is its account's, and known by its Gmail id.
MessagesAlike(accounts, messages, byGmail, rows) ==
    /\ Counted(messages)
    /\ \A id \in DOMAIN messages :
         LET m == messages[id]
             key == <<m.user, m.account, m.gmail>>
         IN /\ IsMessage(id, m)
            /\ m.account \in DOMAIN accounts /\ m.user = accounts[m.account].user
            /\ key \in DOMAIN byGmail /\ byGmail[key] = id
    /\ \A key \in DOMAIN byGmail :
         LET m == messages[byGmail[key]]
         IN byGmail[key] \in DOMAIN messages /\ key = <<m.user, m.account, m.gmail>>
    /\ rows = Range(messages)

IsReceipt(id, r) ==
    /\ r = [id |-> id, user |-> r.user, message |-> r.message, total |-> r.total,
            items |-> r.items, extractedAt |-> r.extractedAt]
    /\ r.total # Null => IsMoney(r.total) /\ r.total.minor # Null /\ r.total.currency # Null

ReceiptsUnique(receipts) ==
    \A i, j \in DOMAIN receipts : receipts[i].message = receipts[j].message => i = j

ReceiptsAlike(receipts, rows) ==
    /\ Counted(receipts)
    /\ \A id \in DOMAIN receipts : IsReceipt(id, receipts[id])
    /\ ReceiptsUnique(receipts) => rows = {Db!ReceiptCreateData(receipts[id]) : id \in DOMAIN receipts}

\* A link joins a transaction and a receipt of one user, and is found by either.
LinksAlike(txns, receipts, ofTxn, ofReceipt, rows) ==
    /\ \A l \in rows :
         /\ l.txn \in DOMAIN txns /\ l.user = txns[l.txn].user
         /\ l.receipt \in DOMAIN receipts /\ l.user = receipts[l.receipt].user
         /\ <<l.user, l.txn>> \in DOMAIN ofTxn /\ ofTxn[<<l.user, l.txn>>] = l
         /\ <<l.user, l.receipt>> \in DOMAIN ofReceipt /\ ofReceipt[<<l.user, l.receipt>>] = l
    /\ \A k \in DOMAIN ofTxn : ofTxn[k] \in rows /\ k = <<ofTxn[k].user, ofTxn[k].txn>>
    /\ \A k \in DOMAIN ofReceipt :
         ofReceipt[k] \in rows /\ k = <<ofReceipt[k].user, ofReceipt[k].receipt>>

StoresAlike(m, d) ==
    /\ DOMAIN m = MemoryTables /\ DOMAIN d = DatabaseTables
    /\ EntitiesAlike(m.users, d.users)
    /\ EntitiesAlike(m.items, d.items)
    /\ TxnsAlike(m.txns, m.byPlaid, d.txns)
    /\ MerchantsAlike(m.merchants, d.merchants)
    /\ BaselinesAlike(m.baselines, d.baselines)
    /\ SentAlike(m.digests, d.digests) /\ SentAlike(m.anomalies, d.anomalies)
    /\ ReportsAlike(m.reports, d.reports)
    /\ AccountsAlike(m.accounts, m.byAddress, m.tokens, d.accounts)
    /\ MessagesAlike(m.accounts, m.messages, m.byGmail, d.messages)
    /\ ReceiptsAlike(m.receipts, d.receipts)
    /\ LinksAlike(m.txns, m.receipts, m.linkOfTxn, m.linkOfReceipt, d.links)

-----------------------------------------------------------------------------
\* What a call leaves alone stays alike.
LEMMA UsersFrame ==
  ASSUME NEW m, NEW d, StoresAlike(m, d), NEW x, NEW y, EntitiesAlike(x, y)
  PROVE  StoresAlike([m EXCEPT !.users = x], [d EXCEPT !.users = y])
  BY DEF StoresAlike, MemoryTables, DatabaseTables

LEMMA ItemsFrame ==
  ASSUME NEW m, NEW d, StoresAlike(m, d), NEW x, NEW y, EntitiesAlike(x, y)
  PROVE  StoresAlike([m EXCEPT !.items = x], [d EXCEPT !.items = y])
  BY DEF StoresAlike, MemoryTables, DatabaseTables

LEMMA MerchantsFrame ==
  ASSUME NEW m, NEW d, StoresAlike(m, d), NEW x, NEW y, MerchantsAlike(x, y)
  PROVE  StoresAlike([m EXCEPT !.merchants = x], [d EXCEPT !.merchants = y])
  BY DEF StoresAlike, MemoryTables, DatabaseTables

LEMMA BaselinesFrame ==
  ASSUME NEW m, NEW d, StoresAlike(m, d), NEW x, NEW y, BaselinesAlike(x, y)
  PROVE  StoresAlike([m EXCEPT !.baselines = x], [d EXCEPT !.baselines = y])
  BY DEF StoresAlike, MemoryTables, DatabaseTables

LEMMA SentFrame ==
  ASSUME NEW m, NEW d, StoresAlike(m, d), NEW table \in {"digests", "anomalies"},
         NEW x, NEW y, SentAlike(x, y)
  PROVE  StoresAlike([m EXCEPT ![table] = x], [d EXCEPT ![table] = y])
<1>1. CASE table = "digests"
  BY <1>1 DEF StoresAlike, MemoryTables, DatabaseTables
<1>2. CASE table = "anomalies"
  BY <1>2 DEF StoresAlike, MemoryTables, DatabaseTables
<1>. QED
  BY <1>1, <1>2

LEMMA ReportsFrame ==
  ASSUME NEW m, NEW d, StoresAlike(m, d), NEW x, NEW y, ReportsAlike(x, y)
  PROVE  StoresAlike([m EXCEPT !.reports = x], [d EXCEPT !.reports = y])
  BY DEF StoresAlike, MemoryTables, DatabaseTables

LEMMA RefusedReportFrame ==
  ASSUME NEW m, NEW d, StoresAlike(m, d), NEW x, ReportsAlike(x, d.reports)
  PROVE  StoresAlike([m EXCEPT !.reports = x], d)
  BY DEF StoresAlike, MemoryTables, DatabaseTables

LEMMA UnseenReportFrame ==
  ASSUME NEW m, NEW d, StoresAlike(m, d), NEW y, ReportsAlike(m.reports, y)
  PROVE  StoresAlike(m, [d EXCEPT !.reports = y])
  BY DEF StoresAlike, MemoryTables, DatabaseTables

-----------------------------------------------------------------------------
\* Users and items.
LEMMA UpdatedAlike ==
  ASSUME NEW map, NEW rows, EntitiesAlike(map, rows), NEW key \in DOMAIN map,
         NEW new, "id" \in DOMAIN new, new.id = key
  PROVE  EntitiesAlike([map EXCEPT ![key] = new], {IF r.id = key THEN new ELSE r : r \in rows})
<1>. DEFINE after == [map EXCEPT ![key] = new]
            rowsAfter == {IF r.id = key THEN new ELSE r : r \in rows}
<1>1. /\ DOMAIN after = DOMAIN map /\ after[key] = new
      /\ \A id \in DOMAIN map : id # key => after[id] = map[id]
  OBVIOUS
<1>2. \A id \in DOMAIN after : "id" \in DOMAIN after[id] /\ after[id].id = id
  BY <1>1 DEF EntitiesAlike, Range
<1>3. ASSUME NEW r \in rowsAfter PROVE r \in {after[id] : id \in DOMAIN after}
  BY <1>1 DEF EntitiesAlike, Range
<1>4. ASSUME NEW id \in DOMAIN after PROVE after[id] \in rowsAfter
  <2>1. map[id] \in rows /\ map[id].id = id
    BY <1>1 DEF EntitiesAlike, Range
  <2>. QED
    BY <1>1, <2>1
<1>. QED
  BY <1>2, <1>3, <1>4 DEF EntitiesAlike, Range

\* UserPreferenceRepo.update.
LEMMA PreferencesAlike ==
  ASSUME NEW m, NEW d, StoresAlike(m, d), NEW u, NEW prefs, "id" \notin DOMAIN prefs
  PROVE  LET M == Memory!UpdatePreferences(m, u, prefs)
             D == Db!UpdatePreferences(d, u, prefs)
         IN StoresAlike(M.store, D.store) /\ M.answer = D.answer
<1>. DEFINE M == Memory!UpdatePreferences(m, u, prefs)
            D == Db!UpdatePreferences(d, u, prefs)
            new == Over(m.users[u], prefs)
<1>1. DOMAIN m = MemoryTables /\ DOMAIN d = DatabaseTables /\ EntitiesAlike(m.users, d.users)
  BY DEF StoresAlike
<1>2. CASE u \in DOMAIN m.users
  <2>1. /\ M.answer = Null
        /\ M.store = [m EXCEPT !.users = [m.users EXCEPT ![u] = new]]
    BY <1>1, <1>2
       DEF Memory!UpdatePreferences, Memory!Update, Memory!Done, Memory!Over, Over, MemoryTables
  <2>2. (\E r \in d.users : r.id = u) /\ \A r \in d.users : r.id = u => r = m.users[u]
    BY <1>1, <1>2 DEF EntitiesAlike, Range
  <2>3. /\ D.answer = Null
        /\ D.store = [d EXCEPT !.users = {IF r.id = u THEN Over(r, prefs) ELSE r : r \in d.users}]
    BY <1>1, <2>2
       DEF Db!UpdatePreferences, Db!Update, Db!UpdateMany, Db!Done, Db!Over, Over, DatabaseTables
  <2>4. {IF r.id = u THEN Over(r, prefs) ELSE r : r \in d.users}
          = {IF r.id = u THEN new ELSE r : r \in d.users}
    BY <2>2
  <2>5. "id" \in DOMAIN new /\ new.id = u
    BY <1>1, <1>2 DEF EntitiesAlike, Over
  <2>6. EntitiesAlike([m.users EXCEPT ![u] = new], {IF r.id = u THEN new ELSE r : r \in d.users})
    BY <1>1, <1>2, <2>5, UpdatedAlike
  <2>7. StoresAlike([m EXCEPT !.users = [m.users EXCEPT ![u] = new]],
                    [d EXCEPT !.users = {IF r.id = u THEN new ELSE r : r \in d.users}])
    BY <2>6, UsersFrame
  <2>. QED
    BY <2>1, <2>3, <2>4, <2>7
<1>3. CASE u \notin DOMAIN m.users
  <2>1. M.answer = Memory!NotFound /\ M.store = m
    BY <1>1, <1>3 DEF Memory!UpdatePreferences, Memory!Update, Memory!Done, MemoryTables
  <2>2. ~\E r \in d.users : r.id = u
    BY <1>1, <1>3 DEF EntitiesAlike, Range
  <2>3. D.answer = Db!NotFound /\ D.store = d
    BY <1>1, <2>2 DEF Db!UpdatePreferences, Db!Update, Db!Done
  <2>. QED
    BY <2>1, <2>3 DEF Memory!NotFound, Db!NotFound
<1>. QED
  BY <1>2, <1>3

\* The cursor of an item and the time of its last sync.
LEMMA CursorAlike ==
  ASSUME NEW m, NEW d, StoresAlike(m, d), NEW item, NEW cursor
  PROVE  LET M == Memory!SaveCursor(m, item, cursor)
             D == Db!SaveCursor(d, item, cursor)
         IN StoresAlike(M.store, D.store) /\ M.answer = D.answer
<1>. DEFINE M == Memory!SaveCursor(m, item, cursor)
            D == Db!SaveCursor(d, item, cursor)
            With(i) == [i EXCEPT !.cursor = cursor, !.synced = TRUE]
            new == With(m.items[item])
<1>1. DOMAIN m = MemoryTables /\ DOMAIN d = DatabaseTables /\ EntitiesAlike(m.items, d.items)
  BY DEF StoresAlike
<1>2. CASE item \in DOMAIN m.items
  <2>1. /\ M.answer = Null
        /\ M.store = [m EXCEPT !.items = [m.items EXCEPT ![item] = new]]
    BY <1>1, <1>2 DEF Memory!SaveCursor, Memory!Update, Memory!Done, MemoryTables
  <2>2. (\E r \in d.items : r.id = item) /\ \A r \in d.items : r.id = item => r = m.items[item]
    BY <1>1, <1>2 DEF EntitiesAlike, Range
  <2>3. /\ D.answer = Null
        /\ D.store = [d EXCEPT !.items = {IF r.id = item THEN With(r) ELSE r : r \in d.items}]
    BY <1>1, <2>2 DEF Db!SaveCursor, Db!Update, Db!UpdateMany, Db!Done, DatabaseTables
  <2>4. {IF r.id = item THEN With(r) ELSE r : r \in d.items}
          = {IF r.id = item THEN new ELSE r : r \in d.items}
    BY <2>2
  <2>5. "id" \in DOMAIN new /\ new.id = item
    BY <1>1, <1>2 DEF EntitiesAlike, Range
  <2>. HIDE DEF new
  <2>6. EntitiesAlike([m.items EXCEPT ![item] = new],
                      {IF r.id = item THEN new ELSE r : r \in d.items})
    BY <1>1, <1>2, <2>5, UpdatedAlike
  <2>7. StoresAlike([m EXCEPT !.items = [m.items EXCEPT ![item] = new]],
                    [d EXCEPT !.items = {IF r.id = item THEN new ELSE r : r \in d.items}])
    BY <2>6, ItemsFrame
  <2>. QED
    BY <2>1, <2>3, <2>4, <2>7
<1>3. CASE item \notin DOMAIN m.items
  <2>1. M.answer = Memory!NotFound /\ M.store = m
    BY <1>1, <1>3 DEF Memory!SaveCursor, Memory!Update, Memory!Done, MemoryTables
  <2>2. ~\E r \in d.items : r.id = item
    BY <1>1, <1>3 DEF EntitiesAlike, Range
  <2>3. D.answer = Db!NotFound /\ D.store = d
    BY <1>1, <2>2 DEF Db!SaveCursor, Db!Update, Db!Done
  <2>. QED
    BY <2>1, <2>3 DEF Memory!NotFound, Db!NotFound
<1>. QED
  BY <1>2, <1>3

\* The status of an item.
LEMMA ItemStatusAlike ==
  ASSUME NEW m, NEW d, StoresAlike(m, d), NEW item, NEW status
  PROVE  LET M == Memory!SetStatus(m, item, status)
             D == Db!SetStatus(d, item, status)
         IN StoresAlike(M.store, D.store) /\ M.answer = D.answer
<1>. DEFINE M == Memory!SetStatus(m, item, status)
            D == Db!SetStatus(d, item, status)
            With(i) == [i EXCEPT !.status = status]
            new == With(m.items[item])
<1>1. DOMAIN m = MemoryTables /\ DOMAIN d = DatabaseTables /\ EntitiesAlike(m.items, d.items)
  BY DEF StoresAlike
<1>2. CASE item \in DOMAIN m.items
  <2>1. /\ M.answer = Null
        /\ M.store = [m EXCEPT !.items = [m.items EXCEPT ![item] = new]]
    BY <1>1, <1>2 DEF Memory!SetStatus, Memory!Update, Memory!Done, MemoryTables
  <2>2. (\E r \in d.items : r.id = item) /\ \A r \in d.items : r.id = item => r = m.items[item]
    BY <1>1, <1>2 DEF EntitiesAlike, Range
  <2>3. /\ D.answer = Null
        /\ D.store = [d EXCEPT !.items = {IF r.id = item THEN With(r) ELSE r : r \in d.items}]
    BY <1>1, <2>2 DEF Db!SetStatus, Db!Update, Db!UpdateMany, Db!Done, DatabaseTables
  <2>4. {IF r.id = item THEN With(r) ELSE r : r \in d.items}
          = {IF r.id = item THEN new ELSE r : r \in d.items}
    BY <2>2
  <2>5. "id" \in DOMAIN new /\ new.id = item
    BY <1>1, <1>2 DEF EntitiesAlike, Range
  <2>. HIDE DEF new
  <2>6. EntitiesAlike([m.items EXCEPT ![item] = new],
                      {IF r.id = item THEN new ELSE r : r \in d.items})
    BY <1>1, <1>2, <2>5, UpdatedAlike
  <2>7. StoresAlike([m EXCEPT !.items = [m.items EXCEPT ![item] = new]],
                    [d EXCEPT !.items = {IF r.id = item THEN new ELSE r : r \in d.items}])
    BY <2>6, ItemsFrame
  <2>. QED
    BY <2>1, <2>3, <2>4, <2>7
<1>3. CASE item \notin DOMAIN m.items
  <2>1. M.answer = Memory!NotFound /\ M.store = m
    BY <1>1, <1>3 DEF Memory!SetStatus, Memory!Update, Memory!Done, MemoryTables
  <2>2. ~\E r \in d.items : r.id = item
    BY <1>1, <1>3 DEF EntitiesAlike, Range
  <2>3. D.answer = Db!NotFound /\ D.store = d
    BY <1>1, <2>2 DEF Db!SetStatus, Db!Update, Db!Done
  <2>. QED
    BY <2>1, <2>3 DEF Memory!NotFound, Db!NotFound
<1>. QED
  BY <1>2, <1>3

-----------------------------------------------------------------------------
\* Merchants and baselines.
LEMMA MerchantAlike ==
  ASSUME NEW m, NEW d, StoresAlike(m, d), NEW entry
  PROVE  LET M == Memory!UpsertMerchant(m, entry)
             D == Db!UpsertMerchant(d, entry)
         IN StoresAlike(M.store, D.store) /\ M.answer = D.answer
<1>. DEFINE M == Memory!UpsertMerchant(m, entry)
            D == Db!UpsertMerchant(d, entry)
            map == Put(m.merchants, entry.merchant, entry)
            rows == {r \in d.merchants : ~(r.merchant = entry.merchant)} \cup {entry}
<1>1. DOMAIN m = MemoryTables /\ DOMAIN d = DatabaseTables /\ MerchantsAlike(m.merchants, d.merchants)
  BY DEF StoresAlike
<1>2. M.answer = Null /\ M.store = [m EXCEPT !.merchants = map]
  BY <1>1 DEF Memory!UpsertMerchant, Memory!Done, Memory!Put, Put, MemoryTables
<1>3. D.answer = Null /\ D.store = [d EXCEPT !.merchants = rows]
  BY <1>1 DEF Db!UpsertMerchant, Db!Upsert, Db!Done, DatabaseTables
<1>4. MerchantsAlike(map, rows)
  <2>1. /\ DOMAIN map = DOMAIN m.merchants \cup {entry.merchant} /\ map[entry.merchant] = entry
        /\ \A k \in DOMAIN m.merchants : k # entry.merchant => map[k] = m.merchants[k]
    BY DEF Put
  <2>2. \A k \in DOMAIN map : map[k].merchant = k
    BY <1>1, <2>1 DEF MerchantsAlike, Range
  <2>3. ASSUME NEW r \in rows PROVE r \in {map[k] : k \in DOMAIN map}
    BY <1>1, <2>1 DEF MerchantsAlike, Range
  <2>4. ASSUME NEW k \in DOMAIN map PROVE map[k] \in rows
    BY <1>1, <2>1 DEF MerchantsAlike, Range
  <2>. QED
    BY <2>2, <2>3, <2>4 DEF MerchantsAlike, Range
<1>5. StoresAlike([m EXCEPT !.merchants = map], [d EXCEPT !.merchants = rows])
  BY <1>4, MerchantsFrame
<1>. QED
  BY <1>2, <1>3, <1>5

\* BaselineRepo.upsert: a baseline that exists is replaced.
LEMMA BaselineAlike ==
  ASSUME NEW m, NEW d, StoresAlike(m, d), NEW user, NEW b, IsBaseline(b)
  PROVE  LET M == Memory!UpsertBaseline(m, user, b)
             D == Db!UpsertBaseline(d, user, b)
         IN StoresAlike(M.store, D.store) /\ M.answer = D.answer
<1>. DEFINE M == Memory!UpsertBaseline(m, user, b)
            D == Db!UpsertBaseline(d, user, b)
            key == <<user, b.category, b.period>>
            map == Put(m.baselines, key, b)
            row == Db!BaselineUpsertData(b)
            same(r) == r.user = user /\ r.category = b.category /\ r.period = b.period
            rows == {r \in d.baselines : ~same(r)} \cup {row}
<1>1. DOMAIN m = MemoryTables /\ DOMAIN d = DatabaseTables /\ BaselinesAlike(m.baselines, d.baselines)
  BY DEF StoresAlike
<1>2. CASE b.user # user
  BY <1>2 DEF Memory!UpsertBaseline, Memory!Done, Db!UpsertBaseline, Db!Done
<1>3. CASE b.user = user
  <2>1. M.answer = Null /\ M.store = [m EXCEPT !.baselines = map]
    BY <1>1, <1>3 DEF Memory!UpsertBaseline, Memory!Done, Memory!Put, Put, MemoryTables
  <2>2. D.answer = Null /\ D.store = [d EXCEPT !.baselines = rows]
    BY <1>1, <1>3 DEF Db!UpsertBaseline, Db!Upsert, Db!Done, DatabaseTables
  <2>3. /\ DOMAIN map = DOMAIN m.baselines \cup {key} /\ map[key] = b
        /\ \A k \in DOMAIN m.baselines : k # key => map[k] = m.baselines[k]
    BY DEF Put
  <2>4. \A k \in DOMAIN map : IsBaseline(map[k]) /\ k = <<map[k].user, map[k].category, map[k].period>>
    BY <1>1, <1>3, <2>3 DEF BaselinesAlike
  <2>5. \A c : IsBaseline(c) => /\ Db!BaselineUpsertData(c).user = c.user
                               /\ Db!BaselineUpsertData(c).category = c.category
                               /\ Db!BaselineUpsertData(c).period = c.period
    BY DEF IsBaseline, Db!BaselineUpsertData, Db!Over
  <2>6. \A k \in DOMAIN m.baselines : same(Db!BaselineUpsertData(m.baselines[k])) <=> k = key
    BY <1>1, <2>5 DEF BaselinesAlike
  <2>7. ASSUME NEW r \in rows PROVE r \in {Db!BaselineUpsertData(map[k]) : k \in DOMAIN map}
    BY <1>1, <2>3, <2>6 DEF BaselinesAlike
  <2>8. ASSUME NEW k \in DOMAIN map PROVE Db!BaselineUpsertData(map[k]) \in rows
    BY <1>1, <2>3, <2>6 DEF BaselinesAlike
  <2>9. BaselinesAlike(map, rows)
    BY <2>4, <2>7, <2>8 DEF BaselinesAlike
  <2>10. StoresAlike([m EXCEPT !.baselines = map], [d EXCEPT !.baselines = rows])
    BY <2>9, BaselinesFrame
  <2>. QED
    BY <2>1, <2>2, <2>10
<1>. QED
  BY <1>2, <1>3

-----------------------------------------------------------------------------
\* What was sent.
IsSent(row, id) == {"id", "user", "at", "deliveredAt"} \subseteq DOMAIN row /\ row.id = id /\ row.at \in Int

\* A row at the end of a list gets the next number.
LEMMA ListingGrows ==
  ASSUME NEW list, Listing(list), NEW row, IsSent(row, Len(list) + 1)
  PROVE  /\ Listing(Append(list, row))
         /\ DOMAIN Append(list, row) = DOMAIN list \cup {Len(list) + 1}
         /\ Append(list, row)[Len(list) + 1] = row
         /\ \A i \in DOMAIN list : Append(list, row)[i] = list[i] /\ i # Len(list) + 1
         /\ Range(Append(list, row)) = Range(list) \cup {row}
<1>. DEFINE S == Range(list) \cup {row}
            new == Append(list, row)
<1>1. list \in Seq(S) /\ row \in S /\ Len(list) \in Nat /\ DOMAIN list = 1 .. Len(list)
  <2>1. Range(list) \subseteq S
    OBVIOUS
  <2>2. list \in Seq(Range(list))
    BY DEF Listing
  <2>. QED
    BY <2>1, <2>2
<1>2. /\ new \in Seq(S) /\ Len(new) = Len(list) + 1 /\ DOMAIN new = 1 .. Len(list) + 1
      /\ new[Len(list) + 1] = row
      /\ \A i \in 1 .. Len(list) : new[i] = list[i]
  BY <1>1
<1>3. DOMAIN new = DOMAIN list \cup {Len(list) + 1} /\ \A i \in DOMAIN list : i # Len(list) + 1
  BY <1>1, <1>2
<1>4. Range(new) = S
  BY <1>1, <1>2, <1>3 DEF Range
<1>5. \A i \in DOMAIN new : IsSent(new[i], i)
  BY <1>1, <1>2, <1>3 DEF Listing, IsSent
<1>6. Listing(new)
  BY <1>2, <1>4, <1>5 DEF Listing, IsSent
<1>. QED
  BY <1>1, <1>2, <1>3, <1>4, <1>6 DEF Range

\* A digest or an anomaly is created: its id is new, so no row refuses it.
LEMMA CreateSentAlike ==
  ASSUME NEW m, NEW d, StoresAlike(m, d), NEW table \in {"digests", "anomalies"}, NEW row,
         IsSent(row, Len(m[table]) + 1)
  PROVE  LET M == Memory!Create(m, table, row)
             D == Db!Create(d, table, row, LAMBDA r : r.id = row.id, "unique")
         IN StoresAlike(M.store, D.store) /\ M.answer = D.answer
<1>. DEFINE M == Memory!Create(m, table, row)
            D == Db!Create(d, table, row, LAMBDA r : r.id = row.id, "unique")
            list == m[table]
            rows == d[table]
            new == Append(list, row)
<1>1. table \in DOMAIN m /\ table \in DOMAIN d /\ SentAlike(list, rows)
  BY DEF StoresAlike, MemoryTables, DatabaseTables
<1>2. M.answer = Null /\ M.store = [m EXCEPT ![table] = new]
  BY <1>1 DEF Memory!Create, Memory!Done
<1>9. /\ Listing(new) /\ DOMAIN new = DOMAIN list \cup {Len(list) + 1}
      /\ new[Len(list) + 1] = row
      /\ \A i \in DOMAIN list : new[i] = list[i] /\ i # Len(list) + 1
      /\ Range(new) = Range(list) \cup {row}
  BY <1>1, ListingGrows DEF SentAlike
<1>. HIDE DEF new
<1>3. ~\E r \in rows : r.id = row.id
  BY <1>1, <1>9 DEF SentAlike, Listing, IsSent, Range
<1>4. D.answer = Null /\ D.store = [d EXCEPT ![table] = rows \cup {row}]
  BY <1>1, <1>3 DEF Db!Create, Db!Done
<1>5. SentAlike(new, rows \cup {row})
  BY <1>1, <1>9 DEF SentAlike
<1>6. StoresAlike([m EXCEPT ![table] = new], [d EXCEPT ![table] = rows \cup {row}])
  BY <1>5, SentFrame
<1>. QED
  BY <1>2, <1>4, <1>6

\* A report is created; a second one of the same month is refused by the database only.
LEMMA CreateReportAlike ==
  ASSUME NEW m, NEW d, StoresAlike(m, d), NEW row, IsSent(row, Len(m.reports) + 1),
         "month" \in DOMAIN row
  PROVE  LET M == Memory!Create(m, "reports", row)
             D == Db!CreateReport(d, row)
         IN /\ StoresAlike(M.store, D.store)
            /\ ReportsUnique(M.store.reports) => M.answer = D.answer
<1>. DEFINE M == Memory!Create(m, "reports", row)
            D == Db!CreateReport(d, row)
            list == m.reports
            rows == d.reports
            new == Append(list, row)
            taken == \E r \in rows : r.user = row.user /\ r.month = row.month
<1>1. "reports" \in DOMAIN m /\ "reports" \in DOMAIN d /\ ReportsAlike(list, rows)
  BY DEF StoresAlike, MemoryTables, DatabaseTables
<1>2. M.answer = Null /\ M.store = [m EXCEPT !.reports = new]
  BY <1>1 DEF Memory!Create, Memory!Done
<1>9. /\ Listing(new) /\ DOMAIN new = DOMAIN list \cup {Len(list) + 1}
      /\ new[Len(list) + 1] = row
      /\ \A i \in DOMAIN list : new[i] = list[i] /\ i # Len(list) + 1
      /\ Range(new) = Range(list) \cup {row}
  <2>1. Listing(list) /\ IsSent(row, Len(list) + 1)
    BY <1>1 DEF ReportsAlike
  <2>. HIDE DEF list
  <2>. QED
    BY <2>1, ListingGrows
<1>. HIDE DEF new
<1>3. CASE taken
  <2>1. D.answer = "unique" /\ D.store = d
    BY <1>3 DEF Db!CreateReport, Db!Create, Db!Done
  <2>2. ~ReportsUnique(new)
    <3>1. SUFFICES ASSUME ReportsUnique(new) PROVE FALSE
      OBVIOUS
    <3>2. ReportsUnique(list)
      BY <1>1, <3>1, <1>9 DEF ReportsAlike, ReportsUnique, Listing
    <3>3. PICK i \in DOMAIN list : list[i].user = row.user /\ list[i].month = row.month
      BY <1>1, <1>3, <3>2 DEF ReportsAlike, Range
    <3>. QED
      BY <1>1, <3>1, <3>3, <1>9 DEF ReportsAlike, ReportsUnique, Listing
  <2>3. ReportsAlike(new, rows)
    BY <1>1, <2>2, <1>9 DEF ReportsAlike
  <2>4. StoresAlike([m EXCEPT !.reports = new], d)
    BY <2>3, RefusedReportFrame
  <2>5. M.store.reports = new
    BY <1>1, <1>2
  <2>. QED
    BY <1>2, <2>1, <2>2, <2>4, <2>5
<1>4. CASE ~taken
  <2>1. D.answer = Null /\ D.store = [d EXCEPT !.reports = rows \cup {row}]
    BY <1>1, <1>4 DEF Db!CreateReport, Db!Create, Db!Done
  <2>2. ReportsUnique(new) => ReportsUnique(list)
    BY <1>1, <1>9 DEF ReportsAlike, ReportsUnique, Listing
  <2>3. ReportsAlike(new, rows \cup {row})
    BY <1>1, <2>2, <1>9 DEF ReportsAlike
  <2>4. StoresAlike([m EXCEPT !.reports = new], [d EXCEPT !.reports = rows \cup {row}])
    BY <2>3, ReportsFrame
  <2>. QED
    BY <1>2, <2>1, <2>4
<1>. QED
  BY <1>3, <1>4

Delivering(list, id, at) ==
    [i \in DOMAIN list |-> IF list[i].id = id THEN [list[i] EXCEPT !.deliveredAt = at] ELSE list[i]]

RowsDelivering(rows, id, at) ==
    {IF r.id = id THEN [r EXCEPT !.deliveredAt = at] ELSE r : r \in rows}

\* Marking a row as delivered changes nothing else.
LEMMA DeliveredListing ==
  ASSUME NEW list, Listing(list), NEW id, NEW at
  PROVE  /\ Listing(Delivering(list, id, at)) /\ DOMAIN Delivering(list, id, at) = DOMAIN list
         /\ Range(Delivering(list, id, at)) = RowsDelivering(Range(list), id, at)
<1>. DEFINE new == Delivering(list, id, at)
<1>1. Len(list) \in Nat /\ DOMAIN list = 1 .. Len(list)
  BY DEF Listing
<1>2. DOMAIN new = DOMAIN list
  BY DEF Delivering
<1>3. ASSUME NEW i \in DOMAIN list
      PROVE  /\ \A f \in DOMAIN list[i] : f \in DOMAIN new[i]
             /\ \A f \in DOMAIN list[i] : f # "deliveredAt" => new[i][f] = list[i][f]
  BY DEF Delivering
<1>4. \A i \in DOMAIN new : IsSent(new[i], i)
  BY <1>2, <1>3 DEF Listing, IsSent
<1>5. new \in Seq(Range(new))
  <2>1. new = [i \in 1 .. Len(list) |-> new[i]]
    BY <1>1 DEF Delivering
  <2>2. \A i \in 1 .. Len(list) : new[i] \in Range(new)
    BY <1>1, <1>2 DEF Range
  <2>. QED
    BY <1>1, <2>1, <2>2
<1>6. Listing(new)
  BY <1>4, <1>5 DEF Listing, IsSent
<1>7. Range(new) = RowsDelivering(Range(list), id, at)
  BY DEF Delivering, RowsDelivering, Range
<1>. QED
  BY <1>2, <1>6, <1>7

IsListed(list, id) == \E i \in DOMAIN list : list[i].id = id
IsHeld(rows, id) == \E r \in rows : r.id = id

\* A digest or an anomaly is marked as delivered.
LEMMA DeliverSentAlike ==
  ASSUME NEW m, NEW d, StoresAlike(m, d), NEW table \in {"digests", "anomalies"}, NEW key, NEW when
  PROVE  LET M == Memory!Deliver(m, table, key, when)
             D == Db!Deliver(d, table, key, when)
         IN StoresAlike(M.store, D.store) /\ M.answer = D.answer
<1>. DEFINE M == Memory!Deliver(m, table, key, when)
            D == Db!Deliver(d, table, key, when)
            list == m[table]
            rows == d[table]
            new == Delivering(list, key, when)
            newRows == RowsDelivering(rows, key, when)
<1>1. table \in DOMAIN m /\ table \in DOMAIN d /\ SentAlike(list, rows)
  BY DEF StoresAlike, MemoryTables, DatabaseTables
<1>2. /\ IsListed(list, key) => M.answer = Null /\ M.store = [m EXCEPT ![table] = new]
      /\ ~IsListed(list, key) => M.answer = "not found" /\ M.store = m
  BY <1>1 DEF Memory!Deliver, Memory!Done, Memory!NotFound, Delivering, IsListed
<1>3. /\ IsHeld(rows, key) => D.answer = Null /\ D.store = [d EXCEPT ![table] = newRows]
      /\ ~IsHeld(rows, key) => D.answer = "not found" /\ D.store = d
  BY <1>1 DEF Db!Deliver, Db!Update, Db!UpdateMany, Db!Done, Db!NotFound, RowsDelivering, IsHeld
<1>4. IsListed(list, key) <=> IsHeld(rows, key)
  BY <1>1 DEF SentAlike, Range, IsListed, IsHeld
<1>5. SentAlike(new, newRows)
  BY <1>1, DeliveredListing DEF SentAlike
<1>6. StoresAlike([m EXCEPT ![table] = new], [d EXCEPT ![table] = newRows])
  BY <1>5, SentFrame
<1>. HIDE DEF new, newRows
<1>. QED
  BY <1>2, <1>3, <1>4, <1>6

\* A report is marked as delivered.
LEMMA DeliverReportAlike ==
  ASSUME NEW m, NEW d, StoresAlike(m, d), NEW key, NEW when
  PROVE  LET M == Memory!Deliver(m, "reports", key, when)
             D == Db!Deliver(d, "reports", key, when)
         IN /\ StoresAlike(M.store, D.store)
            /\ ReportsUnique(M.store.reports) => M.answer = D.answer
<1>. DEFINE M == Memory!Deliver(m, "reports", key, when)
            D == Db!Deliver(d, "reports", key, when)
            list == m.reports
            rows == d.reports
            new == Delivering(list, key, when)
            newRows == RowsDelivering(rows, key, when)
<1>1. /\ "reports" \in DOMAIN m /\ "reports" \in DOMAIN d
      /\ ReportsAlike(list, rows) /\ Listing(list)
  BY DEF StoresAlike, ReportsAlike, MemoryTables, DatabaseTables
<1>2. /\ IsListed(list, key) => M.answer = Null /\ M.store = [m EXCEPT !.reports = new]
      /\ ~IsListed(list, key) => M.answer = "not found" /\ M.store = m
  BY <1>1 DEF Memory!Deliver, Memory!Done, Memory!NotFound, Delivering, IsListed
<1>3. /\ IsHeld(rows, key) => D.answer = Null /\ D.store = [d EXCEPT !.reports = newRows]
      /\ ~IsHeld(rows, key) => D.answer = "not found" /\ D.store = d
  BY <1>1 DEF Db!Deliver, Db!Update, Db!UpdateMany, Db!Done, Db!NotFound, RowsDelivering, IsHeld
<1>4. ReportsUnique(list) => (IsListed(list, key) <=> IsHeld(rows, key))
  BY <1>1 DEF ReportsAlike, Range, IsListed, IsHeld
<1>5. /\ Listing(new) /\ DOMAIN new = DOMAIN list
      /\ Range(new) = RowsDelivering(Range(list), key, when)
  BY <1>1, DeliveredListing
<1>6. \A i \in DOMAIN list : /\ "month" \in DOMAIN new[i]
                             /\ new[i].user = list[i].user /\ new[i].month = list[i].month
  <2>1. \A i \in DOMAIN list : {"user", "month"} \subseteq DOMAIN list[i]
    BY <1>1 DEF ReportsAlike, Listing
  <2>. QED
    BY <2>1 DEF Delivering
<1>7. ReportsUnique(new) <=> ReportsUnique(list)
  <2>. HIDE DEF new, list
  <2>. QED
    BY <1>5, <1>6 DEF ReportsUnique
<1>8. ReportsAlike(new, newRows)
  <2>. HIDE DEF new
  <2>. QED
    BY <1>1, <1>5, <1>6, <1>7 DEF ReportsAlike
<1>9. \/ IsListed(list, key)
      \/ new = list
  <2>1. list = [i \in DOMAIN list |-> list[i]]
    BY <1>1 DEF Listing
  <2>. QED
    BY <2>1 DEF Delivering, IsListed
<1>10. IsHeld(rows, key) \/ newRows = rows
  BY DEF RowsDelivering, IsHeld
<1>11. CASE IsListed(list, key) /\ IsHeld(rows, key)
  BY <1>2, <1>3, <1>8, <1>11, ReportsFrame
<1>12. CASE IsListed(list, key) /\ ~IsHeld(rows, key)
  <2>1. ReportsAlike(new, rows)
    BY <1>8, <1>10, <1>12
  <2>2. StoresAlike([m EXCEPT !.reports = new], d)
    BY <2>1, RefusedReportFrame
  <2>3. ~ReportsUnique(M.store.reports)
    BY <1>1, <1>2, <1>4, <1>7, <1>12
  <2>. QED
    BY <1>2, <1>3, <1>12, <2>2, <2>3
<1>13. CASE ~IsListed(list, key) /\ IsHeld(rows, key)
  <2>1. ReportsAlike(list, newRows)
    BY <1>8, <1>9, <1>13
  <2>2. StoresAlike(m, [d EXCEPT !.reports = newRows])
    BY <2>1, UnseenReportFrame
  <2>3. ~ReportsUnique(M.store.reports)
    BY <1>2, <1>4, <1>13
  <2>. QED
    BY <1>2, <1>3, <1>13, <2>2, <2>3
<1>14. CASE ~IsListed(list, key) /\ ~IsHeld(rows, key)
  BY <1>2, <1>3, <1>14
<1>. QED
  BY <1>11, <1>12, <1>13, <1>14

-----------------------------------------------------------------------------
\* Mail accounts.
LEMMA AccountsFrame ==
  ASSUME NEW m, NEW d, StoresAlike(m, d), NEW m2, NEW d2,
         DOMAIN m2 = MemoryTables, DOMAIN d2 = DatabaseTables,
         \A t \in MemoryTables \ {"accounts", "byAddress", "tokens"} : m2[t] = m[t],
         \A t \in DatabaseTables \ {"accounts"} : d2[t] = d[t],
         AccountsAlike(m2.accounts, m2.byAddress, m2.tokens, d2.accounts),
         DOMAIN m.accounts \subseteq DOMAIN m2.accounts,
         \A i \in DOMAIN m.accounts : m2.accounts[i].user = m.accounts[i].user
  PROVE  StoresAlike(m2, d2)
<1>1. MessagesAlike(m2.accounts, m2.messages, m2.byGmail, d2.messages)
  <2>1. MessagesAlike(m.accounts, m.messages, m.byGmail, d.messages)
    BY DEF StoresAlike
  <2>2. m2.messages = m.messages /\ m2.byGmail = m.byGmail /\ d2.messages = d.messages
    BY DEF MemoryTables, DatabaseTables
  <2>. QED
    BY <2>1, <2>2 DEF MessagesAlike
<1>. QED
  BY <1>1 DEF StoresAlike, MemoryTables, DatabaseTables

LEMMA LowerAddress ==
  ASSUME NEW id, NEW a, IsAccount(id, a)
  PROVE  /\ Memory!Lower(a.address) = [name |-> a.address.name, upper |-> FALSE]
         /\ Db!Lower(a.address) = Memory!Lower(a.address)
<1>1. \A n, u : Memory!Lower([name |-> n, upper |-> u]) = [name |-> n, upper |-> FALSE]
  <2>1. \A n, u, f : [[name |-> n, upper |-> u] EXCEPT !.upper = f] = [name |-> n, upper |-> f]
    OBVIOUS
  <2>. QED
    BY <2>1 DEF Memory!Lower
<1>3. \A b : Db!Lower(b) = Memory!Lower(b)
  BY DEF Memory!Lower, Db!Lower
<1>2. a.address = [name |-> a.address.name, upper |-> a.address.upper]
  BY DEF IsAccount
<1>. QED
  BY <1>1, <1>2, <1>3

LEMMA AccountId ==
  ASSUME NEW id, NEW a, IsAccount(id, a)
  PROVE  a.id = id
<1>1. a = [id |-> id, user |-> a.user, address |-> a.address, status |-> a.status,
           history |-> a.history, watch |-> a.watch]
  BY DEF IsAccount
<1>. QED
  BY <1>1

\* A row of an account that is written again.
RowsWith(rows, row) == {IF r.id = row.id THEN row ELSE r : r \in rows}

LEMMA AccountRowFields ==
  ASSUME NEW a, NEW t
  PROVE  /\ AccountRow(a, t).id = a.id /\ AccountRow(a, t).address = Db!Lower(a.address)
         /\ AccountRow(a, t).user = a.user /\ AccountRow(a, t).status = a.status
         /\ AccountRow(a, t).history = a.history /\ AccountRow(a, t).watch = a.watch
         /\ AccountRow(a, t).token = Db!Encrypted(t)
  BY DEF AccountRow

\* An account that is written again keeps its user and its address.
LEMMA AccountUpdated ==
  ASSUME NEW m, NEW d, StoresAlike(m, d), NEW m2, NEW d2, NEW id \in DOMAIN m.accounts,
         NEW a, IsAccount(id, a), NEW token,
         a.user = m.accounts[id].user, a.address = m.accounts[id].address,
         DOMAIN m2 = MemoryTables, DOMAIN d2 = DatabaseTables,
         \A t \in MemoryTables \ {"accounts", "tokens"} : m2[t] = m[t],
         \A t \in DatabaseTables \ {"accounts"} : d2[t] = d[t],
         DOMAIN m2.accounts = DOMAIN m.accounts, DOMAIN m2.tokens = DOMAIN m.tokens,
         m2.accounts[id] = a, m2.tokens[id] = token,
         \A i \in DOMAIN m.accounts : i # id => /\ m2.accounts[i] = m.accounts[i]
                                               /\ m2.tokens[i] = m.tokens[i],
         AccountsUnique(m.accounts) => d2.accounts = RowsWith(d.accounts, AccountRow(a, token))
  PROVE  StoresAlike(m2, d2) /\ (AccountsUnique(m2.accounts) <=> AccountsUnique(m.accounts))
<1>1. AccountsAlike(m.accounts, m.byAddress, m.tokens, d.accounts)
  BY DEF StoresAlike
<1>2. \A i \in DOMAIN m.accounts : /\ m2.accounts[i].address = m.accounts[i].address
                                   /\ m2.accounts[i].user = m.accounts[i].user
                                   /\ IsAccount(i, m2.accounts[i])
  BY <1>1 DEF AccountsAlike
<1>3. AccountsUnique(m2.accounts) <=> AccountsUnique(m.accounts)
  BY <1>2 DEF AccountsUnique
<1>4. m2.byAddress = m.byAddress
  BY DEF MemoryTables
<1>5. ASSUME AccountsUnique(m.accounts)
      PROVE  d2.accounts = {AccountRow(m2.accounts[i], m2.tokens[i]) : i \in DOMAIN m2.accounts}
  <2>1. d.accounts = {AccountRow(m.accounts[i], m.tokens[i]) : i \in DOMAIN m.accounts}
    BY <1>1, <1>5 DEF AccountsAlike
  <2>2. \A i \in DOMAIN m.accounts : AccountRow(m.accounts[i], m.tokens[i]).id = i
    BY <1>1, AccountRowFields, AccountId DEF AccountsAlike
  <2>3. AccountRow(a, token).id = id
    BY AccountRowFields, AccountId
  <2>4. \A r \in d2.accounts : \E i \in DOMAIN m.accounts : r = AccountRow(m2.accounts[i], m2.tokens[i])
    BY <1>5, <2>1, <2>2, <2>3 DEF RowsWith
  <2>5. ASSUME NEW i \in DOMAIN m.accounts PROVE AccountRow(m2.accounts[i], m2.tokens[i]) \in d2.accounts
    <3>1. AccountRow(m.accounts[i], m.tokens[i]) \in d.accounts
      BY <2>1
    <3>. QED
      BY <1>5, <2>2, <2>3, <3>1 DEF RowsWith
  <2>. QED
    BY <2>4, <2>5
<1>6. AccountsAlike(m2.accounts, m2.byAddress, m2.tokens, d2.accounts)
  <2>1. /\ Counted(m2.accounts) /\ DOMAIN m2.tokens = DOMAIN m2.accounts
        /\ \A i \in DOMAIN m2.accounts :
             IsAccount(i, m2.accounts[i]) /\ Memory!Lower(m2.accounts[i].address) \in DOMAIN m2.byAddress
    BY <1>1, <1>2, <1>4 DEF AccountsAlike, Counted
  <2>2. \A x \in DOMAIN m2.byAddress :
          m2.byAddress[x] \in DOMAIN m2.accounts /\ Memory!Lower(m2.accounts[m2.byAddress[x]].address) = x
    BY <1>1, <1>2, <1>4 DEF AccountsAlike
  <2>. QED
    BY <1>3, <1>5, <2>1, <2>2 DEF AccountsAlike
<1>7. StoresAlike(m2, d2)
  BY <1>2, <1>6, AccountsFrame
<1>. QED
  BY <1>3, <1>7

LEMMA TwoWrites ==
  ASSUME NEW x, NEW w, NEW h
  PROVE  [x EXCEPT !.watch = w, !.history = h] = [[x EXCEPT !.watch = w] EXCEPT !.history = h]
  OBVIOUS

LEMMA AccountStatusWritten ==
  \A i, u, x, s, h, w, e :
      [[id |-> i, user |-> u, address |-> x, status |-> s, history |-> h, watch |-> w] EXCEPT !.status = e]
        = [id |-> i, user |-> u, address |-> x, status |-> e, history |-> h, watch |-> w]
  OBVIOUS

LEMMA AccountHistoryWritten ==
  \A i, u, x, s, h, w, e :
      [[id |-> i, user |-> u, address |-> x, status |-> s, history |-> h, watch |-> w] EXCEPT !.history = e]
        = [id |-> i, user |-> u, address |-> x, status |-> s, history |-> e, watch |-> w]
  OBVIOUS

LEMMA AccountWatchWritten ==
  \A i, u, x, s, h, w, e :
      [[id |-> i, user |-> u, address |-> x, status |-> s, history |-> h, watch |-> w] EXCEPT !.watch = e]
        = [id |-> i, user |-> u, address |-> x, status |-> s, history |-> h, watch |-> e]
  OBVIOUS

LEMMA AccountRowStatusWritten ==
  \A i, u, x, s, h, w, k, e :
      [[id |-> i, user |-> u, address |-> x, status |-> s, history |-> h, watch |-> w, token |-> k] EXCEPT !.status = e]
        = [id |-> i, user |-> u, address |-> x, status |-> e, history |-> h, watch |-> w, token |-> k]
  OBVIOUS

LEMMA AccountRowHistoryWritten ==
  \A i, u, x, s, h, w, k, e :
      [[id |-> i, user |-> u, address |-> x, status |-> s, history |-> h, watch |-> w, token |-> k] EXCEPT !.history = e]
        = [id |-> i, user |-> u, address |-> x, status |-> s, history |-> e, watch |-> w, token |-> k]
  OBVIOUS

LEMMA AccountRowWatchWritten ==
  \A i, u, x, s, h, w, k, e :
      [[id |-> i, user |-> u, address |-> x, status |-> s, history |-> h, watch |-> w, token |-> k] EXCEPT !.watch = e]
        = [id |-> i, user |-> u, address |-> x, status |-> s, history |-> h, watch |-> e, token |-> k]
  OBVIOUS

LEMMA AccountRowTokenWritten ==
  \A i, u, x, s, h, w, k, e :
      [[id |-> i, user |-> u, address |-> x, status |-> s, history |-> h, watch |-> w, token |-> k] EXCEPT !.token = e]
        = [id |-> i, user |-> u, address |-> x, status |-> s, history |-> h, watch |-> w, token |-> e]
  OBVIOUS

\* MailAccountRepo.saveHistoryId.
LEMMA HistoryAlike ==
  ASSUME NEW m, NEW d, StoresAlike(m, d), NEW id, NEW history
  PROVE  LET M == Memory!SaveHistoryId(m, id, history)
             D == Db!SaveHistoryId(d, id, history)
         IN StoresAlike(M.store, D.store) /\ (AccountsUnique(M.store.accounts) => M.answer = D.answer)
<1>. DEFINE M == Memory!SaveHistoryId(m, id, history)
            D == Db!SaveHistoryId(d, id, history)
            With(x) == [x EXCEPT !.history = history]
            a == m.accounts[id]
            new == [id |-> id, user |-> a.user, address |-> a.address, status |-> a.status,
                    history |-> history, watch |-> a.watch]
<1>1. /\ DOMAIN m = MemoryTables /\ DOMAIN d = DatabaseTables
      /\ AccountsAlike(m.accounts, m.byAddress, m.tokens, d.accounts)
  BY DEF StoresAlike
<1>2. ASSUME AccountsUnique(m.accounts)
      PROVE  /\ id \in DOMAIN m.accounts <=> IsHeld(d.accounts, id)
             /\ \A r \in d.accounts : r.id = id => r = AccountRow(a, m.tokens[id])
  BY <1>1, <1>2, AccountRowFields, AccountId DEF AccountsAlike, IsHeld
<1>3. /\ IsHeld(d.accounts, id) =>
           /\ D.answer = Null
           /\ D.store = [d EXCEPT !.accounts = {IF r.id = id THEN With(r) ELSE r : r \in d.accounts}]
      /\ ~IsHeld(d.accounts, id) => D.answer = "not found" /\ D.store = d
  BY <1>1 DEF Db!SaveHistoryId, Db!Update, Db!UpdateMany, Db!Done, Db!NotFound, IsHeld, DatabaseTables
<1>4. DOMAIN D.store = DatabaseTables /\ \A t \in DatabaseTables \ {"accounts"} : D.store[t] = d[t]
  <2>1. \A x : LET e == [d EXCEPT !.accounts = x]
               IN DOMAIN e = DatabaseTables /\ \A t \in DatabaseTables \ {"accounts"} : e[t] = d[t]
    BY <1>1
  <2>. QED
    BY <1>1, <1>3, <2>1
<1>5. CASE id \in DOMAIN m.accounts
  <2>1. M.answer = Null /\ M.store = [m EXCEPT !.accounts = [m.accounts EXCEPT ![id] = With(a)]]
    BY <1>1, <1>5 DEF Memory!SaveHistoryId, Memory!Update, Memory!Done, MemoryTables
  <2>2. IsAccount(id, a)
    BY <1>1, <1>5 DEF AccountsAlike
  <2>3. a = [id |-> id, user |-> a.user, address |-> a.address, status |-> a.status,
             history |-> a.history, watch |-> a.watch]
    BY <2>2 DEF IsAccount
  <2>5. With(a) = new
    BY <2>3, AccountHistoryWritten
  <2>6. IsAccount(id, new) /\ new.user = a.user /\ new.address = a.address
    BY <2>2 DEF IsAccount
  <2>8. With(AccountRow(a, m.tokens[id])) = AccountRow(new, m.tokens[id])
    <3>1. AccountRow(new, m.tokens[id])
            = [id |-> id, user |-> a.user, address |-> Db!Lower(a.address), status |-> a.status,
               history |-> history, watch |-> a.watch, token |-> Db!Encrypted(m.tokens[id])]
      BY DEF AccountRow
    <3>2. AccountRow(a, m.tokens[id])
            = [id |-> id, user |-> a.user, address |-> Db!Lower(a.address), status |-> a.status,
               history |-> a.history, watch |-> a.watch, token |-> Db!Encrypted(m.tokens[id])]
      BY <2>2, AccountId DEF AccountRow
    <3>. HIDE DEF a
    <3>. QED
      BY <3>1, <3>2, AccountRowHistoryWritten
  <2>9. AccountRow(new, m.tokens[id]).id = id
    BY AccountRowFields
  <2>10. AccountsUnique(m.accounts) => D.store.accounts = RowsWith(d.accounts, AccountRow(new, m.tokens[id]))
    <3>1. SUFFICES ASSUME AccountsUnique(m.accounts)
                   PROVE  D.store.accounts = RowsWith(d.accounts, AccountRow(new, m.tokens[id]))
      OBVIOUS
    <3>2. D.store.accounts = {IF r.id = id THEN With(r) ELSE r : r \in d.accounts}
      BY <1>1, <1>2, <1>3, <1>5, <3>1 DEF DatabaseTables
    <3>. HIDE DEF With, new, D
    <3>. QED
      BY <1>2, <2>8, <2>9, <3>1, <3>2 DEF RowsWith
  <2>11. /\ DOMAIN M.store = MemoryTables
         /\ \A t \in MemoryTables \ {"accounts", "tokens"} : M.store[t] = m[t]
         /\ M.store.tokens = m.tokens
         /\ M.store.accounts = [m.accounts EXCEPT ![id] = new]
    BY <1>1, <2>1, <2>5 DEF MemoryTables
  <2>12. /\ DOMAIN M.store.accounts = DOMAIN m.accounts /\ M.store.accounts[id] = new
         /\ \A i \in DOMAIN m.accounts : i # id => M.store.accounts[i] = m.accounts[i]
    BY <1>5, <2>11
  <2>. HIDE DEF M, D, new
  <2>13. StoresAlike(M.store, D.store) /\ (AccountsUnique(M.store.accounts) <=> AccountsUnique(m.accounts))
    BY <1>4, <1>5, <2>6, <2>10, <2>11, <2>12, AccountUpdated
  <2>. USE DEF M, D
  <2>. QED
    BY <1>2, <1>3, <1>5, <2>1, <2>13
<1>6. CASE id \notin DOMAIN m.accounts
  <2>1. M.answer = "not found" /\ M.store = m
    BY <1>1, <1>6 DEF Memory!SaveHistoryId, Memory!Update, Memory!Done, Memory!NotFound, MemoryTables
  <2>. HIDE DEF D
  <2>2. AccountsAlike(m.accounts, m.byAddress, m.tokens, D.store.accounts)
    BY <1>1, <1>2, <1>3, <1>6 DEF AccountsAlike
  <2>3. StoresAlike(m, D.store)
    BY <1>1, <1>4, <2>2, AccountsFrame
  <2>. USE DEF D
  <2>. QED
    BY <1>2, <1>3, <1>6, <2>1, <2>3
<1>. QED
  BY <1>5, <1>6

\* MailAccountRepo.saveWatchExpiration: a history id that is stored is kept.
LEMMA WatchAlike ==
  ASSUME NEW m, NEW d, StoresAlike(m, d), NEW id, NEW expires, NEW history
  PROVE  LET M == Memory!SaveWatchExpiration(m, id, expires, history)
             D == Db!SaveWatchExpiration(d, id, expires, history)
         IN StoresAlike(M.store, D.store) /\ (AccountsUnique(M.store.accounts) => M.answer = D.answer)
<1>. DEFINE M == Memory!SaveWatchExpiration(m, id, expires, history)
            D == Db!SaveWatchExpiration(d, id, expires, history)
            With(x) == [x EXCEPT !.watch = expires, !.history = IF @ = Null THEN history ELSE @]
            a == m.accounts[id]
            kept == IF a.history = Null THEN history ELSE a.history
            new == [id |-> id, user |-> a.user, address |-> a.address, status |-> a.status,
                    history |-> kept, watch |-> expires]
<1>1. /\ DOMAIN m = MemoryTables /\ DOMAIN d = DatabaseTables
      /\ AccountsAlike(m.accounts, m.byAddress, m.tokens, d.accounts)
  BY DEF StoresAlike
<1>2. ASSUME AccountsUnique(m.accounts)
      PROVE  /\ id \in DOMAIN m.accounts <=> IsHeld(d.accounts, id)
             /\ \A r \in d.accounts : r.id = id => r = AccountRow(a, m.tokens[id])
  BY <1>1, <1>2, AccountRowFields, AccountId DEF AccountsAlike, IsHeld
<1>3. /\ IsHeld(d.accounts, id) =>
           /\ D.answer = Null
           /\ D.store = [d EXCEPT !.accounts = {IF r.id = id THEN With(r) ELSE r : r \in d.accounts}]
      /\ ~IsHeld(d.accounts, id) => D.answer = "not found" /\ D.store = d
  BY <1>1 DEF Db!SaveWatchExpiration, Db!Update, Db!UpdateMany, Db!Done, Db!NotFound, IsHeld, DatabaseTables
<1>4. DOMAIN D.store = DatabaseTables /\ \A t \in DatabaseTables \ {"accounts"} : D.store[t] = d[t]
  <2>1. \A x : LET e == [d EXCEPT !.accounts = x]
               IN DOMAIN e = DatabaseTables /\ \A t \in DatabaseTables \ {"accounts"} : e[t] = d[t]
    BY <1>1
  <2>. QED
    BY <1>1, <1>3, <2>1
<1>5. CASE id \in DOMAIN m.accounts
  <2>1. M.answer = Null /\ M.store = [m EXCEPT !.accounts = [m.accounts EXCEPT ![id] = With(a)]]
    BY <1>1, <1>5 DEF Memory!SaveWatchExpiration, Memory!Update, Memory!Done, MemoryTables
  <2>2. IsAccount(id, a)
    BY <1>1, <1>5 DEF AccountsAlike
  <2>3. a = [id |-> id, user |-> a.user, address |-> a.address, status |-> a.status,
             history |-> a.history, watch |-> a.watch]
    BY <2>2 DEF IsAccount
  <2>5. With(a) = new
    <3>1. With(a) = [a EXCEPT !.watch = expires, !.history = kept]
      OBVIOUS
    <3>. HIDE DEF kept, a, With
    <3>2. [a EXCEPT !.watch = expires]
            = [id |-> id, user |-> a.user, address |-> a.address, status |-> a.status,
               history |-> a.history, watch |-> expires]
      BY <2>3, AccountWatchWritten
    <3>3. [[id |-> id, user |-> a.user, address |-> a.address, status |-> a.status,
             history |-> a.history, watch |-> expires] EXCEPT !.history = kept] = new
      BY AccountHistoryWritten
    <3>4. [[a EXCEPT !.watch = expires] EXCEPT !.history = kept] = new
      BY <3>2, <3>3
    <3>. QED
      BY <3>1, <3>4, TwoWrites
  <2>6. IsAccount(id, new) /\ new.user = a.user /\ new.address = a.address
    BY <2>2 DEF IsAccount
  <2>8. With(AccountRow(a, m.tokens[id])) = AccountRow(new, m.tokens[id])
    <3>1. AccountRow(new, m.tokens[id])
            = [id |-> id, user |-> a.user, address |-> Db!Lower(a.address), status |-> a.status,
               history |-> kept, watch |-> expires, token |-> Db!Encrypted(m.tokens[id])]
      BY DEF AccountRow
    <3>2. AccountRow(a, m.tokens[id])
            = [id |-> id, user |-> a.user, address |-> Db!Lower(a.address), status |-> a.status,
               history |-> a.history, watch |-> a.watch, token |-> Db!Encrypted(m.tokens[id])]
      BY <2>2, AccountId DEF AccountRow
    <3>3. \A x : x.history = a.history => With(x) = [x EXCEPT !.watch = expires, !.history = kept]
      OBVIOUS
    <3>4. AccountRow(a, m.tokens[id]).history = a.history
      BY AccountRowFields
    <3>. HIDE DEF a, kept, With
    <3>5. With(AccountRow(a, m.tokens[id]))
            = [AccountRow(a, m.tokens[id]) EXCEPT !.watch = expires, !.history = kept]
      BY <3>3, <3>4
    <3>6. [AccountRow(a, m.tokens[id]) EXCEPT !.watch = expires]
            = [id |-> id, user |-> a.user, address |-> Db!Lower(a.address), status |-> a.status,
               history |-> a.history, watch |-> expires, token |-> Db!Encrypted(m.tokens[id])]
      BY <3>2, AccountRowWatchWritten
    <3>7. [[id |-> id, user |-> a.user, address |-> Db!Lower(a.address), status |-> a.status,
             history |-> a.history, watch |-> expires, token |-> Db!Encrypted(m.tokens[id])]
             EXCEPT !.history = kept] = AccountRow(new, m.tokens[id])
      BY <3>1, AccountRowHistoryWritten
    <3>8. [[AccountRow(a, m.tokens[id]) EXCEPT !.watch = expires] EXCEPT !.history = kept]
            = AccountRow(new, m.tokens[id])
      BY <3>6, <3>7
    <3>. QED
      BY <3>5, <3>8, TwoWrites
  <2>9. AccountRow(new, m.tokens[id]).id = id
    BY AccountRowFields
  <2>10. AccountsUnique(m.accounts) => D.store.accounts = RowsWith(d.accounts, AccountRow(new, m.tokens[id]))
    <3>1. SUFFICES ASSUME AccountsUnique(m.accounts)
                   PROVE  D.store.accounts = RowsWith(d.accounts, AccountRow(new, m.tokens[id]))
      OBVIOUS
    <3>2. D.store.accounts = {IF r.id = id THEN With(r) ELSE r : r \in d.accounts}
      BY <1>1, <1>2, <1>3, <1>5, <3>1 DEF DatabaseTables
    <3>. HIDE DEF With, new, D
    <3>. QED
      BY <1>2, <2>8, <2>9, <3>1, <3>2 DEF RowsWith
  <2>11. /\ DOMAIN M.store = MemoryTables
         /\ \A t \in MemoryTables \ {"accounts", "tokens"} : M.store[t] = m[t]
         /\ M.store.tokens = m.tokens
         /\ M.store.accounts = [m.accounts EXCEPT ![id] = new]
    BY <1>1, <2>1, <2>5 DEF MemoryTables
  <2>12. /\ DOMAIN M.store.accounts = DOMAIN m.accounts /\ M.store.accounts[id] = new
         /\ \A i \in DOMAIN m.accounts : i # id => M.store.accounts[i] = m.accounts[i]
    BY <1>5, <2>11
  <2>. HIDE DEF M, D, new
  <2>13. StoresAlike(M.store, D.store) /\ (AccountsUnique(M.store.accounts) <=> AccountsUnique(m.accounts))
    BY <1>4, <1>5, <2>6, <2>10, <2>11, <2>12, AccountUpdated
  <2>. USE DEF M, D
  <2>. QED
    BY <1>2, <1>3, <1>5, <2>1, <2>13
<1>6. CASE id \notin DOMAIN m.accounts
  <2>1. M.answer = "not found" /\ M.store = m
    BY <1>1, <1>6 DEF Memory!SaveWatchExpiration, Memory!Update, Memory!Done, Memory!NotFound, MemoryTables
  <2>. HIDE DEF D
  <2>2. AccountsAlike(m.accounts, m.byAddress, m.tokens, D.store.accounts)
    BY <1>1, <1>2, <1>3, <1>6 DEF AccountsAlike
  <2>3. StoresAlike(m, D.store)
    BY <1>1, <1>4, <2>2, AccountsFrame
  <2>. USE DEF D
  <2>. QED
    BY <1>2, <1>3, <1>6, <2>1, <2>3
<1>. QED
  BY <1>5, <1>6

\* MailAccountRepo.setStatus.
LEMMA AccountStatusAlike ==
  ASSUME NEW m, NEW d, StoresAlike(m, d), NEW id, NEW status
  PROVE  LET M == Memory!SetAccountStatus(m, id, status)
             D == Db!SetAccountStatus(d, id, status)
         IN StoresAlike(M.store, D.store) /\ (AccountsUnique(M.store.accounts) => M.answer = D.answer)
<1>. DEFINE M == Memory!SetAccountStatus(m, id, status)
            D == Db!SetAccountStatus(d, id, status)
            With(x) == [x EXCEPT !.status = status]
            a == m.accounts[id]
            new == [id |-> id, user |-> a.user, address |-> a.address, status |-> status,
                    history |-> a.history, watch |-> a.watch]
<1>1. /\ DOMAIN m = MemoryTables /\ DOMAIN d = DatabaseTables
      /\ AccountsAlike(m.accounts, m.byAddress, m.tokens, d.accounts)
  BY DEF StoresAlike
<1>2. ASSUME AccountsUnique(m.accounts)
      PROVE  /\ id \in DOMAIN m.accounts <=> IsHeld(d.accounts, id)
             /\ \A r \in d.accounts : r.id = id => r = AccountRow(a, m.tokens[id])
  BY <1>1, <1>2, AccountRowFields, AccountId DEF AccountsAlike, IsHeld
<1>3. /\ IsHeld(d.accounts, id) =>
           /\ D.answer = Null
           /\ D.store = [d EXCEPT !.accounts = {IF r.id = id THEN With(r) ELSE r : r \in d.accounts}]
      /\ ~IsHeld(d.accounts, id) => D.answer = "not found" /\ D.store = d
  BY <1>1 DEF Db!SetAccountStatus, Db!Update, Db!UpdateMany, Db!Done, Db!NotFound, IsHeld, DatabaseTables
<1>4. DOMAIN D.store = DatabaseTables /\ \A t \in DatabaseTables \ {"accounts"} : D.store[t] = d[t]
  <2>1. \A x : LET e == [d EXCEPT !.accounts = x]
               IN DOMAIN e = DatabaseTables /\ \A t \in DatabaseTables \ {"accounts"} : e[t] = d[t]
    BY <1>1
  <2>. QED
    BY <1>1, <1>3, <2>1
<1>5. CASE id \in DOMAIN m.accounts
  <2>1. M.answer = Null /\ M.store = [m EXCEPT !.accounts = [m.accounts EXCEPT ![id] = With(a)]]
    BY <1>1, <1>5 DEF Memory!SetAccountStatus, Memory!Update, Memory!Done, MemoryTables
  <2>2. IsAccount(id, a)
    BY <1>1, <1>5 DEF AccountsAlike
  <2>3. a = [id |-> id, user |-> a.user, address |-> a.address, status |-> a.status,
             history |-> a.history, watch |-> a.watch]
    BY <2>2 DEF IsAccount
  <2>5. With(a) = new
    BY <2>3, AccountStatusWritten
  <2>6. IsAccount(id, new) /\ new.user = a.user /\ new.address = a.address
    BY <2>2 DEF IsAccount
  <2>8. With(AccountRow(a, m.tokens[id])) = AccountRow(new, m.tokens[id])
    <3>1. AccountRow(new, m.tokens[id])
            = [id |-> id, user |-> a.user, address |-> Db!Lower(a.address), status |-> status,
               history |-> a.history, watch |-> a.watch, token |-> Db!Encrypted(m.tokens[id])]
      BY DEF AccountRow
    <3>2. AccountRow(a, m.tokens[id])
            = [id |-> id, user |-> a.user, address |-> Db!Lower(a.address), status |-> a.status,
               history |-> a.history, watch |-> a.watch, token |-> Db!Encrypted(m.tokens[id])]
      BY <2>2, AccountId DEF AccountRow
    <3>. HIDE DEF a
    <3>. QED
      BY <3>1, <3>2, AccountRowStatusWritten
  <2>9. AccountRow(new, m.tokens[id]).id = id
    BY AccountRowFields
  <2>10. AccountsUnique(m.accounts) => D.store.accounts = RowsWith(d.accounts, AccountRow(new, m.tokens[id]))
    <3>1. SUFFICES ASSUME AccountsUnique(m.accounts)
                   PROVE  D.store.accounts = RowsWith(d.accounts, AccountRow(new, m.tokens[id]))
      OBVIOUS
    <3>2. D.store.accounts = {IF r.id = id THEN With(r) ELSE r : r \in d.accounts}
      BY <1>1, <1>2, <1>3, <1>5, <3>1 DEF DatabaseTables
    <3>. HIDE DEF With, new, D
    <3>. QED
      BY <1>2, <2>8, <2>9, <3>1, <3>2 DEF RowsWith
  <2>11. /\ DOMAIN M.store = MemoryTables
         /\ \A t \in MemoryTables \ {"accounts", "tokens"} : M.store[t] = m[t]
         /\ M.store.tokens = m.tokens
         /\ M.store.accounts = [m.accounts EXCEPT ![id] = new]
    BY <1>1, <2>1, <2>5 DEF MemoryTables
  <2>12. /\ DOMAIN M.store.accounts = DOMAIN m.accounts /\ M.store.accounts[id] = new
         /\ \A i \in DOMAIN m.accounts : i # id => M.store.accounts[i] = m.accounts[i]
    BY <1>5, <2>11
  <2>. HIDE DEF M, D, new
  <2>13. StoresAlike(M.store, D.store) /\ (AccountsUnique(M.store.accounts) <=> AccountsUnique(m.accounts))
    BY <1>4, <1>5, <2>6, <2>10, <2>11, <2>12, AccountUpdated
  <2>. USE DEF M, D
  <2>. QED
    BY <1>2, <1>3, <1>5, <2>1, <2>13
<1>6. CASE id \notin DOMAIN m.accounts
  <2>1. M.answer = "not found" /\ M.store = m
    BY <1>1, <1>6 DEF Memory!SetAccountStatus, Memory!Update, Memory!Done, Memory!NotFound, MemoryTables
  <2>. HIDE DEF D
  <2>2. AccountsAlike(m.accounts, m.byAddress, m.tokens, D.store.accounts)
    BY <1>1, <1>2, <1>3, <1>6 DEF AccountsAlike
  <2>3. StoresAlike(m, D.store)
    BY <1>1, <1>4, <2>2, AccountsFrame
  <2>. USE DEF D
  <2>. QED
    BY <1>2, <1>3, <1>6, <2>1, <2>3
<1>. QED
  BY <1>5, <1>6

\* MailAccountRepo.saveRefreshToken.
LEMMA TokenAlike ==
  ASSUME NEW m, NEW d, StoresAlike(m, d), NEW id, NEW token
  PROVE  LET M == Memory!SaveToken(m, id, token)
             D == Db!SaveToken(d, id, token)
         IN StoresAlike(M.store, D.store) /\ (AccountsUnique(M.store.accounts) => M.answer = D.answer)
<1>. DEFINE M == Memory!SaveToken(m, id, token)
            D == Db!SaveToken(d, id, token)
            With(x) == [x EXCEPT !.token = Db!Encrypted(token)]
            a == m.accounts[id]
<1>1. /\ DOMAIN m = MemoryTables /\ DOMAIN d = DatabaseTables
      /\ AccountsAlike(m.accounts, m.byAddress, m.tokens, d.accounts)
  BY DEF StoresAlike
<1>2. ASSUME AccountsUnique(m.accounts)
      PROVE  /\ id \in DOMAIN m.accounts <=> IsHeld(d.accounts, id)
             /\ \A r \in d.accounts : r.id = id => r = AccountRow(a, m.tokens[id])
  BY <1>1, <1>2, AccountRowFields, AccountId DEF AccountsAlike, IsHeld
<1>3. /\ IsHeld(d.accounts, id) =>
           /\ D.answer = Null
           /\ D.store = [d EXCEPT !.accounts = {IF r.id = id THEN With(r) ELSE r : r \in d.accounts}]
      /\ ~IsHeld(d.accounts, id) => D.answer = "not found" /\ D.store = d
  BY <1>1 DEF Db!SaveToken, Db!Update, Db!UpdateMany, Db!Done, Db!NotFound, IsHeld, DatabaseTables
<1>4. DOMAIN D.store = DatabaseTables /\ \A t \in DatabaseTables \ {"accounts"} : D.store[t] = d[t]
  <2>1. \A x : LET e == [d EXCEPT !.accounts = x]
               IN DOMAIN e = DatabaseTables /\ \A t \in DatabaseTables \ {"accounts"} : e[t] = d[t]
    BY <1>1
  <2>. QED
    BY <1>1, <1>3, <2>1
<1>5. CASE id \in DOMAIN m.accounts
  <2>1. M.answer = Null /\ M.store = [m EXCEPT !.tokens = [m.tokens EXCEPT ![id] = token]]
    BY <1>1, <1>5 DEF Memory!SaveToken, Memory!Update, Memory!Done, MemoryTables, AccountsAlike
  <2>2. IsAccount(id, a)
    BY <1>1, <1>5 DEF AccountsAlike
  <2>3. With(AccountRow(a, m.tokens[id])) = AccountRow(a, token)
    <3>1. \A t : AccountRow(a, t)
            = [id |-> id, user |-> a.user, address |-> Db!Lower(a.address), status |-> a.status,
               history |-> a.history, watch |-> a.watch, token |-> Db!Encrypted(t)]
      BY <2>2, AccountId DEF AccountRow
    <3>. HIDE DEF a
    <3>. QED
      BY <3>1, AccountRowTokenWritten
  <2>4. AccountRow(a, token).id = id
    BY <2>2, AccountRowFields, AccountId
  <2>5. AccountsUnique(m.accounts) => D.store.accounts = RowsWith(d.accounts, AccountRow(a, token))
    <3>1. SUFFICES ASSUME AccountsUnique(m.accounts)
                   PROVE  D.store.accounts = RowsWith(d.accounts, AccountRow(a, token))
      OBVIOUS
    <3>2. D.store.accounts = {IF r.id = id THEN With(r) ELSE r : r \in d.accounts}
      BY <1>1, <1>2, <1>3, <1>5, <3>1 DEF DatabaseTables
    <3>. HIDE DEF With, a, D
    <3>. QED
      BY <1>2, <2>3, <2>4, <3>1, <3>2 DEF RowsWith
  <2>6. /\ DOMAIN M.store = MemoryTables
        /\ \A t \in MemoryTables \ {"accounts", "tokens"} : M.store[t] = m[t]
    BY <1>1, <2>1 DEF MemoryTables
  <2>7. M.store.accounts = m.accounts /\ M.store.tokens = [m.tokens EXCEPT ![id] = token]
    BY <1>1, <2>1 DEF MemoryTables
  <2>8. /\ DOMAIN M.store.tokens = DOMAIN m.tokens /\ M.store.tokens[id] = token
        /\ \A i \in DOMAIN m.accounts : i # id => M.store.tokens[i] = m.tokens[i]
        /\ DOMAIN M.store.accounts = DOMAIN m.accounts /\ M.store.accounts[id] = a
        /\ \A i \in DOMAIN m.accounts : M.store.accounts[i] = m.accounts[i]
        /\ a.user = m.accounts[id].user /\ a.address = m.accounts[id].address
    BY <1>1, <1>5, <2>7 DEF AccountsAlike
  <2>. HIDE DEF M, D, a
  <2>9. StoresAlike(M.store, D.store) /\ (AccountsUnique(M.store.accounts) <=> AccountsUnique(m.accounts))
    <3>. DEFINE m2 == M.store
                d2 == D.store
    <3>1. /\ DOMAIN m2 = MemoryTables /\ DOMAIN d2 = DatabaseTables
          /\ \A t \in MemoryTables \ {"accounts", "tokens"} : m2[t] = m[t]
          /\ \A t \in DatabaseTables \ {"accounts"} : d2[t] = d[t]
      BY <1>4, <2>6
    <3>2. /\ DOMAIN m2.accounts = DOMAIN m.accounts /\ DOMAIN m2.tokens = DOMAIN m.tokens
          /\ m2.accounts[id] = a /\ m2.tokens[id] = token
          /\ \A i \in DOMAIN m.accounts : i # id => /\ m2.accounts[i] = m.accounts[i]
                                                 /\ m2.tokens[i] = m.tokens[i]
          /\ a.user = m.accounts[id].user /\ a.address = m.accounts[id].address
      BY <2>8
    <3>3. AccountsUnique(m.accounts) => d2.accounts = RowsWith(d.accounts, AccountRow(a, token))
      BY <2>5
    <3>. HIDE DEF m2, d2
    <3>4. StoresAlike(m2, d2) /\ (AccountsUnique(m2.accounts) <=> AccountsUnique(m.accounts))
      BY <1>5, <2>2, <3>1, <3>2, <3>3, AccountUpdated
    <3>. QED
      BY <3>4 DEF m2, d2
  <2>. USE DEF M, D
  <2>. QED
    BY <1>2, <1>3, <1>5, <2>1, <2>9
<1>6. CASE id \notin DOMAIN m.accounts
  <2>1. M.answer = "not found" /\ M.store = m
    BY <1>1, <1>6 DEF Memory!SaveToken, Memory!Update, Memory!Done, Memory!NotFound, MemoryTables, AccountsAlike
  <2>. HIDE DEF D
  <2>2. AccountsAlike(m.accounts, m.byAddress, m.tokens, D.store.accounts)
    BY <1>1, <1>2, <1>3, <1>6 DEF AccountsAlike
  <2>3. StoresAlike(m, D.store)
    BY <1>1, <1>4, <2>2, AccountsFrame
  <2>. USE DEF D
  <2>. QED
    BY <1>2, <1>3, <1>6, <2>1, <2>3
<1>. QED
  BY <1>5, <1>6

\* The next row of a map that is numbered.
LEMMA CountedGrows ==
  ASSUME NEW map, Counted(map)
  PROVE  /\ Fresh(map) \in Nat \ {0} /\ Fresh(map) \notin DOMAIN map
         /\ DOMAIN map = 1 .. Fresh(map) - 1
         /\ DOMAIN map \cup {Fresh(map)} = 1 .. Fresh(map)
<1>1. PICK n \in Nat : DOMAIN map = 1 .. n
  BY DEF Counted
<1>2. Cardinality(1 .. n) = n
  BY FS_Interval, <1>1
<1>3. Fresh(map) = n + 1
  BY <1>1, <1>2 DEF Fresh
<1>4. n + 1 \in Nat \ {0} /\ n + 1 \notin 1 .. n /\ n = (n + 1) - 1
      /\ (1 .. n) \cup {n + 1} = 1 .. n + 1
  BY <1>1
<1>. QED
  BY <1>1, <1>3, <1>4

\* MailAccountRepo.create: the address is stored in lower case and must be new.
LEMMA AccountCreated ==
  ASSUME NEW m, NEW d, StoresAlike(m, d), NEW user, NEW address, NEW token,
         address = [name |-> address.name, upper |-> address.upper], address.upper \in BOOLEAN
  PROVE  LET M == Memory!CreateAccount(m, Fresh(m.accounts), user, address, token)
             D == Db!CreateAccount(d, Fresh(m.accounts), user, address, token)
         IN StoresAlike(M.store, D.store) /\ (AccountsUnique(M.store.accounts) => M.answer = D.answer)
<1>. DEFINE id == Fresh(m.accounts)
            M == Memory!CreateAccount(m, id, user, address, token)
            D == Db!CreateAccount(d, id, user, address, token)
            a == [id |-> id, user |-> user, address |-> address, status |-> "active",
                  history |-> Null, watch |-> Null]
            row == [id |-> id, user |-> user, address |-> Db!Lower(address), status |-> "active",
                    history |-> Null, watch |-> Null, token |-> Db!Encrypted(token)]
            accounts == Put(m.accounts, id, a)
            tokens == Put(m.tokens, id, token)
            byAddress == Put(m.byAddress, Memory!Lower(address), id)
            taken == \E r \in d.accounts : r.address = Db!Lower(address)
<1>1. /\ DOMAIN m = MemoryTables /\ DOMAIN d = DatabaseTables
      /\ AccountsAlike(m.accounts, m.byAddress, m.tokens, d.accounts)
  BY DEF StoresAlike
<1>2. /\ M.answer = id
      /\ M.store = [m EXCEPT !.accounts = accounts, !.tokens = tokens, !.byAddress = byAddress]
  BY <1>1 DEF Memory!CreateAccount, Memory!Done, Memory!Put, Put, MemoryTables
<1>3. /\ DOMAIN M.store = MemoryTables
      /\ \A t \in MemoryTables \ {"accounts", "byAddress", "tokens"} : M.store[t] = m[t]
      /\ M.store.accounts = accounts /\ M.store.tokens = tokens /\ M.store.byAddress = byAddress
  <2>. HIDE DEF M, accounts, tokens, byAddress
  <2>. QED
    BY <1>1, <1>2 DEF MemoryTables
<1>4. /\ taken => D.answer = "unique" /\ D.store = d
      /\ ~taken => D.answer = id /\ D.store = [d EXCEPT !.accounts = d.accounts \cup {row}]
  BY <1>1 DEF Db!CreateAccount, Db!Create, Db!Done, DatabaseTables
<1>5. /\ DOMAIN D.store = DatabaseTables
      /\ \A t \in DatabaseTables \ {"accounts"} : D.store[t] = d[t]
      /\ taken => D.store.accounts = d.accounts
      /\ ~taken => D.store.accounts = d.accounts \cup {row}
  <2>. HIDE DEF D, row, taken
  <2>. QED
    BY <1>1, <1>4 DEF DatabaseTables
<1>6. /\ id \notin DOMAIN m.accounts /\ Counted(accounts)
      /\ DOMAIN accounts = DOMAIN m.accounts \cup {id} /\ DOMAIN tokens = DOMAIN accounts
      /\ accounts[id] = a /\ tokens[id] = token
      /\ \A i \in DOMAIN m.accounts : accounts[i] = m.accounts[i] /\ tokens[i] = m.tokens[i]
  <2>1. Counted(m.accounts) /\ DOMAIN m.tokens = DOMAIN m.accounts
    BY <1>1 DEF AccountsAlike
  <2>2. id \in Nat /\ id \notin DOMAIN m.accounts /\ DOMAIN m.accounts \cup {id} = 1 .. id
    BY <2>1, CountedGrows
  <2>. HIDE DEF id, a
  <2>. QED
    BY <2>1, <2>2 DEF Put, Counted
<1>7. /\ DOMAIN byAddress = DOMAIN m.byAddress \cup {Memory!Lower(address)}
      /\ byAddress[Memory!Lower(address)] = id
      /\ \A x \in DOMAIN m.byAddress : x # Memory!Lower(address) => byAddress[x] = m.byAddress[x]
  BY DEF Put
<1>8. IsAccount(id, a) /\ a.address = address /\ AccountRow(a, token) = row /\ Db!Lower(address) = Memory!Lower(address)
  BY DEF IsAccount, AccountRow, Db!Lower, Memory!Lower
<1>. HIDE DEF id, a, row, accounts, tokens, byAddress, taken
<1>9. AccountsUnique(accounts) => AccountsUnique(m.accounts)
  BY <1>6 DEF AccountsUnique
<1>10. AccountsUnique(accounts) => ~taken
  <2>1. SUFFICES ASSUME AccountsUnique(accounts), taken PROVE FALSE
    OBVIOUS
  <2>2. PICK i \in DOMAIN m.accounts : AccountRow(m.accounts[i], m.tokens[i]).address = Db!Lower(address)
    BY <1>1, <1>9, <2>1 DEF AccountsAlike, taken
  <2>3. Memory!Lower(m.accounts[i].address) = Memory!Lower(address)
    <3>1. IsAccount(i, m.accounts[i])
      BY <1>1 DEF AccountsAlike
    <3>2. Db!Lower(m.accounts[i].address) = Memory!Lower(m.accounts[i].address)
      BY <3>1, LowerAddress
    <3>. QED
      BY <1>8, <2>2, <3>2, AccountRowFields
  <2>. QED
    BY <1>6, <1>8, <2>1, <2>3 DEF AccountsUnique
<1>11. AccountsUnique(accounts) =>
          D.store.accounts = {AccountRow(accounts[i], tokens[i]) : i \in DOMAIN accounts}
  <2>1. SUFFICES ASSUME AccountsUnique(accounts)
                 PROVE  D.store.accounts = {AccountRow(accounts[i], tokens[i]) : i \in DOMAIN accounts}
    OBVIOUS
  <2>2. D.store.accounts = {AccountRow(m.accounts[i], m.tokens[i]) : i \in DOMAIN m.accounts} \cup {row}
    BY <1>1, <1>5, <1>9, <1>10, <2>1 DEF AccountsAlike
  <2>. HIDE DEF D
  <2>. QED
    BY <1>6, <1>8, <2>2
<1>12. AccountsAlike(accounts, byAddress, tokens, D.store.accounts)
  <2>1. \A i \in DOMAIN accounts :
          IsAccount(i, accounts[i]) /\ Memory!Lower(accounts[i].address) \in DOMAIN byAddress
    BY <1>1, <1>6, <1>7, <1>8 DEF AccountsAlike
  <2>2. \A x \in DOMAIN byAddress :
          byAddress[x] \in DOMAIN accounts /\ Memory!Lower(accounts[byAddress[x]].address) = x
    BY <1>1, <1>6, <1>7, <1>8 DEF AccountsAlike
  <2>. HIDE DEF D
  <2>. QED
    BY <1>6, <1>11, <2>1, <2>2 DEF AccountsAlike
<1>13. StoresAlike(M.store, D.store)
  <2>1. AccountsAlike(M.store.accounts, M.store.byAddress, M.store.tokens, D.store.accounts)
    BY <1>3, <1>12
  <2>. HIDE DEF M, D
  <2>. QED
    BY <1>3, <1>5, <1>6, <2>1, AccountsFrame
<1>. QED
  BY <1>2, <1>3, <1>4, <1>10, <1>13 DEF id

-----------------------------------------------------------------------------
\* Messages.
LEMMA MessagesFrame ==
  ASSUME NEW m, NEW d, StoresAlike(m, d), NEW m2, NEW d2,
         DOMAIN m2 = MemoryTables, DOMAIN d2 = DatabaseTables,
         \A t \in MemoryTables \ {"messages", "byGmail"} : m2[t] = m[t],
         \A t \in DatabaseTables \ {"messages"} : d2[t] = d[t],
         MessagesAlike(m.accounts, m2.messages, m2.byGmail, d2.messages)
  PROVE  StoresAlike(m2, d2)
  BY DEF StoresAlike, MemoryTables, DatabaseTables

LEMMA MessageFields ==
  ASSUME NEW id, NEW x, IsMessage(id, x)
  PROVE  x.id = id
<1>1. x = [id |-> id, user |-> x.user, account |-> x.account, gmail |-> x.gmail,
           status |-> x.status, reason |-> x.reason, kind |-> x.kind]
  BY DEF IsMessage
<1>. QED
  BY <1>1

LEMMA MessageIds ==
  ASSUME NEW accounts, NEW messages, NEW byGmail, NEW rows,
         MessagesAlike(accounts, messages, byGmail, rows)
  PROVE  \A i \in DOMAIN messages : messages[i].id = i
<1>1. \A i \in DOMAIN messages : IsMessage(i, messages[i])
  BY DEF MessagesAlike
<1>. QED
  BY <1>1, MessageFields

\* The message that is known by a Gmail id, the row of its account.
LEMMA HeldMessage ==
  ASSUME NEW m, NEW d, StoresAlike(m, d), NEW account \in DOMAIN m.accounts, NEW gmail
  PROVE  LET key == <<m.accounts[account].user, account, gmail>>
         IN /\ key \in DOMAIN m.byGmail => Db!Held(d, account, gmail) = {m.messages[m.byGmail[key]]}
            /\ key \notin DOMAIN m.byGmail => Db!Held(d, account, gmail) = {}
<1>. DEFINE key == <<m.accounts[account].user, account, gmail>>
            held == Db!Held(d, account, gmail)
<1>1. MessagesAlike(m.accounts, m.messages, m.byGmail, d.messages)
  BY DEF StoresAlike
<1>2. \A r \in held : /\ r \in Range(m.messages)
                      /\ r.account = account /\ r.gmail = gmail
  BY <1>1 DEF Db!Held, MessagesAlike
<1>3. \A r \in held : key \in DOMAIN m.byGmail /\ r = m.messages[m.byGmail[key]]
  <2>1. TAKE r \in held
  <2>2. PICK i \in DOMAIN m.messages : m.messages[i] = r
    BY <1>2 DEF Range
  <2>3. /\ r.user = m.accounts[r.account].user
        /\ <<r.user, r.account, r.gmail>> \in DOMAIN m.byGmail
        /\ m.byGmail[<<r.user, r.account, r.gmail>>] = i
    BY <1>1, <2>2 DEF MessagesAlike
  <2>. QED
    BY <1>2, <2>2, <2>3
<1>4. ASSUME key \in DOMAIN m.byGmail PROVE m.messages[m.byGmail[key]] \in held
  <2>. DEFINE x == m.messages[m.byGmail[key]]
  <2>1. m.byGmail[key] \in DOMAIN m.messages /\ key = <<x.user, x.account, x.gmail>>
    BY <1>1, <1>4 DEF MessagesAlike
  <2>2. x.account = account /\ x.gmail = gmail
    BY <2>1
  <2>3. x \in d.messages
    BY <1>1, <2>1 DEF MessagesAlike, Range
  <2>. QED
    BY <2>2, <2>3 DEF Db!Held
<1>. QED
  BY <1>3, <1>4

LEMMA OnlyOne ==
  ASSUME NEW x
  PROVE  (CHOOSE r \in {x} : TRUE) = x
  OBVIOUS

\* MailMessageRepo.upsertSeen: a message that is known is answered as it is.
LEMMA SeenAlike ==
  ASSUME NEW m, NEW d, StoresAlike(m, d), NEW account \in DOMAIN m.accounts, NEW gmail
  PROVE  LET user == m.accounts[account].user
             M == Memory!UpsertSeen(m, Fresh(m.messages), user, account, gmail)
             D == Db!UpsertSeen(d, Fresh(m.messages), user, account, gmail)
         IN StoresAlike(M.store, D.store) /\ M.answer = D.answer
<1>. DEFINE user == m.accounts[account].user
            id == Fresh(m.messages)
            key == <<user, account, gmail>>
            held == Db!Held(d, account, gmail)
            M == Memory!UpsertSeen(m, id, user, account, gmail)
            D == Db!UpsertSeen(d, id, user, account, gmail)
            new == [id |-> id, user |-> user, account |-> account, gmail |-> gmail,
                    status |-> "seen", reason |-> Null, kind |-> Null]
            messages == Put(m.messages, id, new)
            byGmail == Put(m.byGmail, key, id)
<1>1. /\ DOMAIN m = MemoryTables /\ DOMAIN d = DatabaseTables
      /\ MessagesAlike(m.accounts, m.messages, m.byGmail, d.messages)
  BY DEF StoresAlike
<1>2. CASE key \in DOMAIN m.byGmail
  <2>1. held = {m.messages[m.byGmail[key]]}
    BY <1>2, HeldMessage
  <2>2. D.store = d /\ D.answer = (CHOOSE r \in held : TRUE)
    BY <2>1 DEF Db!UpsertSeen, Db!Done
  <2>3. D.answer = m.messages[m.byGmail[key]]
    BY <2>1, <2>2, OnlyOne
  <2>4. M.store = m /\ M.answer = m.messages[m.byGmail[key]]
    BY <1>2 DEF Memory!UpsertSeen, Memory!Done
  <2>. QED
    BY <2>2, <2>3, <2>4
<1>3. CASE key \notin DOMAIN m.byGmail
  <2>1. held = {}
    BY <1>3, HeldMessage
  <2>2. D.answer = new /\ D.store = [d EXCEPT !.messages = d.messages \cup {new}]
    BY <1>1, <2>1 DEF Db!UpsertSeen, Db!Done, Db!MailMessageCreateData, DatabaseTables
  <2>3. M.answer = new /\ M.store = [m EXCEPT !.messages = messages, !.byGmail = byGmail]
    BY <1>1, <1>3 DEF Memory!UpsertSeen, Memory!Done, Memory!Put, Put, MemoryTables
  <2>4. IsMessage(id, new) /\ new.user = user /\ new.account = account /\ new.gmail = gmail
    BY DEF IsMessage
  <2>5. /\ id \notin DOMAIN m.messages /\ Counted(messages)
        /\ DOMAIN messages = DOMAIN m.messages \cup {id} /\ messages[id] = new
        /\ \A i \in DOMAIN m.messages : messages[i] = m.messages[i]
    <3>1. Counted(m.messages)
      BY <1>1 DEF MessagesAlike
    <3>2. id \in Nat /\ id \notin DOMAIN m.messages /\ DOMAIN m.messages \cup {id} = 1 .. id
      BY <3>1, CountedGrows
    <3>. HIDE DEF id, new
    <3>. QED
      BY <3>2 DEF Put, Counted
  <2>6. /\ DOMAIN byGmail = DOMAIN m.byGmail \cup {key} /\ byGmail[key] = id
        /\ \A k \in DOMAIN m.byGmail : byGmail[k] = m.byGmail[k]
    BY <1>3 DEF Put
  <2>. HIDE DEF id, new, messages, byGmail
  <2>7. \A i \in DOMAIN messages :
          LET x == messages[i]
              k == <<x.user, x.account, x.gmail>>
          IN /\ IsMessage(i, x)
             /\ x.account \in DOMAIN m.accounts /\ x.user = m.accounts[x.account].user
             /\ k \in DOMAIN byGmail /\ byGmail[k] = i
    BY <1>1, <2>4, <2>5, <2>6 DEF MessagesAlike
  <2>8. \A k \in DOMAIN byGmail :
          LET x == messages[byGmail[k]]
          IN byGmail[k] \in DOMAIN messages /\ k = <<x.user, x.account, x.gmail>>
    BY <1>1, <2>4, <2>5, <2>6 DEF MessagesAlike
  <2>9. d.messages \cup {new} = Range(messages)
    BY <1>1, <2>5 DEF MessagesAlike, Range
  <2>10. MessagesAlike(m.accounts, messages, byGmail, d.messages \cup {new})
    BY <2>5, <2>7, <2>8, <2>9 DEF MessagesAlike
  <2>. HIDE DEF M, D, user, key
  <2>11. /\ DOMAIN M.store = MemoryTables
         /\ \A t \in MemoryTables \ {"messages", "byGmail"} : M.store[t] = m[t]
         /\ M.store.messages = messages /\ M.store.byGmail = byGmail
    BY <1>1, <2>3 DEF MemoryTables
  <2>12. /\ DOMAIN D.store = DatabaseTables
         /\ \A t \in DatabaseTables \ {"messages"} : D.store[t] = d[t]
         /\ D.store.messages = d.messages \cup {new}
    BY <1>1, <2>2 DEF DatabaseTables
  <2>13. StoresAlike(M.store, D.store)
    BY <2>10, <2>11, <2>12, MessagesFrame
  <2>. USE DEF M, D, user
  <2>. QED
    BY <2>2, <2>3, <2>13 DEF id
<1>. QED
  BY <1>2, <1>3

\* A message that is written again stays under its account and its Gmail id.
LEMMA MessageUpdated ==
  ASSUME NEW m, NEW d, StoresAlike(m, d), NEW m2, NEW d2, NEW id \in DOMAIN m.messages,
         NEW x, IsMessage(id, x), x.user = m.messages[id].user,
         x.account = m.messages[id].account, x.gmail = m.messages[id].gmail,
         DOMAIN m2 = MemoryTables, DOMAIN d2 = DatabaseTables,
         \A t \in MemoryTables \ {"messages"} : m2[t] = m[t],
         \A t \in DatabaseTables \ {"messages"} : d2[t] = d[t],
         DOMAIN m2.messages = DOMAIN m.messages, m2.messages[id] = x,
         \A i \in DOMAIN m.messages : i # id => m2.messages[i] = m.messages[i],
         d2.messages = RowsWith(d.messages, x)
  PROVE  StoresAlike(m2, d2)
<1>1. MessagesAlike(m.accounts, m.messages, m.byGmail, d.messages)
  BY DEF StoresAlike
<1>2. m2.byGmail = m.byGmail
  BY DEF MemoryTables
<1>3. \A i \in DOMAIN m.messages :
        /\ m2.messages[i].user = m.messages[i].user /\ m2.messages[i].account = m.messages[i].account
        /\ m2.messages[i].gmail = m.messages[i].gmail /\ IsMessage(i, m2.messages[i])
  BY <1>1 DEF MessagesAlike
<1>4. d2.messages = Range(m2.messages)
  <2>1. \A i \in DOMAIN m.messages : m.messages[i].id = i
    BY <1>1, MessageIds
  <2>2. x.id = id
    BY MessageFields
  <2>3. \A r \in d2.messages : r \in Range(m2.messages)
    BY <1>1, <2>1, <2>2 DEF MessagesAlike, RowsWith, Range
  <2>4. ASSUME NEW i \in DOMAIN m.messages PROVE m2.messages[i] \in d2.messages
    <3>1. m.messages[i] \in d.messages
      BY <1>1 DEF MessagesAlike, Range
    <3>. QED
      BY <2>1, <2>2, <3>1 DEF RowsWith
  <2>. QED
    BY <2>3, <2>4 DEF Range
<1>5. MessagesAlike(m.accounts, m2.messages, m2.byGmail, d2.messages)
  <2>1. Counted(m2.messages)
    BY <1>1 DEF MessagesAlike, Counted
  <2>2. \A i \in DOMAIN m2.messages :
          LET y == m2.messages[i]
              k == <<y.user, y.account, y.gmail>>
          IN /\ IsMessage(i, y)
             /\ y.account \in DOMAIN m.accounts /\ y.user = m.accounts[y.account].user
             /\ k \in DOMAIN m2.byGmail /\ m2.byGmail[k] = i
    <3>1. \A i \in DOMAIN m.messages :
            LET y == m.messages[i]
                k == <<y.user, y.account, y.gmail>>
            IN /\ y.account \in DOMAIN m.accounts /\ y.user = m.accounts[y.account].user
               /\ k \in DOMAIN m.byGmail /\ m.byGmail[k] = i
      BY <1>1 DEF MessagesAlike
    <3>2. TAKE i \in DOMAIN m2.messages
    <3>3. /\ i \in DOMAIN m.messages /\ IsMessage(i, m2.messages[i])
          /\ m2.messages[i].user = m.messages[i].user
          /\ m2.messages[i].account = m.messages[i].account
          /\ m2.messages[i].gmail = m.messages[i].gmail
      BY <1>3
    <3>. QED
      BY <1>2, <3>1, <3>3
  <2>3. \A k \in DOMAIN m2.byGmail :
          LET y == m2.messages[m2.byGmail[k]]
          IN m2.byGmail[k] \in DOMAIN m2.messages /\ k = <<y.user, y.account, y.gmail>>
    <3>1. TAKE k \in DOMAIN m2.byGmail
    <3>2. LET y == m.messages[m.byGmail[k]]
          IN m.byGmail[k] \in DOMAIN m.messages /\ k = <<y.user, y.account, y.gmail>>
      BY <1>1, <1>2 DEF MessagesAlike
    <3>. QED
      BY <1>2, <1>3, <3>2
  <2>. QED
    BY <1>4, <2>1, <2>2, <2>3 DEF MessagesAlike
<1>. QED
  BY <1>2, <1>5, MessagesFrame

\* MailMessageRepo.updateClassification.
LEMMA ClassifiedAlike ==
  ASSUME NEW m, NEW d, StoresAlike(m, d), NEW user, NEW id, NEW update,
         DOMAIN update = {"status", "kind", "reason"}
  PROVE  LET M == Memory!UpdateClassification(m, user, id, update)
             D == Db!UpdateClassification(d, user, id, update)
         IN StoresAlike(M.store, D.store) /\ M.answer = D.answer
<1>. DEFINE M == Memory!UpdateClassification(m, user, id, update)
            D == Db!UpdateClassification(d, user, id, update)
            x == m.messages[id]
            new == Over(x, update)
            mine == \E r \in d.messages : r.id = id /\ r.user = user
<1>1. /\ DOMAIN m = MemoryTables /\ DOMAIN d = DatabaseTables
      /\ MessagesAlike(m.accounts, m.messages, m.byGmail, d.messages)
  BY DEF StoresAlike
<1>2. \A i \in DOMAIN m.messages : m.messages[i].id = i
  BY <1>1, MessageIds
<1>3. mine <=> (id \in DOMAIN m.messages /\ x.user = user)
  BY <1>1, <1>2 DEF MessagesAlike, Range
<1>4. CASE ~(id \in DOMAIN m.messages /\ x.user = user)
  <2>1. M.store = m /\ M.answer = "not found"
    BY <1>4 DEF Memory!UpdateClassification, Memory!Has, Memory!Done, Memory!NotFound
  <2>2. D.store = d /\ D.answer = "not found"
    BY <1>3, <1>4 DEF Db!UpdateClassification, Db!Done, Db!NotFound
  <2>. QED
    BY <2>1, <2>2
<1>5. CASE id \in DOMAIN m.messages /\ x.user = user
  <2>1. M.answer = Null /\ M.store = [m EXCEPT !.messages = [m.messages EXCEPT ![id] = new]]
    BY <1>1, <1>5
       DEF Memory!UpdateClassification, Memory!Has, Memory!Done, Memory!Over, Over, MemoryTables
  <2>2. /\ D.answer = Null
        /\ D.store = [d EXCEPT !.messages =
                        {IF r.id = id /\ r.user = user THEN Over(r, update) ELSE r : r \in d.messages}]
    BY <1>1, <1>3, <1>5
       DEF Db!UpdateClassification, Db!UpdateMany, Db!Done, Db!Over, Over, DatabaseTables
  <2>3. IsMessage(id, x)
    BY <1>1, <1>5 DEF MessagesAlike
  <2>4. new = [id |-> id, user |-> x.user, account |-> x.account, gmail |-> x.gmail,
               status |-> update.status, reason |-> update.reason, kind |-> update.kind]
    <3>1. x = [id |-> id, user |-> x.user, account |-> x.account, gmail |-> x.gmail,
               status |-> x.status, reason |-> x.reason, kind |-> x.kind]
      BY <2>3 DEF IsMessage
    <3>. HIDE DEF x
    <3>. QED
      BY <3>1 DEF Over
  <2>5. /\ IsMessage(id, new) /\ new.id = id /\ new.user = x.user /\ new.account = x.account
        /\ new.gmail = x.gmail
    <3>. HIDE DEF new
    <3>. QED
      BY <2>4 DEF IsMessage
  <2>6. \A r \in d.messages : r.id = id => r = x
    BY <1>1, <1>2 DEF MessagesAlike, Range
  <2>7. {IF r.id = id /\ r.user = user THEN Over(r, update) ELSE r : r \in d.messages}
          = RowsWith(d.messages, new)
    <3>. HIDE DEF x
    <3>. QED
      BY <1>5, <2>5, <2>6 DEF RowsWith
  <2>. HIDE DEF M, D, new
  <2>8. /\ DOMAIN M.store = MemoryTables
        /\ \A t \in MemoryTables \ {"messages"} : M.store[t] = m[t]
    BY <1>1, <2>1 DEF MemoryTables
  <2>9. /\ DOMAIN D.store = DatabaseTables
        /\ \A t \in DatabaseTables \ {"messages"} : D.store[t] = d[t]
        /\ D.store.messages = RowsWith(d.messages, new)
    BY <1>1, <2>2, <2>7 DEF DatabaseTables
  <2>10. /\ DOMAIN M.store.messages = DOMAIN m.messages /\ M.store.messages[id] = new
         /\ \A i \in DOMAIN m.messages : i # id => M.store.messages[i] = m.messages[i]
    <3>1. M.store.messages = [m.messages EXCEPT ![id] = new]
      BY <1>1, <2>1 DEF MemoryTables
    <3>. QED
      BY <1>5, <3>1
  <2>11. StoresAlike(M.store, D.store)
    BY <1>5, <2>5, <2>8, <2>9, <2>10, MessageUpdated
  <2>. USE DEF M, D
  <2>. QED
    BY <2>1, <2>2, <2>11
<1>. QED
  BY <1>4, <1>5

\* MailMessageRepo.markDeleted.
LEMMA DeletedAlike ==
  ASSUME NEW m, NEW d, StoresAlike(m, d), NEW user, NEW account \in DOMAIN m.accounts, NEW gmail
  PROVE  LET M == Memory!MarkDeleted(m, user, account, gmail)
             D == Db!MarkDeleted(d, user, account, gmail)
         IN StoresAlike(M.store, D.store) /\ M.answer = D.answer
<1>. DEFINE M == Memory!MarkDeleted(m, user, account, gmail)
            D == Db!MarkDeleted(d, user, account, gmail)
            key == <<user, account, gmail>>
            id == m.byGmail[key]
            x == m.messages[id]
            new == [x EXCEPT !.status = "deleted"]
            held == Db!Held(d, account, gmail)
            known == key \in DOMAIN m.byGmail
<1>1. /\ DOMAIN m = MemoryTables /\ DOMAIN d = DatabaseTables
      /\ MessagesAlike(m.accounts, m.messages, m.byGmail, d.messages)
  BY DEF StoresAlike
<1>2. known => /\ id \in DOMAIN m.messages /\ IsMessage(id, x) /\ x.user = user
               /\ user = m.accounts[account].user
  <2>1. known => id \in DOMAIN m.messages /\ <<user, account, gmail>> = <<x.user, x.account, x.gmail>>
    BY <1>1 DEF MessagesAlike
  <2>2. known => IsMessage(id, x) /\ x.user = m.accounts[x.account].user
    BY <1>1, <2>1 DEF MessagesAlike
  <2>. QED
    BY <2>1, <2>2
<1>3. known => held = {x}
  BY <1>2, HeldMessage
<1>4. held # {} /\ (CHOOSE r \in held : TRUE).user = user => known
  <2>1. SUFFICES ASSUME held # {}, (CHOOSE r \in held : TRUE).user = user PROVE known
    OBVIOUS
  <2>. DEFINE k == <<m.accounts[account].user, account, gmail>>
              y == m.messages[m.byGmail[k]]
  <2>2. k \in DOMAIN m.byGmail /\ held = {y}
    BY <2>1, HeldMessage
  <2>3. y.user = user
    BY <2>1, <2>2, OnlyOne
  <2>4. <<m.accounts[account].user, account, gmail>> = <<y.user, y.account, y.gmail>>
    BY <1>1, <2>2 DEF MessagesAlike
  <2>. QED
    BY <2>2, <2>3, <2>4
<1>5. CASE ~known
  <2>1. M.store = m /\ M.answer = Null
    BY <1>5 DEF Memory!MarkDeleted, Memory!Done
  <2>2. D.store = d /\ D.answer = Null
    BY <1>4, <1>5 DEF Db!MarkDeleted, Db!Owned, Db!Done
  <2>. QED
    BY <2>1, <2>2
<1>6. CASE known
  <2>1. M.answer = Null /\ M.store = [m EXCEPT !.messages = [m.messages EXCEPT ![id] = new]]
    BY <1>1, <1>2, <1>6 DEF Memory!MarkDeleted, Memory!Has, Memory!Done, MemoryTables
  <2>2. x.id = id
    BY <1>2, <1>6, MessageFields
  <2>3. (CHOOSE r \in held : TRUE) = x
    BY <1>3, <1>6, OnlyOne
  <2>4. Db!Owned(d, user, account, gmail)
    BY <1>2, <1>3, <1>6, <2>3 DEF Db!Owned
  <2>5. x \in d.messages
    BY <1>1, <1>2, <1>6 DEF MessagesAlike, Range
  <2>6. /\ D.answer = Null
        /\ D.store = [d EXCEPT !.messages =
                        {IF r.id = id THEN [r EXCEPT !.status = "deleted"] ELSE r : r \in d.messages}]
    <3>1. D = Db!Update(d, "messages", x.id, LAMBDA r : [r EXCEPT !.status = "deleted"])
      BY <2>3, <2>4 DEF Db!MarkDeleted
    <3>2. D = Db!Update(d, "messages", id, LAMBDA r : [r EXCEPT !.status = "deleted"])
      BY <2>2, <3>1
    <3>3. \E r \in d.messages : r.id = id
      BY <2>2, <2>5
    <3>. HIDE DEF D, x, id
    <3>. QED
      BY <1>1, <3>2, <3>3 DEF Db!Update, Db!UpdateMany, Db!Done, DatabaseTables
  <2>7. new = [id |-> id, user |-> x.user, account |-> x.account, gmail |-> x.gmail,
               status |-> "deleted", reason |-> x.reason, kind |-> x.kind]
    <3>1. x = [id |-> id, user |-> x.user, account |-> x.account, gmail |-> x.gmail,
               status |-> x.status, reason |-> x.reason, kind |-> x.kind]
      BY <1>2, <1>6 DEF IsMessage
    <3>2. \A i, u, a, g, s, r, k, e :
            [[id |-> i, user |-> u, account |-> a, gmail |-> g, status |-> s, reason |-> r, kind |-> k]
                EXCEPT !.status = e]
              = [id |-> i, user |-> u, account |-> a, gmail |-> g, status |-> e, reason |-> r, kind |-> k]
      OBVIOUS
    <3>. HIDE DEF x, id
    <3>. QED
      BY <3>1, <3>2
  <2>8. /\ IsMessage(id, new) /\ new.id = id /\ new.user = x.user /\ new.account = x.account
        /\ new.gmail = x.gmail
    <3>. HIDE DEF new, x, id
    <3>. QED
      BY <2>7 DEF IsMessage
  <2>9. \A r \in d.messages : r.id = id => r = x
    <3>1. \A i \in DOMAIN m.messages : m.messages[i].id = i
      BY <1>1, MessageIds
    <3>. HIDE DEF id
    <3>. QED
      BY <1>1, <3>1 DEF MessagesAlike, Range
  <2>10. {IF r.id = id THEN [r EXCEPT !.status = "deleted"] ELSE r : r \in d.messages}
          = RowsWith(d.messages, new)
    <3>. HIDE DEF x, id
    <3>. QED
      BY <2>8, <2>9 DEF RowsWith
  <2>. HIDE DEF M, D, new, id, key
  <2>11. /\ DOMAIN M.store = MemoryTables
         /\ \A t \in MemoryTables \ {"messages"} : M.store[t] = m[t]
    BY <1>1, <2>1 DEF MemoryTables
  <2>12. /\ DOMAIN D.store = DatabaseTables
         /\ \A t \in DatabaseTables \ {"messages"} : D.store[t] = d[t]
         /\ D.store.messages = RowsWith(d.messages, new)
    BY <1>1, <2>6, <2>10 DEF DatabaseTables
  <2>13. /\ DOMAIN M.store.messages = DOMAIN m.messages /\ M.store.messages[id] = new
         /\ \A i \in DOMAIN m.messages : i # id => M.store.messages[i] = m.messages[i]
    <3>1. M.store.messages = [m.messages EXCEPT ![id] = new]
      BY <1>1, <2>1 DEF MemoryTables
    <3>. QED
      BY <1>2, <1>6, <3>1
  <2>14. StoresAlike(M.store, D.store)
    BY <1>2, <1>6, <2>8, <2>11, <2>12, <2>13, MessageUpdated
  <2>. USE DEF M, D
  <2>. QED
    BY <2>1, <2>6, <2>14
<1>. QED
  BY <1>5, <1>6

-----------------------------------------------------------------------------
\* Receipts and links.
LEMMA ReceiptsFrame ==
  ASSUME NEW m, NEW d, StoresAlike(m, d), NEW receipts, NEW rows, ReceiptsAlike(receipts, rows),
         DOMAIN m.receipts \subseteq DOMAIN receipts,
         \A i \in DOMAIN m.receipts : receipts[i].user = m.receipts[i].user
  PROVE  StoresAlike([m EXCEPT !.receipts = receipts], [d EXCEPT !.receipts = rows])
<1>. DEFINE m2 == [m EXCEPT !.receipts = receipts]
            d2 == [d EXCEPT !.receipts = rows]
<1>1. /\ DOMAIN m2 = MemoryTables /\ DOMAIN d2 = DatabaseTables
      /\ \A t \in MemoryTables \ {"receipts"} : m2[t] = m[t]
      /\ \A t \in DatabaseTables \ {"receipts"} : d2[t] = d[t]
      /\ m2.receipts = receipts /\ d2.receipts = rows
  BY DEF StoresAlike, MemoryTables, DatabaseTables
<1>2. LinksAlike(m.txns, m.receipts, m.linkOfTxn, m.linkOfReceipt, d.links)
  BY DEF StoresAlike
<1>3. LinksAlike(m.txns, receipts, m.linkOfTxn, m.linkOfReceipt, d.links)
  BY <1>2 DEF LinksAlike
<1>. HIDE DEF m2, d2
<1>4. LinksAlike(m2.txns, m2.receipts, m2.linkOfTxn, m2.linkOfReceipt, d2.links)
  BY <1>1, <1>3 DEF MemoryTables, DatabaseTables
<1>5. StoresAlike(m2, d2)
  BY <1>1, <1>4 DEF StoresAlike, MemoryTables, DatabaseTables
<1>. QED
  BY <1>5 DEF m2, d2

LEMMA LinksFrame ==
  ASSUME NEW m, NEW d, StoresAlike(m, d), NEW ofTxn, NEW ofReceipt, NEW rows,
         LinksAlike(m.txns, m.receipts, ofTxn, ofReceipt, rows)
  PROVE  StoresAlike([m EXCEPT !.linkOfTxn = ofTxn, !.linkOfReceipt = ofReceipt],
                     [d EXCEPT !.links = rows])
<1>. DEFINE m2 == [m EXCEPT !.linkOfTxn = ofTxn, !.linkOfReceipt = ofReceipt]
            d2 == [d EXCEPT !.links = rows]
<1>1. /\ DOMAIN m2 = MemoryTables /\ DOMAIN d2 = DatabaseTables
      /\ \A t \in MemoryTables \ {"linkOfTxn", "linkOfReceipt"} : m2[t] = m[t]
      /\ \A t \in DatabaseTables \ {"links"} : d2[t] = d[t]
      /\ m2.linkOfTxn = ofTxn /\ m2.linkOfReceipt = ofReceipt /\ d2.links = rows
  BY DEF StoresAlike, MemoryTables, DatabaseTables
<1>. HIDE DEF m2, d2
<1>2. LinksAlike(m2.txns, m2.receipts, m2.linkOfTxn, m2.linkOfReceipt, d2.links)
  BY <1>1 DEF MemoryTables
<1>3. StoresAlike(m2, d2)
  BY <1>1, <1>2 DEF StoresAlike, MemoryTables, DatabaseTables
<1>. QED
  BY <1>3 DEF m2, d2

LEMMA ReceiptFields ==
  ASSUME NEW id, NEW r, IsReceipt(id, r)
  PROVE  LET row == Db!ReceiptCreateData(r)
         IN /\ r.id = id /\ row.id = id /\ row.user = r.user /\ row.message = r.message
            /\ row.extractedAt = r.extractedAt /\ row.items = r.items
<1>1. r = [id |-> id, user |-> r.user, message |-> r.message, total |-> r.total,
           items |-> r.items, extractedAt |-> r.extractedAt]
  BY DEF IsReceipt
<1>2. DOMAIN r = {"id", "user", "message", "total", "items", "extractedAt"} /\ r.id = id
  BY <1>1
<1>3. \A minor, currency :
        LET row == Db!Over(Db!Without(r, {"total"}), [totalMinor |-> minor, totalCurrency |-> currency])
        IN \A f \in {"id", "user", "message", "items", "extractedAt"} : row[f] = r[f]
  BY <1>2 DEF Db!Over, Db!Without
<1>. QED
  BY <1>2, <1>3 DEF Db!ReceiptCreateData

\* ReceiptRepo.create: one receipt of a message.
LEMMA ReceiptCreated ==
  ASSUME NEW m, NEW d, StoresAlike(m, d), NEW r, IsReceipt(Fresh(m.receipts), r)
  PROVE  LET M == Memory!CreateReceipt(m, r)
             D == Db!CreateReceipt(d, r)
         IN StoresAlike(M.store, D.store) /\ (ReceiptsUnique(M.store.receipts) => M.answer = D.answer)
<1>. DEFINE id == Fresh(m.receipts)
            M == Memory!CreateReceipt(m, r)
            D == Db!CreateReceipt(d, r)
            row == Db!ReceiptCreateData(r)
            receipts == Put(m.receipts, id, r)
            taken == \E x \in d.receipts : x.message = r.message
            rows == IF taken THEN d.receipts ELSE d.receipts \cup {row}
<1>1. /\ DOMAIN m = MemoryTables /\ DOMAIN d = DatabaseTables /\ ReceiptsAlike(m.receipts, d.receipts)
  BY DEF StoresAlike
<1>2. r.id = id /\ row.message = r.message
  BY ReceiptFields
<1>3. M.answer = Null /\ M.store = [m EXCEPT !.receipts = receipts]
  BY <1>1, <1>2 DEF Memory!CreateReceipt, Memory!Done, Memory!Put, Put, MemoryTables
<1>4. /\ taken => D.answer = "unique" /\ D.store = d
      /\ ~taken => D.answer = Null /\ D.store = [d EXCEPT !.receipts = d.receipts \cup {row}]
  BY <1>1 DEF Db!CreateReceipt, Db!Create, Db!Done, DatabaseTables
<1>5. /\ id \notin DOMAIN m.receipts /\ Counted(receipts)
      /\ DOMAIN receipts = DOMAIN m.receipts \cup {id} /\ receipts[id] = r
      /\ \A i \in DOMAIN m.receipts : receipts[i] = m.receipts[i]
  <2>1. Counted(m.receipts)
    BY <1>1 DEF ReceiptsAlike
  <2>2. id \in Nat /\ id \notin DOMAIN m.receipts /\ DOMAIN m.receipts \cup {id} = 1 .. id
    BY <2>1, CountedGrows
  <2>. HIDE DEF id
  <2>. QED
    BY <2>2 DEF Put, Counted
<1>6. IsReceipt(id, r)
  OBVIOUS
<1>. HIDE DEF id, receipts, row
<1>7. ReceiptsUnique(receipts) => ReceiptsUnique(m.receipts)
  BY <1>5 DEF ReceiptsUnique
<1>8. ReceiptsUnique(receipts) => ~taken
  <2>1. SUFFICES ASSUME ReceiptsUnique(receipts), taken PROVE FALSE
    OBVIOUS
  <2>2. PICK i \in DOMAIN m.receipts : Db!ReceiptCreateData(m.receipts[i]).message = r.message
    BY <1>1, <1>7, <2>1 DEF ReceiptsAlike
  <2>3. IsReceipt(i, m.receipts[i])
    BY <1>1 DEF ReceiptsAlike
  <2>4. m.receipts[i].message = r.message
    BY <2>2, <2>3, ReceiptFields
  <2>. QED
    BY <1>5, <2>1, <2>4 DEF ReceiptsUnique
<1>9. ReceiptsAlike(receipts, rows)
  <2>1. \A i \in DOMAIN receipts : IsReceipt(i, receipts[i])
    BY <1>1, <1>5, <1>6 DEF ReceiptsAlike
  <2>2. ReceiptsUnique(receipts) => rows = {Db!ReceiptCreateData(receipts[i]) : i \in DOMAIN receipts}
    <3>1. SUFFICES ASSUME ReceiptsUnique(receipts)
                   PROVE  rows = {Db!ReceiptCreateData(receipts[i]) : i \in DOMAIN receipts}
      OBVIOUS
    <3>2. rows = {Db!ReceiptCreateData(m.receipts[i]) : i \in DOMAIN m.receipts}
                    \cup {Db!ReceiptCreateData(r)}
      BY <1>1, <1>7, <1>8, <3>1 DEF ReceiptsAlike, row
    <3>. HIDE DEF rows
    <3>. QED
      BY <1>5, <3>2
  <2>. QED
    BY <1>5, <2>1, <2>2 DEF ReceiptsAlike
<1>10. StoresAlike([m EXCEPT !.receipts = receipts], [d EXCEPT !.receipts = rows])
  BY <1>5, <1>9, ReceiptsFrame
<1>11. CASE taken
  <2>1. StoresAlike([m EXCEPT !.receipts = receipts], d)
    <3>1. rows = d.receipts
      BY <1>11
    <3>2. StoresAlike([m EXCEPT !.receipts = receipts], [d EXCEPT !.receipts = d.receipts])
      BY <1>10, <3>1
    <3>3. \A t \in DatabaseTables : [d EXCEPT !.receipts = d.receipts][t] = d[t]
      BY <1>1
    <3>. QED
      BY <1>1, <3>2, <3>3 DEF StoresAlike, DatabaseTables
  <2>2. M.store.receipts = receipts
    BY <1>1, <1>3 DEF MemoryTables
  <2>. QED
    BY <1>3, <1>4, <1>8, <1>11, <2>1, <2>2
<1>12. CASE ~taken
  BY <1>3, <1>4, <1>10, <1>12
<1>. QED
  BY <1>11, <1>12

\* ReceiptLinkRepo.link: a transaction and a receipt are linked once.
LEMMA LinkedAlike ==
  ASSUME NEW m, NEW d, StoresAlike(m, d), NEW t \in DOMAIN m.txns, NEW r \in DOMAIN m.receipts,
         m.txns[t].user = m.receipts[r].user
  PROVE  LET entry == [user |-> m.receipts[r].user, txn |-> t, receipt |-> r]
             M == Memory!Link(m, entry)
             D == Db!Link(d, entry)
         IN StoresAlike(M.store, D.store) /\ M.answer = D.answer
<1>. DEFINE user == m.receipts[r].user
            entry == [user |-> user, txn |-> t, receipt |-> r]
            M == Memory!Link(m, entry)
            D == Db!Link(d, entry)
            key == <<user, t>>
            other == <<user, r>>
            linked == key \in DOMAIN m.linkOfTxn \/ other \in DOMAIN m.linkOfReceipt
            taken == \E l \in d.links : l.txn = t \/ l.receipt = r
            ofTxn == Put(m.linkOfTxn, key, entry)
            ofReceipt == Put(m.linkOfReceipt, other, entry)
<1>1. /\ DOMAIN m = MemoryTables /\ DOMAIN d = DatabaseTables
      /\ LinksAlike(m.txns, m.receipts, m.linkOfTxn, m.linkOfReceipt, d.links)
  BY DEF StoresAlike
<1>2. linked <=> taken
  <2>1. ASSUME linked PROVE taken
    BY <1>1, <2>1 DEF LinksAlike
  <2>2. ASSUME NEW l \in d.links, l.txn = t \/ l.receipt = r PROVE linked
    <3>1. /\ l.user = m.txns[l.txn].user /\ l.user = m.receipts[l.receipt].user
          /\ <<l.user, l.txn>> \in DOMAIN m.linkOfTxn
          /\ <<l.user, l.receipt>> \in DOMAIN m.linkOfReceipt
      BY <1>1, <2>2 DEF LinksAlike
    <3>2. l.user = user
      BY <2>2, <3>1
    <3>. HIDE DEF user
    <3>. QED
      BY <2>2, <3>1, <3>2
  <2>. QED
    BY <2>1, <2>2
<1>3. /\ linked => M.answer = "already linked" /\ M.store = m
      /\ ~linked => /\ M.answer = Null
                    /\ M.store = [m EXCEPT !.linkOfTxn = ofTxn, !.linkOfReceipt = ofReceipt]
  BY <1>1 DEF Memory!Link, Memory!Done, Memory!Put, Put, MemoryTables
<1>4. /\ taken => D.answer = "already linked" /\ D.store = d
      /\ ~taken => D.answer = Null /\ D.store = [d EXCEPT !.links = d.links \cup {entry}]
  BY <1>1 DEF Db!Link, Db!Create, Db!Done, DatabaseTables
<1>5. ASSUME ~taken
      PROVE  LinksAlike(m.txns, m.receipts, ofTxn, ofReceipt, d.links \cup {entry})
  <2>1. key \notin DOMAIN m.linkOfTxn /\ other \notin DOMAIN m.linkOfReceipt
    BY <1>2, <1>5
  <2>2. /\ DOMAIN ofTxn = DOMAIN m.linkOfTxn \cup {key} /\ ofTxn[key] = entry
        /\ \A k \in DOMAIN m.linkOfTxn : ofTxn[k] = m.linkOfTxn[k]
        /\ DOMAIN ofReceipt = DOMAIN m.linkOfReceipt \cup {other} /\ ofReceipt[other] = entry
        /\ \A k \in DOMAIN m.linkOfReceipt : ofReceipt[k] = m.linkOfReceipt[k]
    BY <2>1 DEF Put
  <2>3. entry.user = user /\ entry.txn = t /\ entry.receipt = r
    OBVIOUS
  <2>4. m.txns[t].user = user /\ m.receipts[r].user = user
    OBVIOUS
  <2>. HIDE DEF ofTxn, ofReceipt, entry, user
  <2>. QED
    BY <1>1, <2>2, <2>3, <2>4 DEF LinksAlike
<1>6. ~taken => StoresAlike([m EXCEPT !.linkOfTxn = ofTxn, !.linkOfReceipt = ofReceipt],
                            [d EXCEPT !.links = d.links \cup {entry}])
  <2>. HIDE DEF ofTxn, ofReceipt, entry, taken
  <2>. QED
    BY <1>5, LinksFrame
<1>. HIDE DEF ofTxn, ofReceipt, taken, linked
<1>. QED
  BY <1>2, <1>3, <1>4, <1>6

-----------------------------------------------------------------------------
\* Transactions.
LEMMA TxnsFrame ==
  ASSUME NEW m, NEW d, StoresAlike(m, d), NEW m2, NEW d2,
         DOMAIN m2 = MemoryTables, DOMAIN d2 = DatabaseTables,
         \A t \in MemoryTables \ {"txns", "byPlaid"} : m2[t] = m[t],
         \A t \in DatabaseTables \ {"txns"} : d2[t] = d[t],
         TxnsAlike(m2.txns, m2.byPlaid, d2.txns),
         DOMAIN m.txns \subseteq DOMAIN m2.txns,
         \A i \in DOMAIN m.txns : m2.txns[i].user = m.txns[i].user
  PROVE  StoresAlike(m2, d2)
<1>1. LinksAlike(m.txns, m.receipts, m.linkOfTxn, m.linkOfReceipt, d.links)
  BY DEF StoresAlike
<1>2. LinksAlike(m2.txns, m.receipts, m.linkOfTxn, m.linkOfReceipt, d.links)
  BY <1>1 DEF LinksAlike
<1>3. LinksAlike(m2.txns, m2.receipts, m2.linkOfTxn, m2.linkOfReceipt, d2.links)
  BY <1>2 DEF MemoryTables, DatabaseTables
<1>. QED
  BY <1>3 DEF StoresAlike, MemoryTables, DatabaseTables

TxnFields == {"id", "user", "plaid", "amount", "rawName", "name", "category", "at", "removed"}

\* A transaction has its fields.
LEMMA TxnIs ==
  ASSUME NEW id, NEW t, IsTxn(id, t)
  PROVE  DOMAIN t = TxnFields /\ t.id = id /\ t = [f \in TxnFields |-> t[f]] /\ IsMoney(t.amount)
<1>1. t = Numbered(id, t) /\ IsMoney(t.amount)
  BY DEF IsTxn
<1>2. DOMAIN Numbered(id, t) = TxnFields /\ Numbered(id, t).id = id
      /\ Numbered(id, t) = [f \in TxnFields |-> Numbered(id, t)[f]]
  BY DEF Numbered, TxnFields
<1>. QED
  BY <1>1, <1>2

\* What has the fields of a transaction is one.
LEMMA ATxn ==
  ASSUME NEW id, NEW t, DOMAIN t = TxnFields, t.id = id, t = [f \in TxnFields |-> t[f]],
         IsMoney(t.amount)
  PROVE  IsTxn(id, t)
<1>1. t = Numbered(id, t)
  <2>1. DOMAIN Numbered(id, t) = TxnFields /\ \A f \in TxnFields : Numbered(id, t)[f] = t[f]
    BY DEF Numbered, TxnFields
  <2>2. Numbered(id, t) = [f \in TxnFields |-> Numbered(id, t)[f]]
    BY DEF Numbered, TxnFields
  <2>. QED
    BY <2>1, <2>2
<1>. QED
  BY <1>1 DEF IsTxn

RowFields ==
    {"id", "user", "plaid", "rawName", "name", "category", "at", "removed", "minorUnits", "currency"}

\* The row of a transaction has its amount in two columns.
LEMMA TxnRowIs ==
  ASSUME NEW t, DOMAIN t = TxnFields
  PROVE  LET row == Db!TransactionCreateData(t)
         IN /\ DOMAIN row = RowFields /\ row = [f \in RowFields |-> row[f]]
            /\ \A f \in TxnFields \ {"amount"} : row[f] = t[f]
            /\ row.minorUnits = t.amount.minor /\ row.currency = t.amount.currency
<1>. DEFINE row == Db!TransactionCreateData(t)
<1>1. /\ row = [f \in (TxnFields \ {"amount"}) \cup {"minorUnits", "currency"} |-> row[f]]
      /\ \A f \in TxnFields \ {"amount"} : row[f] = t[f]
      /\ row.minorUnits = t.amount.minor /\ row.currency = t.amount.currency
  BY DEF Db!TransactionCreateData, Db!Over, Db!Without, TxnFields
<1>2. (TxnFields \ {"amount"}) \cup {"minorUnits", "currency"} = RowFields
  BY DEF TxnFields, RowFields
<1>3. row = [f \in RowFields |-> row[f]]
  BY <1>1, <1>2
<1>. QED
  BY <1>1, <1>3

\* Enriching a transaction and its row gives the same.
LEMMA TxnEnriched ==
  ASSUME NEW id, NEW t, IsTxn(id, t), NEW e, DOMAIN e = {"name", "category"}
  PROVE  LET new == Over(t, e)
         IN /\ IsTxn(id, new) /\ new.user = t.user /\ new.plaid = t.plaid
            /\ Over(Db!TransactionCreateData(t), e) = Db!TransactionCreateData(new)
<1>. DEFINE new == Over(t, e)
            row == Db!TransactionCreateData(t)
            newRow == Db!TransactionCreateData(new)
<1>1. DOMAIN t = TxnFields /\ t.id = id /\ t = [f \in TxnFields |-> t[f]] /\ IsMoney(t.amount)
  BY TxnIs
<1>2. /\ DOMAIN new = TxnFields /\ new = [f \in TxnFields |-> new[f]]
      /\ \A f \in TxnFields \ {"name", "category"} : new[f] = t[f]
      /\ \A f \in {"name", "category"} : new[f] = e[f]
  <2>1. DOMAIN t \cup DOMAIN e = TxnFields
    BY <1>1 DEF TxnFields
  <2>2. new = [f \in TxnFields |-> IF f \in {"name", "category"} THEN e[f] ELSE t[f]]
    BY <2>1 DEF Over
  <2>. QED
    BY <2>2 DEF TxnFields
<1>3. new.id = id /\ new.user = t.user /\ new.plaid = t.plaid /\ new.amount = t.amount
  BY <1>1, <1>2 DEF TxnFields
<1>. HIDE DEF new
<1>4. IsTxn(id, new)
  BY <1>1, <1>2, <1>3, ATxn
<1>5. /\ DOMAIN row = RowFields
      /\ \A f \in TxnFields \ {"amount"} : row[f] = t[f]
      /\ row.minorUnits = t.amount.minor /\ row.currency = t.amount.currency
  BY <1>1, TxnRowIs
<1>6. /\ newRow = [f \in RowFields |-> newRow[f]]
      /\ \A f \in TxnFields \ {"amount"} : newRow[f] = new[f]
      /\ newRow.minorUnits = new.amount.minor /\ newRow.currency = new.amount.currency
  BY <1>2, TxnRowIs
<1>. HIDE DEF row, newRow
<1>7. Over(row, e) = [f \in RowFields |-> IF f \in {"name", "category"} THEN e[f] ELSE row[f]]
  <2>1. DOMAIN row \cup DOMAIN e = RowFields
    BY <1>5 DEF RowFields
  <2>. QED
    BY <2>1 DEF Over
<1>8. \A f \in RowFields : newRow[f] = (IF f \in {"name", "category"} THEN e[f] ELSE row[f])
  <2>1. \A f \in {"name", "category"} : newRow[f] = e[f]
    BY <1>2, <1>6 DEF TxnFields
  <2>2. \A f \in TxnFields \ {"amount", "name", "category"} : newRow[f] = row[f]
    BY <1>2, <1>5, <1>6
  <2>3. newRow.minorUnits = row.minorUnits /\ newRow.currency = row.currency
    BY <1>3, <1>5, <1>6
  <2>4. RowFields = {"name", "category"} \cup (TxnFields \ {"amount", "name", "category"})
                      \cup {"minorUnits", "currency"}
    BY DEF RowFields, TxnFields
  <2>. QED
    BY <2>1, <2>2, <2>3, <2>4
<1>9. Over(row, e) = newRow
  BY <1>6, <1>7, <1>8
<1>. QED
  BY <1>3, <1>4, <1>9 DEF new, row, newRow

\* TransactionRepo.saveEnrichment.
LEMMA EnrichedAlike ==
  ASSUME NEW m, NEW d, StoresAlike(m, d), NEW user, NEW id, NEW e,
         DOMAIN e = {"name", "category"}
  PROVE  LET M == Memory!SaveEnrichment(m, user, id, e)
             D == Db!SaveEnrichment(d, user, id, e)
         IN StoresAlike(M.store, D.store) /\ (TxnsUnique(M.store.txns) => M.answer = D.answer)
<1>. DEFINE M == Memory!SaveEnrichment(m, user, id, e)
            D == Db!SaveEnrichment(d, user, id, e)
            t == m.txns[id]
            new == Over(t, e)
            txns == [m.txns EXCEPT ![id] = new]
            byPlaid == Put(m.byPlaid, new.plaid, new)
            mine == \E r \in d.txns : r.id = id /\ r.user = user
            rows == {IF r.id = id /\ r.user = user THEN Over(r, e) ELSE r : r \in d.txns}
            has == id \in DOMAIN m.txns /\ t.user = user
<1>1. /\ DOMAIN m = MemoryTables /\ DOMAIN d = DatabaseTables
      /\ TxnsAlike(m.txns, m.byPlaid, d.txns)
  BY DEF StoresAlike
<1>2. \A i \in DOMAIN m.txns :
        LET row == Db!TransactionCreateData(m.txns[i])
        IN IsTxn(i, m.txns[i]) /\ row.id = i /\ row.user = m.txns[i].user
  <2>1. TAKE i \in DOMAIN m.txns
  <2>2. IsTxn(i, m.txns[i])
    BY <1>1 DEF TxnsAlike
  <2>3. DOMAIN m.txns[i] = TxnFields /\ m.txns[i].id = i
    BY <2>2, TxnIs
  <2>. QED
    BY <2>2, <2>3, TxnRowIs DEF TxnFields
<1>3. ASSUME TxnsUnique(m.txns)
      PROVE  d.txns = {Db!TransactionCreateData(m.txns[i]) : i \in DOMAIN m.txns}
  BY <1>1, <1>3 DEF TxnsAlike
<1>4. TxnsUnique(m.txns) => (mine <=> has)
  BY <1>2, <1>3
<1>5. /\ has => M.answer = Null /\ M.store = [m EXCEPT !.txns = txns, !.byPlaid = byPlaid]
      /\ ~has => M.answer = "not found" /\ M.store = m
  BY <1>1 DEF Memory!SaveEnrichment, Memory!Has, Memory!Done, Memory!NotFound, Memory!Over, Over,
              Memory!Put, Put, MemoryTables
<1>6. /\ mine => D.answer = Null /\ D.store = [d EXCEPT !.txns = rows]
      /\ ~mine => D.answer = "not found" /\ D.store = d
  BY <1>1 DEF Db!SaveEnrichment, Db!UpdateMany, Db!Done, Db!NotFound, Db!Over, Over, DatabaseTables
<1>7. /\ DOMAIN D.store = DatabaseTables /\ \A x \in DatabaseTables \ {"txns"} : D.store[x] = d[x]
      /\ mine => D.store.txns = rows
      /\ ~mine => D.store.txns = d.txns
  <2>. HIDE DEF D, rows, mine
  <2>. QED
    BY <1>1, <1>6 DEF DatabaseTables
<1>8. CASE ~has
  <2>1. TxnsAlike(m.txns, m.byPlaid, D.store.txns)
    <3>1. TxnsUnique(m.txns) => D.store.txns = d.txns
      BY <1>4, <1>7, <1>8
    <3>. HIDE DEF D
    <3>. QED
      BY <1>1, <3>1 DEF TxnsAlike
  <2>2. StoresAlike(m, D.store)
    <3>. HIDE DEF D
    <3>. QED
      BY <1>1, <1>7, <2>1, TxnsFrame
  <2>. QED
    BY <1>4, <1>5, <1>6, <1>8, <2>2
<1>9. CASE has
  <2>1. /\ IsTxn(id, t) /\ IsTxn(id, new) /\ new.user = t.user /\ new.plaid = t.plaid
        /\ Over(Db!TransactionCreateData(t), e) = Db!TransactionCreateData(new)
    BY <1>2, <1>9, TxnEnriched
  <2>. HIDE DEF new
  <2>2. /\ DOMAIN txns = DOMAIN m.txns /\ txns[id] = new
        /\ \A i \in DOMAIN m.txns : i # id => txns[i] = m.txns[i]
    BY <1>9
  <2>3. /\ DOMAIN byPlaid = DOMAIN m.byPlaid /\ byPlaid[t.plaid] = new
        /\ \A p \in DOMAIN m.byPlaid : p # t.plaid => byPlaid[p] = m.byPlaid[p]
    BY <1>1, <1>9, <2>1 DEF TxnsAlike, Put
  <2>. HIDE DEF txns, byPlaid
  <2>4. TxnsUnique(txns) <=> TxnsUnique(m.txns)
    <3>1. \A i \in DOMAIN m.txns : txns[i].plaid = m.txns[i].plaid
      BY <2>1, <2>2
    <3>. QED
      BY <2>2, <3>1 DEF TxnsUnique
  <2>5. \A i \in DOMAIN txns : IsTxn(i, txns[i]) /\ txns[i].plaid \in DOMAIN byPlaid
    BY <1>1, <2>1, <2>2, <2>3 DEF TxnsAlike
  <2>6. \A p \in DOMAIN byPlaid :
          LET x == byPlaid[p]
          IN /\ IsTxn(x.id, x) /\ x.plaid = p
             /\ x.id \in DOMAIN txns /\ txns[x.id].plaid = p /\ txns[x.id].user = x.user
    <3>1. TAKE p \in DOMAIN byPlaid
    <3>2. new.id = id
      BY <2>1, TxnIs
    <3>3. CASE p = t.plaid
      BY <1>9, <2>1, <2>2, <2>3, <3>2, <3>3
    <3>4. CASE p # t.plaid
      BY <1>1, <2>1, <2>2, <2>3, <3>1, <3>4 DEF TxnsAlike
    <3>. QED
      BY <3>3, <3>4
  <2>7. ASSUME TxnsUnique(txns)
        PROVE  /\ \A i \in DOMAIN txns : byPlaid[txns[i].plaid] = txns[i]
               /\ D.store.txns = {Db!TransactionCreateData(txns[i]) : i \in DOMAIN txns}
    <3>1. \A i \in DOMAIN m.txns : m.byPlaid[m.txns[i].plaid] = m.txns[i]
      BY <1>1, <2>4, <2>7 DEF TxnsAlike
    <3>2. \A i \in DOMAIN m.txns : m.txns[i].plaid = t.plaid => i = id
      BY <1>9, <2>4, <2>7 DEF TxnsUnique
    <3>3. \A i \in DOMAIN txns : byPlaid[txns[i].plaid] = txns[i]
      BY <1>1, <2>1, <2>2, <2>3, <3>1, <3>2 DEF TxnsAlike
    <3>4. D.store.txns = rows
      BY <1>4, <1>7, <1>9, <2>4, <2>7
    <3>5. rows = {IF r.id = id THEN Db!TransactionCreateData(new) ELSE r : r \in d.txns}
      <4>1. \A r \in d.txns : r.id = id => r = Db!TransactionCreateData(t) /\ r.user = user
        BY <1>2, <1>3, <1>9, <2>4, <2>7
      <4>. QED
        BY <2>1, <4>1
    <3>. HIDE DEF rows
    <3>6. \A r \in rows : \E i \in DOMAIN txns : r = Db!TransactionCreateData(txns[i])
      BY <1>2, <1>3, <1>9, <2>2, <2>4, <2>7, <3>5
    <3>7. ASSUME NEW i \in DOMAIN txns PROVE Db!TransactionCreateData(txns[i]) \in rows
      <4>1. Db!TransactionCreateData(m.txns[i]) \in d.txns /\ Db!TransactionCreateData(m.txns[i]).id = i
        BY <1>2, <1>3, <2>2, <2>4, <2>7
      <4>. QED
        BY <2>2, <3>5, <4>1
    <3>. QED
      BY <3>3, <3>4, <3>6, <3>7
  <2>8. TxnsAlike(txns, byPlaid, D.store.txns)
    <3>1. Counted(txns)
      BY <1>1, <2>2 DEF TxnsAlike, Counted
    <3>. HIDE DEF D
    <3>. QED
      BY <2>5, <2>6, <2>7, <3>1 DEF TxnsAlike
  <2>9. /\ DOMAIN M.store = MemoryTables
        /\ \A x \in MemoryTables \ {"txns", "byPlaid"} : M.store[x] = m[x]
        /\ M.store.txns = txns /\ M.store.byPlaid = byPlaid
    <3>. HIDE DEF M
    <3>. QED
      BY <1>1, <1>5, <1>9 DEF MemoryTables
  <2>10. \A i \in DOMAIN m.txns : txns[i].user = m.txns[i].user
    BY <2>1, <2>2
  <2>11. StoresAlike(M.store, D.store)
    <3>. HIDE DEF M, D
    <3>. QED
      BY <1>7, <2>2, <2>8, <2>9, <2>10, TxnsFrame
  <2>. QED
    BY <1>4, <1>5, <1>6, <1>9, <2>4, <2>9, <2>11
<1>. QED
  BY <1>8, <1>9

\* Changing the flag of a transaction and of its row gives the same.
LEMMA TxnFlagged ==
  ASSUME NEW id, NEW t, IsTxn(id, t), NEW v
  PROVE  LET new == [t EXCEPT !.removed = v]
         IN /\ IsTxn(id, new) /\ new.user = t.user /\ new.plaid = t.plaid /\ new.id = id
            /\ [Db!TransactionCreateData(t) EXCEPT !.removed = v] = Db!TransactionCreateData(new)
<1>. DEFINE new == [t EXCEPT !.removed = v]
            row == Db!TransactionCreateData(t)
            newRow == Db!TransactionCreateData(new)
<1>1. DOMAIN t = TxnFields /\ t.id = id /\ t = [f \in TxnFields |-> t[f]] /\ IsMoney(t.amount)
  BY TxnIs
<1>2. /\ DOMAIN new = TxnFields /\ new = [f \in TxnFields |-> new[f]]
      /\ \A f \in TxnFields : new[f] = IF f = "removed" THEN v ELSE t[f]
  BY <1>1 DEF TxnFields
<1>3. new.id = id /\ new.user = t.user /\ new.plaid = t.plaid /\ new.amount = t.amount
  BY <1>1, <1>2 DEF TxnFields
<1>. HIDE DEF new
<1>4. IsTxn(id, new)
  BY <1>1, <1>2, <1>3, ATxn
<1>5. /\ DOMAIN row = RowFields /\ row = [f \in RowFields |-> row[f]]
      /\ \A f \in TxnFields \ {"amount"} : row[f] = t[f]
      /\ row.minorUnits = t.amount.minor /\ row.currency = t.amount.currency
  BY <1>1, TxnRowIs
<1>6. /\ newRow = [f \in RowFields |-> newRow[f]]
      /\ \A f \in TxnFields \ {"amount"} : newRow[f] = new[f]
      /\ newRow.minorUnits = new.amount.minor /\ newRow.currency = new.amount.currency
  BY <1>2, TxnRowIs
<1>. HIDE DEF row, newRow
<1>7. [row EXCEPT !.removed = v] = [f \in RowFields |-> IF f = "removed" THEN v ELSE row[f]]
  BY <1>5 DEF RowFields
<1>8. \A f \in RowFields : newRow[f] = (IF f = "removed" THEN v ELSE row[f])
  <2>1. newRow.removed = v
    BY <1>2, <1>6 DEF TxnFields
  <2>2. \A f \in TxnFields \ {"amount", "removed"} : newRow[f] = row[f]
    BY <1>2, <1>5, <1>6
  <2>3. newRow.minorUnits = row.minorUnits /\ newRow.currency = row.currency
    BY <1>3, <1>5, <1>6
  <2>4. RowFields = {"removed"} \cup (TxnFields \ {"amount", "removed"}) \cup {"minorUnits", "currency"}
    BY DEF RowFields, TxnFields
  <2>. QED
    BY <2>1, <2>2, <2>3, <2>4
<1>9. [row EXCEPT !.removed = v] = newRow
  BY <1>6, <1>7, <1>8
<1>. QED
  BY <1>3, <1>4, <1>9 DEF new, row, newRow

\* A row that is marked as removed.
Removed(t) == [t EXCEPT !.removed = TRUE]

LEMMA TxnRemoved ==
  ASSUME NEW id, NEW t, IsTxn(id, t)
  PROVE  /\ IsTxn(id, Removed(t)) /\ Removed(t).user = t.user /\ Removed(t).plaid = t.plaid
         /\ Removed(t).id = id
         /\ Removed(Db!TransactionCreateData(t)) = Db!TransactionCreateData(Removed(t))
<1>1. \A v : /\ IsTxn(id, [t EXCEPT !.removed = v]) /\ [t EXCEPT !.removed = v].user = t.user
             /\ [t EXCEPT !.removed = v].plaid = t.plaid /\ [t EXCEPT !.removed = v].id = id
             /\ [Db!TransactionCreateData(t) EXCEPT !.removed = v]
                  = Db!TransactionCreateData([t EXCEPT !.removed = v])
  BY TxnFlagged
<1>. QED
  BY <1>1, Zenon DEF Removed

\* TransactionRepo.softDeleteMany.
LEMMA RemovedAlike ==
  ASSUME NEW m, NEW d, StoresAlike(m, d), NEW user, NEW plaids
  PROVE  LET M == Memory!SoftDelete(m, user, plaids)
             D == Db!SoftDelete(d, user, plaids)
         IN StoresAlike(M.store, D.store) /\ M.answer = D.answer
<1>. DEFINE M == Memory!SoftDelete(m, user, plaids)
            D == Db!SoftDelete(d, user, plaids)
            gone == {t \in Range(m.byPlaid) : t.plaid \in plaids /\ t.user = user}
            byPlaid == [p \in DOMAIN m.byPlaid |->
                          IF m.byPlaid[p] \in gone THEN Removed(m.byPlaid[p]) ELSE m.byPlaid[p]]
            txns == Over(m.txns, [i \in {t.id : t \in gone} |->
                                    Removed(CHOOSE t \in gone : t.id = i)])
            rows == {IF r.user = user /\ r.plaid \in plaids THEN Removed(r) ELSE r : r \in d.txns}
            kept(i) == m.byPlaid[m.txns[i].plaid]
            hit(i) == kept(i).id = i /\ kept(i) \in gone
<1>1. /\ DOMAIN m = MemoryTables /\ DOMAIN d = DatabaseTables
      /\ TxnsAlike(m.txns, m.byPlaid, d.txns)
  BY DEF StoresAlike
<1>2. M.answer = Null /\ M.store = [m EXCEPT !.txns = txns, !.byPlaid = byPlaid]
  BY <1>1 DEF Memory!SoftDelete, Memory!Done, Memory!Over, Over, Memory!Range, Range, Removed,
              MemoryTables
<1>3. D.answer = Null /\ D.store = [d EXCEPT !.txns = rows]
  BY <1>1 DEF Db!SoftDelete, Db!UpdateMany, Db!Done, Removed, DatabaseTables
<1>4. \A i \in DOMAIN m.txns :
        /\ IsTxn(i, m.txns[i]) /\ m.txns[i].plaid \in DOMAIN m.byPlaid
        /\ TxnsUnique(m.txns) => kept(i) = m.txns[i]
  BY <1>1 DEF TxnsAlike
<1>5. \A p \in DOMAIN m.byPlaid :
        LET x == m.byPlaid[p]
        IN /\ IsTxn(x.id, x) /\ x.plaid = p
           /\ x.id \in DOMAIN m.txns /\ m.txns[x.id].plaid = p /\ m.txns[x.id].user = x.user
  BY <1>1 DEF TxnsAlike
<1>6. \A t \in gone : t.id \in DOMAIN m.txns /\ t = kept(t.id) /\ t.plaid \in DOMAIN m.byPlaid
  BY <1>5 DEF Range
<1>7. /\ DOMAIN txns = DOMAIN m.txns
      /\ \A i \in DOMAIN m.txns : txns[i] = IF hit(i) THEN Removed(kept(i)) ELSE m.txns[i]
  <2>1. {t.id : t \in gone} = {i \in DOMAIN m.txns : hit(i)}
    BY <1>6
  <2>2. \A i \in DOMAIN m.txns : hit(i) => (CHOOSE t \in gone : t.id = i) = kept(i)
    BY <1>6
  <2>. DEFINE ids == {t.id : t \in gone}
              marks == [i \in ids |-> Removed(CHOOSE t \in gone : t.id = i)]
  <2>3. DOMAIN marks = ids /\ \A i \in ids : marks[i] = Removed(kept(i))
    BY <2>1, <2>2
  <2>4. ids \subseteq DOMAIN m.txns /\ \A i \in DOMAIN m.txns : i \in ids <=> hit(i)
    BY <2>1
  <2>5. txns = Over(m.txns, marks)
    OBVIOUS
  <2>. HIDE DEF ids, marks, hit, kept, txns
  <2>. QED
    BY <2>3, <2>4, <2>5 DEF Over
<1>8. /\ DOMAIN byPlaid = DOMAIN m.byPlaid
      /\ \A p \in DOMAIN m.byPlaid :
           byPlaid[p] = IF m.byPlaid[p] \in gone THEN Removed(m.byPlaid[p]) ELSE m.byPlaid[p]
  OBVIOUS
<1>9. \A p \in DOMAIN m.byPlaid : m.byPlaid[p] \in gone <=> p \in plaids /\ m.byPlaid[p].user = user
  BY <1>5 DEF Range
<1>. HIDE DEF txns, byPlaid, gone
<1>10. \A i \in DOMAIN m.txns :
         /\ IsTxn(i, txns[i]) /\ txns[i].plaid = m.txns[i].plaid /\ txns[i].user = m.txns[i].user
  <2>1. TAKE i \in DOMAIN m.txns
  <2>2. CASE ~hit(i)
    BY <1>4, <1>7, <2>2
  <2>3. CASE hit(i)
    <3>1. IsTxn(i, kept(i)) /\ kept(i).plaid = m.txns[i].plaid /\ kept(i).user = m.txns[i].user
      BY <1>4, <1>5, <2>3
    <3>. HIDE DEF kept
    <3>. QED
      BY <1>7, <2>3, <3>1, TxnRemoved
  <2>. QED
    BY <2>2, <2>3
<1>11. \A p \in DOMAIN byPlaid :
         LET x == byPlaid[p]
         IN /\ IsTxn(x.id, x) /\ x.plaid = p
            /\ x.id \in DOMAIN txns /\ txns[x.id].plaid = p /\ txns[x.id].user = x.user
  <2>1. TAKE p \in DOMAIN byPlaid
  <2>. DEFINE old == m.byPlaid[p]
              x == byPlaid[p]
  <2>2. /\ IsTxn(old.id, old) /\ old.plaid = p
        /\ old.id \in DOMAIN m.txns /\ m.txns[old.id].plaid = p /\ m.txns[old.id].user = old.user
    BY <1>5, <1>8, <2>1
  <2>3. IsTxn(old.id, x) /\ x.id = old.id /\ x.plaid = p /\ x.user = old.user
    BY <1>8, <2>1, <2>2, TxnRemoved
  <2>. QED
    BY <1>7, <1>10, <2>2, <2>3
<1>12. TxnsUnique(txns) => TxnsUnique(m.txns)
  BY <1>7, <1>10 DEF TxnsUnique
<1>13. ASSUME TxnsUnique(txns)
       PROVE  /\ \A i \in DOMAIN txns : byPlaid[txns[i].plaid] = txns[i]
              /\ rows = {Db!TransactionCreateData(txns[i]) : i \in DOMAIN txns}
  <2>1. \A i \in DOMAIN m.txns : kept(i) = m.txns[i]
    BY <1>4, <1>12, <1>13
  <2>2. \A i \in DOMAIN m.txns : m.txns[i].id = i
    BY <1>4, TxnIs
  <2>3. \A i \in DOMAIN m.txns :
          hit(i) <=> m.txns[i].plaid \in plaids /\ m.txns[i].user = user
    BY <1>4, <1>9, <2>1, <2>2
  <2>4. \A i \in DOMAIN m.txns :
          txns[i] = IF hit(i) THEN Removed(m.txns[i]) ELSE m.txns[i]
    BY <1>7, <2>1
  <2>5. ASSUME NEW i \in DOMAIN txns PROVE byPlaid[txns[i].plaid] = txns[i]
    <3>1. txns[i].plaid = m.txns[i].plaid /\ m.txns[i].plaid \in DOMAIN m.byPlaid
      BY <1>4, <1>7, <1>10
    <3>2. m.byPlaid[m.txns[i].plaid] = m.txns[i]
      BY <1>7, <2>1
    <3>3. m.txns[i] \in gone <=> hit(i)
      BY <1>7, <1>9, <2>3, <3>1, <3>2
    <3>. QED
      BY <1>7, <1>8, <2>4, <3>1, <3>2, <3>3
  <2>6. d.txns = {Db!TransactionCreateData(m.txns[i]) : i \in DOMAIN m.txns}
    BY <1>1, <1>12, <1>13 DEF TxnsAlike
  <2>7. \A i \in DOMAIN m.txns :
          LET row == Db!TransactionCreateData(m.txns[i])
          IN row.user = m.txns[i].user /\ row.plaid = m.txns[i].plaid
    BY <1>4, TxnIs, TxnRowIs DEF TxnFields
  <2>8. \A i \in DOMAIN m.txns :
          Db!TransactionCreateData(txns[i])
            = IF hit(i) THEN Removed(Db!TransactionCreateData(m.txns[i]))
              ELSE Db!TransactionCreateData(m.txns[i])
    BY <1>4, <2>4, TxnRemoved
  <2>. HIDE DEF hit
  <2>9. \A r \in rows : \E i \in DOMAIN txns : r = Db!TransactionCreateData(txns[i])
    BY <1>7, <2>3, <2>6, <2>7, <2>8
  <2>10. ASSUME NEW i \in DOMAIN txns PROVE Db!TransactionCreateData(txns[i]) \in rows
    <3>1. Db!TransactionCreateData(m.txns[i]) \in d.txns
      BY <1>7, <2>6
    <3>. QED
      BY <1>7, <2>3, <2>7, <2>8, <3>1
  <2>. QED
    BY <2>5, <2>9, <2>10
<1>14. TxnsAlike(txns, byPlaid, rows)
  <2>1. Counted(txns)
    BY <1>1, <1>7 DEF TxnsAlike, Counted
  <2>2. \A i \in DOMAIN txns : IsTxn(i, txns[i]) /\ txns[i].plaid \in DOMAIN byPlaid
    BY <1>4, <1>7, <1>8, <1>10
  <2>. HIDE DEF rows
  <2>. QED
    BY <1>11, <1>13, <2>1, <2>2 DEF TxnsAlike
<1>15. /\ DOMAIN M.store = MemoryTables
       /\ \A x \in MemoryTables \ {"txns", "byPlaid"} : M.store[x] = m[x]
       /\ M.store.txns = txns /\ M.store.byPlaid = byPlaid
  <2>. HIDE DEF M
  <2>. QED
    BY <1>1, <1>2 DEF MemoryTables
<1>16. /\ DOMAIN D.store = DatabaseTables
       /\ \A x \in DatabaseTables \ {"txns"} : D.store[x] = d[x]
       /\ D.store.txns = rows
  <2>. HIDE DEF D, rows
  <2>. QED
    BY <1>1, <1>3 DEF DatabaseTables
<1>17. StoresAlike(M.store, D.store)
  <2>. HIDE DEF M, D, rows
  <2>. QED
    BY <1>7, <1>10, <1>14, <1>15, <1>16, TxnsFrame
<1>. QED
  BY <1>2, <1>3, <1>17

\* A set of numbers has a least one.
LEMMA LeastNumber ==
  ASSUME NEW N \in SUBSET Nat, N # {}
  PROVE  \E n \in N : \A i \in N : n <= i
<1>. DEFINE Less == {ij \in Nat \X Nat : ij[1] < ij[2]}
<1>1. \A i, j \in Nat : i < j => <<i, j>> \in Less
  OBVIOUS
<1>2. IsWellFoundedOn(Less, Nat)
  BY NatLessThanWellFounded DEF OpToRel
<1>. HIDE DEF Less
<1>3. PICK n \in N : \A i \in N : <<i, n>> \notin Less
  BY <1>2, WFMin
<1>4. ASSUME NEW i \in N
      PROVE  n <= i
  <2>1. ~(i < n)
    BY <1>1, <1>3
  <2>. QED
    BY <2>1
<1>. QED
  BY <1>4

\* How far a batch is: the store, what was new and whether a row made it throw.
Started(store) == [store |-> store, new |-> << >>, thrown |-> FALSE]

UpsertOneOf(inMemory, sofar, user, t) ==
    IF inMemory THEN Memory!UpsertOne(sofar, user, t) ELSE Db!UpsertOne(sofar, user, t)

IsRun(g, inMemory, store, user, txns) ==
    g = [i \in 0 .. Len(txns) |->
            IF i = 0 THEN Started(store) ELSE UpsertOneOf(inMemory, g[i - 1], user, txns[i])]

\* There is such a function: it is found up to a place after the place before it.
LEMMA ARun ==
  ASSUME NEW inMemory, NEW store, NEW user, NEW txns, Len(txns) \in Nat
  PROVE  \E g : IsRun(g, inMemory, store, user, txns)
<1>. DEFINE At(g, i) == IF i = 0 THEN Started(store) ELSE UpsertOneOf(inMemory, g[i - 1], user, txns[i])
            Found(n) == \E g : \A i \in 0 .. n : g[i] = At(g, i)
            Lost == {n \in Nat : ~Found(n)}
<1>1. Lost = {}
  <2>. SUFFICES ASSUME Lost # {}
                PROVE  FALSE
    OBVIOUS
  <2>1. PICK n \in Lost : \A i \in Lost : n <= i
    <3>1. Lost \in SUBSET Nat
      OBVIOUS
    <3>. HIDE DEF Lost
    <3>. QED
      BY <3>1, LeastNumber
  <2>2. CASE n = 0
    <3>1. \A i \in 0 .. n : [j \in 0 .. n |-> Started(store)][i] = At([j \in 0 .. n |-> Started(store)], i)
      BY <2>2
    <3>. QED
      BY <2>1, <3>1
  <2>3. CASE n # 0
    <3>1. n \in Nat /\ n - 1 \in Nat /\ n - 1 \notin Lost
      <4>1. n \in Nat
        BY <2>1
      <4>. HIDE DEF Lost
      <4>2. n - 1 \in Nat /\ ~(n <= n - 1)
        BY <2>3, <4>1
      <4>. QED
        BY <2>1, <4>1, <4>2
    <3>2. PICK g : \A i \in 0 .. n - 1 : g[i] = At(g, i)
      BY <3>1
    <3>. DEFINE h == [i \in 0 .. n |-> At(g, i)]
    <3>3. ASSUME NEW i \in 0 .. n
          PROVE  h[i] = At(h, i)
      <4>1. CASE i = 0
        BY <4>1
      <4>2. CASE i # 0
        <5>1. i - 1 \in 0 .. n - 1 /\ i - 1 \in 0 .. n
          BY <3>1, <4>2
        <5>2. h[i - 1] = g[i - 1]
          BY <3>2, <5>1
        <5>3. h[i] = UpsertOneOf(inMemory, g[i - 1], user, txns[i])
          BY <4>2
        <5>. QED
          BY <4>2, <5>2, <5>3
      <4>. QED
        BY <4>1, <4>2
    <3>. HIDE DEF h, At
    <3>4. Found(n)
      BY <3>3
    <3>. QED
      BY <2>1, <3>4
  <2>. QED
    BY <2>2, <2>3
<1>2. PICK g : \A i \in 0 .. Len(txns) : g[i] = At(g, i)
  <2>1. Found(Len(txns))
    BY <1>1
  <2>. HIDE DEF At
  <2>. QED
    BY <2>1
<1>. DEFINE h == [i \in 0 .. Len(txns) |-> g[i]]
<1>3. \A i \in 0 .. Len(txns) : h[i] = At(h, i)
  <2>1. TAKE i \in 0 .. Len(txns)
  <2>2. i # 0 => i - 1 \in 0 .. Len(txns)
    OBVIOUS
  <2>. QED
    BY <1>2, <2>2
<1>4. h = [i \in 0 .. Len(txns) |-> At(h, i)]
  <2>. HIDE DEF At
  <2>1. h = [i \in 0 .. Len(txns) |-> h[i]]
    OBVIOUS
  <2>. QED
    BY <1>3, <2>1
<1>5. IsRun(h, inMemory, store, user, txns)
  <2>. HIDE DEF h
  <2>. QED
    BY <1>4 DEF IsRun
<1>. QED
  BY <1>5

MemoryRun(store, user, txns) ==
    CHOOSE g : g = [i \in 0 .. Len(txns) |->
                      IF i = 0 THEN [store |-> store, new |-> << >>, thrown |-> FALSE]
                      ELSE Memory!UpsertOne(g[i - 1], user, txns[i])]

DatabaseRun(store, user, txns) ==
    CHOOSE g : g = [i \in 0 .. Len(txns) |->
                      IF i = 0 THEN [store |-> store, new |-> << >>, thrown |-> FALSE]
                      ELSE Db!UpsertOne(g[i - 1], user, txns[i])]

\* A batch in memory, row after row.
LEMMA MemoryRuns ==
  ASSUME NEW store, NEW user, NEW txns, Len(txns) \in Nat
  PROVE  LET g == MemoryRun(store, user, txns)
         IN /\ g[0] = Started(store)
            /\ \A i \in 1 .. Len(txns) : g[i] = Memory!UpsertOne(g[i - 1], user, txns[i])
            /\ Memory!UpsertMany(store, user, txns).store = g[Len(txns)].store
            /\ Memory!UpsertMany(store, user, txns).answer
                 = IF g[Len(txns)].thrown THEN Null ELSE g[Len(txns)].new
<1>. DEFINE g == MemoryRun(store, user, txns)
            Is(h) == h = [i \in 0 .. Len(txns) |->
                            IF i = 0 THEN [store |-> store, new |-> << >>, thrown |-> FALSE]
                            ELSE Memory!UpsertOne(h[i - 1], user, txns[i])]
<1>1. \E h : Is(h)
  <2>1. PICK h : IsRun(h, TRUE, store, user, txns)
    BY ARun
  <2>2. Is(h)
    BY <2>1 DEF IsRun, UpsertOneOf, Started
  <2>. QED
    BY <2>2
<1>2. Is(g)
  <2>1. g = CHOOSE h : Is(h)
    BY DEF MemoryRun
  <2>. HIDE DEF g, Is
  <2>. QED
    BY <1>1, <2>1
<1>3. Memory!UpsertMany(store, user, txns)
        = Memory!Done(g[Len(txns)].store, IF g[Len(txns)].thrown THEN Null ELSE g[Len(txns)].new)
  BY DEF Memory!UpsertMany, MemoryRun
<1>. HIDE DEF g
<1>. DEFINE At(i) == IF i = 0 THEN Started(store) ELSE Memory!UpsertOne(g[i - 1], user, txns[i])
<1>4. \A i \in 0 .. Len(txns) : g[i] = At(i)
  <2>1. g = [i \in 0 .. Len(txns) |-> At(i)]
    BY <1>2 DEF Started
  <2>. HIDE DEF At
  <2>. QED
    BY <2>1
<1>5. g[0] = Started(store) /\ \A i \in 1 .. Len(txns) : g[i] = Memory!UpsertOne(g[i - 1], user, txns[i])
  <2>1. \A i \in 1 .. Len(txns) : i \in 0 .. Len(txns) /\ i # 0
    OBVIOUS
  <2>. QED
    BY <1>4, <2>1
<1>. QED
  BY <1>3, <1>5 DEF Memory!Done, g

\* A batch in the database, row after row.
LEMMA DatabaseRuns ==
  ASSUME NEW store, NEW user, NEW txns, Len(txns) \in Nat
  PROVE  LET g == DatabaseRun(store, user, txns)
         IN /\ g[0] = Started(store)
            /\ \A i \in 1 .. Len(txns) : g[i] = Db!UpsertOne(g[i - 1], user, txns[i])
            /\ Db!UpsertMany(store, user, txns).store = g[Len(txns)].store
            /\ Db!UpsertMany(store, user, txns).answer
                 = IF g[Len(txns)].thrown THEN Null ELSE g[Len(txns)].new
<1>. DEFINE g == DatabaseRun(store, user, txns)
            Is(h) == h = [i \in 0 .. Len(txns) |->
                            IF i = 0 THEN [store |-> store, new |-> << >>, thrown |-> FALSE]
                            ELSE Db!UpsertOne(h[i - 1], user, txns[i])]
<1>1. \E h : Is(h)
  <2>1. PICK h : IsRun(h, FALSE, store, user, txns)
    BY ARun
  <2>2. Is(h)
    BY <2>1 DEF IsRun, UpsertOneOf, Started
  <2>. QED
    BY <2>2
<1>2. Is(g)
  <2>1. g = CHOOSE h : Is(h)
    BY DEF DatabaseRun
  <2>. HIDE DEF g, Is
  <2>. QED
    BY <1>1, <2>1
<1>3. Db!UpsertMany(store, user, txns)
        = Db!Done(g[Len(txns)].store, IF g[Len(txns)].thrown THEN Null ELSE g[Len(txns)].new)
  BY DEF Db!UpsertMany, DatabaseRun
<1>. HIDE DEF g
<1>. DEFINE At(i) == IF i = 0 THEN Started(store) ELSE Db!UpsertOne(g[i - 1], user, txns[i])
<1>4. \A i \in 0 .. Len(txns) : g[i] = At(i)
  <2>1. g = [i \in 0 .. Len(txns) |-> At(i)]
    BY <1>2 DEF Started
  <2>. HIDE DEF At
  <2>. QED
    BY <2>1
<1>5. g[0] = Started(store) /\ \A i \in 1 .. Len(txns) : g[i] = Db!UpsertOne(g[i - 1], user, txns[i])
  <2>1. \A i \in 1 .. Len(txns) : i \in 0 .. Len(txns) /\ i # 0
    OBVIOUS
  <2>. QED
    BY <1>4, <2>1
<1>. QED
  BY <1>3, <1>5 DEF Db!Done, g

\* One transaction of a batch, new under its id.
LEMMA TxnUpserted ==
  ASSUME NEW m, NEW d, StoresAlike(m, d), NEW k \in Nat, DOMAIN m.txns = 1 .. k,
         NEW t, IsTxn(k + 1, t), NEW m2, NEW d2,
         DOMAIN m2 = MemoryTables, DOMAIN d2 = DatabaseTables,
         \A x \in MemoryTables \ {"txns", "byPlaid"} : m2[x] = m[x],
         \A x \in DatabaseTables \ {"txns"} : d2[x] = d[x],
         m2.txns = Put(m.txns, k + 1, t), m2.byPlaid = Put(m.byPlaid, t.plaid, t),
         ~(\E r \in d.txns : r.plaid = t.plaid) =>
             d2.txns = d.txns \cup {Db!TransactionCreateData(t)}
  PROVE  /\ StoresAlike(m2, d2) /\ DOMAIN m2.txns = 1 .. k + 1
         /\ TxnsUnique(m2.txns) => /\ TxnsUnique(m.txns) /\ t.plaid \notin DOMAIN m.byPlaid
                                   /\ ~(\E r \in d.txns : r.plaid = t.plaid)
<1>. DEFINE txns == m2.txns
            byPlaid == m2.byPlaid
            p == t.plaid
<1>1. TxnsAlike(m.txns, m.byPlaid, d.txns)
  BY DEF StoresAlike
<1>2. t.id = k + 1 /\ DOMAIN t = TxnFields
  BY TxnIs
<1>3. /\ DOMAIN txns = 1 .. k + 1 /\ txns[k + 1] = t
      /\ \A i \in DOMAIN m.txns : i # k + 1 /\ txns[i] = m.txns[i]
  <2>1. (1 .. k) \cup {k + 1} = 1 .. k + 1 /\ \A i \in 1 .. k : i # k + 1
    OBVIOUS
  <2>2. txns = [i \in (1 .. k) \cup {k + 1} |-> IF i = k + 1 THEN t ELSE m.txns[i]]
    BY DEF Put
  <2>. HIDE DEF txns
  <2>3. DOMAIN txns = 1 .. k + 1
    BY <2>1, <2>2
  <2>4. \A i \in (1 .. k) \cup {k + 1} : txns[i] = IF i = k + 1 THEN t ELSE m.txns[i]
    BY <2>2
  <2>. QED
    BY <2>1, <2>3, <2>4
<1>4. /\ DOMAIN byPlaid = DOMAIN m.byPlaid \cup {p} /\ byPlaid[p] = t
      /\ \A q \in DOMAIN m.byPlaid : q # p => byPlaid[q] = m.byPlaid[q]
  BY DEF Put
<1>5. DOMAIN txns = DOMAIN m.txns \cup {k + 1}
  <2>1. (1 .. k) \cup {k + 1} = 1 .. k + 1
    OBVIOUS
  <2>. HIDE DEF txns
  <2>. QED
    BY <1>3, <2>1
<1>. HIDE DEF txns, byPlaid, p
<1>6. \A i \in DOMAIN txns : IsTxn(i, txns[i]) /\ txns[i].plaid \in DOMAIN byPlaid
  BY <1>1, <1>3, <1>4, <1>5 DEF TxnsAlike, p
<1>7. \A q \in DOMAIN byPlaid :
        LET x == byPlaid[q]
        IN /\ IsTxn(x.id, x) /\ x.plaid = q
           /\ x.id \in DOMAIN txns /\ txns[x.id].plaid = q /\ txns[x.id].user = x.user
  <2>1. TAKE q \in DOMAIN byPlaid
  <2>2. CASE q = p
    BY <1>2, <1>3, <1>4, <1>5, <2>2 DEF p
  <2>3. CASE q # p
    BY <1>1, <1>3, <1>4, <1>5, <2>1, <2>3 DEF TxnsAlike
  <2>. QED
    BY <2>2, <2>3
<1>8. ASSUME TxnsUnique(txns)
      PROVE  /\ TxnsUnique(m.txns) /\ p \notin DOMAIN m.byPlaid
             /\ \A i \in DOMAIN m.txns : m.txns[i].plaid # p
  <2>1. TxnsUnique(m.txns)
    BY <1>3, <1>5, <1>8 DEF TxnsUnique
  <2>2. \A i \in DOMAIN m.txns : m.txns[i].plaid # p
    BY <1>3, <1>5, <1>8 DEF TxnsUnique, p
  <2>3. p \notin DOMAIN m.byPlaid
    BY <1>1, <2>2 DEF TxnsAlike
  <2>. QED
    BY <2>1, <2>2, <2>3
<1>9. ASSUME TxnsUnique(txns)
      PROVE  /\ \A i \in DOMAIN txns : byPlaid[txns[i].plaid] = txns[i]
             /\ d2.txns = {Db!TransactionCreateData(txns[i]) : i \in DOMAIN txns}
             /\ ~(\E r \in d.txns : r.plaid = p)
  <2>1. /\ \A i \in DOMAIN m.txns : m.byPlaid[m.txns[i].plaid] = m.txns[i]
        /\ d.txns = {Db!TransactionCreateData(m.txns[i]) : i \in DOMAIN m.txns}
        /\ \A i \in DOMAIN m.txns : m.txns[i].plaid \in DOMAIN m.byPlaid
    BY <1>1, <1>8, <1>9 DEF TxnsAlike
  <2>2. \A i \in DOMAIN txns : byPlaid[txns[i].plaid] = txns[i]
    <3>1. \A i \in DOMAIN m.txns : byPlaid[txns[i].plaid] = txns[i]
      BY <1>3, <1>4, <1>8, <1>9, <2>1
    <3>. QED
      BY <1>3, <1>4, <1>5, <3>1 DEF p
  <2>3. \A i \in DOMAIN m.txns : Db!TransactionCreateData(m.txns[i]).plaid = m.txns[i].plaid
    <3>1. TAKE i \in DOMAIN m.txns
    <3>2. DOMAIN m.txns[i] = TxnFields
      BY <1>1, TxnIs DEF TxnsAlike
    <3>. DEFINE x == m.txns[i]
    <3>3. \A f \in TxnFields \ {"amount"} : Db!TransactionCreateData(x)[f] = x[f]
      <4>. HIDE DEF x
      <4>1. DOMAIN x = TxnFields
        BY <3>2 DEF x
      <4>. QED
        BY <4>1, TxnRowIs
    <3>. QED
      BY <3>3 DEF TxnFields
  <2>4. ~(\E r \in d.txns : r.plaid = p)
    BY <1>8, <1>9, <2>1, <2>3
  <2>5. d2.txns = d.txns \cup {Db!TransactionCreateData(t)}
    BY <2>4 DEF p
  <2>6. d2.txns = {Db!TransactionCreateData(txns[i]) : i \in DOMAIN txns}
    BY <1>3, <1>5, <2>1, <2>5
  <2>. QED
    BY <2>2, <2>4, <2>6
<1>10. TxnsAlike(txns, byPlaid, d2.txns)
  <2>1. Counted(txns)
    BY <1>3 DEF Counted
  <2>. QED
    BY <1>6, <1>7, <1>9, <2>1 DEF TxnsAlike
<1>11. \A i \in DOMAIN m.txns : i \in DOMAIN txns /\ txns[i].user = m.txns[i].user
  BY <1>3, <1>5
<1>12. StoresAlike(m2, d2)
  BY <1>10, <1>11, TxnsFrame DEF txns, byPlaid
<1>. QED
  BY <1>3, <1>8, <1>9, <1>12 DEF txns, byPlaid, p

\* How far the two are with the same batch: k rows are there unless it threw.
Sofar(a, b, k) ==
    /\ DOMAIN a = {"store", "new", "thrown"} /\ DOMAIN b = {"store", "new", "thrown"}
    /\ StoresAlike(a.store, b.store)
    /\ a.thrown \in BOOLEAN /\ b.thrown = a.thrown
    /\ ~a.thrown => DOMAIN a.store.txns = 1 .. k
    /\ ~a.thrown /\ TxnsUnique(a.store.txns) => a.new = b.new

\* The next row of a batch keeps the two as far as each other.
LEMMA OneUpserted ==
  ASSUME NEW a, NEW b, NEW k \in Nat, Sofar(a, b, k), NEW user, NEW t, IsTxn(k + 1, t)
  PROVE  Sofar(Memory!UpsertOne(a, user, t), Db!UpsertOne(b, user, t), k + 1)
<1>. DEFINE A == Memory!UpsertOne(a, user, t)
            B == Db!UpsertOne(b, user, t)
            m == a.store
            d == b.store
            held == \E r \in d.txns : r.plaid = t.plaid
<1>1. CASE a.thrown \/ t.user # user
  <2>1. A = [a EXCEPT !.thrown = TRUE] /\ B = [b EXCEPT !.thrown = TRUE]
    BY <1>1 DEF Sofar, Memory!UpsertOne, Db!UpsertOne
  <2>2. /\ DOMAIN A = {"store", "new", "thrown"} /\ DOMAIN B = {"store", "new", "thrown"}
        /\ A.store = a.store /\ B.store = b.store /\ A.thrown = TRUE /\ B.thrown = TRUE
    <3>. HIDE DEF A, B
    <3>. QED
      BY <2>1 DEF Sofar
  <2>. HIDE DEF A, B
  <2>3. Sofar(A, B, k + 1)
    BY <2>2 DEF Sofar
  <2>. QED
    BY <2>3 DEF A, B
<1>2. CASE ~(a.thrown \/ t.user # user)
  <2>. DEFINE txns == Put(m.txns, t.id, t)
              byPlaid == Put(m.byPlaid, t.plaid, t)
              m2 == [m EXCEPT !.byPlaid = byPlaid, !.txns = txns]
              d2 == [d EXCEPT !.txns = @ \cup {Db!TransactionCreateData(t)}]
  <2>1. A = [store |-> m2, new |-> IF t.plaid \in DOMAIN m.byPlaid THEN a.new ELSE Append(a.new, t.id),
             thrown |-> FALSE]
    BY <1>2 DEF Memory!UpsertOne, Memory!Put, Put
  <2>2. /\ held => B = b
        /\ ~held => B = [store |-> d2, new |-> Append(b.new, t.id), thrown |-> FALSE]
    BY <1>2 DEF Sofar, Db!UpsertOne
  <2>3. DOMAIN m = MemoryTables /\ DOMAIN d = DatabaseTables
    BY DEF Sofar, StoresAlike
  <2>4. t.id = k + 1
    BY TxnIs
  <2>5. /\ DOMAIN m2 = MemoryTables
        /\ \A x \in MemoryTables \ {"txns", "byPlaid"} : m2[x] = m[x]
        /\ m2.txns = Put(m.txns, k + 1, t) /\ m2.byPlaid = Put(m.byPlaid, t.plaid, t)
    <3>. HIDE DEF m, txns, byPlaid
    <3>1. DOMAIN m2 = MemoryTables /\ m2.txns = txns /\ m2.byPlaid = byPlaid
      BY <2>3 DEF MemoryTables
    <3>2. \A x \in MemoryTables \ {"txns", "byPlaid"} : m2[x] = m[x]
      BY <2>3 DEF MemoryTables
    <3>. QED
      BY <2>4, <3>1, <3>2 DEF txns, byPlaid
  <2>6. /\ DOMAIN A = {"store", "new", "thrown"} /\ A.store = m2 /\ A.thrown = FALSE
        /\ t.plaid \notin DOMAIN m.byPlaid => A.new = Append(a.new, t.id)
    <3>. HIDE DEF A, m2, m
    <3>. QED
      BY <2>1
  <2>7. /\ DOMAIN B = {"store", "new", "thrown"} /\ B.thrown = FALSE
        /\ held => B.store = d
        /\ ~held => B.store = d2 /\ B.new = Append(b.new, t.id)
    <3>. HIDE DEF B, d2, held
    <3>. QED
      BY <1>2, <2>2 DEF Sofar
  <2>8. /\ DOMAIN B.store = DatabaseTables
        /\ \A x \in DatabaseTables \ {"txns"} : B.store[x] = d[x]
        /\ ~held => B.store.txns = d.txns \cup {Db!TransactionCreateData(t)}
    <3>. HIDE DEF B, d, held
    <3>. QED
      BY <2>3, <2>7 DEF DatabaseTables
  <2>. HIDE DEF A, B, m2, d2
  <2>9. StoresAlike(m, d) /\ DOMAIN m.txns = 1 .. k
    BY <1>2 DEF Sofar
  <2>. HIDE DEF m, d
  <2>10. /\ StoresAlike(A.store, B.store) /\ DOMAIN A.store.txns = 1 .. k + 1
         /\ TxnsUnique(A.store.txns) => /\ TxnsUnique(m.txns) /\ t.plaid \notin DOMAIN m.byPlaid
                                        /\ ~held
    <3>. DEFINE m3 == A.store
                d3 == B.store
    <3>1. /\ DOMAIN m3 = MemoryTables /\ DOMAIN d3 = DatabaseTables
          /\ \A x \in MemoryTables \ {"txns", "byPlaid"} : m3[x] = m[x]
          /\ \A x \in DatabaseTables \ {"txns"} : d3[x] = d[x]
          /\ m3.txns = Put(m.txns, k + 1, t) /\ m3.byPlaid = Put(m.byPlaid, t.plaid, t)
          /\ ~held => d3.txns = d.txns \cup {Db!TransactionCreateData(t)}
      BY <2>5, <2>6, <2>8
    <3>. HIDE DEF m3, d3
    <3>2. /\ StoresAlike(m3, d3) /\ DOMAIN m3.txns = 1 .. k + 1
          /\ TxnsUnique(m3.txns) => /\ TxnsUnique(m.txns) /\ t.plaid \notin DOMAIN m.byPlaid
                                    /\ ~held
      BY <2>9, <3>1, TxnUpserted
    <3>. QED
      BY <3>2 DEF m3, d3
  <2>11. TxnsUnique(A.store.txns) => A.new = B.new
    <3>1. TxnsUnique(m.txns) => a.new = b.new
      BY <1>2 DEF Sofar, m
    <3>. QED
      BY <2>6, <2>7, <2>10, <3>1
  <2>12. Sofar(A, B, k + 1)
    BY <2>6, <2>7, <2>10, <2>11 DEF Sofar
  <2>. QED
    BY <2>12 DEF A, B
<1>. QED
  BY <1>1, <1>2

\* A batch, each of its rows with the next number.
LEMMA ManyAlike ==
  ASSUME NEW m, NEW d, StoresAlike(m, d), NEW k \in Nat, DOMAIN m.txns = 1 .. k,
         NEW user, NEW txns, Len(txns) \in Nat,
         \A i \in 1 .. Len(txns) : IsTxn(k + i, txns[i])
  PROVE  LET M == Memory!UpsertMany(m, user, txns)
             D == Db!UpsertMany(d, user, txns)
         IN StoresAlike(M.store, D.store) /\ (TxnsUnique(M.store.txns) => M.answer = D.answer)
<1>. DEFINE g == MemoryRun(m, user, txns)
            h == DatabaseRun(d, user, txns)
            Apart == {i \in 0 .. Len(txns) : ~Sofar(g[i], h[i], k + i)}
            M == Memory!UpsertMany(m, user, txns)
            D == Db!UpsertMany(d, user, txns)
<1>1. /\ g[0] = Started(m)
      /\ \A i \in 1 .. Len(txns) : g[i] = Memory!UpsertOne(g[i - 1], user, txns[i])
      /\ M.store = g[Len(txns)].store
      /\ M.answer = IF g[Len(txns)].thrown THEN Null ELSE g[Len(txns)].new
  BY MemoryRuns
<1>2. /\ h[0] = Started(d)
      /\ \A i \in 1 .. Len(txns) : h[i] = Db!UpsertOne(h[i - 1], user, txns[i])
      /\ D.store = h[Len(txns)].store
      /\ D.answer = IF h[Len(txns)].thrown THEN Null ELSE h[Len(txns)].new
  BY DatabaseRuns
<1>. HIDE DEF g, h, M, D
<1>3. Apart = {}
  <2>. SUFFICES ASSUME Apart # {}
                PROVE  FALSE
    OBVIOUS
  <2>1. Apart \in SUBSET Nat
    OBVIOUS
  <2>. HIDE DEF Apart
  <2>2. PICK i \in Apart : \A j \in Apart : i <= j
    BY <2>1, LeastNumber
  <2>3. i \in 0 .. Len(txns) /\ ~Sofar(g[i], h[i], k + i)
    BY <2>2 DEF Apart
  <2>4. CASE i = 0
    <3>1. Sofar(Started(m), Started(d), k)
      BY DEF Sofar, Started
    <3>. QED
      BY <1>1, <1>2, <2>3, <2>4, <3>1
  <2>5. CASE i # 0
    <3>1. i \in 1 .. Len(txns) /\ i - 1 \in 0 .. Len(txns) /\ k + (i - 1) \in Nat
          /\ k + (i - 1) + 1 = k + i /\ ~(i <= i - 1)
      BY <2>3, <2>5
    <3>2. Sofar(g[i - 1], h[i - 1], k + (i - 1))
      BY <2>2, <3>1 DEF Apart
    <3>3. IsTxn(k + (i - 1) + 1, txns[i])
      BY <3>1
    <3>4. Sofar(Memory!UpsertOne(g[i - 1], user, txns[i]), Db!UpsertOne(h[i - 1], user, txns[i]),
                k + (i - 1) + 1)
      BY <3>1, <3>2, <3>3, OneUpserted
    <3>. QED
      BY <1>1, <1>2, <2>3, <3>1, <3>4
  <2>. QED
    BY <2>4, <2>5
<1>4. Sofar(g[Len(txns)], h[Len(txns)], k + Len(txns))
  BY <1>3
<1>5. StoresAlike(M.store, D.store) /\ (TxnsUnique(M.store.txns) => M.answer = D.answer)
  BY <1>1, <1>2, <1>4 DEF Sofar
<1>. QED
  BY <1>5 DEF M, D

-----------------------------------------------------------------------------
\* Both start alike, empty or with the same rows.
LEMMA EmptyAlike == StoresAlike(EmptyMemory, EmptyDatabase)
<1>. DEFINE none == << >>
<1>1. DOMAIN none = {} /\ Range(none) = {} /\ none \in Seq({}) /\ 1 .. 0 = {}
  BY DEF Range
<1>2. EntitiesAlike(SeedUsers, Range(SeedUsers)) /\ EntitiesAlike(SeedItems, Range(SeedItems))
  BY DEF EntitiesAlike, SeedUsers, SeedItems
<1>. DEFINE m == EmptyMemory
            d == EmptyDatabase
<1>3. /\ DOMAIN m = MemoryTables /\ m.users = SeedUsers /\ m.items = SeedItems
      /\ \A t \in MemoryTables \ {"users", "items"} : m[t] = none
  BY DEF EmptyMemory, Memory!Empty, MemoryTables
<1>4. /\ DOMAIN d = DatabaseTables /\ d.users = Range(SeedUsers) /\ d.items = Range(SeedItems)
      /\ \A t \in DatabaseTables \ {"users", "items"} : d[t] = {}
  BY DEF EmptyDatabase, Db!Empty, DatabaseTables
<1>. HIDE DEF none, m, d
<1>5. Counted(none)
  BY <1>1 DEF Counted
<1>6. TxnsAlike(none, none, {}) /\ MerchantsAlike(none, {}) /\ BaselinesAlike(none, {})
  BY <1>1, <1>5 DEF TxnsAlike, MerchantsAlike, BaselinesAlike, TxnsUnique
<1>7. SentAlike(none, {}) /\ ReportsAlike(none, {})
  BY <1>1 DEF SentAlike, ReportsAlike, Listing, ReportsUnique
<1>8. AccountsAlike(none, none, none, {}) /\ MessagesAlike(none, none, none, {})
  BY <1>1, <1>5 DEF AccountsAlike, MessagesAlike, AccountsUnique
<1>9. ReceiptsAlike(none, {}) /\ LinksAlike(none, none, none, none, {})
  BY <1>1, <1>5 DEF ReceiptsAlike, LinksAlike, ReceiptsUnique
<1>10. StoresAlike(m, d)
  <2>1. /\ m.txns = none /\ m.byPlaid = none /\ m.merchants = none /\ m.baselines = none
        /\ m.digests = none /\ m.reports = none /\ m.anomalies = none /\ m.accounts = none
        /\ m.byAddress = none /\ m.tokens = none /\ m.messages = none /\ m.byGmail = none
        /\ m.receipts = none /\ m.linkOfTxn = none /\ m.linkOfReceipt = none
    BY <1>3 DEF MemoryTables
  <2>2. /\ d.txns = {} /\ d.merchants = {} /\ d.baselines = {} /\ d.digests = {}
        /\ d.reports = {} /\ d.anomalies = {} /\ d.accounts = {} /\ d.messages = {}
        /\ d.receipts = {} /\ d.links = {}
    BY <1>4 DEF DatabaseTables
  <2>. QED
    BY <1>2, <1>3, <1>4, <1>6, <1>7, <1>8, <1>9, <2>1, <2>2 DEF StoresAlike
<1>. QED
  BY <1>10 DEF m, d

LEMMA FirstIsOne ==
  ASSUME NEW map, DOMAIN map = {}
  PROVE  Fresh(map) = 1
  BY FS_EmptySet DEF Fresh

\* The seeded stores come from the empty ones by three calls.
LEMMA SeededAlike == StoresAlike(SeededMemory, SeededDatabase)
<1>. DEFINE m0 == EmptyMemory
            d0 == EmptyDatabase
            user == Seed.user
            m1 == Memory!CreateAccount(m0, 1, user, Seed.address, "t1").store
            d1 == Db!CreateAccount(d0, 1, user, Seed.address, "t1").store
            m2 == Memory!UpsertSeen(m1, 1, user, 1, Seed.gmail).store
            d2 == Db!UpsertSeen(d1, 1, user, 1, Seed.gmail).store
<1>1. /\ DOMAIN m0 = MemoryTables /\ DOMAIN m0.accounts = {} /\ DOMAIN m0.messages = {}
      /\ DOMAIN m0.txns = {}
  BY DEF EmptyMemory, Memory!Empty, MemoryTables
<1>2. StoresAlike(m0, d0)
  BY EmptyAlike
<1>. HIDE DEF m0, d0
<1>3. StoresAlike(m1, d1)
  <2>1. Fresh(m0.accounts) = 1
    BY <1>1, FirstIsOne
  <2>2. /\ Seed.address = [name |-> Seed.address.name, upper |-> Seed.address.upper]
        /\ Seed.address.upper \in BOOLEAN
    BY RowsAssumption
  <2>3. LET M == Memory!CreateAccount(m0, Fresh(m0.accounts), user, Seed.address, "t1")
            D == Db!CreateAccount(d0, Fresh(m0.accounts), user, Seed.address, "t1")
        IN StoresAlike(M.store, D.store)
    <3>. HIDE DEF user
    <3>. QED
      BY <1>2, <2>2, AccountCreated
  <2>. QED
    BY <2>1, <2>3
<1>4. /\ 1 \in DOMAIN m1.accounts /\ m1.accounts[1].user = user
      /\ m1.messages = m0.messages /\ m1.txns = m0.txns
  <2>. DEFINE account == [id |-> 1, user |-> user, address |-> Seed.address, status |-> "active",
                          history |-> Null, watch |-> Null]
              accounts == Put(m0.accounts, 1, account)
              tokens == Put(m0.tokens, 1, "t1")
              byAddress == Put(m0.byAddress, Memory!Lower(Seed.address), 1)
  <2>1. m1 = [m0 EXCEPT !.accounts = accounts, !.tokens = tokens, !.byAddress = byAddress]
    BY DEF Memory!CreateAccount, Memory!Done, Memory!Put, Put
  <2>2. 1 \in DOMAIN accounts /\ accounts[1] = account /\ account.user = user
    BY DEF Put
  <2>. HIDE DEF m1, accounts, tokens, byAddress, account, user
  <2>3. m1.accounts = accounts /\ m1.messages = m0.messages /\ m1.txns = m0.txns
    BY <1>1, <2>1 DEF MemoryTables
  <2>. QED
    BY <2>2, <2>3
<1>. HIDE DEF m1, d1
<1>5. StoresAlike(m2, d2)
  <2>1. Fresh(m1.messages) = 1
    BY <1>1, <1>4, FirstIsOne
  <2>2. LET M == Memory!UpsertSeen(m1, Fresh(m1.messages), m1.accounts[1].user, 1, Seed.gmail)
            D == Db!UpsertSeen(d1, Fresh(m1.messages), m1.accounts[1].user, 1, Seed.gmail)
        IN StoresAlike(M.store, D.store)
    BY <1>3, <1>4, SeenAlike
  <2>. QED
    BY <1>4, <2>1, <2>2
<1>6. m2.txns = m0.txns
  <2>. DEFINE key == <<user, 1, Seed.gmail>>
              message == [id |-> 1, user |-> user, account |-> 1, gmail |-> Seed.gmail,
                          status |-> "seen", reason |-> Null, kind |-> Null]
              messages == Put(m1.messages, 1, message)
              byGmail == Put(m1.byGmail, key, 1)
  <2>1. m2 = m1 \/ m2 = [m1 EXCEPT !.messages = messages, !.byGmail = byGmail]
    BY DEF Memory!UpsertSeen, Memory!Done, Memory!Put, Put
  <2>2. DOMAIN m1 = MemoryTables
    BY <1>3 DEF StoresAlike
  <2>. HIDE DEF m2, messages, byGmail
  <2>. QED
    BY <1>4, <2>1, <2>2 DEF MemoryTables
<1>. HIDE DEF m2, d2
<1>7. LET txns == <<Seed.txn>>
          M == Memory!UpsertMany(m2, user, txns)
          D == Db!UpsertMany(d2, user, txns)
      IN StoresAlike(M.store, D.store)
  <2>. DEFINE txns == <<Seed.txn>>
  <2>1. DOMAIN m2.txns = 1 .. 0
    BY <1>1, <1>6
  <2>2. IsTxn(1, Seed.txn)
    BY RowsAssumption DEF IsTxn
  <2>3. Len(txns) = 1 /\ \A i \in 1 .. 1 : IsTxn(0 + i, txns[i])
    BY <2>2
  <2>. HIDE DEF txns
  <2>4. Len(txns) \in Nat /\ 0 \in Nat /\ \A i \in 1 .. Len(txns) : IsTxn(0 + i, txns[i])
    BY <2>3
  <2>5. LET M == Memory!UpsertMany(m2, user, txns)
            D == Db!UpsertMany(d2, user, txns)
        IN StoresAlike(M.store, D.store)
    BY <1>5, <2>1, <2>4, ManyAlike
  <2>. QED
    BY <2>5 DEF txns
<1>. QED
  BY <1>7 DEF SeededMemory, SeededDatabase, m0, d0, m1, d1, m2, d2

-----------------------------------------------------------------------------
\* The stores are alike, and so are the answers while the keys are unique.
Alike == StoresAlike(memory, database) /\ (KeysAreUnique => answers[1] = answers[2])

KeysOf(m) ==
    /\ TxnsUnique(m.txns) /\ ReportsUnique(m.reports)
    /\ ReceiptsUnique(m.receipts) /\ AccountsUnique(m.accounts)

LEMMA KeysOfTables == KeysAreUnique <=> KeysOf(memory)
  BY DEF KeysAreUnique, KeysOf, TxnsUnique, ReportsUnique, ReceiptsUnique, AccountsUnique

\* A call after which the stores and the answers are alike.
LEMMA Called ==
  ASSUME NEW STATE M, NEW STATE D, Both(M, D), StoresAlike(M.store, D.store),
         KeysOf(M.store) => M.answer = D.answer
  PROVE  Alike'
<1>1. memory' = M.store /\ database' = D.store /\ answers' = <<M.answer, D.answer>>
  BY DEF Both
<1>2. KeysAreUnique' <=> KeysOf(memory')
  BY DEF KeysAreUnique, KeysOf, TxnsUnique, ReportsUnique, ReceiptsUnique, AccountsUnique
<1>3. KeysAreUnique' => answers[1]' = answers[2]'
  BY <1>1, <1>2
<1>4. StoresAlike(memory', database')
  BY <1>1
<1>. QED
  BY <1>3, <1>4 DEF Alike

\* One call of any operation that writes leaves them alike.
LEMMA TransactionsCalled ==
  ASSUME Alike, UpsertTransactions \/ RemoveTransactions \/ EnrichTransaction
  PROVE  Alike'
<1>1. StoresAlike(memory, database)
  BY DEF Alike
<1>2. CASE UpsertTransactions
  <2>1. PICK user \in Users, batch \in Batches :
          LET txns == [i \in DOMAIN batch |-> Numbered(Fresh(memory.txns) + i - 1, batch[i])]
          IN Both(Memory!UpsertMany(memory, user, txns), Db!UpsertMany(database, user, txns))
    BY <1>2 DEF UpsertTransactions
  <2>. DEFINE k == Fresh(memory.txns) - 1
              txns == [i \in DOMAIN batch |-> Numbered(Fresh(memory.txns) + i - 1, batch[i])]
              M == Memory!UpsertMany(memory, user, txns)
              D == Db!UpsertMany(database, user, txns)
  <2>2. Counted(memory.txns)
    BY <1>1 DEF StoresAlike, TxnsAlike
  <2>3. Fresh(memory.txns) \in Nat \ {0} /\ DOMAIN memory.txns = 1 .. k
    BY <2>2, CountedGrows
  <2>4. batch \in Seq(Range(batch)) /\ \A i \in DOMAIN batch : IsMoney(batch[i].amount)
    BY RowsAssumption
  <2>5. Len(batch) \in Nat /\ DOMAIN batch = 1 .. Len(batch)
    BY <2>4
  <2>. HIDE DEF k
  <2>6. k \in Nat /\ \A i \in 1 .. Len(batch) : Fresh(memory.txns) + i - 1 = k + i
    BY <2>3, <2>5 DEF k
  <2>7. \A i \in 1 .. Len(batch) : IsTxn(k + i, txns[i])
    <3>1. TAKE i \in 1 .. Len(batch)
    <3>2. txns[i] = Numbered(k + i, batch[i]) /\ IsMoney(batch[i].amount)
      BY <2>4, <2>5, <2>6
    <3>3. \A n, t : IsMoney(t.amount) => IsTxn(n, Numbered(n, t))
      BY DEF IsTxn, Numbered
    <3>. HIDE DEF txns
    <3>. QED
      BY <3>2, <3>3
  <2>8. Len(txns) = Len(batch)
    BY <2>5
  <2>. HIDE DEF txns
  <2>9. StoresAlike(M.store, D.store) /\ (TxnsUnique(M.store.txns) => M.answer = D.answer)
    BY <1>1, <2>3, <2>5, <2>6, <2>7, <2>8, ManyAlike
  <2>10. Both(M, D)
    BY <2>1 DEF txns
  <2>. HIDE DEF M, D
  <2>. QED
    BY <2>9, <2>10, Called DEF KeysOf
<1>3. CASE RemoveTransactions
  <2>1. PICK user \in Users, plaids \in SUBSET Plaids \ {{}} :
          Both(Memory!SoftDelete(memory, user, plaids), Db!SoftDelete(database, user, plaids))
    BY <1>3 DEF RemoveTransactions
  <2>. DEFINE M == Memory!SoftDelete(memory, user, plaids)
              D == Db!SoftDelete(database, user, plaids)
  <2>2. StoresAlike(M.store, D.store) /\ M.answer = D.answer
    BY <1>1, RemovedAlike
  <2>. HIDE DEF M, D
  <2>3. Both(M, D)
    BY <2>1 DEF M, D
  <2>. QED
    BY <2>2, <2>3, Called
<1>4. CASE EnrichTransaction
  <2>1. PICK user \in Users, id \in DOMAIN memory.txns, e \in Enrichments :
          Both(Memory!SaveEnrichment(memory, user, id, e), Db!SaveEnrichment(database, user, id, e))
    BY <1>4 DEF EnrichTransaction
  <2>. DEFINE M == Memory!SaveEnrichment(memory, user, id, e)
              D == Db!SaveEnrichment(database, user, id, e)
  <2>2. DOMAIN e = {"name", "category"}
    BY RowsAssumption
  <2>3. StoresAlike(M.store, D.store) /\ (TxnsUnique(M.store.txns) => M.answer = D.answer)
    BY <1>1, <2>2, EnrichedAlike
  <2>. HIDE DEF M, D
  <2>4. Both(M, D)
    BY <2>1 DEF M, D
  <2>. QED
    BY <2>3, <2>4, Called DEF KeysOf
<1>. QED
  BY <1>2, <1>3, <1>4

\* Preferences, items, merchants and baselines.
LEMMA SettingsCalled ==
  ASSUME Alike, ChangePreferences \/ ChangeItem \/ CacheMerchant \/ WriteBaseline
  PROVE  Alike'
<1>1. StoresAlike(memory, database)
  BY DEF Alike
<1>2. CASE ChangePreferences
  <2>1. PICK user \in Users, prefs \in {[day |-> 2], [day |-> 2, zone |-> "west"]} :
          Both(Memory!UpdatePreferences(memory, user, prefs),
               Db!UpdatePreferences(database, user, prefs))
    BY <1>2 DEF ChangePreferences
  <2>. DEFINE M == Memory!UpdatePreferences(memory, user, prefs)
              D == Db!UpdatePreferences(database, user, prefs)
  <2>2. "id" \notin DOMAIN prefs
    OBVIOUS
  <2>3. StoresAlike(M.store, D.store) /\ M.answer = D.answer
    BY <1>1, <2>2, PreferencesAlike
  <2>. HIDE DEF M, D
  <2>4. Both(M, D)
    BY <2>1 DEF M, D
  <2>. QED
    BY <2>3, <2>4, Called
<1>3. CASE ChangeItem
  <2>1. PICK item \in Items :
          \/ Both(Memory!SaveCursor(memory, item, 1), Db!SaveCursor(database, item, 1))
          \/ Both(Memory!SetStatus(memory, item, "error"), Db!SetStatus(database, item, "error"))
    BY <1>3 DEF ChangeItem
  <2>2. CASE Both(Memory!SaveCursor(memory, item, 1), Db!SaveCursor(database, item, 1))
    <3>. DEFINE M == Memory!SaveCursor(memory, item, 1)
                D == Db!SaveCursor(database, item, 1)
    <3>1. StoresAlike(M.store, D.store) /\ M.answer = D.answer
      BY <1>1, CursorAlike
    <3>. HIDE DEF M, D
    <3>2. Both(M, D)
      BY <2>2 DEF M, D
    <3>. QED
      BY <3>1, <3>2, Called
  <2>3. CASE Both(Memory!SetStatus(memory, item, "error"), Db!SetStatus(database, item, "error"))
    <3>. DEFINE M == Memory!SetStatus(memory, item, "error")
                D == Db!SetStatus(database, item, "error")
    <3>1. StoresAlike(M.store, D.store) /\ M.answer = D.answer
      BY <1>1, ItemStatusAlike
    <3>. HIDE DEF M, D
    <3>2. Both(M, D)
      BY <2>3 DEF M, D
    <3>. QED
      BY <3>1, <3>2, Called
  <2>. QED
    BY <2>1, <2>2, <2>3
<1>4. CASE CacheMerchant
  <2>1. PICK entry \in Merchants :
          Both(Memory!UpsertMerchant(memory, entry), Db!UpsertMerchant(database, entry))
    BY <1>4 DEF CacheMerchant
  <2>. DEFINE M == Memory!UpsertMerchant(memory, entry)
              D == Db!UpsertMerchant(database, entry)
  <2>2. StoresAlike(M.store, D.store) /\ M.answer = D.answer
    BY <1>1, MerchantAlike
  <2>. HIDE DEF M, D
  <2>3. Both(M, D)
    BY <2>1 DEF M, D
  <2>. QED
    BY <2>2, <2>3, Called
<1>5. CASE WriteBaseline
  <2>1. PICK user \in Users, b \in Baselines :
          Both(Memory!UpsertBaseline(memory, user, b), Db!UpsertBaseline(database, user, b))
    BY <1>5 DEF WriteBaseline
  <2>. DEFINE M == Memory!UpsertBaseline(memory, user, b)
              D == Db!UpsertBaseline(database, user, b)
  <2>2. IsBaseline(b)
    BY RowsAssumption DEF IsBaseline
  <2>3. StoresAlike(M.store, D.store) /\ M.answer = D.answer
    BY <1>1, <2>2, BaselineAlike
  <2>. HIDE DEF M, D
  <2>4. Both(M, D)
    BY <2>1 DEF M, D
  <2>. QED
    BY <2>3, <2>4, Called
<1>. QED
  BY <1>2, <1>3, <1>4, <1>5

\* Digests, reports and anomalies.
LEMMA SentCalled ==
  ASSUME Alike, CreateSent \/ DeliverSent
  PROVE  Alike'
<1>1. StoresAlike(memory, database)
  BY DEF Alike
<1>2. ASSUME NEW rows, NEW user, NEW at \in Int
      PROVE  IsSent(Sent(rows, user, at), Len(rows) + 1)
  BY DEF IsSent, Sent
<1>3. CASE CreateSent
  <2>1. PICK user \in Users, at \in Times :
          \/ LET d == Sent(memory.digests, user, at)
             IN Both(Memory!Create(memory, "digests", d), Db!CreateDigest(database, d))
          \/ LET a == Sent(memory.anomalies, user, at)
             IN Both(Memory!Create(memory, "anomalies", a), Db!CreateAnomaly(database, a))
          \/ LET r == Over(Sent(memory.reports, user, 1), [month |-> at])
             IN Both(Memory!Create(memory, "reports", r), Db!CreateReport(database, r))
    BY <1>3 DEF CreateSent
  <2>2. at \in Int
    BY DEF Times
  <2>. DEFINE a == Sent(memory.anomalies, user, at)
              g == Sent(memory.digests, user, at)
              s == Sent(memory.reports, user, 1)
              r == Over(s, [month |-> at])
  <2>3. IsSent(a, Len(memory.anomalies) + 1) /\ IsSent(g, Len(memory.digests) + 1)
        /\ IsSent(s, Len(memory.reports) + 1)
    BY <1>2, <2>2
  <2>. HIDE DEF a, g
  <2>4. IsSent(r, Len(memory.reports) + 1) /\ "month" \in DOMAIN r
    <3>. HIDE DEF s
    <3>. QED
      BY <2>3 DEF IsSent, Over
  <2>. HIDE DEF s, r
  <2>5. CASE Both(Memory!Create(memory, "digests", g), Db!CreateDigest(database, g))
    <3>. DEFINE M == Memory!Create(memory, "digests", g)
                D == Db!CreateDigest(database, g)
    <3>1. StoresAlike(M.store, D.store) /\ M.answer = D.answer
      BY <1>1, <2>3, CreateSentAlike DEF Db!CreateDigest
    <3>. HIDE DEF M, D
    <3>2. Both(M, D)
      BY <2>5 DEF M, D
    <3>. QED
      BY <3>1, <3>2, Called
  <2>6. CASE Both(Memory!Create(memory, "anomalies", a), Db!CreateAnomaly(database, a))
    <3>. DEFINE M == Memory!Create(memory, "anomalies", a)
                D == Db!CreateAnomaly(database, a)
    <3>1. StoresAlike(M.store, D.store) /\ M.answer = D.answer
      BY <1>1, <2>3, CreateSentAlike DEF Db!CreateAnomaly
    <3>. HIDE DEF M, D
    <3>2. Both(M, D)
      BY <2>6 DEF M, D
    <3>. QED
      BY <3>1, <3>2, Called
  <2>7. CASE Both(Memory!Create(memory, "reports", r), Db!CreateReport(database, r))
    <3>. DEFINE M == Memory!Create(memory, "reports", r)
                D == Db!CreateReport(database, r)
    <3>1. StoresAlike(M.store, D.store) /\ (ReportsUnique(M.store.reports) => M.answer = D.answer)
      BY <1>1, <2>4, CreateReportAlike
    <3>. HIDE DEF M, D
    <3>2. Both(M, D)
      BY <2>7 DEF M, D
    <3>. QED
      BY <3>1, <3>2, Called DEF KeysOf
  <2>. QED
    BY <2>1, <2>5, <2>6, <2>7 DEF a, g, s, r
<1>4. CASE DeliverSent
  <2>1. PICK table \in {"digests", "reports", "anomalies"}, id \in 1 .. 2 :
          Both(Memory!Deliver(memory, table, id, 2), Db!Deliver(database, table, id, 2))
    BY <1>4 DEF DeliverSent
  <2>. DEFINE M == Memory!Deliver(memory, table, id, 2)
              D == Db!Deliver(database, table, id, 2)
  <2>2. StoresAlike(M.store, D.store) /\ (ReportsUnique(M.store.reports) => M.answer = D.answer)
    <3>1. CASE table = "reports"
      <4>. USE <3>1
      <4>. QED
        BY <1>1, DeliverReportAlike
    <3>2. CASE table # "reports"
      <4>1. table \in {"digests", "anomalies"}
        BY <3>2
      <4>. QED
        BY <1>1, <4>1, DeliverSentAlike
    <3>. QED
      BY <3>1, <3>2
  <2>. HIDE DEF M, D
  <2>3. Both(M, D)
    BY <2>1 DEF M, D
  <2>. QED
    BY <2>2, <2>3, Called DEF KeysOf
<1>. QED
  BY <1>3, <1>4

\* Mail accounts.
LEMMA AccountsCalled ==
  ASSUME Alike, ConnectMail \/ ChangeMailAccount
  PROVE  Alike'
<1>1. StoresAlike(memory, database)
  BY DEF Alike
<1>2. CASE ConnectMail
  <2>1. PICK user \in Users, address \in Addresses :
          Both(Memory!CreateAccount(memory, Fresh(memory.accounts), user, address, "t1"),
               Db!CreateAccount(database, Fresh(memory.accounts), user, address, "t1"))
    BY <1>2 DEF ConnectMail
  <2>. DEFINE M == Memory!CreateAccount(memory, Fresh(memory.accounts), user, address, "t1")
              D == Db!CreateAccount(database, Fresh(memory.accounts), user, address, "t1")
  <2>2. address = [name |-> address.name, upper |-> address.upper] /\ address.upper \in BOOLEAN
    BY RowsAssumption
  <2>3. StoresAlike(M.store, D.store) /\ (AccountsUnique(M.store.accounts) => M.answer = D.answer)
    BY <1>1, <2>2, AccountCreated
  <2>. HIDE DEF M, D
  <2>4. Both(M, D)
    BY <2>1 DEF M, D
  <2>. QED
    BY <2>3, <2>4, Called DEF KeysOf
<1>3. CASE ChangeMailAccount
  <2>1. PICK id \in 1 .. 2 :
          \/ Both(Memory!SaveToken(memory, id, "t2"), Db!SaveToken(database, id, "t2"))
          \/ \E h \in Times : Both(Memory!SaveHistoryId(memory, id, h),
                                   Db!SaveHistoryId(database, id, h))
          \/ Both(Memory!SaveWatchExpiration(memory, id, 2, 2),
                  Db!SaveWatchExpiration(database, id, 2, 2))
          \/ Both(Memory!SetAccountStatus(memory, id, "expired"),
                  Db!SetAccountStatus(database, id, "expired"))
    BY <1>3 DEF ChangeMailAccount
  <2>2. CASE Both(Memory!SaveToken(memory, id, "t2"), Db!SaveToken(database, id, "t2"))
    <3>. DEFINE M == Memory!SaveToken(memory, id, "t2")
                D == Db!SaveToken(database, id, "t2")
    <3>1. StoresAlike(M.store, D.store) /\ (AccountsUnique(M.store.accounts) => M.answer = D.answer)
      BY <1>1, TokenAlike
    <3>. HIDE DEF M, D
    <3>2. Both(M, D)
      BY <2>2 DEF M, D
    <3>. QED
      BY <3>1, <3>2, Called DEF KeysOf
  <2>3. CASE \E h \in Times : Both(Memory!SaveHistoryId(memory, id, h),
                                   Db!SaveHistoryId(database, id, h))
    <3>1. PICK h \in Times : Both(Memory!SaveHistoryId(memory, id, h),
                                  Db!SaveHistoryId(database, id, h))
      BY <2>3
    <3>. DEFINE M == Memory!SaveHistoryId(memory, id, h)
                D == Db!SaveHistoryId(database, id, h)
    <3>2. StoresAlike(M.store, D.store) /\ (AccountsUnique(M.store.accounts) => M.answer = D.answer)
      BY <1>1, HistoryAlike
    <3>. HIDE DEF M, D
    <3>3. Both(M, D)
      BY <3>1 DEF M, D
    <3>. QED
      BY <3>2, <3>3, Called DEF KeysOf
  <2>4. CASE Both(Memory!SaveWatchExpiration(memory, id, 2, 2),
                  Db!SaveWatchExpiration(database, id, 2, 2))
    <3>. DEFINE M == Memory!SaveWatchExpiration(memory, id, 2, 2)
                D == Db!SaveWatchExpiration(database, id, 2, 2)
    <3>1. StoresAlike(M.store, D.store) /\ (AccountsUnique(M.store.accounts) => M.answer = D.answer)
      BY <1>1, WatchAlike
    <3>. HIDE DEF M, D
    <3>2. Both(M, D)
      BY <2>4 DEF M, D
    <3>. QED
      BY <3>1, <3>2, Called DEF KeysOf
  <2>5. CASE Both(Memory!SetAccountStatus(memory, id, "expired"),
                  Db!SetAccountStatus(database, id, "expired"))
    <3>. DEFINE M == Memory!SetAccountStatus(memory, id, "expired")
                D == Db!SetAccountStatus(database, id, "expired")
    <3>1. StoresAlike(M.store, D.store) /\ (AccountsUnique(M.store.accounts) => M.answer = D.answer)
      BY <1>1, AccountStatusAlike
    <3>. HIDE DEF M, D
    <3>2. Both(M, D)
      BY <2>5 DEF M, D
    <3>. QED
      BY <3>1, <3>2, Called DEF KeysOf
  <2>. QED
    BY <2>1, <2>2, <2>3, <2>4, <2>5
<1>. QED
  BY <1>2, <1>3

\* Messages.
LEMMA MessagesCalled ==
  ASSUME Alike, SeeMessage \/ ClassifyMessage \/ DeleteMessage
  PROVE  Alike'
<1>1. StoresAlike(memory, database)
  BY DEF Alike
<1>2. CASE SeeMessage
  <2>1. PICK a \in DOMAIN memory.accounts, gmail \in Gmails :
          Both(Memory!UpsertSeen(memory, Fresh(memory.messages), memory.accounts[a].user, a, gmail),
               Db!UpsertSeen(database, Fresh(memory.messages), memory.accounts[a].user, a, gmail))
    BY <1>2 DEF SeeMessage
  <2>. DEFINE M == Memory!UpsertSeen(memory, Fresh(memory.messages), memory.accounts[a].user, a, gmail)
              D == Db!UpsertSeen(database, Fresh(memory.messages), memory.accounts[a].user, a, gmail)
  <2>2. StoresAlike(M.store, D.store) /\ M.answer = D.answer
    BY <1>1, SeenAlike
  <2>. HIDE DEF M, D
  <2>3. Both(M, D)
    BY <2>1 DEF M, D
  <2>. QED
    BY <2>2, <2>3, Called
<1>3. CASE ClassifyMessage
  <2>1. PICK user \in Users, id \in DOMAIN memory.messages, update \in Updates :
          Both(Memory!UpdateClassification(memory, user, id, update),
               Db!UpdateClassification(database, user, id, update))
    BY <1>3 DEF ClassifyMessage
  <2>. DEFINE M == Memory!UpdateClassification(memory, user, id, update)
              D == Db!UpdateClassification(database, user, id, update)
  <2>2. DOMAIN update = {"status", "kind", "reason"}
    BY DEF Updates
  <2>3. StoresAlike(M.store, D.store) /\ M.answer = D.answer
    BY <1>1, <2>2, ClassifiedAlike
  <2>. HIDE DEF M, D
  <2>4. Both(M, D)
    BY <2>1 DEF M, D
  <2>. QED
    BY <2>3, <2>4, Called
<1>4. CASE DeleteMessage
  <2>1. PICK user \in Users, a \in DOMAIN memory.accounts, gmail \in Gmails :
          Both(Memory!MarkDeleted(memory, user, a, gmail), Db!MarkDeleted(database, user, a, gmail))
    BY <1>4 DEF DeleteMessage
  <2>. DEFINE M == Memory!MarkDeleted(memory, user, a, gmail)
              D == Db!MarkDeleted(database, user, a, gmail)
  <2>2. StoresAlike(M.store, D.store) /\ M.answer = D.answer
    BY <1>1, DeletedAlike
  <2>. HIDE DEF M, D
  <2>3. Both(M, D)
    BY <2>1 DEF M, D
  <2>. QED
    BY <2>2, <2>3, Called
<1>. QED
  BY <1>2, <1>3, <1>4

\* Receipts and links.
LEMMA ReceiptsCalled ==
  ASSUME Alike, CreateReceipt \/ LinkReceipt
  PROVE  Alike'
<1>1. StoresAlike(memory, database)
  BY DEF Alike
<1>2. CASE CreateReceipt
  <2>1. PICK x \in DOMAIN memory.messages, total \in Totals, items \in LineItems :
          LET r == [id |-> Fresh(memory.receipts), user |-> memory.messages[x].user, message |-> x,
                    total |-> total, items |-> items, extractedAt |-> 1]
          IN Both(Memory!CreateReceipt(memory, r), Db!CreateReceipt(database, r))
    BY <1>2 DEF CreateReceipt
  <2>. DEFINE r == [id |-> Fresh(memory.receipts), user |-> memory.messages[x].user, message |-> x,
                    total |-> total, items |-> items, extractedAt |-> 1]
              M == Memory!CreateReceipt(memory, r)
              D == Db!CreateReceipt(database, r)
  <2>2. total # Null => IsMoney(total) /\ total.minor # Null /\ total.currency # Null
    BY RowsAssumption
  <2>3. IsReceipt(Fresh(memory.receipts), r)
    <3>1. \A i, u, m, t, l, e :
            LET q == [id |-> i, user |-> u, message |-> m, total |-> t, items |-> l, extractedAt |-> e]
            IN /\ q = [id |-> i, user |-> q.user, message |-> q.message, total |-> q.total,
                       items |-> q.items, extractedAt |-> q.extractedAt]
               /\ q.total = t
      OBVIOUS
    <3>. QED
      BY <2>2, <3>1 DEF IsReceipt
  <2>. HIDE DEF r
  <2>4. StoresAlike(M.store, D.store) /\ (ReceiptsUnique(M.store.receipts) => M.answer = D.answer)
    BY <1>1, <2>3, ReceiptCreated
  <2>5. Both(M, D)
    BY <2>1 DEF r
  <2>. HIDE DEF M, D
  <2>. QED
    BY <2>4, <2>5, Called DEF KeysOf
<1>3. CASE LinkReceipt
  <2>1. PICK t \in DOMAIN memory.txns, r \in DOMAIN memory.receipts :
          LET entry == [user |-> memory.receipts[r].user, txn |-> t, receipt |-> r]
          IN /\ memory.txns[t].user = entry.user
             /\ Both(Memory!Link(memory, entry), Db!Link(database, entry))
    BY <1>3 DEF LinkReceipt
  <2>. DEFINE entry == [user |-> memory.receipts[r].user, txn |-> t, receipt |-> r]
              M == Memory!Link(memory, entry)
              D == Db!Link(database, entry)
  <2>2. memory.txns[t].user = memory.receipts[r].user
    BY <2>1
  <2>3. StoresAlike(M.store, D.store) /\ M.answer = D.answer
    BY <1>1, <2>2, LinkedAlike
  <2>4. Both(M, D)
    BY <2>1
  <2>. HIDE DEF M, D
  <2>. QED
    BY <2>3, <2>4, Called
<1>. QED
  BY <1>2, <1>3

\* The stores are alike at the start.
LEMMA OpeningAlike == Opening => Alike
<1>. SUFFICES ASSUME Opening
              PROVE  Alike
  OBVIOUS
<1>1. StoresAlike(memory, database)
  BY EmptyAlike, SeededAlike DEF Opening
<1>2. answers[1] = answers[2]
  BY DEF Opening
<1>. QED
  BY <1>1, <1>2 DEF Alike

\* Every call keeps them alike.
LEMMA CallAlike == Alike /\ [Call]_stores => Alike'
<1>. SUFFICES ASSUME Alike, [Call]_stores
              PROVE  Alike'
  OBVIOUS
<1>1. CASE UNCHANGED stores
  BY <1>1 DEF stores, Alike, KeysAreUnique
<1>2. CASE Call
  BY <1>2, TransactionsCalled, SettingsCalled, SentCalled, AccountsCalled, MessagesCalled,
     ReceiptsCalled DEF Call
<1>. QED
  BY <1>1, <1>2

\* The inductive invariant: after any sequence of calls the rows of the database
\* are those that the mappers make of memory's, and memory's indexes are right.
THEOREM StoresStayAlike == CallsSpec => []Alike
  BY OpeningAlike, CallAlike, PTL DEF CallsSpec

-----------------------------------------------------------------------------
\* The rows of a finite set in a sequence, each of them once.
Enumerations(S) ==
    {f \in [1 .. Cardinality(S) -> S] : \A i, j \in 1 .. Cardinality(S) : i # j => f[i] # f[j]}

LEMMA SeqsEnumerate ==
  ASSUME NEW S
  PROVE  Memory!SetToSeqs(S) = Enumerations(S) /\ Db!SetToSeqs(S) = Enumerations(S)
<1>1. Memory!SetToSeqs(S) = Enumerations(S)
  BY DEF Memory!SetToSeqs, Memory!Cardinality, Cardinality, Enumerations
<1>2. Db!SetToSeqs(S) = Enumerations(S)
  BY DEF Db!SetToSeqs, Db!Cardinality, Cardinality, Enumerations
<1>. QED
  BY <1>1, <1>2

\* An enumeration leaves no row out.
LEMMA AllEnumerated ==
  ASSUME NEW S, IsFiniteSet(S), NEW f \in Enumerations(S)
  PROVE  \A x \in S : \E i \in 1 .. Cardinality(S) : f[i] = x
<1>. DEFINE c == Cardinality(S)
<1>1. c \in Nat
  BY FS_CardinalityType
<1>2. f \in [1 .. c -> S] /\ \A i, j \in 1 .. c : i # j => f[i] # f[j]
  BY DEF Enumerations
<1>3. Cardinality(1 .. c) = c
  <2>. HIDE DEF c
  <2>. QED
    BY <1>1, FS_Interval
<1>4. f \in Injection(1 .. c, S)
  BY <1>2 DEF Injection, IsInjective
<1>5. f \in Surjection(1 .. c, S)
  <2>. HIDE DEF c
  <2>1. Cardinality(1 .. c) = Cardinality(S)
    BY <1>3 DEF c
  <2>. QED
    BY <1>4, <2>1, FS_Injection
<1>. QED
  BY <1>5 DEF Surjection

\* Numbers can be put in order.
Rising(f, n) == \A i, j \in 1 .. n : i < j => f[i] < f[j]

LEMMA InOrder ==
  ASSUME NEW S \in SUBSET Nat, IsFiniteSet(S)
  PROVE  \E f \in Enumerations(S) : Rising(f, Cardinality(S))
<1>. DEFINE Ordered(T) == \E f \in Enumerations(T) : Rising(f, Cardinality(T))
            Sizes == {n \in Nat : \E T \in SUBSET Nat : IsFiniteSet(T) /\ Cardinality(T) = n /\ ~Ordered(T)}
<1>1. Sizes = {}
  <2>. SUFFICES ASSUME Sizes # {}
                PROVE  FALSE
    OBVIOUS
  <2>1. Sizes \in SUBSET Nat
    OBVIOUS
  <2>. HIDE DEF Sizes
  <2>2. PICK n \in Sizes : \A i \in Sizes : n <= i
    BY <2>1, LeastNumber
  <2>3. n \in Nat
    BY <2>1, <2>2
  <2>. HIDE DEF Ordered
  <2>4. PICK T \in SUBSET Nat : IsFiniteSet(T) /\ Cardinality(T) = n /\ ~Ordered(T)
    BY <2>2 DEF Sizes
  <2>5. CASE T = {}
    <3>1. Cardinality(T) = 0
      BY <2>5, FS_EmptySet
    <3>2. << >> \in Enumerations(T) /\ Rising(<< >>, 0)
      BY <2>5, <3>1 DEF Enumerations, Rising
    <3>. QED
      BY <2>4, <3>1, <3>2 DEF Ordered
  <2>6. CASE T # {}
    <3>1. PICK x \in T : \A y \in T : x <= y
      BY <2>6, LeastNumber
    <3>. DEFINE R == T \ {x}
    <3>2. IsFiniteSet(R) /\ Cardinality(R) = n - 1
      BY <2>4, FS_RemoveElement
    <3>3. n - 1 \in Nat /\ ~(n <= n - 1)
      <4>1. n # 0
        BY <2>4, <2>6, FS_EmptySet
      <4>. QED
        BY <2>3, <4>1
    <3>4. Ordered(R)
      <4>1. n - 1 \notin Sizes
        BY <2>2, <3>3
      <4>2. R \in SUBSET Nat
        OBVIOUS
      <4>. QED
        BY <3>2, <3>3, <4>1, <4>2 DEF Sizes
    <3>5. PICK f \in [1 .. n - 1 -> R] :
            /\ \A i, j \in 1 .. n - 1 : i # j => f[i] # f[j]
            /\ \A i, j \in 1 .. n - 1 : i < j => f[i] < f[j]
      <4>. HIDE DEF R
      <4>. QED
        BY <3>2, <3>4 DEF Ordered, Enumerations, Rising
    <3>. DEFINE g == [i \in 1 .. n |-> IF i = 1 THEN x ELSE f[i - 1]]
    <3>6. /\ \A i \in 1 .. n : i = 1 \/ i - 1 \in 1 .. n - 1
          /\ \A y \in R : y \in T /\ x < y /\ x # y
      <4>1. \A y \in T : y \in Nat
        OBVIOUS
      <4>. QED
        BY <2>3, <3>1, <4>1
    <3>7. g \in [1 .. n -> T]
      BY <3>1, <3>5, <3>6
    <3>8. ASSUME NEW i \in 1 .. n, NEW j \in 1 .. n, i < j
          PROVE  g[i] < g[j] /\ g[i] # g[j]
      <4>1. j # 1 /\ j - 1 \in 1 .. n - 1
        BY <2>3, <3>6, <3>8
      <4>2. g[j] = f[j - 1] /\ g[j] \in R
        BY <3>5, <4>1
      <4>3. CASE i = 1
        BY <3>6, <4>2, <4>3
      <4>4. CASE i # 1
        <5>1. i - 1 \in 1 .. n - 1 /\ i - 1 < j - 1 /\ i - 1 # j - 1
          BY <2>3, <3>6, <3>8, <4>4
        <5>2. g[i] = f[i - 1]
          BY <4>4
        <5>. HIDE DEF g
        <5>. QED
          BY <3>5, <4>1, <4>2, <5>1, <5>2
      <4>. QED
        BY <4>3, <4>4
    <3>. HIDE DEF g
    <3>9. \A i, j \in 1 .. n : i # j => g[i] # g[j]
      <4>1. TAKE i \in 1 .. n, j \in 1 .. n
      <4>2. i < j \/ j < i \/ i = j
        OBVIOUS
      <4>. QED
        BY <3>8, <4>2
    <3>10. g \in Enumerations(T) /\ Rising(g, n)
      BY <2>4, <3>7, <3>8, <3>9 DEF Enumerations, Rising
    <3>. QED
      BY <2>4, <3>10 DEF Ordered
  <2>. QED
    BY <2>5, <2>6
<1>2. Cardinality(S) \in Nat
  BY FS_CardinalityType
<1>. HIDE DEF Ordered
<1>3. Ordered(S)
  BY <1>1, <1>2
<1>. QED
  BY <1>3 DEF Ordered

\* Rows that differ in their moments can be put in one order only.
LEMMA OneOrder ==
  ASSUME NEW S, IsFiniteSet(S), \A x \in S : x.at \in Int,
         \A x, y \in S : x.at = y.at => x = y,
         NEW f \in Enumerations(S), NEW g \in Enumerations(S),
         \A i, j \in 1 .. Cardinality(S) : i < j => f[i].at <= f[j].at,
         \A i, j \in 1 .. Cardinality(S) : i < j => g[i].at <= g[j].at
  PROVE  f = g
<1>. DEFINE c == Cardinality(S)
            Differ == {i \in 1 .. c : f[i] # g[i]}
<1>1. c \in Nat
  BY FS_CardinalityType
<1>2. /\ f \in [1 .. c -> S] /\ \A i, j \in 1 .. c : i # j => f[i] # f[j]
      /\ g \in [1 .. c -> S] /\ \A i, j \in 1 .. c : i # j => g[i] # g[j]
  BY DEF Enumerations
<1>3. \A x \in S : (\E i \in 1 .. c : f[i] = x) /\ (\E i \in 1 .. c : g[i] = x)
  BY AllEnumerated
<1>4. /\ \A i, j \in 1 .. c : i < j => f[i].at <= f[j].at
      /\ \A i, j \in 1 .. c : i < j => g[i].at <= g[j].at
  OBVIOUS
<1>. HIDE DEF c
<1>5. Differ = {}
  <2>. SUFFICES ASSUME Differ # {}
                PROVE  FALSE
    OBVIOUS
  <2>1. Differ \in SUBSET Nat
    BY <1>1
  <2>. HIDE DEF Differ
  <2>2. PICK i \in Differ : \A j \in Differ : i <= j
    BY <2>1, LeastNumber
  <2>3. i \in 1 .. c /\ f[i] # g[i] /\ f[i] \in S /\ g[i] \in S
    BY <1>2, <2>2 DEF Differ
  <2>4. \A j \in 1 .. c : j < i => f[j] = g[j]
    <3>1. TAKE j \in 1 .. c
    <3>2. j < i => ~(i <= j)
      BY <2>3
    <3>. QED
      BY <2>2, <3>2 DEF Differ
  <2>5. PICK j \in 1 .. c : g[j] = f[i]
    BY <1>3, <2>3
  <2>6. PICK k \in 1 .. c : f[k] = g[i]
    BY <1>3, <2>3
  <2>7. i < j
    <3>1. j # i
      BY <2>3, <2>5
    <3>2. ~(j < i)
      BY <1>2, <2>3, <2>4, <2>5, <3>1
    <3>. QED
      BY <2>3, <2>5, <3>1, <3>2
  <2>8. i < k
    <3>1. k # i
      BY <2>3, <2>6
    <3>2. ~(k < i)
      BY <1>2, <2>3, <2>4, <2>6, <3>1
    <3>. QED
      BY <2>3, <2>6, <3>1, <3>2
  <2>9. f[i].at <= g[i].at /\ g[i].at <= f[i].at
    BY <1>4, <2>3, <2>5, <2>6, <2>7, <2>8
  <2>10. f[i].at = g[i].at
    <3>1. f[i].at \in Int /\ g[i].at \in Int
      BY <2>3
    <3>. QED
      BY <2>9, <3>1
  <2>. QED
    BY <2>3, <2>10
<1>6. \A i \in 1 .. c : f[i] = g[i]
  BY <1>5
<1>7. f = [i \in 1 .. c |-> f[i]] /\ g = [i \in 1 .. c |-> g[i]]
  BY <1>2
<1>. QED
  BY <1>6, <1>7

\* A list that fits its limit and was written in order of time.
LEMMA ListedAlike ==
  ASSUME NEW m, NEW d, NEW table, NEW user, NEW limit \in Nat,
         SentAlike(m[table], d[table]), NEW mine,
         mine = {i \in DOMAIN m[table] : m[table][i].user = user},
         Cardinality(mine) <= limit,
         \A i, j \in mine : i < j => m[table][i].at < m[table][j].at
  PROVE  Memory!Listed(m, table, user, limit) = Db!Listed(d, table, user, limit)
<1>. DEFINE list == m[table]
            rows == d[table]
            c == Cardinality(mine)
            theirs == {r \in rows : r.user = user}
            order == CHOOSE s \in Enumerations(mine) : \A i, j \in DOMAIN s : i < j => s[i] < s[j]
            first == [i \in DOMAIN order |-> list[order[i]]]
            second == CHOOSE s \in Enumerations(theirs) :
                        \A i, j \in DOMAIN s : i < j => s[i].at <= s[j].at
<1>1. /\ list \in Seq(Range(list)) /\ rows = Range(list)
      /\ \A i \in DOMAIN list : list[i].id = i /\ list[i].at \in Int
  BY DEF SentAlike, Listing
<1>2. DOMAIN list = 1 .. Len(list) /\ Len(list) \in Nat
  BY <1>1
<1>3. /\ mine \in SUBSET Nat /\ IsFiniteSet(mine) /\ c \in Nat
      /\ \A i \in mine : i \in DOMAIN list /\ list[i].user = user
      /\ \A i \in DOMAIN list : list[i].user = user => i \in mine
  <2>1. IsFiniteSet(1 .. Len(list)) /\ mine \in SUBSET (1 .. Len(list))
    BY <1>2, FS_Interval
  <2>2. IsFiniteSet(mine)
    BY <2>1, FS_Subset
  <2>. QED
    BY <1>2, <2>1, <2>2, FS_CardinalityType
<1>4. \A i, j \in mine : i < j => list[i].at < list[j].at
  OBVIOUS
<1>5. /\ \A i \in mine : list[i] \in theirs
      /\ \A r \in theirs : \E i \in mine : r = list[i]
  BY <1>1, <1>3 DEF Range
<1>6. \A i, j \in mine : list[i] = list[j] => i = j
  BY <1>1, <1>3
<1>7. IsFiniteSet(theirs) /\ Cardinality(theirs) = c
  <2>. DEFINE f == [i \in mine |-> list[i]]
  <2>1. f \in Bijection(mine, theirs)
    <3>. HIDE DEF list, theirs
    <3>. QED
      BY <1>5, <1>6 DEF Bijection, Injection, Surjection, IsInjective
  <2>. HIDE DEF f, theirs
  <2>2. ExistsBijection(mine, theirs)
    BY <2>1 DEF ExistsBijection
  <2>. QED
    BY <1>3, <2>2, FS_Bijection
<1>8. \A x, y \in theirs : x.at \in Int /\ (x.at = y.at => x = y)
  <2>1. TAKE x \in theirs, y \in theirs
  <2>2. PICK i \in mine, j \in mine : x = list[i] /\ y = list[j]
    BY <1>5
  <2>3. x.at \in Int /\ y.at \in Int
    BY <1>1, <1>3, <2>2
  <2>4. i \in Nat /\ j \in Nat
    BY <1>3
  <2>5. i < j \/ j < i \/ i = j
    BY <2>4
  <2>. QED
    BY <1>4, <2>2, <2>3, <2>5
<1>. HIDE DEF list, rows, theirs
<1>9. order \in Enumerations(mine) /\ \A i, j \in DOMAIN order : i < j => order[i] < order[j]
  <2>1. PICK f \in Enumerations(mine) : Rising(f, c)
    BY <1>3, InOrder
  <2>2. DOMAIN f = 1 .. c
    BY DEF Enumerations
  <2>3. \A i, j \in DOMAIN f : i < j => f[i] < f[j]
    BY <2>1, <2>2 DEF Rising
  <2>. QED
    BY <2>3
<1>. HIDE DEF order
<1>10. order \in [1 .. c -> mine] /\ DOMAIN order = 1 .. c
       /\ \A i, j \in 1 .. c : i # j => order[i] # order[j]
  BY <1>9 DEF Enumerations
<1>11. /\ first \in [1 .. c -> theirs] /\ DOMAIN first = 1 .. c
       /\ \A i, j \in 1 .. c : i # j => first[i] # first[j]
       /\ \A i, j \in 1 .. c : i < j => first[i].at <= first[j].at
  <2>. HIDE DEF c
  <2>1. \A i \in 1 .. c : order[i] \in mine
    BY <1>10
  <2>2. DOMAIN first = 1 .. c /\ \A i \in 1 .. c : first[i] = list[order[i]]
    BY <1>10
  <2>3. first \in [1 .. c -> theirs]
    BY <1>5, <1>10, <2>1
  <2>. HIDE DEF first
  <2>4. \A i, j \in 1 .. c : i # j => first[i] # first[j]
    BY <1>6, <1>10, <2>1, <2>2
  <2>5. \A i, j \in 1 .. c : i < j => first[i].at <= first[j].at
    <3>1. TAKE i \in 1 .. c, j \in 1 .. c
    <3>2. list[order[i]].at \in Int /\ list[order[j]].at \in Int
      BY <1>1, <1>3, <2>1
    <3>3. i < j => list[order[i]].at < list[order[j]].at
      BY <1>4, <1>9, <1>10, <2>1
    <3>. QED
      BY <2>2, <3>2, <3>3
  <2>. QED
    BY <2>2, <2>3, <2>4, <2>5
<1>. HIDE DEF first
<1>12. first \in Enumerations(theirs) /\ \A i, j \in DOMAIN first : i < j => first[i].at <= first[j].at
  <2>1. first \in Enumerations(theirs)
    BY <1>7, <1>11 DEF Enumerations
  <2>. QED
    BY <1>11, <2>1
<1>13. second \in Enumerations(theirs) /\ \A i, j \in DOMAIN second : i < j => second[i].at <= second[j].at
  BY <1>12
<1>. HIDE DEF second
<1>14. first = second
  <2>1. DOMAIN second = 1 .. c
    BY <1>7, <1>13 DEF Enumerations
  <2>2. \A i, j \in 1 .. Cardinality(theirs) : i < j => second[i].at <= second[j].at
    BY <1>7, <1>13, <2>1
  <2>3. \A i, j \in 1 .. Cardinality(theirs) : i < j => first[i].at <= first[j].at
    BY <1>7, <1>11
  <2>. QED
    BY <1>7, <1>8, <1>12, <1>13, <2>2, <2>3, OneOrder
<1>15. first \in Seq(theirs) /\ Len(first) = c
  <2>. HIDE DEF c
  <2>. QED
    BY <1>3, <1>11
<1>16. SubSeq(first, 1, Len(first)) = first
  BY <1>15
<1>17. Memory!Listed(m, table, user, limit)
         = SubSeq(first, IF Len(first) > limit THEN Len(first) - limit + 1 ELSE 1, Len(first))
  <2>1. Memory!SetToSeqs(mine) = Enumerations(mine)
    BY SeqsEnumerate
  <2>. DEFINE ids == {i \in DOMAIN m[table] : m[table][i].user = user}
              First(X) == CHOOSE s \in X : \A i, j \in DOMAIN s : i < j => s[i] < s[j]
              Rows(s) == [i \in DOMAIN s |-> m[table][s[i]]]
              Last(s) == SubSeq(s, IF Len(s) > limit THEN Len(s) - limit + 1 ELSE 1, Len(s))
  <2>2. Memory!Listed(m, table, user, limit) = Last(Rows(First(Memory!SetToSeqs(ids))))
    BY DEF Memory!Listed
  <2>3. first = Rows(First(Enumerations(mine)))
    BY DEF first, order, list
  <2>4. ids = mine
    OBVIOUS
  <2>. HIDE DEF ids, First, Rows, Last
  <2>5. Memory!Listed(m, table, user, limit) = Last(first)
    BY <2>1, <2>2, <2>3, <2>4
  <2>. QED
    BY <2>5 DEF Last
<1>18. Db!Listed(d, table, user, limit)
         = SubSeq(second, 1, IF Len(second) < limit THEN Len(second) ELSE limit)
  <2>1. Db!SetToSeqs(theirs) = Enumerations(theirs)
    BY SeqsEnumerate
  <2>. DEFINE First(X) == CHOOSE s \in X : \A i, j \in DOMAIN s : i < j => s[i].at <= s[j].at
              Upto(s) == SubSeq(s, 1, IF Len(s) < limit THEN Len(s) ELSE limit)
  <2>2. Db!Listed(d, table, user, limit) = Upto(First(Db!SetToSeqs(theirs)))
    BY DEF Db!Listed, theirs, rows
  <2>3. second = First(Enumerations(theirs))
    BY DEF second
  <2>. HIDE DEF First, Upto
  <2>4. Db!Listed(d, table, user, limit) = Upto(second)
    BY <2>1, <2>2, <2>3
  <2>. QED
    BY <2>4 DEF Upto
<1>19. c <= limit
  OBVIOUS
<1>20. ~(Len(first) > limit) /\ (Len(first) < limit \/ Len(first) = limit)
  <2>. HIDE DEF c
  <2>. QED
    BY <1>3, <1>15, <1>19
<1>. QED
  BY <1>14, <1>16, <1>17, <1>18, <1>20

-----------------------------------------------------------------------------
\* What the operations that read answer: a row gives its record back.
LEMMA TxnBack ==
  ASSUME NEW id, NEW t, IsTxn(id, t)
  PROVE  LET row == Db!TransactionCreateData(t)
         IN /\ Db!ToTransaction(row) = t /\ t.id = id
            /\ row.id = id /\ row.user = t.user /\ row.removed = t.removed
<1>. DEFINE row == Db!TransactionCreateData(t)
            back == Db!ToTransaction(row)
<1>1. DOMAIN t = TxnFields /\ t.id = id /\ t = [f \in TxnFields |-> t[f]] /\ IsMoney(t.amount)
  BY TxnIs
<1>2. /\ DOMAIN row = RowFields
      /\ \A f \in TxnFields \ {"amount"} : row[f] = t[f]
      /\ row.minorUnits = t.amount.minor /\ row.currency = t.amount.currency
  BY <1>1, TxnRowIs
<1>. HIDE DEF row
<1>3. back = [f \in TxnFields |-> IF f = "amount" THEN Db!MoneyOf(row.minorUnits, row.currency)
                                  ELSE row[f]]
  <2>1. (DOMAIN row \ {"minorUnits", "currency"}) \cup {"amount"} = TxnFields
    BY <1>2 DEF RowFields, TxnFields
  <2>2. back = [f \in (DOMAIN row \ {"minorUnits", "currency"}) \cup {"amount"} |->
                  IF f = "amount" THEN Db!MoneyOf(row.minorUnits, row.currency) ELSE row[f]]
    BY DEF Db!ToTransaction, Db!Over, Db!Without
  <2>. QED
    BY <2>1, <2>2
<1>4. Db!MoneyOf(row.minorUnits, row.currency) = t.amount
  BY <1>1, <1>2 DEF IsMoney, Db!MoneyOf
<1>5. \A f \in TxnFields : t[f] = (IF f = "amount" THEN Db!MoneyOf(row.minorUnits, row.currency)
                                   ELSE row[f])
  BY <1>2, <1>4
<1>6. back = t
  BY <1>1, <1>3, <1>5
<1>7. row.id = id /\ row.user = t.user /\ row.removed = t.removed
  BY <1>1, <1>2 DEF TxnFields
<1>. QED
  BY <1>1, <1>6, <1>7 DEF row

\* The operations of TransactionRepo that read.
LEMMA TransactionsRead ==
  ASSUME NEW m, NEW d, StoresAlike(m, d), TxnsUnique(m.txns), NEW user
  PROVE  /\ Memory!Live(m, user) = Db!Live(d, user)
         /\ \A id : Memory!FindTransaction(m, user, id) = Db!FindTransaction(d, user, id)
<1>. DEFINE Row(i) == Db!TransactionCreateData(m.txns[i])
<1>1. /\ \A i \in DOMAIN m.txns : IsTxn(i, m.txns[i])
      /\ d.txns = {Row(i) : i \in DOMAIN m.txns}
  BY DEF StoresAlike, TxnsAlike
<1>2. \A i \in DOMAIN m.txns :
        /\ Db!ToTransaction(Row(i)) = m.txns[i] /\ m.txns[i].id = i
        /\ Row(i).id = i /\ Row(i).user = m.txns[i].user /\ Row(i).removed = m.txns[i].removed
  <2>1. TAKE i \in DOMAIN m.txns
  <2>2. IsTxn(i, m.txns[i])
    BY <1>1
  <2>. QED
    BY <2>2, TxnBack
<1>. HIDE DEF Row
<1>3. Memory!Live(m, user) = Db!Live(d, user)
  <2>1. Memory!Live(m, user)
          = {t \in {m.txns[i] : i \in DOMAIN m.txns} : t.user = user /\ ~t.removed}
    BY DEF Memory!Live, Memory!Range
  <2>2. Db!Live(d, user)
          = {Db!ToTransaction(r) : r \in {x \in {Row(i) : i \in DOMAIN m.txns} :
                                             x.user = user /\ ~x.removed}}
    BY <1>1 DEF Db!Live
  <2>3. ASSUME NEW i \in DOMAIN m.txns, m.txns[i].user = user, ~m.txns[i].removed
        PROVE  m.txns[i] \in Db!Live(d, user)
    <3>1. Row(i) \in {x \in {Row(j) : j \in DOMAIN m.txns} : x.user = user /\ ~x.removed}
      BY <1>2, <2>3
    <3>2. Db!ToTransaction(Row(i)) = m.txns[i]
      BY <1>2
    <3>. QED
      BY <2>2, <3>1, <3>2
  <2>4. ASSUME NEW t \in Db!Live(d, user)
        PROVE  t \in Memory!Live(m, user)
    <3>1. PICK i \in DOMAIN m.txns : Row(i).user = user /\ ~Row(i).removed /\ t = Db!ToTransaction(Row(i))
      BY <2>2
    <3>. QED
      BY <1>2, <2>1, <3>1
  <2>. QED
    BY <2>1, <2>3, <2>4
<1>4. ASSUME NEW id
      PROVE  Memory!FindTransaction(m, user, id) = Db!FindTransaction(d, user, id)
  <2>. DEFINE mine == {r \in d.txns : r.id = id /\ r.user = user}
              One == CHOOSE r \in d.txns : r.id = id /\ r.user = user
              has == id \in DOMAIN m.txns /\ m.txns[id].user = user
  <2>1. Memory!FindTransaction(m, user, id) = IF has THEN m.txns[id] ELSE Null
    BY DEF Memory!FindTransaction, Memory!Own, Memory!Has
  <2>2. Db!FindTransaction(d, user, id)
          = IF \E r \in d.txns : r.id = id /\ r.user = user THEN Db!ToTransaction(One) ELSE Null
    BY DEF Db!FindTransaction, Db!One
  <2>3. (\E r \in d.txns : r.id = id /\ r.user = user) <=> has
    BY <1>1, <1>2
  <2>4. has => Db!ToTransaction(One) = m.txns[id]
    <3>1. has => One \in d.txns /\ One.id = id
      BY <2>3
    <3>. HIDE DEF One
    <3>2. has => One = Row(id)
      BY <1>1, <1>2, <3>1
    <3>. QED
      BY <1>2, <3>2
  <2>. HIDE DEF has, One
  <2>. QED
    BY <2>1, <2>2, <2>3, <2>4
<1>. QED
  BY <1>3, <1>4

LEMMA TransactionsAgreeUnique ==
  ASSUME StoresAlike(memory, database), KeysAreUnique
  PROVE  TransactionsAgree
<1>1. TxnsUnique(memory.txns)
  BY KeysOfTables DEF KeysOf
<1>2. ASSUME NEW user \in Users, NEW from \in Times, NEW to \in Times, NEW words \in Words
      PROVE  /\ Memory!ListInWindow(memory, user, from, to) = Db!ListInWindow(database, user, from, to)
             /\ Memory!Live(memory, user) = Db!Live(database, user)
             /\ Memory!RecentForMerchant(memory, user, words, from)
                  = Db!RecentForMerchant(database, user, words, from)
             /\ \A id \in Ids :
                  Memory!FindTransaction(memory, user, id) = Db!FindTransaction(database, user, id)
  <2>1. /\ Memory!Live(memory, user) = Db!Live(database, user)
        /\ \A id : Memory!FindTransaction(memory, user, id) = Db!FindTransaction(database, user, id)
    BY <1>1, TransactionsRead
  <2>2. Memory!ListInWindow(memory, user, from, to) = Db!ListInWindow(database, user, from, to)
    BY <2>1 DEF Memory!ListInWindow, Db!ListInWindow
  <2>3. Memory!RecentForMerchant(memory, user, words, from)
          = Db!RecentForMerchant(database, user, words, from)
    BY <2>1 DEF Memory!RecentForMerchant, Db!RecentForMerchant
  <2>. QED
    BY <2>1, <2>2, <2>3
<1>. QED
  BY <1>2 DEF TransactionsAgree

\* A row of a baseline gives the baseline back: mean and median have one currency.
LEMMA BaselineBack ==
  ASSUME NEW b, IsBaseline(b)
  PROVE  LET row == Db!BaselineUpsertData(b)
         IN Db!ToBaseline(row) = b /\ row.user = b.user /\ row.period = b.period
<1>. DEFINE Fields == {"user", "category", "period", "mean", "median"}
            row == Db!BaselineUpsertData(b)
            back == Db!ToBaseline(row)
<1>1. /\ DOMAIN b = Fields /\ b = [f \in Fields |-> b[f]]
      /\ IsMoney(b.mean) /\ IsMoney(b.median) /\ b.mean.currency = b.median.currency
  <2>1. \A u, c, p, x, y :
          LET r == [user |-> u, category |-> c, period |-> p, mean |-> x, median |-> y]
          IN DOMAIN r = Fields /\ r = [f \in Fields |-> r[f]]
    OBVIOUS
  <2>. QED
    BY <2>1 DEF IsBaseline
<1>2. /\ DOMAIN row = Fields \cup {"currency"}
      /\ \A f \in {"user", "category", "period"} : row[f] = b[f]
      /\ row.mean = b.mean.minor /\ row.median = b.median.minor /\ row.currency = b.mean.currency
  BY <1>1 DEF Db!BaselineUpsertData, Db!Over
<1>. HIDE DEF row
<1>3. /\ back = [f \in Fields |-> back[f]]
      /\ \A f \in {"user", "category", "period"} : back[f] = row[f]
      /\ back.mean = Db!MoneyOf(row.mean, row.currency)
      /\ back.median = Db!MoneyOf(row.median, row.currency)
  <2>1. (DOMAIN row \ {"currency"}) \cup {"mean", "median"} = Fields
    BY <1>2
  <2>2. back = [f \in (DOMAIN row \ {"currency"}) \cup {"mean", "median"} |->
                  IF f \in {"mean", "median"}
                  THEN [mean |-> Db!MoneyOf(row.mean, row.currency),
                        median |-> Db!MoneyOf(row.median, row.currency)][f]
                  ELSE row[f]]
    BY DEF Db!ToBaseline, Db!Over, Db!Without
  <2>. QED
    BY <2>1, <2>2
<1>4. Db!MoneyOf(row.mean, row.currency) = b.mean /\ Db!MoneyOf(row.median, row.currency) = b.median
  BY <1>1, <1>2 DEF IsMoney, Db!MoneyOf
<1>. HIDE DEF back
<1>5. \A f \in Fields : back[f] = b[f]
  BY <1>2, <1>3, <1>4
<1>6. back = b
  BY <1>1, <1>3, <1>5
<1>. QED
  BY <1>2, <1>6 DEF row, back

\* Users, items, merchants and baselines are read alike, whatever the keys.
LEMMA SettingsAlwaysAgree ==
  ASSUME StoresAlike(memory, database)
  PROVE  SettingsAgree
<1>1. Range(memory.users) = database.users /\ Range(memory.items) = database.items
  BY DEF StoresAlike, EntitiesAlike
<1>2. ASSUME NEW merchant
      PROVE  Memory!Find(memory.merchants, merchant) = Db!LookupMerchant(database, merchant)
  <2>1. /\ \A k \in DOMAIN memory.merchants : memory.merchants[k].merchant = k
        /\ database.merchants = {memory.merchants[k] : k \in DOMAIN memory.merchants}
    BY DEF StoresAlike, MerchantsAlike, Range
  <2>. DEFINE One == CHOOSE r \in database.merchants : r.merchant = merchant
  <2>2. Db!LookupMerchant(database, merchant)
          = IF \E r \in database.merchants : r.merchant = merchant THEN One ELSE Null
    BY DEF Db!LookupMerchant, Db!One, Db!As
  <2>3. (\E r \in database.merchants : r.merchant = merchant) <=> merchant \in DOMAIN memory.merchants
    BY <2>1
  <2>4. merchant \in DOMAIN memory.merchants => One = memory.merchants[merchant]
    <3>1. merchant \in DOMAIN memory.merchants => One \in database.merchants /\ One.merchant = merchant
      BY <2>3
    <3>. HIDE DEF One
    <3>. QED
      BY <2>1, <3>1
  <2>. HIDE DEF One
  <2>. QED
    BY <2>2, <2>3, <2>4 DEF Memory!Find
<1>3. ASSUME NEW user, NEW period
      PROVE  Memory!BaselinesOf(memory, user, period) = Db!BaselinesOf(database, user, period)
  <2>. DEFINE Row(k) == Db!BaselineUpsertData(memory.baselines[k])
              keys == DOMAIN memory.baselines
  <2>1. /\ \A k \in keys : IsBaseline(memory.baselines[k])
        /\ database.baselines = {Row(k) : k \in keys}
    BY DEF StoresAlike, BaselinesAlike
  <2>2. \A k \in keys : /\ Db!ToBaseline(Row(k)) = memory.baselines[k]
                        /\ Row(k).user = memory.baselines[k].user
                        /\ Row(k).period = memory.baselines[k].period
    BY <2>1, BaselineBack
  <2>. HIDE DEF Row
  <2>3. Memory!BaselinesOf(memory, user, period)
          = {b \in {memory.baselines[k] : k \in keys} : b.user = user /\ b.period = period}
    BY DEF Memory!BaselinesOf, Memory!Range
  <2>4. Db!BaselinesOf(database, user, period)
          = {Db!ToBaseline(r) : r \in {b \in {Row(k) : k \in keys} : b.user = user /\ b.period = period}}
    BY <2>1 DEF Db!BaselinesOf
  <2>. HIDE DEF keys
  <2>5. ASSUME NEW k \in keys, memory.baselines[k].user = user, memory.baselines[k].period = period
        PROVE  memory.baselines[k] \in Db!BaselinesOf(database, user, period)
    <3>1. Row(k) \in {b \in {Row(j) : j \in keys} : b.user = user /\ b.period = period}
      BY <2>2, <2>5
    <3>. QED
      BY <2>2, <2>4, <3>1
  <2>6. ASSUME NEW b \in Db!BaselinesOf(database, user, period)
        PROVE  b \in Memory!BaselinesOf(memory, user, period)
    <3>1. PICK k \in keys : Row(k).user = user /\ Row(k).period = period /\ b = Db!ToBaseline(Row(k))
      BY <2>4
    <3>. QED
      BY <2>2, <2>3, <3>1
  <2>. QED
    BY <2>3, <2>5, <2>6
<1>. QED
  BY <1>1, <1>2, <1>3 DEF SettingsAgree

\* Lists that fit their limit are read alike: there is one order of time.
LEMMA SentAgreesInOrder ==
  ASSUME StoresAlike(memory, database), KeysAreUnique, ListsAreShort
  PROVE  SentAgrees
<1>1. /\ SentAlike(memory.digests, database.digests)
      /\ SentAlike(memory.anomalies, database.anomalies)
      /\ ReportsAlike(memory.reports, database.reports)
  BY DEF StoresAlike
<1>2. ASSUME NEW user \in Users, NEW table \in {"digests", "anomalies"}
      PROVE  Memory!Listed(memory, table, user, Limit) = Db!Listed(database, table, user, Limit)
  <2>. DEFINE mine == {i \in DOMAIN memory[table] : memory[table][i].user = user}
  <2>1. Cardinality(mine) <= Limit /\ \A i, j \in mine : i < j => memory[table][i].at < memory[table][j].at
    BY DEF ListsAreShort
  <2>2. SentAlike(memory[table], database[table])
    BY <1>1
  <2>3. Limit \in Nat
    BY LimitsOfCalls
  <2>4. \E them : them = mine
    OBVIOUS
  <2>5. PICK them : them = mine
    BY <2>4
  <2>6. /\ Cardinality(them) <= Limit
        /\ \A i, j \in them : i < j => memory[table][i].at < memory[table][j].at
    BY <2>1, <2>5
  <2>. QED
    BY <2>2, <2>3, <2>5, <2>6, ListedAlike
<1>3. ASSUME NEW user, NEW start, NEW end
      PROVE  Memory!UndeliveredInWindow(memory, user, start, end)
               = Db!UndeliveredInWindow(database, user, start, end)
  <2>1. database.anomalies = Range(memory.anomalies)
    BY <1>1 DEF SentAlike
  <2>. QED
    BY <2>1 DEF Memory!UndeliveredInWindow, Db!UndeliveredInWindow, Memory!Range, Range
<1>4. ASSUME NEW user, NEW month
      PROVE  Memory!FindReport(memory, user, month) = Db!FindReport(database, user, month)
  <2>. DEFINE list == memory.reports
              rows == database.reports
              found == {i \in DOMAIN list : list[i].user = user /\ list[i].month = month}
              first == CHOOSE i \in found : \A j \in found : i <= j
              One == CHOOSE r \in rows : r.user = user /\ r.month = month
  <2>1. ReportsUnique(list)
    BY KeysOfTables DEF KeysOf
  <2>2. rows = {list[i] : i \in DOMAIN list} /\ list \in Seq(Range(list))
    BY <1>1, <2>1 DEF ReportsAlike, Listing, Range
  <2>3. Memory!FindReport(memory, user, month) = IF found = {} THEN Null ELSE list[first]
    BY DEF Memory!FindReport
  <2>4. Db!FindReport(database, user, month)
          = IF \E r \in rows : r.user = user /\ r.month = month THEN One ELSE Null
    BY DEF Db!FindReport, Db!One, Db!As
  <2>5. DOMAIN list \subseteq Nat
    BY <2>2
  <2>. HIDE DEF list, rows
  <2>6. CASE found = {}
    <3>1. ~\E r \in rows : r.user = user /\ r.month = month
      BY <2>2, <2>6
    <3>. QED
      BY <2>3, <2>4, <2>6, <3>1
  <2>7. CASE found # {}
    <3>1. PICK i \in DOMAIN list : list[i].user = user /\ list[i].month = month
      BY <2>7
    <3>2. \A j \in found : j = i
      BY <2>1, <3>1 DEF ReportsUnique
    <3>3. i \in found /\ \A j \in found : i <= j
      BY <2>5, <3>1, <3>2
    <3>4. first \in found
      BY <3>3
    <3>5. first = i
      BY <3>2, <3>4
    <3>6. list[i] \in rows
      BY <2>2, <3>1
    <3>7. One \in rows /\ One.user = user /\ One.month = month
      BY <3>1, <3>6
    <3>. HIDE DEF One, first, found
    <3>8. One = list[i]
      <4>1. PICK j \in DOMAIN list : One = list[j]
        BY <2>2, <3>7
      <4>2. j = i
        BY <2>1, <3>1, <3>7, <4>1 DEF ReportsUnique
      <4>. QED
        BY <4>1, <4>2
    <3>9. \E r \in rows : r.user = user /\ r.month = month
      BY <3>1, <3>6
    <3>. QED
      BY <2>3, <2>4, <2>7, <3>5, <3>8, <3>9
  <2>. QED
    BY <2>6, <2>7
<1>. QED
  BY <1>2, <1>3, <1>4 DEF SentAgrees

\* A row of an account gives the account back when its address has lower case.
LEMMA AccountBack ==
  ASSUME NEW id, NEW a, IsAccount(id, a), ~a.address.upper, NEW token
  PROVE  LET row == AccountRow(a, token)
         IN Db!ToMailAccount(row) = a /\ Db!Decrypted(row.token) = token
<1>1. a.address.upper = FALSE
  BY DEF IsAccount
<1>2. Db!Lower(a.address) = a.address
  <2>1. Db!Lower(a.address) = [name |-> a.address.name, upper |-> FALSE]
    BY LowerAddress
  <2>2. a.address = [name |-> a.address.name, upper |-> a.address.upper]
    BY DEF IsAccount
  <2>. QED
    BY <1>1, <2>1, <2>2
<1>3. \A i, u, x, s, h, w, k :
        LET row == [id |-> i, user |-> u, address |-> x, status |-> s, history |-> h, watch |-> w,
                    token |-> k]
        IN /\ Db!ToMailAccount(row) = [id |-> i, user |-> u, address |-> x, status |-> s,
                                       history |-> h, watch |-> w]
           /\ row.token = k
  <2>1. TAKE i, u, x, s, h, w, k
  <2>. DEFINE row == [id |-> i, user |-> u, address |-> x, status |-> s, history |-> h, watch |-> w,
                      token |-> k]
              Fields == {"id", "user", "address", "status", "history", "watch"}
  <2>2. DOMAIN row \ {"token"} = Fields
    OBVIOUS
  <2>3. Db!ToMailAccount(row) = [f \in Fields |-> row[f]]
    <3>. HIDE DEF row, Fields
    <3>. QED
      BY <2>2 DEF Db!ToMailAccount, Db!Without
  <2>4. [f \in Fields |-> row[f]] = [id |-> i, user |-> u, address |-> x, status |-> s,
                                     history |-> h, watch |-> w]
    OBVIOUS
  <2>. QED
    BY <2>3, <2>4
<1>4. /\ Db!ToMailAccount(AccountRow(a, token))
           = [id |-> a.id, user |-> a.user, address |-> Db!Lower(a.address), status |-> a.status,
              history |-> a.history, watch |-> a.watch]
      /\ AccountRow(a, token).token = Db!Encrypted(token)
  BY <1>3 DEF AccountRow
<1>5. a = [id |-> id, user |-> a.user, address |-> a.address, status |-> a.status,
           history |-> a.history, watch |-> a.watch]
  BY DEF IsAccount
<1>6. a.id = id
  BY AccountId
<1>7. Db!Decrypted(Db!Encrypted(token)) = token
  BY DEF Db!Decrypted, Db!Encrypted
<1>. QED
  BY <1>2, <1>4, <1>5, <1>6, <1>7

\* Mail accounts, tokens and messages are read alike.
LEMMA MailAgreesInLowerCase ==
  ASSUME StoresAlike(memory, database), KeysAreUnique, AddressesAreLower
  PROVE  MailAgrees
<1>. DEFINE accounts == memory.accounts
            byAddress == memory.byAddress
            tokens == memory.tokens
            rows == database.accounts
            Row(i) == AccountRow(accounts[i], tokens[i])
<1>1. AccountsUnique(accounts)
  BY KeysOfTables DEF KeysOf
<1>2. /\ DOMAIN tokens = DOMAIN accounts
      /\ \A i \in DOMAIN accounts :
           IsAccount(i, accounts[i]) /\ Memory!Lower(accounts[i].address) \in DOMAIN byAddress
      /\ \A a \in DOMAIN byAddress :
           byAddress[a] \in DOMAIN accounts /\ Memory!Lower(accounts[byAddress[a]].address) = a
      /\ rows = {Row(i) : i \in DOMAIN accounts}
  BY <1>1 DEF StoresAlike, AccountsAlike
<1>3. \A i \in DOMAIN accounts : ~accounts[i].address.upper
  BY DEF AddressesAreLower, Range
<1>4. \A i \in DOMAIN accounts :
        /\ Db!ToMailAccount(Row(i)) = accounts[i] /\ Db!Decrypted(Row(i).token) = tokens[i]
        /\ Row(i).id = i /\ Row(i).user = accounts[i].user /\ Row(i).status = accounts[i].status
        /\ Row(i).address = Memory!Lower(accounts[i].address) /\ accounts[i].id = i
  <2>1. TAKE i \in DOMAIN accounts
  <2>2. IsAccount(i, accounts[i]) /\ ~accounts[i].address.upper
    BY <1>2, <1>3
  <2>3. Db!ToMailAccount(Row(i)) = accounts[i] /\ Db!Decrypted(Row(i).token) = tokens[i]
    BY <2>2, AccountBack
  <2>4. accounts[i].id = i /\ Db!Lower(accounts[i].address) = Memory!Lower(accounts[i].address)
    BY <2>2, AccountId, LowerAddress
  <2>5. /\ Row(i).id = accounts[i].id /\ Row(i).user = accounts[i].user
        /\ Row(i).status = accounts[i].status /\ Row(i).address = Db!Lower(accounts[i].address)
    BY AccountRowFields
  <2>. QED
    BY <2>3, <2>4, <2>5
<1>5. /\ \A user : Memory!AccountsOf(memory, user) = {a \in {accounts[i] : i \in DOMAIN accounts} : a.user = user}
      /\ Memory!ActiveAccounts(memory) = {a \in {accounts[i] : i \in DOMAIN accounts} : a.status = "active"}
  BY DEF Memory!AccountsOf, Memory!ActiveAccounts, Memory!Range
<1>. HIDE DEF Row
<1>6. /\ \A user : Db!AccountsOf(database, user)
                     = {Db!ToMailAccount(r) : r \in {a \in {Row(i) : i \in DOMAIN accounts} : a.user = user}}
      /\ Db!ActiveAccounts(database)
           = {Db!ToMailAccount(r) : r \in {a \in {Row(i) : i \in DOMAIN accounts} : a.status = "active"}}
  BY <1>2 DEF Db!AccountsOf, Db!ActiveAccounts
<1>. HIDE DEF accounts, tokens, byAddress, rows
<1>7. Memory!ActiveAccounts(memory) = Db!ActiveAccounts(database)
  <2>1. ASSUME NEW i \in DOMAIN accounts, accounts[i].status = "active"
        PROVE  accounts[i] \in Db!ActiveAccounts(database)
    <3>1. Row(i) \in {a \in {Row(j) : j \in DOMAIN accounts} : a.status = "active"}
      BY <1>4, <2>1
    <3>. QED
      BY <1>4, <1>6, <3>1
  <2>2. ASSUME NEW a \in Db!ActiveAccounts(database)
        PROVE  a \in Memory!ActiveAccounts(memory)
    <3>1. PICK i \in DOMAIN accounts : Row(i).status = "active" /\ a = Db!ToMailAccount(Row(i))
      BY <1>6
    <3>. QED
      BY <1>4, <1>5, <3>1
  <2>. QED
    BY <1>5, <2>1, <2>2
<1>8. ASSUME NEW user
      PROVE  Memory!AccountsOf(memory, user) = Db!AccountsOf(database, user)
  <2>1. /\ Memory!AccountsOf(memory, user)
             = {a \in {accounts[i] : i \in DOMAIN accounts} : a.user = user}
        /\ Db!AccountsOf(database, user)
             = {Db!ToMailAccount(r) : r \in {a \in {Row(i) : i \in DOMAIN accounts} : a.user = user}}
    BY <1>5, <1>6
  <2>2. ASSUME NEW i \in DOMAIN accounts, accounts[i].user = user
        PROVE  accounts[i] \in Db!AccountsOf(database, user)
    <3>1. Row(i) \in {a \in {Row(j) : j \in DOMAIN accounts} : a.user = user}
      BY <1>4, <2>2
    <3>. QED
      BY <1>4, <2>1, <3>1
  <2>3. ASSUME NEW a \in Db!AccountsOf(database, user)
        PROVE  a \in Memory!AccountsOf(memory, user)
    <3>1. PICK i \in DOMAIN accounts : Row(i).user = user /\ a = Db!ToMailAccount(Row(i))
      BY <2>1
    <3>. QED
      BY <1>4, <2>1, <3>1
  <2>. QED
    BY <2>1, <2>2, <2>3
<1>9. ASSUME NEW address
      PROVE  Memory!FindByAddress(memory, address) = Db!FindByAddress(database, address)
  <2>. DEFINE low == Memory!Lower(address)
              One == CHOOSE r \in rows : r.address = low
              i == byAddress[low]
  <2>1. Db!Lower(address) = low
    BY DEF Memory!Lower, Db!Lower
  <2>2. Memory!FindByAddress(memory, address) = IF low \in DOMAIN byAddress THEN accounts[i] ELSE Null
    BY DEF Memory!FindByAddress, accounts, byAddress
  <2>3. Db!FindByAddress(database, address)
          = IF \E r \in rows : r.address = low THEN Db!ToMailAccount(One) ELSE Null
    BY <2>1 DEF Db!FindByAddress, Db!One, rows
  <2>. HIDE DEF low
  <2>4. (\E r \in rows : r.address = low) <=> low \in DOMAIN byAddress
    BY <1>2, <1>4
  <2>5. ASSUME low \in DOMAIN byAddress
        PROVE  Db!ToMailAccount(One) = accounts[i]
    <3>1. One \in rows /\ One.address = low
      BY <2>4, <2>5
    <3>. HIDE DEF One
    <3>2. PICK j \in DOMAIN accounts : One = Row(j)
      BY <1>2, <3>1
    <3>3. Memory!Lower(accounts[j].address) = low
      BY <1>4, <3>1, <3>2
    <3>4. i \in DOMAIN accounts /\ Memory!Lower(accounts[i].address) = low
      BY <1>2, <2>5
    <3>5. j = i
      BY <1>1, <3>3, <3>4 DEF AccountsUnique
    <3>. QED
      BY <1>4, <3>2, <3>5
  <2>. QED
    BY <2>2, <2>3, <2>4, <2>5
<1>10. ASSUME NEW id
       PROVE  /\ Memory!Find(accounts, id) = Db!FindAccount(database, id)
              /\ Memory!Find(tokens, id) = Db!Token(database, id)
  <2>. DEFINE One == CHOOSE r \in rows : r.id = id
  <2>1. /\ Db!FindAccount(database, id)
             = IF \E r \in rows : r.id = id THEN Db!ToMailAccount(One) ELSE Null
        /\ Db!Token(database, id) = IF \E r \in rows : r.id = id THEN Db!Decrypted(One.token) ELSE Null
    BY DEF Db!FindAccount, Db!Token, Db!One, rows
  <2>2. (\E r \in rows : r.id = id) <=> id \in DOMAIN accounts
    BY <1>2, <1>4
  <2>3. id \in DOMAIN accounts => One = Row(id)
    <3>1. id \in DOMAIN accounts => One \in rows /\ One.id = id
      BY <2>2
    <3>. HIDE DEF One
    <3>. QED
      BY <1>2, <1>4, <3>1
  <2>. HIDE DEF One
  <2>. QED
    BY <1>2, <1>4, <2>1, <2>2, <2>3 DEF Memory!Find
<1>11. ASSUME NEW user, NEW id
       PROVE  Memory!FindMessage(memory, user, id) = Db!FindMessage(database, user, id)
  <2>. DEFINE messages == memory.messages
              One == CHOOSE r \in database.messages : r.id = id /\ r.user = user
              has == id \in DOMAIN messages /\ messages[id].user = user
  <2>1. MessagesAlike(memory.accounts, memory.messages, memory.byGmail, database.messages)
    BY DEF StoresAlike
  <2>2. /\ \A j \in DOMAIN messages : messages[j].id = j
        /\ database.messages = {messages[j] : j \in DOMAIN messages}
    <3>1. \A j \in DOMAIN messages : messages[j].id = j
      BY <2>1, MessageIds
    <3>2. database.messages = Range(messages)
      BY <2>1 DEF MessagesAlike
    <3>. QED
      BY <3>1, <3>2 DEF Range
  <2>3. Memory!FindMessage(memory, user, id) = IF has THEN messages[id] ELSE Null
    BY DEF Memory!FindMessage, Memory!Own, Memory!Has
  <2>4. Db!FindMessage(database, user, id)
          = IF \E r \in database.messages : r.id = id /\ r.user = user THEN One ELSE Null
    BY DEF Db!FindMessage, Db!One, Db!As
  <2>5. (\E r \in database.messages : r.id = id /\ r.user = user) <=> has
    BY <2>2
  <2>6. has => One = messages[id]
    <3>1. has => One \in database.messages /\ One.id = id
      BY <2>5
    <3>. HIDE DEF One
    <3>. QED
      BY <2>2, <3>1
  <2>. HIDE DEF has, One
  <2>. QED
    BY <2>3, <2>4, <2>5, <2>6
<1>12. ASSUME NEW user, NEW a \in DOMAIN memory.accounts, NEW gmail
       PROVE  Memory!FindByGmail(memory, user, a, gmail) = Db!FindByGmail(database, user, a, gmail)
  <2>. DEFINE messages == memory.messages
              byGmail == memory.byGmail
              holder == memory.accounts[a].user
              key == <<holder, a, gmail>>
              held == Db!Held(database, a, gmail)
              x == messages[byGmail[key]]
  <2>1. MessagesAlike(memory.accounts, messages, byGmail, database.messages)
    BY DEF StoresAlike
  <2>2. \A k \in DOMAIN byGmail :
          LET y == messages[byGmail[k]]
          IN /\ byGmail[k] \in DOMAIN messages /\ k = <<y.user, y.account, y.gmail>>
             /\ y.account \in DOMAIN memory.accounts /\ y.user = memory.accounts[y.account].user
    BY <2>1 DEF MessagesAlike
  <2>3. /\ key \in DOMAIN byGmail => held = {x}
        /\ key \notin DOMAIN byGmail => held = {}
    BY HeldMessage
  <2>4. Memory!FindByGmail(memory, user, a, gmail)
          = IF <<user, a, gmail>> \in DOMAIN byGmail
            THEN LET i == byGmail[<<user, a, gmail>>]
                 IN IF i \in DOMAIN messages /\ messages[i].user = user THEN messages[i] ELSE Null
            ELSE Null
    BY DEF Memory!FindByGmail, Memory!Own, Memory!Has
  <2>5. Db!FindByGmail(database, user, a, gmail)
          = IF held # {} /\ (CHOOSE r \in held : TRUE).user = user THEN CHOOSE r \in held : TRUE ELSE Null
    BY DEF Db!FindByGmail, Db!Owned
  <2>. HIDE DEF messages, byGmail, held
  <2>6. CASE user = holder
    <3>1. CASE key \in DOMAIN byGmail
      <4>1. byGmail[key] \in DOMAIN messages /\ x.user = user
        <5>. HIDE DEF holder
        <5>. QED
          BY <2>2, <2>6, <3>1
      <4>2. Memory!FindByGmail(memory, user, a, gmail) = x
        BY <2>4, <2>6, <3>1, <4>1
      <4>3. held # {} /\ (CHOOSE r \in held : TRUE) = x
        BY <2>3, <3>1, OnlyOne
      <4>. HIDE DEF x
      <4>. QED
        BY <2>5, <4>1, <4>2, <4>3
    <3>2. CASE key \notin DOMAIN byGmail
      BY <2>3, <2>4, <2>5, <2>6, <3>2
    <3>. QED
      BY <3>1, <3>2
  <2>7. CASE user # holder
    <3>1. <<user, a, gmail>> \notin DOMAIN byGmail
      <4>. SUFFICES ASSUME <<user, a, gmail>> \in DOMAIN byGmail
                    PROVE  FALSE
        OBVIOUS
      <4>. DEFINE y == messages[byGmail[<<user, a, gmail>>]]
      <4>1. <<user, a, gmail>> = <<y.user, y.account, y.gmail>> /\ y.user = memory.accounts[y.account].user
        BY <2>2
      <4>. HIDE DEF y
      <4>2. user = y.user /\ a = y.account
        BY <4>1
      <4>. QED
        BY <2>7, <4>1, <4>2
    <3>2. Memory!FindByGmail(memory, user, a, gmail) = Null
      BY <2>4, <3>1
    <3>3. CASE key \in DOMAIN byGmail
      <4>1. x.user = holder
        <5>1. key = <<x.user, x.account, x.gmail>>
          BY <2>2, <3>3
        <5>. HIDE DEF x, holder
        <5>. QED
          BY <5>1
      <4>2. (CHOOSE r \in held : TRUE) = x
        BY <2>3, <3>3, OnlyOne
      <4>. HIDE DEF x, holder
      <4>. QED
        BY <2>5, <2>7, <3>2, <4>1, <4>2
    <3>4. CASE key \notin DOMAIN byGmail
      BY <2>3, <2>5, <3>2, <3>4
    <3>. QED
      BY <3>3, <3>4
  <2>. QED
    BY <2>6, <2>7
<1>. QED
  BY <1>7, <1>8, <1>9, <1>10, <1>11, <1>12 DEF MailAgrees, accounts, tokens

\* A row of a receipt gives the receipt back when no line item has a price.
LEMMA ReceiptBack ==
  ASSUME NEW id, NEW r, IsReceipt(id, r), r.items \subseteq {Null}
  PROVE  Db!ToReceipt(Db!ReceiptCreateData(r)) = r
<1>. DEFINE Fields == {"id", "user", "message", "total", "items", "extractedAt"}
            Kept == {"id", "user", "message", "extractedAt"}
            row == Db!ReceiptCreateData(r)
            back == Db!ToReceipt(row)
            known == r.total # Null
<1>1. /\ DOMAIN r = Fields /\ r = [f \in Fields |-> r[f]]
      /\ known => IsMoney(r.total) /\ r.total.minor # Null /\ r.total.currency # Null
  <2>1. \A i, u, m, t, l, e :
          LET q == [id |-> i, user |-> u, message |-> m, total |-> t, items |-> l, extractedAt |-> e]
          IN DOMAIN q = Fields /\ q = [f \in Fields |-> q[f]]
    OBVIOUS
  <2>. QED
    BY <2>1 DEF IsReceipt
<1>2. /\ DOMAIN row = Kept \cup {"items", "totalMinor", "totalCurrency"}
      /\ \A f \in Kept \cup {"items"} : row[f] = r[f]
      /\ row.totalMinor = (IF known THEN r.total.minor ELSE Null)
      /\ row.totalCurrency = (IF known THEN r.total.currency ELSE Null)
  BY <1>1 DEF Db!ReceiptCreateData, Db!Over, Db!Without
<1>. HIDE DEF row
<1>3. /\ back = [f \in Fields |-> back[f]]
      /\ \A f \in Kept : back[f] = row[f]
      /\ back.items = {Db!Json(a) : a \in row.items}
      /\ back.total = IF row.totalMinor = Null \/ row.totalCurrency = Null THEN Null
                      ELSE Db!MoneyOf(row.totalMinor, row.totalCurrency)
  <2>. DEFINE read == [items |-> {Db!Json(a) : a \in row.items},
                       total |-> IF row.totalMinor = Null \/ row.totalCurrency = Null THEN Null
                                 ELSE Db!MoneyOf(row.totalMinor, row.totalCurrency)]
  <2>1. (DOMAIN row \ {"totalMinor", "totalCurrency"}) \cup {"items", "total"} = Fields
    BY <1>2
  <2>2. back = [f \in (DOMAIN row \ {"totalMinor", "totalCurrency"}) \cup {"items", "total"} |->
                  IF f \in {"items", "total"} THEN read[f] ELSE row[f]]
    <3>1. DOMAIN read = {"items", "total"}
      OBVIOUS
    <3>2. back = Db!Over(Db!Without(row, {"totalMinor", "totalCurrency"}), read)
      BY DEF Db!ToReceipt
    <3>. HIDE DEF read, back
    <3>. QED
      BY <3>1, <3>2 DEF Db!Over, Db!Without
  <2>. HIDE DEF back
  <2>. QED
    BY <2>1, <2>2
<1>. HIDE DEF back
<1>4. back.items = r.items
  <2>1. row.items = r.items
    BY <1>2
  <2>2. Db!Json(Null) = Null
    BY DEF Db!Json
  <2>3. \A a \in r.items : a = Null
    OBVIOUS
  <2>4. back.items = {Db!Json(a) : a \in r.items}
    BY <1>3, <2>1
  <2>. QED
    BY <2>2, <2>3, <2>4
<1>5. back.total = r.total
  <2>1. CASE known
    BY <1>1, <1>2, <1>3, <2>1 DEF IsMoney, Db!MoneyOf
  <2>2. CASE ~known
    BY <1>2, <1>3, <2>2
  <2>. QED
    BY <2>1, <2>2
<1>6. \A f \in Fields : back[f] = r[f]
  <2>1. \A f \in Kept : back[f] = r[f]
    BY <1>2, <1>3
  <2>. QED
    BY <1>4, <1>5, <2>1
<1>7. back = r
  BY <1>1, <1>3, <1>6
<1>. QED
  BY <1>7 DEF row, back

\* Receipts and links are read alike.
LEMMA ReceiptsAgreeUnpriced ==
  ASSUME StoresAlike(memory, database), KeysAreUnique, NothingIsPriced
  PROVE  ReceiptsAgree
<1>. DEFINE receipts == memory.receipts
            rows == database.receipts
            links == database.links
            ofTxn == memory.linkOfTxn
            ofReceipt == memory.linkOfReceipt
            Row(i) == Db!ReceiptCreateData(receipts[i])
            Bare(r) == ~\E l \in links : l.receipt = r.id
<1>1. /\ \A i \in DOMAIN receipts : IsReceipt(i, receipts[i])
      /\ rows = {Row(i) : i \in DOMAIN receipts}
  BY KeysOfTables DEF KeysOf, StoresAlike, ReceiptsAlike
<1>2. LinksAlike(memory.txns, receipts, ofTxn, ofReceipt, links)
  BY DEF StoresAlike
<1>3. \A i \in DOMAIN receipts :
        /\ Db!ToReceipt(Row(i)) = receipts[i] /\ receipts[i].id = i
        /\ Row(i).id = i /\ Row(i).user = receipts[i].user /\ Row(i).message = receipts[i].message
        /\ Row(i).extractedAt = receipts[i].extractedAt
  <2>1. TAKE i \in DOMAIN receipts
  <2>2. IsReceipt(i, receipts[i])
    BY <1>1
  <2>3. receipts[i].items \subseteq {Null}
    BY DEF NothingIsPriced, Range
  <2>4. Db!ToReceipt(Row(i)) = receipts[i]
    BY <2>2, <2>3, ReceiptBack
  <2>5. /\ receipts[i].id = i /\ Row(i).id = i /\ Row(i).user = receipts[i].user
        /\ Row(i).message = receipts[i].message /\ Row(i).extractedAt = receipts[i].extractedAt
    BY <2>2, ReceiptFields
  <2>. QED
    BY <2>4, <2>5
<1>. HIDE DEF Row
<1>4. ASSUME NEW user, NEW id
      PROVE  Memory!FindReceipt(memory, user, id) = Db!FindReceipt(database, user, id)
  <2>. DEFINE One == CHOOSE r \in rows : r.id = id /\ r.user = user
              has == id \in DOMAIN receipts /\ receipts[id].user = user
  <2>1. Memory!FindReceipt(memory, user, id) = IF has THEN receipts[id] ELSE Null
    BY DEF Memory!FindReceipt, Memory!Own, Memory!Has
  <2>2. Db!FindReceipt(database, user, id)
          = IF \E r \in rows : r.id = id /\ r.user = user THEN Db!ToReceipt(One) ELSE Null
    BY DEF Db!FindReceipt, Db!One
  <2>. HIDE DEF receipts, rows
  <2>3. (\E r \in rows : r.id = id /\ r.user = user) <=> has
    BY <1>1, <1>3
  <2>4. has => One = Row(id)
    <3>1. has => One \in rows /\ One.id = id
      BY <2>3
    <3>. HIDE DEF One
    <3>. QED
      BY <1>1, <1>3, <3>1
  <2>. HIDE DEF One
  <2>. QED
    BY <1>3, <2>1, <2>2, <2>3, <2>4
<1>5. ASSUME NEW user, NEW message
      PROVE  Memory!ReceiptsOf(memory, user, message) = Db!ReceiptsOf(database, user, message)
  <2>1. Memory!ReceiptsOf(memory, user, message)
          = {r \in {receipts[i] : i \in DOMAIN receipts} : r.user = user /\ r.message = message}
    BY DEF Memory!ReceiptsOf, Memory!Range
  <2>2. Db!ReceiptsOf(database, user, message)
          = {Db!ToReceipt(r) : r \in {x \in {Row(i) : i \in DOMAIN receipts} :
                                         x.user = user /\ x.message = message}}
    BY <1>1 DEF Db!ReceiptsOf
  <2>. HIDE DEF receipts
  <2>3. ASSUME NEW i \in DOMAIN receipts, receipts[i].user = user, receipts[i].message = message
        PROVE  receipts[i] \in Db!ReceiptsOf(database, user, message)
    <3>1. Row(i) \in {x \in {Row(j) : j \in DOMAIN receipts} : x.user = user /\ x.message = message}
      BY <1>3, <2>3
    <3>. QED
      BY <1>3, <2>2, <3>1
  <2>4. ASSUME NEW r \in Db!ReceiptsOf(database, user, message)
        PROVE  r \in Memory!ReceiptsOf(memory, user, message)
    <3>1. PICK i \in DOMAIN receipts :
            Row(i).user = user /\ Row(i).message = message /\ r = Db!ToReceipt(Row(i))
      BY <2>2
    <3>. QED
      BY <1>3, <2>1, <3>1
  <2>. QED
    BY <2>1, <2>3, <2>4
<1>6. ASSUME NEW i \in DOMAIN receipts, NEW user, receipts[i].user = user
      PROVE  (<<user, i>> \notin DOMAIN ofReceipt) <=> ~\E l \in links : l.receipt = i
  <2>. HIDE DEF receipts, links, ofReceipt
  <2>1. ASSUME NEW l \in links, l.receipt = i
        PROVE  <<user, i>> \in DOMAIN ofReceipt
    <3>1. l.user = receipts[i].user /\ <<l.user, l.receipt>> \in DOMAIN ofReceipt
      BY <1>2, <2>1 DEF LinksAlike
    <3>. QED
      BY <1>6, <2>1, <3>1
  <2>2. ASSUME <<user, i>> \in DOMAIN ofReceipt
        PROVE  \E l \in links : l.receipt = i
    <3>. DEFINE l == ofReceipt[<<user, i>>]
    <3>1. l \in links /\ <<user, i>> = <<l.user, l.receipt>>
      BY <1>2, <2>2 DEF LinksAlike
    <3>. HIDE DEF l
    <3>2. l.receipt = i
      BY <3>1
    <3>. QED
      BY <3>1, <3>2
  <2>. QED
    BY <2>1, <2>2
<1>7. ASSUME NEW user, NEW start, NEW end
      PROVE  Memory!UnmatchedInWindow(memory, user, start, end)
               = Db!UnmatchedInWindow(database, user, start, end)
  <2>. DEFINE In(r) == r.user = user /\ start <= r.extractedAt /\ r.extractedAt < end
  <2>1. Memory!UnmatchedInWindow(memory, user, start, end)
          = {r \in {receipts[i] : i \in DOMAIN receipts} : In(r) /\ <<user, r.id>> \notin DOMAIN ofReceipt}
    BY DEF Memory!UnmatchedInWindow, Memory!Range
  <2>2. Db!UnmatchedInWindow(database, user, start, end)
          = {Db!ToReceipt(r) : r \in {x \in {Row(i) : i \in DOMAIN receipts} : In(x) /\ Bare(x)}}
    BY <1>1 DEF Db!UnmatchedInWindow
  <2>3. \A i \in DOMAIN receipts : (In(Row(i)) <=> In(receipts[i])) /\ Row(i).id = i /\ receipts[i].id = i
    BY <1>3
  <2>. HIDE DEF receipts, ofReceipt
  <2>4. \A i \in DOMAIN receipts :
          In(receipts[i]) => (Bare(Row(i)) <=> <<user, receipts[i].id>> \notin DOMAIN ofReceipt)
    BY <1>6, <2>3
  <2>. HIDE DEF In, Bare
  <2>5. ASSUME NEW i \in DOMAIN receipts, In(receipts[i]), <<user, receipts[i].id>> \notin DOMAIN ofReceipt
        PROVE  receipts[i] \in Db!UnmatchedInWindow(database, user, start, end)
    <3>1. Row(i) \in {x \in {Row(j) : j \in DOMAIN receipts} : In(x) /\ Bare(x)}
      BY <2>3, <2>4, <2>5
    <3>. QED
      BY <1>3, <2>2, <3>1
  <2>6. ASSUME NEW r \in Db!UnmatchedInWindow(database, user, start, end)
        PROVE  r \in Memory!UnmatchedInWindow(memory, user, start, end)
    <3>1. PICK i \in DOMAIN receipts : In(Row(i)) /\ Bare(Row(i)) /\ r = Db!ToReceipt(Row(i))
      BY <2>2
    <3>2. r = receipts[i] /\ In(r) /\ <<user, r.id>> \notin DOMAIN ofReceipt
      BY <1>3, <2>3, <2>4, <3>1
    <3>. QED
      BY <2>1, <3>2
  <2>. QED
    BY <2>1, <2>5, <2>6
<1>8. ASSUME NEW user, NEW id
      PROVE  /\ Memory!LinkOfTransaction(memory, user, id) = Db!LinkOfTransaction(database, user, id)
             /\ Memory!LinkOfReceipt(memory, user, id) = Db!LinkOfReceipt(database, user, id)
  <2>. DEFINE key == <<user, id>>
              OfTxn == CHOOSE l \in links : l.user = user /\ l.txn = id
              OfReceipt == CHOOSE l \in links : l.user = user /\ l.receipt = id
  <2>1. /\ Memory!LinkOfTransaction(memory, user, id) = IF key \in DOMAIN ofTxn THEN ofTxn[key] ELSE Null
        /\ Memory!LinkOfReceipt(memory, user, id)
             = IF key \in DOMAIN ofReceipt THEN ofReceipt[key] ELSE Null
    BY DEF Memory!LinkOfTransaction, Memory!LinkOfReceipt, Memory!Find
  <2>2. /\ Db!LinkOfTransaction(database, user, id)
             = IF \E l \in links : l.user = user /\ l.txn = id THEN OfTxn ELSE Null
        /\ Db!LinkOfReceipt(database, user, id)
             = IF \E l \in links : l.user = user /\ l.receipt = id THEN OfReceipt ELSE Null
    BY DEF Db!LinkOfTransaction, Db!LinkOfReceipt, Db!One, Db!As
  <2>. HIDE DEF links, ofTxn, ofReceipt
  <2>3. \A l \in links : l.user = user /\ l.txn = id => key \in DOMAIN ofTxn /\ ofTxn[key] = l
    BY <1>2 DEF LinksAlike
  <2>4. \A l \in links : l.user = user /\ l.receipt = id => key \in DOMAIN ofReceipt /\ ofReceipt[key] = l
    BY <1>2 DEF LinksAlike
  <2>5. key \in DOMAIN ofTxn => \E l \in links : l.user = user /\ l.txn = id
    <3>. DEFINE l == ofTxn[key]
    <3>1. key \in DOMAIN ofTxn => l \in links /\ <<user, id>> = <<l.user, l.txn>>
      BY <1>2 DEF LinksAlike
    <3>. HIDE DEF l
    <3>. QED
      BY <3>1
  <2>6. key \in DOMAIN ofReceipt => \E l \in links : l.user = user /\ l.receipt = id
    <3>. DEFINE l == ofReceipt[key]
    <3>1. key \in DOMAIN ofReceipt => l \in links /\ <<user, id>> = <<l.user, l.receipt>>
      BY <1>2 DEF LinksAlike
    <3>. HIDE DEF l
    <3>. QED
      BY <3>1
  <2>7. /\ (\E l \in links : l.user = user /\ l.txn = id) =>
              OfTxn \in links /\ OfTxn.user = user /\ OfTxn.txn = id
        /\ (\E l \in links : l.user = user /\ l.receipt = id) =>
              OfReceipt \in links /\ OfReceipt.user = user /\ OfReceipt.receipt = id
    OBVIOUS
  <2>. HIDE DEF OfTxn, OfReceipt, key
  <2>. QED
    BY <2>1, <2>2, <2>3, <2>4, <2>5, <2>6, <2>7
<1>. QED
  BY <1>4, <1>5, <1>7, <1>8 DEF ReceiptsAgree

\* Stores that are alike are read alike.
LEMMA AlikeIsSeen == Alike => TestsSeeTheDatabase
<1>. SUFFICES ASSUME Alike, KeysAreUnique
              PROVE  /\ answers[1] = answers[2]
                     /\ TransactionsAgree /\ SettingsAgree
                     /\ ListsAreShort => SentAgrees
                     /\ AddressesAreLower => MailAgrees
                     /\ NothingIsPriced => ReceiptsAgree
  BY DEF TestsSeeTheDatabase
<1>1. StoresAlike(memory, database) /\ answers[1] = answers[2]
  BY DEF Alike
<1>. QED
  BY <1>1, TransactionsAgreeUnique, SettingsAlwaysAgree, SentAgreesInOrder,
     MailAgreesInLowerCase, ReceiptsAgreeUnpriced

\* The fakes do not drift from the real repositories: the calls of Next, and what can
\* be read after them, are answered alike within the limits that TestsSeeTheDatabase
\* names.
THEOREM TestsSeeTheDatabaseHolds == CallsSpec => []TestsSeeTheDatabase
  BY StoresStayAlike, AlikeIsSeen, PTL

\* What the services configure and learn, users' preferences, items, merchants
\* and baselines, is read alike without any of these limits.
THEOREM SettingsNeverDrift == CallsSpec => []SettingsAgree
<1>1. Alike => SettingsAgree
  BY SettingsAlwaysAgree DEF Alike
<1>. QED
  BY <1>1, StoresStayAlike, PTL

=============================================================================
