--------------------------- MODULE SchedulerProofs ---------------------------
(***************************************************************************)
(* Proofs about Scheduler, for all users, instances, calendars and bounds:  *)
(* its types; that no user gets two digests of one week; and that while     *)
(* nothing is late and an instance is left, nothing due is missed.          *)
(***************************************************************************)
EXTENDS Scheduler, FiniteSetTheorems, TLAPS

\* A job is not both in a queue and completed.
OnceInv == waiting \cap finished = {}

JobOf(d) == [kind |-> "digest", who |-> d.for, period |-> d.week]

\* A digest is the work of a completed job, and of one only.
DigestInv ==
    /\ \A d \in digests : JobOf(d) \in finished
    /\ DigestOncePerWeek

IInv == TypeOK /\ OnceInv /\ DigestInv

\* The instance has asked for the job, or is about to.
Asked(s) == Known \cup todo[s]

DueAsked(s, t) ==
    \A u \in Users :
        /\ IsDueForDigest(u, t) /\ changes = 0 => DigestId(u, t) \in Asked(s)
        /\ IsDueForReport(t) => ReportId(u, t) \in Asked(s)

\* The timer of the instance is not late, and a tick fell into every span that its
\* next tick does not reach.
Scanning(s) ==
    /\ up[s] /\ now <= next[s]
    /\ \A t \in Times, m \in (-TickUnits) .. Horizon :
         t \in Span(m) /\ m + TickUnits <= next[s] =>
            /\ (\A x \in Span(m) : SameMinute(x, t)) => DueAsked(s, t)
            /\ (\A x \in Span(m) : SameDay(x, t)) =>
                 \A a \in Accounts : WatchId(a, t) \in Asked(s)

\* A failure stops one instance, or loses what one instance had to ask for.
ScanInv ==
    /\ faults <= MaxFaults
    /\ delays = 0 =>
         \E failed \in SUBSET Instances :
            /\ IsFiniteSet(failed) /\ Cardinality(failed) <= faults
            /\ \A s \in Instances \ failed : Scanning(s)

-----------------------------------------------------------------------------
\* What a tick enqueues are jobs of the three kinds.
LEMMA DueAreJobs ==
  ASSUME NEW t \in Times
  PROVE  Due(t) \subseteq JobIds
<1>1. /\ Calendar[t].week \in Nat /\ Calendar[t].month \in Nat
      /\ Calendar[t].day \in Nat
  BY CalendarAssumption
<1>. QED
  BY <1>1 DEF Due, Watches, DigestId, ReportId, WatchId, JobIds

\* Every step keeps the types.
LEMMA TypeStep ==
  ASSUME TypeOK, [Next]_vars
  PROVE  TypeOK'
<1>. USE DEF TypeOK
<1>1. CASE Advance
  BY <1>1, UnitsAssumption DEF Advance, Times
<1>2. ASSUME NEW s \in Instances, Tick(s)
      PROVE  TypeOK'
  <2>1. Due(now) \subseteq JobIds
    BY DueAreJobs
  <2>2. next' \in [Instances -> Nat]
    BY <1>2, UnitsAssumption DEF Tick, NextTick, Times
  <2>. QED
    BY <1>2, <2>1, <2>2 DEF Tick
<1>3. ASSUME NEW s \in Instances, EnqueueFails(s)
      PROVE  TypeOK'
  BY <1>3 DEF EnqueueFails
<1>4. ASSUME NEW s \in Instances, Crash(s)
      PROVE  TypeOK'
  BY <1>4 DEF Crash
<1>5. ASSUME NEW s \in Instances, Start(s)
      PROVE  TypeOK'
  BY <1>5, UnitsAssumption DEF Start, Times
<1>6. ASSUME NEW s \in Instances, NEW id \in todo[s], Enqueue(s, id)
      PROVE  TypeOK'
  BY <1>6 DEF Enqueue
<1>7. ASSUME NEW u \in Users, NEW m \in Minutes, ChangeMoment(u, m)
      PROVE  TypeOK'
  BY <1>7 DEF ChangeMoment
<1>8. ASSUME NEW id \in waiting, RunDigest(id)
      PROVE  TypeOK'
  <2>1. id.who \in Users /\ id.period \in Nat
    BY <1>8 DEF RunDigest, DigestsWaiting, JobIds
  <2>. QED
    BY <1>8, <2>1 DEF RunDigest, Completed
<1>9. ASSUME NEW id \in waiting, RunOther(id)
      PROVE  TypeOK'
  BY <1>9 DEF RunOther, Completed
<1>10. CASE UNCHANGED vars
  BY <1>10 DEF vars
<1>. QED
  BY <1>1, <1>2, <1>3, <1>4, <1>5, <1>6, <1>7, <1>8, <1>9, <1>10 DEF Next

\* Every step keeps that a job is in one place: a known id does not enter.
LEMMA OnceStep ==
  ASSUME OnceInv, [Next]_vars
  PROVE  OnceInv'
<1>. USE DEF OnceInv
<1>1. ASSUME NEW s \in Instances, NEW id \in todo[s], Enqueue(s, id)
      PROVE  OnceInv'
  BY <1>1 DEF Enqueue, Known
<1>2. ASSUME NEW id \in waiting, RunDigest(id) \/ RunOther(id)
      PROVE  OnceInv'
  BY <1>2 DEF RunDigest, RunOther, Completed
<1>3. \/ UNCHANGED <<waiting, finished>>
      \/ \E s \in Instances : \E id \in todo[s] : Enqueue(s, id)
      \/ \E id \in waiting : RunDigest(id) \/ RunOther(id)
  BY DEF Next, Advance, Tick, EnqueueFails, Crash, Start, ChangeMoment, vars
<1>. QED
  BY <1>1, <1>2, <1>3

\* Every step keeps that a digest belongs to one completed job: the job of a
\* second digest would be waiting and completed.
LEMMA DigestStep ==
  ASSUME TypeOK, OnceInv, DigestInv, [Next]_vars
  PROVE  DigestInv'
<1>1. ASSUME NEW id \in waiting, RunDigest(id)
      PROVE  DigestInv'
  <2>. DEFINE new == [for |-> id.who, week |-> id.period, at |-> now]
  <2>1. /\ digests' = digests \cup {new}
        /\ finished' = finished \cup {id}
    BY <1>1 DEF RunDigest, Completed
  <2>2. JobOf(new) = id
    BY <1>1 DEF RunDigest, DigestsWaiting, JobOf, TypeOK, JobIds
  <2>3. id \notin finished
    BY DEF OnceInv
  <2>4. ASSUME NEW d \in digests, d.for = new.for, d.week = new.week
        PROVE  FALSE
    <3>1. JobOf(d) = JobOf(new)
      BY <2>4 DEF JobOf
    <3>. QED
      BY <2>2, <2>3, <3>1 DEF DigestInv
  <2>5. DigestOncePerWeek'
    BY <2>1, <2>4 DEF DigestInv, DigestOncePerWeek
  <2>6. \A d \in digests' : JobOf(d) \in finished'
    BY <2>1, <2>2 DEF DigestInv
  <2>. QED
    BY <2>5, <2>6 DEF DigestInv, JobOf
<1>2. CASE digests' = digests /\ finished \subseteq finished'
  BY <1>2 DEF DigestInv, DigestOncePerWeek, JobOf
<1>3. \/ digests' = digests /\ finished \subseteq finished'
      \/ \E id \in waiting : RunDigest(id)
  BY DEF Next, Advance, Tick, EnqueueFails, Crash, Start, Enqueue, ChangeMoment,
         RunOther, Completed, vars
<1>. QED
  BY <1>1, <1>2, <1>3

LEMMA Inductive == Spec => []IInv
<1>1. Init => IInv
  <2>. SUFFICES ASSUME Init
                PROVE  IInv
    OBVIOUS
  <2>1. TypeOK
    BY UnitsAssumption DEF Init, TypeOK, Times
  <2>. QED
    BY <2>1 DEF Init, IInv, OnceInv, DigestInv, DigestOncePerWeek
<1>2. IInv /\ [Next]_vars => IInv'
  BY TypeStep, OnceStep, DigestStep DEF IInv
<1>. QED
  BY <1>1, <1>2, PTL DEF Spec

-----------------------------------------------------------------------------
(* What an instance that nothing has failed asks for. *)

\* Whatever such an instance has asked for stays asked for.
LEMMA ScanningKept ==
  ASSUME NEW s \in Instances, Scanning(s), up'[s], now' <= next'[s],
         next'[s] = next[s], Asked(s) \subseteq Asked(s)',
         changes' = 0 => changes = 0 /\ moment' = moment
  PROVE  Scanning(s)'
<1>1. ASSUME NEW t \in Times, DueAsked(s, t)
      PROVE  DueAsked(s, t)'
  BY <1>1 DEF DueAsked, IsDueForDigest, IsDueForReport
<1>. QED
  BY <1>1 DEF Scanning

\* A tick in time asks for what is due in all spans that it falls into.
LEMMA TickScans ==
  ASSUME TypeOK, NEW s \in Instances, Scanning(s), Tick(s)
  PROVE  Scanning(s)'
<1>1. /\ now \in Times /\ next[s] = now /\ next'[s] = now + TickUnits
      /\ up'[s] /\ now' = now /\ moment' = moment /\ changes' = changes
      /\ Due(now) \subseteq todo'[s] /\ Asked(s) \subseteq Asked(s)'
  BY UnitsAssumption DEF Tick, NextTick, Scanning, TypeOK, Times, Asked, Known
<1>2. ASSUME NEW t \in Times, NEW m \in (-TickUnits) .. Horizon,
             t \in Span(m), m + TickUnits <= next'[s], ~(m + TickUnits <= next[s])
      PROVE  now \in Span(m)
  BY <1>1, <1>2, UnitsAssumption DEF Span, Times
<1>3. ASSUME NEW t \in Times, SameMinute(now, t)
      PROVE  DueAsked(s, t)'
  <2>1. ASSUME NEW u \in Users, IsDueForDigest(u, t)
        PROVE  DigestId(u, t) \in Due(now)
    BY <1>3, <2>1 DEF Due, IsDueForDigest, DigestId, SameMinute
  <2>2. ASSUME NEW u \in Users, IsDueForReport(t)
        PROVE  ReportId(u, t) \in Due(now)
    BY <1>3, <2>2 DEF Due, IsDueForReport, ReportId, SameMinute
  <2>. QED
    BY <1>1, <2>1, <2>2 DEF DueAsked, Asked, IsDueForDigest, IsDueForReport
<1>4. ASSUME NEW t \in Times, SameDay(now, t), NEW a \in Accounts
      PROVE  WatchId(a, t) \in Asked(s)'
  <2>1. WatchId(a, t) \in Due(now)
    BY <1>4 DEF Due, Watches, WatchId, SameDay
  <2>. QED
    BY <1>1, <2>1 DEF Asked
<1>5. ASSUME NEW t \in Times, DueAsked(s, t)
      PROVE  DueAsked(s, t)'
  BY <1>1, <1>5 DEF DueAsked, IsDueForDigest, IsDueForReport
<1>6. ASSUME NEW t \in Times, NEW m \in (-TickUnits) .. Horizon,
             t \in Span(m), m + TickUnits <= next'[s]
      PROVE  /\ (\A x \in Span(m) : SameMinute(x, t)) => DueAsked(s, t)'
             /\ (\A x \in Span(m) : SameDay(x, t)) =>
                  \A a \in Accounts : WatchId(a, t) \in Asked(s)'
  <2>1. CASE m + TickUnits <= next[s]
    BY <1>1, <1>5, <1>6, <2>1 DEF Scanning
  <2>2. CASE ~(m + TickUnits <= next[s])
    BY <1>2, <1>3, <1>4, <1>6, <2>2
  <2>. QED
    BY <2>1, <2>2
<1>7. now' <= next'[s]
  BY <1>1, UnitsAssumption DEF Times
<1>. QED
  BY <1>1, <1>6, <1>7 DEF Scanning

\* What fails of an instance.
Fails(s) == EnqueueFails(s) \/ Crash(s)

LEMMA ScanningStep ==
  ASSUME TypeOK, delays' = 0, NEW s \in Instances, Scanning(s), [Next]_vars, ~Fails(s)
  PROVE  Scanning(s)'
<1>. USE DEF TypeOK
<1>0. up[s] /\ now <= next[s]
  BY DEF Scanning
<1>1. CASE Advance
  <2>1. now' <= next'[s]
    BY <1>0, <1>1 DEF Advance, InTime, Times
  <2>. QED
    BY <1>0, <1>1, <2>1, ScanningKept DEF Advance, Asked, Known
<1>2. ASSUME NEW r \in Instances, Tick(r)
      PROVE  Scanning(s)'
  <2>1. CASE r = s
    BY <1>2, <2>1, TickScans
  <2>2. CASE r # s
    BY <1>0, <1>2, <2>2, ScanningKept DEF Tick, Asked, Known
  <2>. QED
    BY <2>1, <2>2
<1>3. ASSUME NEW r \in Instances, Fails(r)
      PROVE  Scanning(s)'
  <2>1. r # s
    BY <1>3
  <2>. QED
    BY <1>0, <1>3, <2>1, ScanningKept DEF Fails, EnqueueFails, Crash, Asked, Known
<1>4. ASSUME NEW r \in Instances, Start(r)
      PROVE  Scanning(s)'
  BY <1>0, <1>4, ScanningKept DEF Start, Asked, Known
<1>5. ASSUME NEW r \in Instances, NEW id \in todo[r], Enqueue(r, id)
      PROVE  Scanning(s)'
  <2>1. Asked(s) \subseteq Asked(s)'
    BY <1>5 DEF Enqueue, Asked, Known
  <2>. QED
    BY <1>0, <1>5, <2>1, ScanningKept DEF Enqueue
<1>6. ASSUME NEW u \in Users, NEW m \in Minutes, ChangeMoment(u, m)
      PROVE  Scanning(s)'
  <2>1. changes' # 0
    BY <1>6 DEF ChangeMoment
  <2>. QED
    BY <1>0, <1>6, <2>1, ScanningKept DEF ChangeMoment, Asked, Known
<1>7. ASSUME NEW id \in waiting, RunDigest(id) \/ RunOther(id)
      PROVE  Scanning(s)'
  <2>1. Asked(s) \subseteq Asked(s)'
    BY <1>7 DEF RunDigest, RunOther, Completed, Asked, Known
  <2>. QED
    BY <1>0, <1>7, <2>1, ScanningKept DEF RunDigest, RunOther
<1>8. CASE UNCHANGED vars
  BY <1>0, <1>8, ScanningKept DEF vars, Asked, Known
<1>. QED
  BY <1>1, <1>2, <1>3, <1>4, <1>5, <1>6, <1>7, <1>8 DEF Next, Fails

\* A failure adds its instance to those that have failed; no other step does.
LEMMA ScanStep ==
  ASSUME TypeOK, ScanInv, [Next]_vars
  PROVE  ScanInv'
<1>. USE DEF TypeOK
<1>1. faults \in Nat /\ MaxFaults \in Nat
  BY UnitsAssumption
<1>2. \/ faults' = faults /\ \A s \in Instances : ~Fails(s)
      \/ \E r \in Instances :
           /\ faults' = faults + 1 /\ faults < MaxFaults
           /\ \A s \in Instances \ {r} : ~Fails(s)
  <2>1. ASSUME NEW r \in Instances, Fails(r)
        PROVE  /\ faults' = faults + 1 /\ faults < MaxFaults
               /\ todo'[r] # todo[r] \/ up'[r] # up[r]
               /\ \A s \in Instances \ {r} : todo'[s] = todo[s] /\ up'[s] = up[s]
    <3>1. CASE EnqueueFails(r)
      <4>1. PICK lost \in (SUBSET todo[r]) \ {{}} : todo' = [todo EXCEPT ![r] = @ \ lost]
        BY <3>1 DEF EnqueueFails
      <4>2. PICK id \in lost : id \in todo[r]
        BY <4>1
      <4>3. todo'[r] # todo[r]
        BY <4>1, <4>2
      <4>. QED
        BY <3>1, <4>1, <4>3 DEF EnqueueFails
    <3>2. CASE Crash(r)
      BY <3>2 DEF Crash
    <3>. QED
      BY <2>1, <3>1, <3>2 DEF Fails
  <2>2. ASSUME NEW r \in Instances, NEW s \in Instances, Fails(r), Fails(s)
        PROVE  r = s
    BY <2>1, <2>2
  <2>3. CASE \A s \in Instances : ~Fails(s)
    BY <2>3, <1>1 DEF Next, Advance, Tick, Start, Enqueue, ChangeMoment, RunDigest, RunOther,
          Fails, vars
  <2>4. CASE \E s \in Instances : Fails(s)
    BY <2>1, <2>2, <2>4
  <2>. QED
    BY <2>3, <2>4
<1>3. faults' <= MaxFaults
  BY <1>1, <1>2 DEF ScanInv
<1>4. ASSUME delays' = 0
      PROVE  \E failed \in SUBSET Instances :
                /\ IsFiniteSet(failed) /\ Cardinality(failed) <= faults'
                /\ \A s \in Instances \ failed : Scanning(s)'
  <2>1. delays = 0
    BY <1>4 DEF Next, Advance, Tick, EnqueueFails, Crash, Start, Enqueue, ChangeMoment,
          RunDigest, RunOther, vars
  <2>2. PICK failed \in SUBSET Instances :
           /\ IsFiniteSet(failed) /\ Cardinality(failed) <= faults
           /\ \A s \in Instances \ failed : Scanning(s)
    BY <2>1 DEF ScanInv
  <2>3. CASE faults' = faults /\ \A s \in Instances : ~Fails(s)
    BY <1>4, <2>2, <2>3, ScanningStep
  <2>4. ASSUME NEW r \in Instances, faults' = faults + 1,
               \A s \in Instances \ {r} : ~Fails(s)
        PROVE  \E all \in SUBSET Instances :
                  /\ IsFiniteSet(all) /\ Cardinality(all) <= faults'
                  /\ \A s \in Instances \ all : Scanning(s)'
    <3>0. Cardinality(failed) \in Nat
      BY <2>2, FS_CardinalityType
    <3>1. /\ IsFiniteSet(failed \cup {r})
          /\ Cardinality(failed \cup {r}) <= Cardinality(failed) + 1
      <4>1. IsFiniteSet(failed)
        BY <2>2
      <4>2. /\ IsFiniteSet(failed \cup {r})
            /\ Cardinality(failed \cup {r})
                 = IF r \in failed THEN Cardinality(failed) ELSE Cardinality(failed) + 1
        BY <4>1, FS_AddElement, Zenon
      <4>. QED
        BY <3>0, <4>2
    <3>2. Cardinality(failed \cup {r}) \in Nat
      BY <3>1, FS_CardinalityType
    <3>3. Cardinality(failed \cup {r}) <= faults'
      BY <1>1, <2>2, <2>4, <3>0, <3>1, <3>2
    <3>4. \A s \in Instances \ (failed \cup {r}) : Scanning(s)'
      BY <1>4, <2>2, <2>4, ScanningStep
    <3>. QED
      BY <3>1, <3>3, <3>4
  <2>. QED
    BY <1>2, <2>3, <2>4
<1>. QED
  BY <1>3, <1>4 DEF ScanInv

LEMMA ScanInductive == Spec => []ScanInv
<1>1. ASSUME Init
      PROVE  ScanInv
  <2>1. faults = 0 /\ MaxFaults \in Nat
    BY <1>1, UnitsAssumption DEF Init
  <2>2. \A s \in Instances : Scanning(s)
    BY <1>1, UnitsAssumption DEF Init, Scanning, Span, Times
  <2>3. {} \in SUBSET Instances /\ IsFiniteSet({}) /\ Cardinality({}) <= faults
    BY <2>1, FS_EmptySet
  <2>. QED
    BY <2>1, <2>2, <2>3 DEF ScanInv
<1>2. IInv /\ ScanInv /\ [Next]_vars => ScanInv'
  BY ScanStep DEF IInv
<1>. QED
  BY <1>1, <1>2, Inductive, PTL DEF Spec

\* More instances than may fail.
OneIsLeft == IsFiniteSet(Instances) /\ MaxFaults < Cardinality(Instances)

\* Then one of them has failed at nothing so far.
LEMMA OneScans ==
  ASSUME OneIsLeft, TypeOK, ScanInv, delays = 0
  PROVE  \E s \in Instances : Scanning(s)
<1>1. PICK failed \in SUBSET Instances :
         /\ IsFiniteSet(failed) /\ Cardinality(failed) <= faults
         /\ \A s \in Instances \ failed : Scanning(s)
  BY DEF ScanInv
<1>2. failed # Instances
  <2>1. Cardinality(failed) \in Nat /\ Cardinality(Instances) \in Nat
    BY <1>1, FS_CardinalityType DEF OneIsLeft
  <2>. QED
    BY <1>1, <2>1, UnitsAssumption DEF OneIsLeft, ScanInv, TypeOK
<1>. QED
  BY <1>1, <1>2

\* A span that lies in the past has been reached by the next tick of any instance
\* that is not late.
LEMMA SpanOver ==
  ASSUME TypeOK, NEW s \in Instances, Scanning(s), NEW t \in Times,
         NEW m \in (-TickUnits) .. t, t \in Span(m), m + TickUnits <= now
  PROVE  /\ (\A x \in Span(m) : SameMinute(x, t)) => DueAsked(s, t)
         /\ (\A x \in Span(m) : SameDay(x, t)) =>
              \A a \in Accounts : WatchId(a, t) \in Asked(s)
<1>1. m \in (-TickUnits) .. Horizon /\ m + TickUnits <= next[s]
  BY UnitsAssumption DEF Scanning, TypeOK, Times
<1>. QED
  BY <1>1 DEF Scanning

-----------------------------------------------------------------------------
\* The variables of the scheduler keep their types in every behaviour.
THEOREM TypeCorrect == Spec => []TypeOK
<1>1. IInv => TypeOK
  BY DEF IInv
<1>. QED
  BY <1>1, Inductive, PTL

\* No user gets two digests of one ISO week, however many instances scan, and
\* whatever clocks, restarts, late ticks and changed preferences do.
THEOREM DigestOncePerWeekHolds == Spec => []DigestOncePerWeek
<1>1. IInv => DigestOncePerWeek
  BY DEF IInv, DigestInv
<1>. QED
  BY <1>1, Inductive, PTL

\* For every calendar, every number of users and accounts, and as long as there are
\* more instances than failures and nothing is late, no digest moment and no report
\* moment is overlooked (digest-schedule.ts:11, report-schedule.ts:17).
THEOREM DueIsNeverMissedHolds ==
  ASSUME OneIsLeft
  PROVE  Spec => []DueIsNeverMissed
<1>1. IInv /\ ScanInv => DueIsNeverMissed
  <2>. SUFFICES ASSUME IInv, ScanInv, delays = 0, NEW t \in Times, t + TickUnits <= now,
                       NEW u \in Users
                PROVE  /\ IsDueForDigest(u, t) /\ changes = 0 => DigestId(u, t) \in Requested
                       /\ IsDueForReport(t) => ReportId(u, t) \in Requested
    BY DEF DueIsNeverMissed
  <2>1. PICK s \in Instances : Scanning(s)
    BY OneScans DEF IInv
  <2>2. PICK m \in (-TickUnits) .. t : t \in Span(m) /\ \A x \in Span(m) : SameMinute(x, t)
    BY MinuteAssumption
  <2>3. m + TickUnits <= now
    BY UnitsAssumption DEF IInv, TypeOK, Times
  <2>4. DueAsked(s, t)
    BY <2>1, <2>2, <2>3, SpanOver DEF IInv
  <2>. QED
    BY <2>4 DEF DueAsked, Asked, Requested
<1>. QED
  BY <1>1, Inductive, ScanInductive, PTL

\* And the watch of every account is renewed on every UTC day that is over
\* (scheduler-service.ts:63-74).
THEOREM WatchAlwaysRenewedDaily ==
  ASSUME OneIsLeft
  PROVE  Spec => []WatchRenewedDaily
<1>1. IInv /\ ScanInv => WatchRenewedDaily
  <2>. SUFFICES ASSUME IInv, ScanInv, delays = 0, NEW t \in Times, t <= now,
                       Calendar[t].day < Calendar[now].day, NEW a \in Accounts
                PROVE  WatchId(a, t) \in Requested
    BY DEF WatchRenewedDaily
  <2>1. PICK s \in Instances : Scanning(s)
    BY OneScans DEF IInv
  <2>2. PICK m \in (-TickUnits) .. t : t \in Span(m) /\ \A x \in Span(m) : SameDay(x, t)
    BY DayAssumption
  <2>3. now \in Times /\ now \notin Span(m)
    <3>1. now \in Times /\ Calendar[now].day \in Nat
      BY CalendarAssumption DEF IInv, TypeOK
    <3>. QED
      BY <2>2, <3>1 DEF SameDay
  <2>4. m + TickUnits <= now
    BY <2>3, UnitsAssumption DEF Span, Times
  <2>5. WatchId(a, t) \in Asked(s)
    BY <2>1, <2>2, <2>4, SpanOver DEF IInv
  <2>. QED
    BY <2>5 DEF Asked, Requested
<1>. QED
  BY <1>1, Inductive, ScanInductive, PTL
=============================================================================
