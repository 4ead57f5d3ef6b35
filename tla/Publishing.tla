----------------------------- MODULE Publishing -----------------------------
(***************************************************************************)
(* What a user is sent: the weekly digest (digest.generate), the monthly    *)
(* report (report.generate), the anomaly alert (anomaly.evaluate), and the  *)
(* delivery.send job that mails each of them.  A generator writes a row in  *)
(* Postgres and then puts a delivery job in Redis; no transaction spans     *)
(* the two, and any step of an attempt may be the last one of it.           *)
(*                                                                          *)
(* One user.  A job is run by the slots of one or more worker processes.    *)
(* Whether a failed attempt is repeated or buried is the subject of module  *)
(* JobQueue; here both may follow every failure.                            *)
(*                                                                          *)
(* An operator named Something_Wrong, before Something, is a mistake in the *)
(* same place of the code that the properties below are to notice.          *)
(***************************************************************************)
EXTENDS Naturals, Sequences, FiniteSets

CONSTANTS
    Weeks,      \* ISO weeks: each has one digest.generate job
    Months,     \* calendar months: each has one report.generate job
    Txns,       \* transactions: each has one anomaly.evaluate job
    NoItem,     \* what a slot holds that runs no generator
    Severities, \* the severity of each detector's verdict, in registry order
    Preference, \* user.deliveryPreference
    Limit,      \* rows that history() and listRecent() return (100)
    Slots,      \* concurrent handler slots
    MaxFaults   \* bound: failed attempts, crashes and lost locks

Items == Weeks \cup Months \cup Txns

ASSUME ItemsAssumption ==
    /\ NoItem \notin Items
    /\ Weeks \cap Months = {} /\ Weeks \cap Txns = {} /\ Months \cap Txns = {}
ASSUME SettingsAssumption ==
    /\ Severities \in Seq({"high", "low"})
    /\ Preference \in {"email", "sms"}
    /\ Limit \in Nat \ {0}
    /\ MaxFaults \in Nat

VARIABLES
    gen,    \* the generator job of each item
    rows,   \* digests, reports and anomalies in the order of their creation
    pc,     \* what each slot does
    item,   \* the item of the generator that the slot runs
    row,    \* the row that the slot has created, or is delivering
    left,   \* verdicts that the slot still has to ask for
    stale,  \* has the slot lost the lock of its job
    faults

vars == <<gen, rows, pc, item, row, left, stale, faults>>
slotVars == <<pc, item, row, left, stale>>

JobStates == {"absent", "waiting", "active", "done", "dead"}
GeneratorSteps == {"load", "write", "detect", "enqueue", "return"}
DeliverySteps == {"find", "send", "mark", "finish"}

\* urgent: is delivery enqueued at once, or does the row wait for a digest.
NewRow(i, urgent) == [of |-> i, urgent |-> urgent, mail |-> "absent",
                      sent |-> 0, delivered |-> FALSE]

RowsOf(i) == {n \in DOMAIN rows : rows[n].of = i}

Init ==
    /\ gen = [i \in Items |-> "absent"]
    /\ rows = <<>>
    /\ pc = [w \in Slots |-> "idle"]
    /\ item = [w \in Slots |-> NoItem]
    /\ row = [w \in Slots |-> 0]
    /\ left = [w \in Slots |-> 0]
    /\ stale = [w \in Slots |-> FALSE]
    /\ faults = 0

Goto(w, step) == pc' = [pc EXCEPT ![w] = step]

\* The attempt of the slot is over.
Release(w) ==
    /\ pc' = [pc EXCEPT ![w] = "idle"]
    /\ item' = [item EXCEPT ![w] = NoItem]
    /\ row' = [row EXCEPT ![w] = 0]
    /\ left' = [left EXCEPT ![w] = 0]
    /\ stale' = [stale EXCEPT ![w] = FALSE]

\* Redis takes the outcome of a job from the owner of its lock only.
Accepted(w) == ~stale[w]

GeneratorEnds(w, state) ==
    /\ gen' = [gen EXCEPT ![item[w]] = IF Accepted(w) THEN state ELSE @]
    /\ UNCHANGED rows

DeliveryEnds(w, state) ==
    /\ rows' = [rows EXCEPT ![row[w]].mail = IF Accepted(w) THEN state ELSE @]
    /\ UNCHANGED gen

-----------------------------------------------------------------------------
(* Generators. *)

\* The scheduler, or categorisation for a transaction, enqueues the job.  Its
\* id is fixed (or the caller runs once), so that it enters the queue once.
Known(i) == gen[i] # "absent"

Request(i) ==
    /\ ~Known(i)
    /\ gen' = [gen EXCEPT ![i] = "waiting"]
    /\ UNCHANGED <<rows, slotVars, faults>>

Take(w, i) ==
    /\ pc[w] = "idle"
    /\ gen[i] = "waiting"
    /\ gen' = [gen EXCEPT ![i] = "active"]
    /\ item' = [item EXCEPT ![w] = i]
    /\ Goto(w, "load")
    /\ UNCHANGED <<rows, row, left, stale, faults>>

\* reports.findByYearMonth; a digest and an anomaly are not looked up.
AlreadyWritten(i) == i \in Months /\ RowsOf(i) # {}

LoadSkips(w) ==
    /\ pc[w] = "load"
    /\ AlreadyWritten(item[w])
    /\ GeneratorEnds(w, "done") /\ Release(w)
    /\ UNCHANGED faults

Load(w) ==
    /\ pc[w] = "load"
    /\ ~AlreadyWritten(item[w])
    /\ IF item[w] \in Txns
       THEN Goto(w, "detect") /\ left' = [left EXCEPT ![w] = Len(Severities)]
       ELSE Goto(w, "write") /\ UNCHANGED left
    /\ UNCHANGED <<gen, rows, item, row, stale, faults>>

\* What becomes of the job when its handler throws a non-retryable error.
Fatal_Retried == "waiting"

Fatal == "dead"

\* The prose breaks the money contract: a ValidationError, never retried.
Reject(w) ==
    /\ pc[w] = "write"
    /\ GeneratorEnds(w, Fatal) /\ Release(w)
    /\ UNCHANGED faults

\* The unique index on (user, yearMonth); digests and anomalies have none.
Insertable_NoIndex(i) == TRUE

Insertable(i) == i \in Months => RowsOf(i) = {}

AfterWrite_Returns == "return"

AfterWrite == "enqueue"

Write(w) ==
    /\ pc[w] = "write"
    /\ Insertable(item[w])
    /\ rows' = Append(rows, NewRow(item[w], TRUE))
    /\ row' = [row EXCEPT ![w] = Len(rows) + 1]
    /\ Goto(w, AfterWrite)
    /\ UNCHANGED <<gen, item, left, stale, faults>>

\* One detector of the registry, in the order of the registry.
Severity(w) == Severities[Len(Severities) + 1 - left[w]]

DetectNothing(w) ==
    /\ pc[w] = "detect"
    /\ left[w] > 0
    /\ left' = [left EXCEPT ![w] = @ - 1]
    /\ UNCHANGED <<gen, rows, pc, item, row, stale, faults>>

AfterDetect(w) == IF Severity(w) = "high" THEN "enqueue" ELSE "detect"

Detect(w) ==
    /\ pc[w] = "detect"
    /\ left[w] > 0
    /\ left' = [left EXCEPT ![w] = @ - 1]
    /\ rows' = Append(rows, NewRow(item[w], Severity(w) = "high"))
    /\ row' = [row EXCEPT ![w] = Len(rows) + 1]
    /\ Goto(w, AfterDetect(w))
    /\ UNCHANGED <<gen, item, stale, faults>>

\* The delivery job has no fixed id: it always enters the queue.
EnqueueDelivery(w) ==
    /\ pc[w] = "enqueue"
    /\ rows' = [rows EXCEPT ![row[w]].mail = "waiting"]
    /\ Goto(w, IF item[w] \in Txns THEN "detect" ELSE "return")
    /\ UNCHANGED <<gen, item, row, left, stale, faults>>

Return(w) ==
    /\ pc[w] = "return" \/ (pc[w] = "detect" /\ left[w] = 0)
    /\ GeneratorEnds(w, "done") /\ Release(w)
    /\ UNCHANGED faults

-----------------------------------------------------------------------------
(* delivery.send. *)

TakeMail(w, n) ==
    /\ pc[w] = "idle"
    /\ n \in DOMAIN rows
    /\ rows[n].mail = "waiting"
    /\ rows' = [rows EXCEPT ![n].mail = "active"]
    /\ row' = [row EXCEPT ![w] = n]
    /\ Goto(w, "find")
    /\ UNCHANGED <<gen, item, left, stale, faults>>

\* digests.history and anomalies.listRecent return the Limit oldest rows of
\* their table; reports.findById looks up the row itself.
SameTable(i, j) ==
    \/ i \in Weeks /\ j \in Weeks
    \/ i \in Txns /\ j \in Txns

Older(n) == {m \in DOMAIN rows : m < n /\ SameTable(rows[m].of, rows[n].of)}

Findable_OneLess(n) == Cardinality(Older(n)) + 1 < Limit

Findable(n) == Cardinality(Older(n)) < Limit

AfterFind_Records == "mark"

AfterFind == "send"

Find(w) ==
    /\ pc[w] = "find"
    /\ Findable(row[w])
    /\ Goto(w, AfterFind)
    /\ UNCHANGED <<gen, rows, item, row, left, stale, faults>>

\* NotFoundError, never retried.
NotFound(w) ==
    /\ pc[w] = "find"
    /\ ~Findable(row[w])
    /\ DeliveryEnds(w, Fatal) /\ Release(w)
    /\ UNCHANGED faults

\* Digests and reports go by email; an alert goes to the preferred channel,
\* but always to user.email.  Twilio refuses that address as a recipient, and
\* without Twilio credentials the router has no such channel.
Deliverable(n) == rows[n].of \in Txns => Preference = "email"

\* An InvariantError of the channel or of the service, never retried.
Refused(w) ==
    /\ pc[w] = "send"
    /\ ~Deliverable(row[w])
    /\ DeliveryEnds(w, Fatal) /\ Release(w)
    /\ UNCHANGED faults

Send(w) ==
    /\ pc[w] = "send"
    /\ Deliverable(row[w])
    /\ rows' = [rows EXCEPT ![row[w]].sent = @ + 1]
    /\ Goto(w, "mark")
    /\ UNCHANGED <<gen, item, row, left, stale, faults>>

\* markDelivered.  The handler then returns.
AfterMark_SendsAgain == "send"

AfterMark == "finish"

Mark(w) ==
    /\ pc[w] = "mark"
    /\ rows' = [rows EXCEPT ![row[w]].delivered = TRUE]
    /\ Goto(w, AfterMark)
    /\ UNCHANGED <<gen, item, row, left, stale, faults>>

Finish(w) ==
    /\ pc[w] = "finish"
    /\ DeliveryEnds(w, "done") /\ Release(w)
    /\ UNCHANGED faults

-----------------------------------------------------------------------------
(* Failures. *)

Generates(w) == pc[w] \in GeneratorSteps

Ends(w, state) ==
    IF Generates(w) THEN GeneratorEnds(w, state) ELSE DeliveryEnds(w, state)

\* A call to Postgres, Redis, the LLM or the mail provider fails, or the
\* process dies: the job goes back to its queue, or is buried.
Interrupt(w) ==
    /\ pc[w] # "idle"
    /\ faults < MaxFaults
    /\ faults' = faults + 1
    /\ \E state \in {"waiting", "dead"} : Ends(w, state)
    /\ Release(w)

\* The unique index refuses the row of a slot that another slot overtook.
WriteRefused(w) ==
    /\ pc[w] = "write"
    /\ ~Insertable(item[w])
    /\ \E state \in {"waiting", "dead"} : GeneratorEnds(w, state)
    /\ Release(w)
    /\ UNCHANGED faults

\* The lock of the job is not renewed in time: the job waits again while the
\* slot goes on with it.
LoseLock(w) ==
    /\ pc[w] # "idle" /\ ~stale[w]
    /\ faults < MaxFaults
    /\ faults' = faults + 1
    /\ Ends(w, "waiting")
    /\ stale' = [stale EXCEPT ![w] = TRUE]
    /\ UNCHANGED <<pc, item, row, left>>

-----------------------------------------------------------------------------
GeneratorStep(w) ==
    \/ LoadSkips(w) \/ Load(w) \/ Reject(w) \/ Write(w) \/ WriteRefused(w)
    \/ DetectNothing(w) \/ Detect(w) \/ EnqueueDelivery(w) \/ Return(w)

DeliveryStep(w) ==
    \/ Find(w) \/ NotFound(w) \/ Refused(w) \/ Send(w) \/ Mark(w) \/ Finish(w)

SlotStep(w) ==
    \/ \E i \in Items : Take(w, i)
    \/ \E n \in DOMAIN rows : TakeMail(w, n)
    \/ GeneratorStep(w)
    \/ DeliveryStep(w)

Next ==
    \/ \E i \in Items : Request(i)
    \/ \E w \in Slots : SlotStep(w) \/ Interrupt(w) \/ LoseLock(w)

\* Workers keep polling and every call they await ends.
Fairness == \A w \in Slots : WF_vars(SlotStep(w))

Spec == Init /\ [][Next]_vars

FairSpec == Spec /\ Fairness

-----------------------------------------------------------------------------
TypeOK ==
    /\ gen \in [Items -> JobStates]
    /\ rows \in Seq([of : Items, urgent : BOOLEAN, mail : JobStates,
                     sent : Nat, delivered : BOOLEAN])
    /\ pc \in [Slots -> {"idle"} \cup GeneratorSteps \cup DeliverySteps]
    /\ item \in [Slots -> Items \cup {NoItem}]
    /\ \A w \in Slots : Generates(w) <=> item[w] # NoItem
    /\ row \in [Slots -> 0 .. Len(rows)]
    /\ \A w \in Slots : pc[w] \in DeliverySteps \cup {"enqueue"} => row[w] > 0
    /\ left \in [Slots -> 0 .. Len(Severities)]
    /\ stale \in [Slots -> BOOLEAN]
    /\ faults \in Nat

\* A delivery job that ended well has its row marked delivered, and a row is
\* marked only after its channel accepted it, whichever attempts failed,
\* overlapped or were repeated (delivery-service.ts:55-60).
DeliveredMeansSent ==
    \A n \in DOMAIN rows :
        /\ rows[n].mail = "done" => rows[n].delivered
        /\ rows[n].delivered => rows[n].sent > 0

\* A month has at most one report, although two runs of its job may overlap
\* and both find none (report-service.ts:50-57 and the unique index).
OneReportPerMonth == \A i \in Months : Cardinality(RowsOf(i)) <= 1

\* What a user gets twice is the trace of failures, and as often as those at most:
\* delivery.send sends before it records and looks at no record before it sends,
\* and a second digest of a week or a second set of anomalies of a transaction
\* comes from a failed or overlapping attempt (delivery-service.ts:61-100,
\* digest-service.ts:144-162, anomaly-service.ts:84-114).
DuplicatesOnlyByFaults ==
    /\ \A n \in DOMAIN rows : rows[n].sent <= 1 + faults
    /\ \A i \in Weeks : Cardinality(RowsOf(i)) <= 1 + faults
    /\ \A i \in Txns :
         Cardinality(RowsOf(i)) <= Len(Severities) * (1 + faults)

\* A generator that nothing interrupted has handed to delivery exactly what is
\* to be sent at once: digests, reports and high-severity anomalies.
UrgentIsQueued ==
    faults = 0 =>
        \A n \in DOMAIN rows : gen[rows[n].of] = "done" =>
            (rows[n].urgent <=> rows[n].mail # "absent")

\* While nothing fails, a delivery is buried for one of two reasons: its channel
\* does not reach the user, or the row is beyond the Limit oldest ones that the
\* handler looks through.  A report is looked up by its id and never buried
\* (delivery-service.ts:45-51, :65-70, :90-103).
BuriedForAReason ==
    faults = 0 =>
        \A n \in DOMAIN rows : rows[n].mail = "dead" =>
            /\ rows[n].of \notin Months
            /\ ~Deliverable(n) \/ Cardinality(Older(n)) >= Limit

InFlight == {n \in DOMAIN rows : rows[n].mail \in {"waiting", "active"}}

\* Every delivery that enters the queue is settled, although calls fail,
\* processes die and locks are lost, finitely often: there are finitely many
\* deliveries, and none stays in flight (run-handler.ts:67-116).
EveryDeliveryEnds == []<>(InFlight = {})

=============================================================================
