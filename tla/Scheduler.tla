------------------------------ MODULE Scheduler ------------------------------
(***************************************************************************)
(* apps/scheduler: every instance scans once a tick for users whose digest  *)
(* moment or report moment is the current minute of their local clock, and  *)
(* for mail accounts to watch, and enqueues a job whose id names the user   *)
(* and the period.  Then the digest job itself, as far as it says which      *)
(* digests a user gets.                                                     *)
(*                                                                          *)
(* Time is counted in units; TickUnits of them are one tick and one minute  *)
(* of the local clock.  The calendar (time zone, DST) is a constant, so     *)
(* that an instance may skip local minutes or repeat them; weeks, months    *)
(* and days are scaled down to a few minutes.                               *)
(*                                                                          *)
(* An operator named Something_Wrong, before Something, is a mistake in the *)
(* same place of the code that the properties below are to notice.          *)
(***************************************************************************)
EXTENDS Integers

CONSTANTS
    Users,      \* users, all in one time zone
    Accounts,   \* active mail accounts
    Instances,  \* scheduler processes
    Horizon,    \* bound: the last instant
    Minutes,    \* the digest moments that a user can choose
    Calendar,   \* instant -> local week, minute of the week, month, is this the
                \* report minute of the month, and UTC day
    TickUnits,  \* app.scheduler.tickIntervalMs
    MaxFaults,  \* bound: crashes and failing enqueue calls
    MaxChanges, \* bound: changes of preferences
    MaxDelays   \* bound: units in which something is late

Times == 0 .. Horizon

ASSUME CalendarAssumption ==
    Calendar \in [Times -> [week : Nat, minute : Minutes, month : Nat,
                            opening : BOOLEAN, day : Nat]]
ASSUME UnitsAssumption ==
    /\ Horizon \in Nat
    /\ TickUnits \in Nat \ {0}
    /\ MaxFaults \in Nat
    /\ MaxChanges \in Nat
    /\ MaxDelays \in Nat

\* The instants within a tick from m on.
Span(m) == {x \in Times : m <= x /\ x < m + TickUnits}

\* A tick is no longer than a minute (60000 ms as configured): every instant is in a
\* span that is all of one minute of the local clock, and in one all of one UTC day.
SameMinute(x, t) ==
    /\ Calendar[x].week = Calendar[t].week /\ Calendar[x].minute = Calendar[t].minute
    /\ Calendar[x].month = Calendar[t].month /\ Calendar[x].opening = Calendar[t].opening
SameDay(x, t) == Calendar[x].day = Calendar[t].day

ASSUME MinuteAssumption ==
    \A t \in Times : \E m \in (-TickUnits) .. t :
        t \in Span(m) /\ \A x \in Span(m) : SameMinute(x, t)
ASSUME DayAssumption ==
    \A t \in Times : \E m \in (-TickUnits) .. t :
        t \in Span(m) /\ \A x \in Span(m) : SameDay(x, t)

VARIABLES
    now,
    moment,   \* digestDay and digestTime of each user
    up,       \* is the instance running
    next,     \* when the timer of the instance is to fire
    todo,     \* job ids that the running ticks of the instance still enqueue
    waiting,  \* job ids in the queues
    finished, \* job ids whose job is completed; BullMQ keeps them
    digests,  \* digests generated: for whom, of which week, run when
    faults,
    changes,
    delays    \* units of time that passed while a timer, a tick or a job was due

vars == <<now, moment, up, next, todo, waiting, finished, digests, faults,
          changes, delays>>

\* digestJobId, reportJobId, mailWatchJobId.
DigestId(u, t) == [kind |-> "digest", who |-> u, period |-> Calendar[t].week]
ReportId(u, t) == [kind |-> "report", who |-> u, period |-> Calendar[t].month]

WatchId(a, t) == [kind |-> "watch", who |-> a, period |-> Calendar[t].day]

Init ==
    /\ now = 0
    /\ moment \in [Users -> Minutes]
    /\ up = [s \in Instances |-> TRUE]
    /\ next = [s \in Instances |-> 0]
    /\ todo = [s \in Instances |-> {}]
    /\ waiting = {}
    /\ finished = {}
    /\ digests = {}
    /\ faults = 0
    /\ changes = 0
    /\ delays = 0

-----------------------------------------------------------------------------
(* One tick. *)

\* isDueForDigest: the local day and minute are the preferred ones.
IsDueForDigest(u, t) == Calendar[t].minute = moment[u]

\* isDueForMonthlyReport: the first minute of the delivery hour of the day.
IsDueForReport(t) == Calendar[t].opening

Watches_WithReports(t) ==
    {WatchId(a, t) : a \in {b \in Accounts : IsDueForReport(t)}}

\* Every active account, on every tick.
Watches(t) == {WatchId(a, t) : a \in Accounts}

Due(t) ==
    {DigestId(u, t) : u \in {v \in Users : IsDueForDigest(v, t)}}
        \cup {ReportId(u, t) : u \in {v \in Users : IsDueForReport(t)}}
        \cup Watches(t)

NextTick_OneLate == now + TickUnits + 1

\* setInterval counts from the moment the timer fired.
NextTick == now + TickUnits

\* A tick does not wait for the one before it: both may be enqueueing still.
Tick(s) ==
    /\ up[s]
    /\ now >= next[s]
    /\ todo' = [todo EXCEPT ![s] = @ \cup Due(now)]
    /\ next' = [next EXCEPT ![s] = NextTick]
    /\ UNCHANGED <<now, moment, up, waiting, finished, digests, faults,
                   changes, delays>>

Known_WhileLive == waiting

\* BullMQ ignores the id of a job that it still has, completed or not.
Known == waiting \cup finished

Enqueue(s, id) ==
    /\ id \in todo[s]
    /\ todo' = [todo EXCEPT ![s] = @ \ {id}]
    /\ waiting' = IF id \in Known THEN waiting ELSE waiting \cup {id}
    /\ UNCHANGED <<now, moment, up, next, finished, digests, faults, changes,
                   delays>>

\* The loop ends at the first enqueue that throws; main.ts logs the error.
EnqueueFails(s) ==
    /\ faults < MaxFaults
    /\ faults' = faults + 1
    /\ \E lost \in (SUBSET todo[s]) \ {{}} :
         todo' = [todo EXCEPT ![s] = @ \ lost]
    /\ UNCHANGED <<now, moment, up, next, waiting, finished, digests, changes,
                   delays>>

-----------------------------------------------------------------------------
(* Instances, time, preferences. *)

Crash(s) ==
    /\ up[s]
    /\ faults < MaxFaults
    /\ faults' = faults + 1
    /\ up' = [up EXCEPT ![s] = FALSE]
    /\ todo' = [todo EXCEPT ![s] = {}]
    /\ UNCHANGED <<now, moment, next, waiting, finished, digests, changes,
                   delays>>

\* main: the first tick runs at once.
Start(s) ==
    /\ ~up[s]
    /\ up' = [up EXCEPT ![s] = TRUE]
    /\ next' = [next EXCEPT ![s] = now]
    /\ UNCHANGED <<now, moment, todo, waiting, finished, digests, faults,
                   changes, delays>>

DigestsWaiting == {id \in waiting : id.kind = "digest"}

\* Every timer has fired, every tick has ended and every job has run.
InTime ==
    /\ waiting = {}
    /\ \A s \in Instances : todo[s] = {} /\ (up[s] => now < next[s])

\* Timers fire late, ticks take their time, jobs wait in their queue.
Advance ==
    /\ now < Horizon
    /\ InTime \/ delays < MaxDelays
    /\ now' = now + 1
    /\ delays' = IF InTime THEN delays ELSE delays + 1
    /\ UNCHANGED <<moment, up, next, todo, waiting, finished, digests, faults,
                   changes>>

\* PUT /preferences.
ChangeMoment(u, m) ==
    /\ changes < MaxChanges
    /\ changes' = changes + 1
    /\ moment' = [moment EXCEPT ![u] = m]
    /\ UNCHANGED <<now, up, next, todo, waiting, finished, digests, faults,
                   delays>>

-----------------------------------------------------------------------------
(* The jobs. *)

Completed(id) ==
    /\ waiting' = waiting \ {id}
    /\ finished' = finished \cup {id}

\* digest.generate: the digest of the days before the job runs.
RunDigest(id) ==
    /\ id \in DigestsWaiting
    /\ digests' = digests \cup {[for |-> id.who, week |-> id.period, at |-> now]}
    /\ Completed(id)
    /\ UNCHANGED <<now, moment, up, next, todo, faults, changes, delays>>

\* report.generate and mail.watch, whose effects other modules describe.
RunOther(id) ==
    /\ id \in waiting \ DigestsWaiting
    /\ Completed(id)
    /\ UNCHANGED <<now, moment, up, next, todo, digests, faults, changes,
                   delays>>

-----------------------------------------------------------------------------
Next ==
    \/ Advance
    \/ \E s \in Instances :
         Tick(s) \/ EnqueueFails(s) \/ Crash(s) \/ Start(s)
             \/ \E id \in todo[s] : Enqueue(s, id)
    \/ \E u \in Users, m \in Minutes : ChangeMoment(u, m)
    \/ \E id \in waiting : RunDigest(id) \/ RunOther(id)

Spec == Init /\ [][Next]_vars

-----------------------------------------------------------------------------
JobIds ==
    [kind : {"digest", "report"}, who : Users, period : Nat]
        \cup [kind : {"watch"}, who : Accounts, period : Nat]

TypeOK ==
    /\ now \in Times
    /\ moment \in [Users -> Minutes]
    /\ up \in [Instances -> BOOLEAN]
    /\ next \in [Instances -> Nat]
    /\ todo \in [Instances -> SUBSET JobIds]
    /\ waiting \in SUBSET JobIds
    /\ finished \in SUBSET JobIds
    /\ digests \in SUBSET [for : Users, week : Nat, at : Times]
    /\ faults \in Nat
    /\ changes \in Nat
    /\ delays \in Nat

\* A user gets at most one digest per local ISO week, although instances scan
\* the same minute, restart in it, enqueue late, the local clock repeats the
\* minute, or the user moves the moment within the week (iso-week.ts:12 and
\* scheduler-service.ts:37-44).
DigestOncePerWeek ==
    \A d, e \in digests : d.for = e.for /\ d.week = e.week => d = e

Requested == Known \cup UNION {todo[s] : s \in Instances}

\* As long as every tick is in time and failures leave one instance untouched, no
\* digest moment and no report moment is overlooked: a minute with a tick in it
\* is enough (digest-schedule.ts:11, report-schedule.ts:17).  Two late units are
\* enough to step over a minute, since setInterval counts from the late tick.
DueIsNeverMissed ==
    delays = 0 =>
      \A t \in Times : t + TickUnits <= now =>
        \A u \in Users :
            /\ IsDueForDigest(u, t) /\ changes = 0 => DigestId(u, t) \in Requested
            /\ IsDueForReport(t) => ReportId(u, t) \in Requested

\* As long as every tick is in time and failures leave one instance untouched, the
\* watch of every account is renewed on every UTC day that is over: the tick asks
\* for it every minute (scheduler-service.ts:63-74).
WatchRenewedDaily ==
    delays = 0 =>
      \A t \in Times : t <= now /\ Calendar[t].day < Calendar[now].day =>
        \A a \in Accounts : WatchId(a, t) \in Requested
=============================================================================
