------------------------------- MODULE Windows -------------------------------
(***************************************************************************)
(* The spans of time that digests and reports cover (window.ts), over a     *)
(* small calendar: instants are UTC hours, and a local day has 24 of them,  *)
(* 23 or 25 when the clock changes.                                         *)
(***************************************************************************)
EXTENDS Integers, Sequences, FiniteSets, FiniteSetsExt

CONSTANTS
    Days,    \* bound: hours of each local day, from the first one on
    Months,  \* local days of each month
    Offset   \* the hour of UTC at which the first local day begins

ASSUME CalendarAssumption ==
    /\ Days \in Seq(23 .. 25) /\ Offset \in 0 .. 23
    /\ Months \in Seq(Nat \ {0}) /\ Months # << >>

SumTo(lengths, n) == MapThenSumSet(LAMBDA i : lengths[i], 1 .. n)

\* The months are months of the days.  All their local days begin after midnight UTC,
\* or all at midnight: a zone west of Greenwich, or UTC.
ASSUME ZoneAssumption ==
    /\ SumTo(Months, Len(Months)) <= Len(Days)
    /\ \A n \in 0 .. Len(Days) :
          Offset + SumTo(Days, n) - 24 * n \in IF Offset = 0 THEN {0} ELSE 1 .. 23

\* The UTC hour at which local day d (from 1) begins.
DayStart(d) == Offset + SumTo(Days, d - 1)

\* The digest's local hour on a day, with what the queue adds to it.
RunAt(day, hour, delay) == DayStart(day) + hour + delay

WeekHours == 7 * 24

\* weekWindowFor: the labels are local, the bounds are not.
WeekWindow(at) == [start |-> at - WeekHours, end |-> at]

Covers(window, instant) == window.start <= instant /\ instant < window.end

MonthStart(k) == DayStart(1 + SumTo(Months, k - 1))

\* The local month of an instant, as local.startOf("month") finds it.
MonthOf(at) ==
    CHOOSE k \in DOMAIN Months : MonthStart(k) <= at /\ at < MonthStart(k + 1)

NextMonth_Fixed(k) == MonthStart(k) + 24 * Months[k]

NextMonth(k) == MonthStart(k + 1)

\* monthWindowFromYearMonth and, of an instant, monthWindowFor.
MonthWindow(k) == [start |-> MonthStart(k), end |-> NextMonth(k)]
MonthWindowFor(at) == MonthWindow(MonthOf(at))

=============================================================================
