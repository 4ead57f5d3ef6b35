-------------------------- MODULE PublishingProofs --------------------------
(***************************************************************************)
(* Proofs about Publishing, for all weeks, months, transactions, detectors  *)
(* and slots, and for any number of faults.                                 *)
(***************************************************************************)
EXTENDS Publishing, FiniteSetTheorems, SequenceTheorems, TLAPS

Row == [of : Items, urgent : BOOLEAN, mail : JobStates, sent : Nat, delivered : BOOLEAN]

\* A month's report is found and written, a transaction's anomalies are detected.
ItemInv ==
    \A w \in Slots :
        /\ pc[w] = "write" => item[w] \notin Txns
        /\ pc[w] = "detect" => item[w] \in Txns

\* What a slot has done to the row that it delivers.
MailInv ==
    /\ DeliveredMeansSent
    /\ \A w \in Slots :
         /\ pc[w] = "mark" => rows[row[w]].sent > 0
         /\ pc[w] = "finish" => rows[row[w]].delivered

ReportInv ==
    \A m, n \in DOMAIN rows :
        rows[m].of \in Months /\ rows[m].of = rows[n].of => m = n

\* Only what is to be sent at once is handed to delivery.
UrgentInv ==
    /\ \A n \in DOMAIN rows : rows[n].mail # "absent" => rows[n].urgent
    /\ \A w \in Slots : pc[w] \in DeliverySteps \cup {"enqueue"} => rows[row[w]].urgent

\* While nothing fails, an item has one slot ...
SlotsOwn ==
    \A w \in Slots :
        /\ ~stale[w]
        /\ item[w] # NoItem => gen[item[w]] = "active"
        /\ \A v \in Slots : item[w] # NoItem /\ item[v] = item[w] => v = w

\* ... and no row before its run, and the slot that created an urgent row hands it
\* over next.
RowsOwn ==
    \A n \in DOMAIN rows :
        /\ gen[rows[n].of] \notin {"absent", "waiting"}
        /\ \A w \in Slots : pc[w] \in {"load", "write"} => rows[n].of # item[w]
        /\ rows[n].urgent /\ rows[n].mail = "absent" =>
             \E w \in Slots : pc[w] = "enqueue" /\ row[w] = n /\ item[w] = rows[n].of

OwnerInv == faults = 0 => SlotsOwn /\ RowsOwn

\* A slot hands its new row over once, and what is delivered was handed over.
HandoverInv ==
    \A w \in Slots :
        /\ pc[w] \in DeliverySteps => rows[row[w]].mail # "absent"
        /\ pc[w] = "enqueue" =>
             /\ rows[row[w]].mail = "absent"
             /\ \A v \in Slots : pc[v] = "enqueue" /\ row[v] = row[w] => v = w

\* The slots that may still send the row.
Attempts(n) == {w \in Slots : pc[w] \in {"find", "send"} /\ row[w] = n}

\* What was sent, the attempts that may still send, and the one that a waiting job
\* stands for: one in all, and one more for each fault.
SendsInv ==
    \A n \in DOMAIN rows :
        /\ rows[n].mail = "absent" => rows[n].sent = 0
        /\ IsFiniteSet(Attempts(n))
        /\ rows[n].sent + Cardinality(Attempts(n))
             + (IF rows[n].mail = "waiting" THEN 1 ELSE 0) <= 1 + faults

\* The rows that one run of the item may write, those that the slot may still write,
\* and all of these, numbered.
Share(i) == IF i \in Txns THEN Len(Severities) ELSE 1

Due(w) ==
    IF pc[w] \in {"load", "write"} THEN Share(item[w])
    ELSE IF pc[w] \in {"detect", "enqueue"} /\ item[w] \in Txns THEN left[w]
    ELSE 0

Tickets(i) == {t \in Slots \X Nat : item[t[1]] = i /\ t[2] \in 1 .. Due(t[1])}

\* The rows of an item, those that its attempts may still write, and those of the run
\* that a waiting job stands for: one run in all, and one more for each fault.
Within(i) ==
    /\ IsFiniteSet(Tickets(i))
    /\ Cardinality(RowsOf(i)) + Cardinality(Tickets(i))
         + (IF gen[i] \in {"absent", "waiting"} THEN Share(i) ELSE 0)
         <= Share(i) * (1 + faults)

RowsInv == \A i \in Weeks \cup Txns : Within(i)

IInv ==
    /\ TypeOK /\ ItemInv /\ MailInv /\ ReportInv /\ UrgentInv /\ OwnerInv /\ BuriedForAReason
    /\ HandoverInv /\ SendsInv /\ RowsInv

-----------------------------------------------------------------------------
\* What a step does to a row.
LEMMA RowReplaced ==
  ASSUME rows \in Seq(Row), NEW n \in 1 .. Len(rows), NEW new \in Row,
         rows' = [rows EXCEPT ![n] = new]
  PROVE  /\ rows' \in Seq(Row) /\ Len(rows') = Len(rows)
         /\ \A m \in 1 .. Len(rows) : rows'[m] = IF m = n THEN new ELSE rows[m]
  BY ExceptSeq

LEMMA MailSet ==
  ASSUME rows \in Seq(Row), NEW n \in DOMAIN rows, NEW state \in JobStates,
         rows' = [rows EXCEPT ![n].mail = state]
  PROVE  /\ rows' \in Seq(Row) /\ Len(rows') = Len(rows)
         /\ \A m \in 1 .. Len(rows) :
              /\ rows'[m].of = rows[m].of /\ rows'[m].urgent = rows[m].urgent
              /\ rows'[m].sent = rows[m].sent /\ rows'[m].delivered = rows[m].delivered
              /\ rows'[m].mail = IF m = n THEN state ELSE rows[m].mail
<1>. n \in 1 .. Len(rows) /\ rows[n] \in Row
  OBVIOUS
<1>. DEFINE new == [rows[n] EXCEPT !.mail = state]
<1>1. new \in Row
  BY DEF Row
<1>2. rows' = [rows EXCEPT ![n] = new]
  OBVIOUS
<1>3. /\ rows' \in Seq(Row) /\ Len(rows') = Len(rows)
      /\ \A m \in 1 .. Len(rows) : rows'[m] = IF m = n THEN new ELSE rows[m]
  <2>. HIDE DEF new
  <2>. QED
    BY <1>1, <1>2, RowReplaced
<1>. QED
  BY <1>3 DEF Row

LEMMA RowSent ==
  ASSUME rows \in Seq(Row), NEW n \in DOMAIN rows,
         rows' = [rows EXCEPT ![n].sent = @ + 1]
  PROVE  /\ rows' \in Seq(Row) /\ Len(rows') = Len(rows)
         /\ \A m \in 1 .. Len(rows) :
              /\ rows'[m].of = rows[m].of /\ rows'[m].urgent = rows[m].urgent
              /\ rows'[m].mail = rows[m].mail /\ rows'[m].delivered = rows[m].delivered
              /\ rows'[m].sent = IF m = n THEN rows[n].sent + 1 ELSE rows[m].sent
<1>. n \in 1 .. Len(rows) /\ rows[n] \in Row
  OBVIOUS
<1>. DEFINE new == [rows[n] EXCEPT !.sent = rows[n].sent + 1]
<1>1. new \in Row
  <2>1. rows[n].sent + 1 \in Nat
    BY DEF Row
  <2>. QED
    BY <2>1 DEF Row
<1>2. rows' = [rows EXCEPT ![n] = new]
  OBVIOUS
<1>3. /\ rows' \in Seq(Row) /\ Len(rows') = Len(rows)
      /\ \A m \in 1 .. Len(rows) : rows'[m] = IF m = n THEN new ELSE rows[m]
  <2>. HIDE DEF new
  <2>. QED
    BY <1>1, <1>2, RowReplaced
<1>. QED
  BY <1>3 DEF Row

LEMMA RowDelivered ==
  ASSUME rows \in Seq(Row), NEW n \in DOMAIN rows,
         rows' = [rows EXCEPT ![n].delivered = TRUE]
  PROVE  /\ rows' \in Seq(Row) /\ Len(rows') = Len(rows)
         /\ \A m \in 1 .. Len(rows) :
              /\ rows'[m].of = rows[m].of /\ rows'[m].urgent = rows[m].urgent
              /\ rows'[m].mail = rows[m].mail /\ rows'[m].sent = rows[m].sent
              /\ rows[m].delivered => rows'[m].delivered
              /\ m = n => rows'[m].delivered
              /\ m # n => rows'[m].delivered = rows[m].delivered
<1>. n \in 1 .. Len(rows) /\ rows[n] \in Row
  OBVIOUS
<1>. DEFINE new == [rows[n] EXCEPT !.delivered = TRUE]
<1>1. new \in Row
  BY DEF Row
<1>2. rows' = [rows EXCEPT ![n] = new]
  OBVIOUS
<1>3. /\ rows' \in Seq(Row) /\ Len(rows') = Len(rows)
      /\ \A m \in 1 .. Len(rows) : rows'[m] = IF m = n THEN new ELSE rows[m]
  <2>. HIDE DEF new
  <2>. QED
    BY <1>1, <1>2, RowReplaced
<1>. QED
  BY <1>3 DEF Row

LEMMA RowAdded ==
  ASSUME rows \in Seq(Row), NEW i \in Items, NEW urgent \in BOOLEAN,
         rows' = Append(rows, NewRow(i, urgent))
  PROVE  /\ rows' \in Seq(Row) /\ Len(rows') = Len(rows) + 1
         /\ \A m \in 1 .. Len(rows) : rows'[m] = rows[m]
         /\ rows'[Len(rows) + 1] = NewRow(i, urgent)
<1>1. NewRow(i, urgent) \in Row
  BY DEF NewRow, Row, JobStates
<1>. QED
  BY <1>1, AppendProperties

\* The outcome of a delivery job reaches its row when the slot has the lock.
LEMMA MailEnds ==
  ASSUME TypeOK, NEW w \in Slots, pc[w] \in DeliverySteps, NEW state \in JobStates,
         DeliveryEnds(w, state)
  PROVE  /\ row[w] \in DOMAIN rows
         /\ rows' \in Seq(Row) /\ Len(rows') = Len(rows)
         /\ \A m \in 1 .. Len(rows) :
              /\ rows'[m].of = rows[m].of /\ rows'[m].urgent = rows[m].urgent
              /\ rows'[m].sent = rows[m].sent /\ rows'[m].delivered = rows[m].delivered
              /\ rows'[m].mail = IF m = row[w] /\ Accepted(w) THEN state ELSE rows[m].mail
<1>. DEFINE mail == IF Accepted(w) THEN state ELSE rows[row[w]].mail
<1>1. rows \in Seq(Row) /\ row[w] \in DOMAIN rows
  BY DEF TypeOK, Row
<1>2. rows[row[w]] \in Row
  BY <1>1
<1>3. mail \in JobStates
  BY <1>2 DEF Row
<1>4. rows' = [rows EXCEPT ![row[w]].mail = mail]
  BY DEF DeliveryEnds
<1>. HIDE DEF mail
<1>5. /\ rows' \in Seq(Row) /\ Len(rows') = Len(rows)
      /\ \A m \in 1 .. Len(rows) :
           /\ rows'[m].of = rows[m].of /\ rows'[m].urgent = rows[m].urgent
           /\ rows'[m].sent = rows[m].sent /\ rows'[m].delivered = rows[m].delivered
           /\ rows'[m].mail = IF m = row[w] THEN mail ELSE rows[m].mail
  BY <1>1, <1>3, <1>4, MailSet
<1>. QED
  BY <1>1, <1>5 DEF mail

\* The slot of a generator gives its item back.
LEMMA GeneratorType ==
  ASSUME TypeOK, NEW w \in Slots, NEW state \in JobStates, GeneratorEnds(w, state)
  PROVE  gen' \in [Items -> JobStates] /\ rows' = rows
  BY DEF TypeOK, GeneratorEnds

\* A released slot holds nothing.
LEMMA ReleaseType ==
  ASSUME TypeOK, NEW w \in Slots, Release(w), rows' \in Seq(Row), Len(rows') = Len(rows),
         gen' \in [Items -> JobStates], faults' \in Nat
  PROVE  TypeOK'
<1>1. Len(Severities) \in Nat
  BY SettingsAssumption
<1>2. \A v \in Slots : Generates(v)' <=> item'[v] # NoItem
  BY DEF TypeOK, Release, Generates, GeneratorSteps
<1>. QED
  BY <1>1, <1>2 DEF TypeOK, Release, GeneratorSteps, DeliverySteps, Row

LEMMA TypesStep ==
  ASSUME TypeOK, [Next]_vars
  PROVE  TypeOK'
<1>. rows \in Seq(Row) /\ Len(rows) \in Nat /\ Len(Severities) \in Nat
  BY SettingsAssumption DEF TypeOK, Row
<1>. USE DEF JobStates
<1>1. ASSUME NEW i \in Items, Request(i)
      PROVE  TypeOK'
  BY <1>1 DEF Request, TypeOK, slotVars, Generates
<1>2. ASSUME NEW w \in Slots, NEW i \in Items, Take(w, i)
      PROVE  TypeOK'
  BY <1>2, ItemsAssumption
    DEF Take, TypeOK, Goto, Generates, GeneratorSteps, DeliverySteps
<1>3. ASSUME NEW w \in Slots, NEW n \in DOMAIN rows, TakeMail(w, n)
      PROVE  TypeOK'
  <2>1. rows' \in Seq(Row) /\ Len(rows') = Len(rows)
    BY <1>3, MailSet DEF TakeMail
  <2>. QED
    BY <1>3, <2>1 DEF TakeMail, TypeOK, Goto, Generates, GeneratorSteps, DeliverySteps, Row
<1>4. ASSUME NEW w \in Slots, LoadSkips(w) \/ Reject(w) \/ Return(w) \/ WriteRefused(w)
      PROVE  TypeOK'
  <2>1. Release(w) /\ faults' = faults /\ \E state \in JobStates : GeneratorEnds(w, state)
    BY <1>4 DEF LoadSkips, Reject, Return, WriteRefused, Fatal
  <2>. QED
    BY <2>1, GeneratorType, ReleaseType DEF TypeOK
<1>5. ASSUME NEW w \in Slots, Load(w) \/ DetectNothing(w)
      PROVE  TypeOK'
  <2>. USE DEF TypeOK, Goto, Generates, GeneratorSteps, DeliverySteps
  <2>1. CASE Load(w) /\ item[w] \in Txns
    <3>1. /\ left' = [left EXCEPT ![w] = Len(Severities)]
          /\ pc' = [pc EXCEPT ![w] = "detect"] /\ pc[w] = "load"
          /\ UNCHANGED <<gen, rows, item, row, stale, faults>>
      BY <2>1 DEF Load
    <3>2. left' \in [Slots -> 0 .. Len(Severities)]
      BY <3>1
    <3>. QED
      BY <3>1, <3>2
  <2>2. CASE Load(w) /\ item[w] \notin Txns
    BY <2>2 DEF Load
  <2>3. CASE DetectNothing(w)
    <3>1. left' \in [Slots -> 0 .. Len(Severities)]
      BY <2>3 DEF DetectNothing
    <3>. QED
      BY <2>3, <3>1 DEF DetectNothing
  <2>. QED
    BY <1>5, <2>1, <2>2, <2>3
<1>6. ASSUME NEW w \in Slots, Write(w) \/ Detect(w)
      PROVE  TypeOK'
  <2>1. item[w] \in Items
    BY <1>6 DEF Write, Detect, TypeOK, Generates, GeneratorSteps
  <2>2. \E urgent \in BOOLEAN : rows' = Append(rows, NewRow(item[w], urgent))
    BY <1>6 DEF Write, Detect
  <2>3. rows' \in Seq(Row) /\ Len(rows') = Len(rows) + 1
    BY <2>1, <2>2, RowAdded
  <2>4. row' \in [Slots -> 0 .. Len(rows')] /\ row'[w] > 0
        /\ \A v \in Slots : v # w => row'[v] = row[v]
    <3>1. row' = [row EXCEPT ![w] = Len(rows) + 1] /\ row \in [Slots -> 0 .. Len(rows)]
      BY <1>6 DEF Write, Detect, TypeOK
    <3>. QED
      BY <3>1, <2>3
  <2>5. left' \in [Slots -> 0 .. Len(Severities)]
    <3>1. left \in [Slots -> 0 .. Len(Severities)]
      BY DEF TypeOK
    <3>2. left' = left \/ (left[w] > 0 /\ left' = [left EXCEPT ![w] = @ - 1])
      BY <1>6 DEF Write, Detect
    <3>. QED
      BY <3>1, <3>2
  <2>. HIDE <1>6
  <2>. USE <2>3, <2>4, <2>5 DEF TypeOK, Goto, Generates, GeneratorSteps, DeliverySteps, Row
  <2>6. CASE Write(w)
    <3>1. /\ pc[w] = "write" /\ pc' = [pc EXCEPT ![w] = "enqueue"]
          /\ UNCHANGED <<gen, item, stale, faults>>
      BY <2>6 DEF Write, AfterWrite
    <3>2. \A v \in Slots : Generates(v)' <=> item'[v] # NoItem
      BY <3>1
    <3>3. \A v \in Slots : pc'[v] \in DeliverySteps \cup {"enqueue"} => row'[v] > 0
      BY <3>1
    <3>. QED
      BY <3>1, <3>2, <3>3
  <2>7. CASE Detect(w)
    <3>1. /\ pc[w] = "detect" /\ UNCHANGED <<gen, item, stale, faults>>
          /\ \E step \in {"enqueue", "detect"} : pc' = [pc EXCEPT ![w] = step]
      BY <2>7 DEF Detect, AfterDetect
    <3>2. \A v \in Slots : Generates(v)' <=> item'[v] # NoItem
      BY <3>1
    <3>3. \A v \in Slots : pc'[v] \in DeliverySteps \cup {"enqueue"} => row'[v] > 0
      BY <3>1
    <3>. QED
      BY <3>1, <3>2, <3>3
  <2>. QED
    BY <1>6, <2>6, <2>7
<1>7. ASSUME NEW w \in Slots, EnqueueDelivery(w)
      PROVE  TypeOK'
  <2>1. row[w] \in DOMAIN rows
    BY <1>7 DEF EnqueueDelivery, TypeOK
  <2>2. rows' \in Seq(Row) /\ Len(rows') = Len(rows)
    BY <1>7, <2>1, MailSet DEF EnqueueDelivery
  <2>. QED
    BY <1>7, <2>2 DEF EnqueueDelivery, TypeOK, Goto, Generates, GeneratorSteps, DeliverySteps, Row
<1>8. ASSUME NEW w \in Slots, Find(w)
      PROVE  TypeOK'
  BY <1>8 DEF Find, AfterFind, TypeOK, Goto, Generates, GeneratorSteps, DeliverySteps
<1>9. ASSUME NEW w \in Slots, NotFound(w) \/ Refused(w) \/ Finish(w)
      PROVE  TypeOK'
  <2>1. /\ pc[w] \in DeliverySteps /\ Release(w) /\ faults' = faults
        /\ \E state \in JobStates : DeliveryEnds(w, state)
    BY <1>9 DEF NotFound, Refused, Finish, Fatal, DeliverySteps
  <2>2. rows' \in Seq(Row) /\ Len(rows') = Len(rows) /\ gen' = gen
    BY <2>1, MailEnds DEF DeliveryEnds
  <2>. QED
    BY <2>1, <2>2, ReleaseType DEF TypeOK
<1>10. ASSUME NEW w \in Slots, Send(w) \/ Mark(w)
       PROVE  TypeOK'
  <2>1. row[w] \in DOMAIN rows
    BY <1>10 DEF Send, Mark, TypeOK, DeliverySteps
  <2>2. rows' \in Seq(Row) /\ Len(rows') = Len(rows)
    BY <1>10, <2>1, RowSent, RowDelivered DEF Send, Mark
  <2>. QED
    BY <1>10, <2>2 DEF Send, Mark, AfterMark, TypeOK, Goto, Generates, GeneratorSteps,
          DeliverySteps, Row
<1>11. ASSUME NEW w \in Slots, pc[w] # "idle", NEW state \in JobStates, Ends(w, state)
       PROVE  rows' \in Seq(Row) /\ Len(rows') = Len(rows) /\ gen' \in [Items -> JobStates]
  <2>1. CASE Generates(w)
    BY <1>11, <2>1, GeneratorType DEF Ends
  <2>2. CASE ~Generates(w)
    <3>1. pc[w] \in DeliverySteps /\ DeliveryEnds(w, state)
      BY <1>11, <2>2 DEF Ends, Generates, TypeOK
    <3>. QED
      BY <3>1, MailEnds DEF DeliveryEnds, TypeOK
  <2>. QED
    BY <2>1, <2>2
<1>12. ASSUME NEW w \in Slots, Interrupt(w)
       PROVE  TypeOK'
  <2>1. /\ pc[w] # "idle" /\ Release(w) /\ faults' \in Nat
        /\ \E state \in JobStates : Ends(w, state)
    BY <1>12 DEF Interrupt, TypeOK
  <2>. QED
    BY <2>1, <1>11, ReleaseType
<1>13. ASSUME NEW w \in Slots, LoseLock(w)
       PROVE  TypeOK'
  <2>1. rows' \in Seq(Row) /\ Len(rows') = Len(rows) /\ gen' \in [Items -> JobStates]
    BY <1>13, <1>11 DEF LoseLock
  <2>. QED
    BY <1>13, <2>1 DEF LoseLock, TypeOK, Generates, Row
<1>14. CASE UNCHANGED vars
  BY <1>14 DEF vars, slotVars, TypeOK, Generates
<1>. QED
  BY <1>1, <1>2, <1>3, <1>4, <1>5, <1>6, <1>7, <1>8, <1>9, <1>10, <1>12, <1>13, <1>14
    DEF Next, SlotStep, GeneratorStep, DeliveryStep
-----------------------------------------------------------------------------
\* How an attempt ends is seen in the mail of its row only.
LEMMA EndsRows ==
  ASSUME TypeOK, NEW w \in Slots, pc[w] # "idle", NEW state \in JobStates, Ends(w, state)
  PROVE  /\ Len(rows') = Len(rows)
         /\ \A m \in 1 .. Len(rows) :
              /\ rows'[m].of = rows[m].of /\ rows'[m].urgent = rows[m].urgent
              /\ rows'[m].sent = rows[m].sent /\ rows'[m].delivered = rows[m].delivered
              /\ \/ rows'[m].mail = rows[m].mail
                 \/ rows'[m].mail = state /\ m = row[w] /\ pc[w] \in DeliverySteps
<1>1. CASE Generates(w)
  BY <1>1, GeneratorType DEF Ends
<1>2. CASE ~Generates(w)
  <2>1. pc[w] \in DeliverySteps /\ DeliveryEnds(w, state)
    BY <1>2 DEF Ends, Generates, TypeOK
  <2>. QED
    BY <2>1, MailEnds
<1>. QED
  BY <1>1, <1>2

LEMMA ItemStep ==
  ASSUME TypeOK, ItemInv, [Next]_vars
  PROVE  ItemInv'
<1>. USE DEF TypeOK, ItemInv, Goto
<1>1. ASSUME NEW i \in Items, Request(i)
      PROVE  ItemInv'
  BY <1>1 DEF Request, slotVars
<1>2. ASSUME NEW w \in Slots, NEW i \in Items, Take(w, i)
      PROVE  ItemInv'
  BY <1>2 DEF Take
<1>3. ASSUME NEW w \in Slots, Release(w)
      PROVE  ItemInv'
  BY <1>3 DEF Release
<1>4. ASSUME NEW w \in Slots, GeneratorStep(w)
      PROVE  ItemInv'
  <2>1. CASE Load(w)
    BY <2>1 DEF Load
  <2>2. CASE Write(w) \/ Detect(w)
    BY <2>2 DEF Write, AfterWrite, Detect, AfterDetect
  <2>3. CASE EnqueueDelivery(w) \/ DetectNothing(w)
    BY <2>3 DEF EnqueueDelivery, DetectNothing
  <2>. QED
    BY <1>3, <1>4, <2>1, <2>2, <2>3
      DEF GeneratorStep, LoadSkips, Reject, WriteRefused, Return
<1>5. ASSUME NEW w \in Slots, DeliveryStep(w)
      PROVE  ItemInv'
  BY <1>3, <1>5 DEF DeliveryStep, Find, AfterFind, NotFound, Refused, Send, Mark, AfterMark, Finish
<1>6. ASSUME NEW w \in Slots, NEW n \in DOMAIN rows, TakeMail(w, n)
      PROVE  ItemInv'
  BY <1>6 DEF TakeMail
<1>7. ASSUME NEW w \in Slots, LoseLock(w)
      PROVE  ItemInv'
  BY <1>7 DEF LoseLock
<1>8. CASE UNCHANGED vars
  BY <1>8 DEF vars, slotVars
<1>. QED
  BY <1>1, <1>2, <1>3, <1>4, <1>5, <1>6, <1>7, <1>8 DEF Next, SlotStep, Interrupt

\* A row is marked by a slot that has sent it, and ends well when it is marked.
LEMMA MailStep ==
  ASSUME TypeOK, MailInv, [Next]_vars
  PROVE  MailInv'
<1>. rows \in Seq(Row) /\ Len(rows) \in Nat
  BY DEF TypeOK, Row
<1>. \A w \in Slots : pc[w] \in DeliverySteps => row[w] \in 1 .. Len(rows)
  BY DEF TypeOK
<1>. pc \in [Slots -> {"idle"} \cup GeneratorSteps \cup DeliverySteps]
     /\ row \in [Slots -> 0 .. Len(rows)] /\ \A n \in 1 .. Len(rows) : rows[n] \in Row
  BY DEF TypeOK
<1>. USE DEF MailInv, DeliveredMeansSent, Goto, DeliverySteps, JobStates
<1>1. ASSUME NEW i \in Items, Request(i)
      PROVE  MailInv'
  BY <1>1 DEF Request, slotVars
<1>2. ASSUME NEW w \in Slots, NEW i \in Items, Take(w, i)
      PROVE  MailInv'
  BY <1>2 DEF Take
<1>3. ASSUME NEW w \in Slots, NEW n \in DOMAIN rows, TakeMail(w, n)
      PROVE  MailInv'
  BY <1>3, MailSet DEF TakeMail
<1>4. ASSUME NEW w \in Slots, Release(w), rows' = rows
      PROVE  MailInv'
  BY <1>4 DEF Release
<1>5. ASSUME NEW w \in Slots, LoadSkips(w) \/ Reject(w) \/ Return(w) \/ WriteRefused(w)
      PROVE  MailInv'
  BY <1>4, <1>5 DEF LoadSkips, Reject, Return, WriteRefused, GeneratorEnds
<1>6. ASSUME NEW w \in Slots, Load(w) \/ DetectNothing(w) \/ Find(w)
      PROVE  MailInv'
  BY <1>6 DEF Load, DetectNothing, Find, AfterFind
<1>7. ASSUME NEW w \in Slots, Write(w) \/ Detect(w)
      PROVE  MailInv'
  <2>1. item[w] \in Items
    BY <1>7 DEF Write, Detect, TypeOK, Generates, GeneratorSteps
  <2>2. PICK urgent \in BOOLEAN : rows' = Append(rows, NewRow(item[w], urgent))
    BY <1>7 DEF Write, Detect
  <2>3. /\ Len(rows') = Len(rows) + 1 /\ rows' \in Seq(Row)
        /\ \A m \in 1 .. Len(rows) : rows'[m] = rows[m]
        /\ rows'[Len(rows) + 1].mail = "absent" /\ ~rows'[Len(rows) + 1].delivered
    <3>1. /\ Len(rows') = Len(rows) + 1 /\ rows' \in Seq(Row)
          /\ \A m \in 1 .. Len(rows) : rows'[m] = rows[m]
          /\ rows'[Len(rows) + 1] = NewRow(item[w], urgent)
      BY <2>1, <2>2, RowAdded
    <3>2. NewRow(item[w], urgent).mail = "absent" /\ ~NewRow(item[w], urgent).delivered
      BY DEF NewRow
    <3>. QED
      BY <3>1, <3>2
  <2>4. DeliveredMeansSent'
    BY <2>3
  <2>5. \A v \in Slots : pc'[v] \in DeliverySteps =>
           pc'[v] = pc[v] /\ row'[v] = row[v]
    BY <1>7 DEF Write, AfterWrite, Detect, AfterDetect
  <2>. QED
    BY <2>3, <2>4, <2>5
<1>8. ASSUME NEW w \in Slots, EnqueueDelivery(w)
      PROVE  MailInv'
  <2>1. row[w] \in DOMAIN rows
    BY <1>8 DEF EnqueueDelivery, TypeOK
  <2>. QED
    BY <1>8, <2>1, MailSet DEF EnqueueDelivery
<1>0. ASSUME rows' \in Seq(Row), Len(rows') = Len(rows),
             \A n \in 1 .. Len(rows) :
                /\ rows'[n].sent = rows[n].sent /\ rows'[n].delivered = rows[n].delivered
                /\ rows'[n].mail = "done" => rows[n].mail = "done" \/ rows[n].delivered,
             \A v \in Slots : pc'[v] \in DeliverySteps => pc'[v] = pc[v] /\ row'[v] = row[v]
      PROVE  MailInv'
  <2>1. DeliveredMeansSent'
    BY <1>0
  <2>2. ASSUME NEW v \in Slots, pc'[v] \in {"mark", "finish"}
        PROVE  /\ pc'[v] = "mark" => rows'[row'[v]].sent > 0
               /\ pc'[v] = "finish" => rows'[row'[v]].delivered
    <3>1. pc'[v] = pc[v] /\ row'[v] = row[v] /\ row[v] \in 1 .. Len(rows)
      BY <1>0, <2>2
    <3>. QED
      BY <1>0, <3>1
  <2>. QED
    BY <2>1, <2>2
<1>9. ASSUME NEW w \in Slots, NotFound(w) \/ Refused(w) \/ Finish(w)
      PROVE  MailInv'
  <2>1. PICK state \in JobStates :
           DeliveryEnds(w, state) /\ (state = "done" => pc[w] = "finish")
    BY <1>9 DEF NotFound, Refused, Finish, Fatal
  <2>2. pc[w] \in DeliverySteps /\ Release(w)
    BY <1>9 DEF NotFound, Refused, Finish
  <2>3. \A v \in Slots : pc'[v] \in DeliverySteps => pc'[v] = pc[v] /\ row'[v] = row[v]
    BY <2>2 DEF Release
  <2>4. /\ rows' \in Seq(Row) /\ Len(rows') = Len(rows)
        /\ \A n \in 1 .. Len(rows) :
             /\ rows'[n].sent = rows[n].sent /\ rows'[n].delivered = rows[n].delivered
             /\ rows'[n].mail = IF n = row[w] /\ Accepted(w) THEN state ELSE rows[n].mail
    BY <2>1, <2>2, MailEnds
  <2>5. \A n \in 1 .. Len(rows) :
           rows'[n].mail = "done" => rows[n].mail = "done" \/ rows[n].delivered
    BY <2>1, <2>4
  <2>. QED
    BY <1>0, <2>3, <2>4, <2>5
<1>10. ASSUME NEW w \in Slots, Send(w)
       PROVE  MailInv'
  BY <1>10, RowSent DEF Send, Row
<1>11. ASSUME NEW w \in Slots, Mark(w)
       PROVE  MailInv'
  BY <1>11, RowDelivered DEF Mark, AfterMark
<1>12. ASSUME NEW w \in Slots, NEW state \in {"waiting", "dead"}, pc[w] # "idle", Ends(w, state),
              \A v \in Slots : pc'[v] \in DeliverySteps => pc'[v] = pc[v] /\ row'[v] = row[v]
       PROVE  MailInv'
  <2>1. /\ Len(rows') = Len(rows)
        /\ \A n \in 1 .. Len(rows) :
             /\ rows'[n].sent = rows[n].sent /\ rows'[n].delivered = rows[n].delivered
             /\ rows'[n].mail \in {rows[n].mail, state}
    BY <1>12, EndsRows
  <2>2. rows' \in Seq(Row)
    BY TypesStep DEF TypeOK, Row
  <2>3. \A n \in 1 .. Len(rows) : rows'[n].mail = "done" => rows[n].mail = "done"
    BY <2>1
  <2>. QED
    BY <1>0, <1>12, <2>1, <2>2, <2>3
<1>13. ASSUME NEW w \in Slots, Interrupt(w) \/ LoseLock(w)
       PROVE  MailInv'
  <2>1. pc[w] # "idle" /\ \E state \in {"waiting", "dead"} : Ends(w, state)
    BY <1>13 DEF Interrupt, LoseLock
  <2>2. \A v \in Slots : pc'[v] \in DeliverySteps => pc'[v] = pc[v] /\ row'[v] = row[v]
    BY <1>13 DEF Interrupt, LoseLock, Release
  <2>. QED
    BY <1>12, <2>1, <2>2
<1>14. CASE UNCHANGED vars
  BY <1>14 DEF vars, slotVars
<1>. QED
  BY <1>1, <1>2, <1>3, <1>5, <1>6, <1>7, <1>8, <1>9, <1>10, <1>11, <1>13, <1>14
    DEF Next, SlotStep, GeneratorStep, DeliveryStep
-----------------------------------------------------------------------------
\* A row keeps its item, and whether it is urgent, whatever step follows.
RowsKept ==
    /\ Len(rows') = Len(rows)
    /\ \A n \in 1 .. Len(rows) : rows'[n].of = rows[n].of /\ rows'[n].urgent = rows[n].urgent

LEMMA NewRowStep ==
  ASSUME TypeOK, NEW w \in Slots, Write(w) \/ Detect(w)
  PROVE  /\ item[w] \in Items
         /\ Len(rows') = Len(rows) + 1 /\ rows' \in Seq(Row)
         /\ \A n \in 1 .. Len(rows) : rows'[n] = rows[n]
         /\ \E urgent \in BOOLEAN :
              /\ rows'[Len(rows) + 1] = NewRow(item[w], urgent)
              /\ urgent <=> pc'[w] = "enqueue"
<1>1. item[w] \in Items /\ rows \in Seq(Row)
  BY DEF Write, Detect, TypeOK, Generates, GeneratorSteps, Row
<1>2. PICK urgent \in BOOLEAN :
        rows' = Append(rows, NewRow(item[w], urgent)) /\ (urgent <=> pc'[w] = "enqueue")
  <2>1. CASE Write(w)
    BY <2>1 DEF Write, AfterWrite, Goto, TypeOK
  <2>2. CASE Detect(w)
    BY <2>2 DEF Detect, AfterDetect, Goto, TypeOK
  <2>. QED
    BY <2>1, <2>2
<1>. QED
  BY <1>1, <1>2, RowAdded

LEMMA OldRows ==
  ASSUME TypeOK, [Next]_vars
  PROVE  RowsKept \/ \E w \in Slots : Write(w) \/ Detect(w)
<1>. rows \in Seq(Row) /\ Len(rows) \in Nat
  BY DEF TypeOK, Row
<1>. USE DEF RowsKept
<1>1. ASSUME rows' = rows
      PROVE  RowsKept
  BY <1>1
<1>2. ASSUME NEW w \in Slots, GeneratorStep(w), ~Write(w), ~Detect(w), ~EnqueueDelivery(w)
      PROVE  rows' = rows
  BY <1>2 DEF GeneratorStep, LoadSkips, Load, Reject, WriteRefused, DetectNothing, Return,
        GeneratorEnds
<1>3. ASSUME NEW w \in Slots, EnqueueDelivery(w)
      PROVE  RowsKept
  <2>1. row[w] \in DOMAIN rows
    BY <1>3 DEF EnqueueDelivery, TypeOK
  <2>. QED
    BY <1>3, <2>1, MailSet DEF EnqueueDelivery, JobStates
<1>4. ASSUME NEW w \in Slots, NEW n \in DOMAIN rows, TakeMail(w, n)
      PROVE  RowsKept
  BY <1>4, MailSet DEF TakeMail, JobStates
<1>5. ASSUME NEW w \in Slots, DeliveryStep(w)
      PROVE  RowsKept
  <2>1. pc[w] \in DeliverySteps
    BY <1>5 DEF DeliveryStep, Find, NotFound, Refused, Send, Mark, Finish, DeliverySteps
  <2>2. row[w] \in DOMAIN rows
    BY <2>1 DEF TypeOK
  <2>3. CASE Find(w)
    BY <2>3 DEF Find
  <2>4. CASE \E state \in JobStates : DeliveryEnds(w, state)
    BY <2>1, <2>4, MailEnds
  <2>5. CASE Send(w)
    BY <2>2, <2>5, RowSent DEF Send
  <2>6. CASE Mark(w)
    BY <2>2, <2>6, RowDelivered DEF Mark
  <2>. QED
    BY <1>5, <2>3, <2>4, <2>5, <2>6
      DEF DeliveryStep, NotFound, Refused, Finish, Fatal, JobStates
<1>6. ASSUME NEW w \in Slots, pc[w] # "idle", NEW state \in JobStates, Ends(w, state)
      PROVE  RowsKept
  BY <1>6, EndsRows
<1>7. ASSUME NEW w \in Slots, Interrupt(w) \/ LoseLock(w)
      PROVE  RowsKept
  BY <1>6, <1>7 DEF Interrupt, LoseLock, JobStates
<1>8. ASSUME NEW i \in Items, Request(i)
      PROVE  rows' = rows
  BY <1>8 DEF Request
<1>9. ASSUME NEW w \in Slots, NEW i \in Items, Take(w, i)
      PROVE  rows' = rows
  BY <1>9 DEF Take
<1>10. CASE UNCHANGED vars
  BY <1>10 DEF vars
<1>. QED
  BY <1>1, <1>2, <1>3, <1>4, <1>5, <1>7, <1>8, <1>9, <1>10 DEF Next, SlotStep

\* The unique index keeps a second report out.
LEMMA ReportStep ==
  ASSUME TypeOK, ItemInv, ReportInv, [Next]_vars
  PROVE  ReportInv'
<1>. rows \in Seq(Row) /\ Len(rows) \in Nat
  BY DEF TypeOK, Row
<1>1. CASE RowsKept
  <2>1. rows' \in Seq(Row)
    BY TypesStep DEF TypeOK, Row
  <2>. QED
    BY <1>1, <2>1 DEF RowsKept, ReportInv
<1>2. ASSUME NEW w \in Slots, Write(w) \/ Detect(w)
      PROVE  ReportInv'
  <2>1. item[w] \in Months => \A n \in 1 .. Len(rows) : rows[n].of # item[w]
    <3>1. CASE Write(w)
      BY <3>1 DEF Write, Insertable, RowsOf
    <3>2. CASE Detect(w)
      BY <3>2, ItemsAssumption DEF Detect, ItemInv
    <3>. QED
      BY <1>2, <3>1, <3>2
  <2>2. /\ rows' \in Seq(Row) /\ Len(rows') = Len(rows) + 1
        /\ \A n \in 1 .. Len(rows) : rows'[n] = rows[n]
        /\ rows'[Len(rows) + 1].of = item[w]
    <3>1. PICK urgent \in BOOLEAN : rows'[Len(rows) + 1] = NewRow(item[w], urgent)
      BY <1>2, NewRowStep
    <3>. QED
      BY <1>2, <3>1, NewRowStep DEF NewRow
  <2>. QED
    BY <2>1, <2>2 DEF ReportInv
<1>. QED
  BY <1>1, <1>2, OldRows

\* Mail is queued by the slot that created an urgent row, and then only repeated.
LEMMA UrgentStep ==
  ASSUME TypeOK, UrgentInv, [Next]_vars
  PROVE  UrgentInv'
<1>. rows \in Seq(Row) /\ Len(rows) \in Nat
  BY DEF TypeOK, Row
<1>. pc \in [Slots -> {"idle"} \cup GeneratorSteps \cup DeliverySteps]
     /\ row \in [Slots -> 0 .. Len(rows)]
     /\ \A v \in Slots : pc[v] \in DeliverySteps \cup {"enqueue"} => row[v] \in 1 .. Len(rows)
  BY DEF TypeOK
<1>. USE DEF UrgentInv, Goto, DeliverySteps, JobStates
<1>1. ASSUME NEW i \in Items, Request(i)
      PROVE  UrgentInv'
  BY <1>1 DEF Request, slotVars
<1>2. ASSUME NEW w \in Slots, NEW i \in Items, Take(w, i)
      PROVE  UrgentInv'
  BY <1>2 DEF Take
<1>3. ASSUME NEW w \in Slots, NEW n \in DOMAIN rows, TakeMail(w, n)
      PROVE  UrgentInv'
  BY <1>3, MailSet DEF TakeMail
<1>4. ASSUME NEW w \in Slots, Release(w), rows' = rows
      PROVE  UrgentInv'
  BY <1>4 DEF Release
<1>5. ASSUME NEW w \in Slots, LoadSkips(w) \/ Reject(w) \/ Return(w) \/ WriteRefused(w)
      PROVE  UrgentInv'
  BY <1>4, <1>5 DEF LoadSkips, Reject, Return, WriteRefused, GeneratorEnds
<1>6. ASSUME NEW w \in Slots, Load(w) \/ DetectNothing(w) \/ Find(w)
      PROVE  UrgentInv'
  BY <1>6 DEF Load, DetectNothing, Find, AfterFind
<1>7. ASSUME NEW w \in Slots, Write(w) \/ Detect(w)
      PROVE  UrgentInv'
  <2>1. PICK urgent \in BOOLEAN :
          /\ rows'[Len(rows) + 1] = NewRow(item[w], urgent)
          /\ urgent <=> pc'[w] = "enqueue"
    BY <1>7, NewRowStep
  <2>2. rows'[Len(rows) + 1].mail = "absent" /\ (rows'[Len(rows) + 1].urgent <=> urgent)
    BY <2>1 DEF NewRow
  <2>3. /\ Len(rows') = Len(rows) + 1 /\ rows' \in Seq(Row)
        /\ \A n \in 1 .. Len(rows) : rows'[n] = rows[n]
    BY <1>7, NewRowStep
  <2>4. row'[w] = Len(rows) + 1 /\ pc'[w] \in {"enqueue", "detect"}
        /\ \A v \in Slots : v # w => pc'[v] = pc[v] /\ row'[v] = row[v]
    BY <1>7 DEF Write, AfterWrite, Detect, AfterDetect
  <2>5. \A v \in Slots : pc'[v] \in DeliverySteps \cup {"enqueue"} => rows'[row'[v]].urgent
    <3>1. pc'[w] \in DeliverySteps \cup {"enqueue"} => urgent
      BY <2>1, <2>4 DEF DeliverySteps
    <3>2. ASSUME NEW v \in Slots, v # w, pc'[v] \in DeliverySteps \cup {"enqueue"}
          PROVE  rows'[row'[v]].urgent
      <4>1. row[v] \in 1 .. Len(rows) /\ rows[row[v]].urgent
        BY <2>4, <3>2
      <4>. QED
        BY <2>3, <2>4, <3>2, <4>1
    <3>. QED
      BY <2>2, <2>4, <3>1, <3>2
  <2>6. ASSUME NEW n \in DOMAIN rows', rows'[n].mail # "absent"
        PROVE  rows'[n].urgent
    <3>1. DOMAIN rows' = 1 .. Len(rows') /\ DOMAIN rows = 1 .. Len(rows)
      BY <2>3
    <3>2. n # Len(rows) + 1
      BY <2>2, <2>6
    <3>3. n \in DOMAIN rows /\ rows'[n] = rows[n]
      BY <2>3, <3>1, <3>2
    <3>. QED
      BY <2>6, <3>3
  <2>. QED
    BY <2>5, <2>6
<1>8. ASSUME NEW w \in Slots, EnqueueDelivery(w)
      PROVE  UrgentInv'
  <2>1. row[w] \in DOMAIN rows
    BY <1>8 DEF EnqueueDelivery
  <2>. QED
    BY <1>8, <2>1, MailSet DEF EnqueueDelivery
<1>9. ASSUME NEW w \in Slots, pc[w] # "idle", Release(w), NEW state \in JobStates, Ends(w, state)
      PROVE  UrgentInv'
  <2>1. \A v \in Slots : pc'[v] \in DeliverySteps \cup {"enqueue"}
                            => pc'[v] = pc[v] /\ row'[v] = row[v]
    BY <1>9 DEF Release
  <2>2. /\ Len(rows') = Len(rows)
        /\ \A n \in 1 .. Len(rows) :
             /\ rows[n].urgent => rows'[n].urgent
             /\ rows'[n].mail # "absent" =>
                  rows[n].mail # "absent" \/ (n = row[w] /\ pc[w] \in DeliverySteps)
    BY <1>9, EndsRows
  <2>3. rows' \in Seq(Row)
    BY TypesStep DEF TypeOK, Row
  <2>4. \A n \in 1 .. Len(rows) : rows'[n].mail # "absent" => rows'[n].urgent
    BY <2>2
  <2>. QED
    BY <2>1, <2>2, <2>3, <2>4
<1>10. ASSUME NEW w \in Slots, NotFound(w) \/ Refused(w) \/ Finish(w)
       PROVE  UrgentInv'
  <2>1. pc[w] # "idle" /\ Release(w) /\ \E state \in JobStates : Ends(w, state)
    BY <1>10 DEF NotFound, Refused, Finish, Fatal, Ends, Generates, GeneratorSteps
  <2>. QED
    BY <2>1, <1>9
<1>11. ASSUME NEW w \in Slots, Send(w)
       PROVE  UrgentInv'
  BY <1>11, RowSent DEF Send
<1>12. ASSUME NEW w \in Slots, Mark(w)
       PROVE  UrgentInv'
  BY <1>12, RowDelivered DEF Mark, AfterMark
<1>13. ASSUME NEW w \in Slots, Interrupt(w)
       PROVE  UrgentInv'
  BY <1>9, <1>13 DEF Interrupt
<1>14. ASSUME NEW w \in Slots, LoseLock(w)
       PROVE  UrgentInv'
  BY <1>14, EndsRows DEF LoseLock
<1>15. CASE UNCHANGED vars
  BY <1>15 DEF vars, slotVars
<1>. QED
  BY <1>1, <1>2, <1>3, <1>5, <1>6, <1>7, <1>8, <1>10, <1>11, <1>12, <1>13, <1>14, <1>15
    DEF Next, SlotStep, GeneratorStep, DeliveryStep
-----------------------------------------------------------------------------
\* How many rows are older than a row never changes.
LEMMA OlderFacts ==
  ASSUME TypeOK, NEW n \in DOMAIN rows
  PROVE  Cardinality(Older(n)) \in Nat /\ (rows[n].of \in Months => Findable(n))
<1>. rows \in Seq(Row)
  BY DEF TypeOK, Row
<1>1. IsFiniteSet(Older(n))
  <2>1. Older(n) \subseteq 1 .. Len(rows)
    BY DEF Older
  <2>2. IsFiniteSet(1 .. Len(rows))
    BY FS_Interval
  <2>. QED
    BY <2>1, <2>2, FS_Subset
<1>2. ASSUME rows[n].of \in Months
      PROVE  Findable(n)
  <2>1. Older(n) = {}
    BY <1>2, ItemsAssumption DEF Older, SameTable
  <2>. QED
    BY <2>1, FS_EmptySet, SettingsAssumption DEF Findable
<1>. QED
  BY <1>1, <1>2, FS_CardinalityType

LEMMA OlderKept ==
  ASSUME TypeOK, [Next]_vars, NEW n \in DOMAIN rows
  PROVE  Older(n)' = Older(n) /\ (Deliverable(n)' <=> Deliverable(n))
         /\ rows'[n].of = rows[n].of
<1>. rows \in Seq(Row) /\ rows' \in Seq(Row)
  BY TypesStep DEF TypeOK, Row
<1>1. Len(rows) <= Len(rows') /\ \A m \in 1 .. Len(rows) : rows'[m].of = rows[m].of
  BY OldRows, NewRowStep DEF RowsKept
<1>. QED
  BY <1>1 DEF Older, SameTable, Deliverable

LEMMA FaultsKept ==
  ASSUME [Next]_vars
  PROVE  faults' = faults \/ \E w \in Slots : Interrupt(w) \/ LoseLock(w)
<1>1. ASSUME NEW w \in Slots, GeneratorStep(w)
      PROVE  faults' = faults
  BY <1>1 DEF GeneratorStep, LoadSkips, Load, Reject, Write, WriteRefused, DetectNothing,
        Detect, EnqueueDelivery, Return
<1>2. ASSUME NEW w \in Slots, DeliveryStep(w)
      PROVE  faults' = faults
  BY <1>2 DEF DeliveryStep, Find, NotFound, Refused, Send, Mark, Finish
<1>. QED
  BY <1>1, <1>2 DEF Next, SlotStep, Request, Take, TakeMail, vars

LEMMA BuriedStep ==
  ASSUME TypeOK, BuriedForAReason, [Next]_vars
  PROVE  BuriedForAReason'
<1>. rows \in Seq(Row) /\ Len(rows) \in Nat /\ rows' \in Seq(Row) /\ faults \in Nat
  BY TypesStep DEF TypeOK, Row
<1>. DEFINE Reason(n) ==
       rows[n].of \notin Months /\ (~Deliverable(n) \/ Cardinality(Older(n)) >= Limit)
<1>1. ASSUME NEW n \in 1 .. Len(rows), Reason(n)
      PROVE  Reason(n)'
  BY <1>1, OlderKept
<1>2. ASSUME NEW w \in Slots, NotFound(w) \/ Refused(w)
      PROVE  row[w] \in DOMAIN rows /\ Reason(row[w])
  <2>1. row[w] \in DOMAIN rows
    BY <1>2 DEF NotFound, Refused, TypeOK, DeliverySteps
  <2>2. CASE NotFound(w)
    BY <2>1, <2>2, OlderFacts, SettingsAssumption DEF NotFound, Findable
  <2>3. CASE Refused(w)
    BY <2>1, <2>3, ItemsAssumption DEF Refused, Deliverable
  <2>. QED
    BY <1>2, <2>1, <2>2, <2>3
<1>. HIDE DEF Reason
<1>3. ASSUME faults = 0, NEW n \in 1 .. Len(rows), rows[n].mail = "dead"
      PROVE  Reason(n)
  BY <1>3 DEF BuriedForAReason, Reason
<1>4. ASSUME faults' = 0, NEW n \in 1 .. Len(rows'), rows'[n].mail = "dead"
      PROVE  Reason(n)'
  <2>1. faults = 0 /\ \A w \in Slots : ~Interrupt(w) /\ ~LoseLock(w)
    BY <1>4, FaultsKept DEF Interrupt, LoseLock
  <2>2. ASSUME n \in 1 .. Len(rows), rows[n].mail = "dead"
        PROVE  Reason(n)'
    BY <1>1, <1>3, <2>1, <2>2
  <2>3. CASE UNCHANGED rows
    BY <1>4, <2>2, <2>3
  <2>4. ASSUME NEW w \in Slots, GeneratorStep(w)
        PROVE  Reason(n)'
    <3>1. CASE Write(w) \/ Detect(w)
      <4>1. PICK urgent \in BOOLEAN : rows'[Len(rows) + 1] = NewRow(item[w], urgent)
        BY <3>1, NewRowStep
      <4>2. rows'[Len(rows) + 1].mail = "absent"
        BY <4>1 DEF NewRow
      <4>3. n \in 1 .. Len(rows) /\ rows'[n] = rows[n]
        BY <1>4, <3>1, <4>2, NewRowStep
      <4>. QED
        BY <1>4, <2>2, <4>3
    <3>2. CASE EnqueueDelivery(w)
      <4>1. row[w] \in DOMAIN rows
        BY <3>2 DEF EnqueueDelivery, TypeOK
      <4>2. n \in 1 .. Len(rows) /\ rows[n].mail = "dead"
        BY <1>4, <3>2, <4>1, MailSet DEF EnqueueDelivery, JobStates
      <4>. QED
        BY <2>2, <4>2
    <3>3. CASE ~Write(w) /\ ~Detect(w) /\ ~EnqueueDelivery(w)
      BY <2>3, <2>4, <3>3 DEF GeneratorStep, LoadSkips, Load, Reject, WriteRefused,
            DetectNothing, Return, GeneratorEnds
    <3>. QED
      BY <3>1, <3>2, <3>3
  <2>5. ASSUME NEW w \in Slots, DeliveryStep(w)
        PROVE  Reason(n)'
    <3>1. pc[w] \in DeliverySteps /\ row[w] \in DOMAIN rows
      BY <2>5 DEF DeliveryStep, Find, NotFound, Refused, Send, Mark, Finish, DeliverySteps, TypeOK
    <3>2. CASE Find(w)
      BY <2>3, <3>2 DEF Find
    <3>3. CASE NotFound(w) \/ Refused(w)
      <4>1. DeliveryEnds(w, "dead")
        BY <3>3 DEF NotFound, Refused, Fatal
      <4>2. n \in 1 .. Len(rows) /\ (n # row[w] => rows[n].mail = "dead")
        BY <1>4, <3>1, <4>1, MailEnds DEF JobStates
      <4>. QED
        BY <1>1, <1>2, <2>2, <3>3, <4>2
    <3>4. CASE Finish(w)
      <4>1. n \in 1 .. Len(rows) /\ rows[n].mail = "dead"
        BY <1>4, <3>1, <3>4, MailEnds DEF Finish, JobStates
      <4>. QED
        BY <2>2, <4>1
    <3>5. CASE Send(w) \/ Mark(w)
      <4>1. n \in 1 .. Len(rows) /\ rows[n].mail = "dead"
        BY <1>4, <3>1, <3>5, RowSent, RowDelivered DEF Send, Mark
      <4>. QED
        BY <2>2, <4>1
    <3>. QED
      BY <2>5, <3>2, <3>3, <3>4, <3>5 DEF DeliveryStep
  <2>6. ASSUME NEW w \in Slots, NEW m \in DOMAIN rows, TakeMail(w, m)
        PROVE  Reason(n)'
    <3>1. n \in 1 .. Len(rows) /\ rows[n].mail = "dead"
      BY <1>4, <2>6, MailSet DEF TakeMail, JobStates
    <3>. QED
      BY <2>2, <3>1
  <2>. QED
    BY <2>1, <2>3, <2>4, <2>5, <2>6 DEF Next, SlotStep, Request, Take, vars
<1>. QED
  BY <1>4 DEF BuriedForAReason, Reason
-----------------------------------------------------------------------------
\* While nothing fails, each item has one slot.
LEMMA SlotsOwnStep ==
  ASSUME TypeOK, SlotsOwn, [Next]_vars, \A w \in Slots : ~Interrupt(w) /\ ~LoseLock(w)
  PROVE  SlotsOwn'
<1>. USE DEF TypeOK, SlotsOwn, Goto
<1>1. ASSUME NEW i \in Items, Request(i)
      PROVE  SlotsOwn'
  BY <1>1 DEF Request, Known, slotVars
<1>2. ASSUME NEW w \in Slots, NEW i \in Items, Take(w, i)
      PROVE  SlotsOwn'
  BY <1>2 DEF Take
<1>3. ASSUME NEW w \in Slots, Release(w), gen' = gen
      PROVE  SlotsOwn'
  BY <1>3 DEF Release
<1>4. ASSUME NEW w \in Slots, item[w] # NoItem, Release(w), NEW state \in JobStates,
             GeneratorEnds(w, state)
      PROVE  SlotsOwn'
  BY <1>4 DEF Release, GeneratorEnds
<1>5. ASSUME NEW w \in Slots, LoadSkips(w) \/ Reject(w) \/ Return(w) \/ WriteRefused(w)
      PROVE  SlotsOwn'
  <2>1. item[w] # NoItem
    BY <1>5 DEF LoadSkips, Reject, Return, WriteRefused, Generates, GeneratorSteps
  <2>2. Release(w) /\ \E state \in JobStates : GeneratorEnds(w, state)
    BY <1>5 DEF LoadSkips, Reject, Return, WriteRefused, Fatal, JobStates
  <2>. QED
    BY <1>4, <2>1, <2>2
<1>6. ASSUME NEW w \in Slots, NotFound(w) \/ Refused(w) \/ Finish(w)
      PROVE  SlotsOwn'
  BY <1>3, <1>6 DEF NotFound, Refused, Finish, DeliveryEnds
<1>7. ASSUME UNCHANGED <<gen, item, stale>>
      PROVE  SlotsOwn'
  BY <1>7
<1>8. ASSUME NEW w \in Slots,
             \/ Load(w) \/ DetectNothing(w) \/ Write(w) \/ Detect(w) \/ EnqueueDelivery(w)
             \/ Find(w) \/ Send(w) \/ Mark(w) \/ \E n \in DOMAIN rows : TakeMail(w, n)
      PROVE  UNCHANGED <<gen, item, stale>>
  BY <1>8 DEF Load, DetectNothing, Write, Detect, EnqueueDelivery, Find, Send, Mark, TakeMail
<1>9. CASE UNCHANGED vars
  BY <1>7, <1>9 DEF vars, slotVars
<1>. QED
  BY <1>1, <1>2, <1>5, <1>6, <1>7, <1>8, <1>9
    DEF Next, SlotStep, GeneratorStep, DeliveryStep

\* While nothing fails, a row is created by the one slot of its item, that hands it
\* over in its next step if it is urgent: a step of another kind keeps this when it
\* puts no item back, and takes up none that has rows.
LEMMA RowsOwnKept ==
  ASSUME RowsOwn, rows \in Seq(Row), rows' \in Seq(Row), Len(rows') = Len(rows),
         NEW w \in Slots,
         \A v \in Slots : v # w => pc'[v] = pc[v] /\ item'[v] = item[v] /\ row'[v] = row[v],
         \A n \in 1 .. Len(rows) :
            /\ rows'[n].of = rows[n].of /\ (rows'[n].urgent => rows[n].urgent)
            /\ rows'[n].mail = "absent" =>
                 rows[n].mail = "absent" /\ ~(pc[w] = "enqueue" /\ row[w] = n),
         \A i \in Items : gen'[i] \in {"absent", "waiting"} => gen[i] \in {"absent", "waiting"},
         pc'[w] \in {"load", "write"} => \A n \in 1 .. Len(rows) : rows[n].of # item'[w]
  PROVE  RowsOwn'
<1>. SUFFICES ASSUME NEW n \in DOMAIN rows'
              PROVE  /\ gen'[rows'[n].of] \notin {"absent", "waiting"}
                     /\ \A v \in Slots : pc'[v] \in {"load", "write"} => rows'[n].of # item'[v]
                     /\ rows'[n].urgent /\ rows'[n].mail = "absent" =>
                          \E v \in Slots : pc'[v] = "enqueue" /\ row'[v] = n
                                             /\ item'[v] = rows'[n].of
  BY Zenon DEF RowsOwn
<1>0. n \in 1 .. Len(rows) /\ rows'[n].of = rows[n].of /\ (rows'[n].urgent => rows[n].urgent)
  <2>1. n \in 1 .. Len(rows)
    OBVIOUS
  <2>. QED
    BY <2>1, Zenon
<1>1. rows[n].of \in Items
  <2>1. rows[n] \in Row
    BY <1>0
  <2>. QED
    BY <2>1 DEF Row
<1>2. gen'[rows[n].of] \notin {"absent", "waiting"}
  BY <1>0, <1>1 DEF RowsOwn
<1>3. \A v \in Slots : pc'[v] \in {"load", "write"} => rows[n].of # item'[v]
  BY <1>0 DEF RowsOwn
<1>4. ASSUME rows[n].urgent, rows'[n].mail = "absent"
      PROVE  \E v \in Slots : pc'[v] = "enqueue" /\ row'[v] = n /\ item'[v] = rows[n].of
  <2>1. PICK v \in Slots : pc[v] = "enqueue" /\ row[v] = n /\ item[v] = rows[n].of
    BY <1>0, <1>4 DEF RowsOwn
  <2>. QED
    BY <1>0, <1>4, <2>1
<1>. QED
  BY <1>0, <1>2, <1>3, <1>4

LEMMA RowsOwnStep ==
  ASSUME TypeOK, SlotsOwn, RowsOwn, [Next]_vars,
         \A w \in Slots : ~Interrupt(w) /\ ~LoseLock(w)
  PROVE  RowsOwn'
<1>0. rows \in Seq(Row) /\ rows' \in Seq(Row)
  BY TypesStep DEF TypeOK, Row
<1>1. ASSUME NEW i \in Items, Request(i)
      PROVE  RowsOwn'
  <2>1. \A n \in DOMAIN rows : rows[n].of # i /\ rows[n].of \in Items
    <3>1. gen[i] = "absent"
      BY <1>1 DEF Request, Known
    <3>2. \A n \in DOMAIN rows : rows[n].of # i
      BY <3>1 DEF RowsOwn
    <3>3. \A n \in DOMAIN rows : rows[n] \in Row
      BY <1>0
    <3>. QED
      BY <3>2, <3>3 DEF Row
  <2>2. UNCHANGED <<rows, pc, item, row>> /\ gen' = [gen EXCEPT ![i] = "waiting"]
    BY <1>1 DEF Request, slotVars
  <2>3. \A n \in DOMAIN rows : gen'[rows[n].of] = gen[rows[n].of]
    BY <2>1, <2>2 DEF TypeOK
  <2>. QED
    BY <2>2, <2>3 DEF RowsOwn
<1>2. ASSUME NEW w \in Slots, NEW i \in Items, Take(w, i)
      PROVE  RowsOwn'
  <2>1. /\ gen' = [gen EXCEPT ![i] = "active"] /\ UNCHANGED <<rows, row>> /\ pc[w] = "idle"
        /\ pc' = [pc EXCEPT ![w] = "load"] /\ item' = [item EXCEPT ![w] = i]
    BY <1>2 DEF Take, Goto
  <2>2. \A n \in 1 .. Len(rows) : rows[n].of # i
    BY <1>0, <1>2 DEF Take, RowsOwn
  <2>3. item'[w] = i /\ \A v \in Slots : v # w =>
             pc'[v] = pc[v] /\ item'[v] = item[v] /\ row'[v] = row[v]
    BY <2>1 DEF TypeOK
  <2>4. \A j \in Items : gen'[j] \in {"absent", "waiting"} => gen[j] \in {"absent", "waiting"}
    BY <2>1 DEF TypeOK
  <2>. QED
    BY <1>0, <2>1, <2>2, <2>3, <2>4, RowsOwnKept
<1>3. ASSUME NEW w \in Slots, LoadSkips(w) \/ WriteRefused(w)
      PROVE  FALSE
  <2>1. RowsOf(item[w]) # {} /\ pc[w] \in {"load", "write"}
    BY <1>3 DEF LoadSkips, WriteRefused, AlreadyWritten, Insertable
  <2>. QED
    BY <2>1 DEF RowsOf, RowsOwn
<1>4. ASSUME NEW w \in Slots, Reject(w) \/ Return(w)
      PROVE  RowsOwn'
  <2>1. pc[w] # "enqueue"
    BY <1>4 DEF Reject, Return
  <2>2. rows' = rows /\ \E state \in {"done", "dead"} : gen' = [gen EXCEPT ![item[w]] = state]
    BY <1>4 DEF Reject, Return, Fatal, GeneratorEnds, Accepted, SlotsOwn
  <2>3. \A j \in Items : gen'[j] \in {"absent", "waiting"} => gen[j] \in {"absent", "waiting"}
    BY <2>2 DEF TypeOK
  <2>4. pc'[w] = "idle" /\ \A v \in Slots : v # w =>
             pc'[v] = pc[v] /\ item'[v] = item[v] /\ row'[v] = row[v]
    BY <1>4 DEF Reject, Return, Release, TypeOK
  <2>. QED
    BY <1>0, <2>1, <2>2, <2>3, <2>4, RowsOwnKept
<1>5. ASSUME NEW w \in Slots, Load(w) \/ DetectNothing(w)
      PROVE  RowsOwn'
  <2>1. pc[w] # "enqueue" /\ UNCHANGED <<gen, rows, item, row>>
    BY <1>5 DEF Load, DetectNothing
  <2>2. \A v \in Slots : v # w => pc'[v] = pc[v]
    BY <1>5 DEF Load, DetectNothing, Goto, TypeOK
  <2>3. pc'[w] \in {"load", "write"} => pc[w] = "load"
    BY <1>5 DEF Load, DetectNothing, Goto, TypeOK
  <2>. QED
    BY <1>0, <2>1, <2>2, <2>3, RowsOwnKept DEF RowsOwn
<1>6. ASSUME NEW w \in Slots, Write(w) \/ Detect(w)
      PROVE  RowsOwn'
  <2>1. PICK urgent \in BOOLEAN :
          /\ rows'[Len(rows) + 1] = NewRow(item[w], urgent)
          /\ urgent <=> pc'[w] = "enqueue"
    BY <1>6, NewRowStep
  <2>2. rows'[Len(rows) + 1].of = item[w] /\ (rows'[Len(rows) + 1].urgent <=> urgent)
    BY <2>1 DEF NewRow
  <2>3. /\ Len(rows') = Len(rows) + 1 /\ item[w] \in Items
        /\ \A n \in 1 .. Len(rows) : rows'[n] = rows[n]
    BY <1>6, NewRowStep
  <2>4. /\ row' = [row EXCEPT ![w] = Len(rows) + 1] /\ pc[w] \in {"write", "detect"}
        /\ UNCHANGED <<gen, item>>
        /\ \E step \in {"enqueue", "detect"} : pc' = [pc EXCEPT ![w] = step]
    BY <1>6 DEF Write, AfterWrite, Detect, AfterDetect, Goto
  <2>5. /\ row'[w] = Len(rows) + 1 /\ pc'[w] \in {"enqueue", "detect"}
        /\ \A v \in Slots : v # w => pc'[v] = pc[v] /\ row'[v] = row[v]
    BY <2>4 DEF TypeOK
  <2>6. item[w] # NoItem /\ gen[item[w]] = "active"
    BY <2>4 DEF TypeOK, Generates, GeneratorSteps, SlotsOwn
  <2>7. ASSUME NEW n \in 1 .. Len(rows)
        PROVE  /\ gen'[rows'[n].of] \notin {"absent", "waiting"}
               /\ \A v \in Slots : pc'[v] \in {"load", "write"} => rows'[n].of # item'[v]
               /\ rows'[n].urgent /\ rows'[n].mail = "absent" =>
                    \E v \in Slots : pc'[v] = "enqueue" /\ row'[v] = n /\ item'[v] = rows'[n].of
    <3>1. gen'[rows[n].of] \notin {"absent", "waiting"}
      BY <2>4 DEF RowsOwn
    <3>2. \A v \in Slots : pc'[v] \in {"load", "write"} => rows[n].of # item[v]
      BY <2>5 DEF RowsOwn
    <3>3. ASSUME rows[n].urgent, rows[n].mail = "absent"
          PROVE  \E v \in Slots : pc'[v] = "enqueue" /\ row'[v] = n /\ item[v] = rows[n].of
      <4>1. PICK v \in Slots : pc[v] = "enqueue" /\ row[v] = n /\ item[v] = rows[n].of
        BY <3>3 DEF RowsOwn
      <4>2. v # w
        BY <2>4, <4>1
      <4>. QED
        BY <2>5, <4>1, <4>2
    <3>. QED
      BY <2>3, <2>4, <3>1, <3>2, <3>3
  <2>8. /\ gen'[rows'[Len(rows) + 1].of] \notin {"absent", "waiting"}
        /\ \A v \in Slots : pc'[v] \in {"load", "write"} => rows'[Len(rows) + 1].of # item'[v]
        /\ rows'[Len(rows) + 1].urgent =>
             pc'[w] = "enqueue" /\ row'[w] = Len(rows) + 1 /\ item'[w] = rows'[Len(rows) + 1].of
    <3>1. \A v \in Slots : pc'[v] \in {"load", "write"} => item[v] # item[w]
      BY <2>5, <2>6 DEF SlotsOwn
    <3>. QED
      BY <2>1, <2>2, <2>4, <2>5, <2>6, <3>1
  <2>9. DOMAIN rows' = 1 .. Len(rows) \cup {Len(rows) + 1}
    BY <1>0, <2>3
  <2>. HIDE <1>6
  <2>. QED
    BY <2>7, <2>8, <2>9 DEF RowsOwn
<1>7. ASSUME NEW w \in Slots, EnqueueDelivery(w)
      PROVE  RowsOwn'
  <2>1. row[w] \in DOMAIN rows /\ pc[w] = "enqueue" /\ UNCHANGED <<gen, item, row>>
    BY <1>7 DEF EnqueueDelivery, TypeOK
  <2>2. /\ Len(rows') = Len(rows)
        /\ \A n \in 1 .. Len(rows) :
             /\ rows'[n].of = rows[n].of /\ (rows'[n].urgent => rows[n].urgent)
             /\ rows'[n].mail = IF n = row[w] THEN "waiting" ELSE rows[n].mail
    BY <1>0, <1>7, <2>1, MailSet DEF EnqueueDelivery, JobStates
  <2>3. pc'[w] \in {"detect", "return"} /\ \A v \in Slots : v # w => pc'[v] = pc[v]
    BY <1>7 DEF EnqueueDelivery, Goto, TypeOK
  <2>. QED
    BY <1>0, <2>1, <2>2, <2>3, RowsOwnKept
<1>8. ASSUME NEW w \in Slots, pc[w] \in {"idle"} \cup DeliverySteps, gen' = gen,
             pc'[w] \in {"idle"} \cup DeliverySteps,
             \A v \in Slots : v # w => pc'[v] = pc[v] /\ item'[v] = item[v] /\ row'[v] = row[v],
             Len(rows') = Len(rows),
             \A n \in 1 .. Len(rows) :
                /\ rows'[n].of = rows[n].of /\ (rows'[n].urgent => rows[n].urgent)
                /\ rows'[n].mail = "absent" => rows[n].mail = "absent"
      PROVE  RowsOwn'
  BY <1>0, <1>8, RowsOwnKept DEF DeliverySteps
<1>9. ASSUME NEW w \in Slots, NotFound(w) \/ Refused(w) \/ Finish(w)
      PROVE  RowsOwn'
  <2>1. PICK state \in {"done", "dead"} : DeliveryEnds(w, state)
    BY <1>9 DEF NotFound, Refused, Finish, Fatal
  <2>2. pc[w] \in DeliverySteps /\ Release(w) /\ gen' = gen
    BY <1>9 DEF NotFound, Refused, Finish, DeliveryEnds, DeliverySteps
  <2>3. /\ Len(rows') = Len(rows)
        /\ \A n \in 1 .. Len(rows) :
             /\ rows'[n].of = rows[n].of /\ (rows'[n].urgent => rows[n].urgent)
             /\ rows'[n].mail = "absent" => rows[n].mail = "absent"
    BY <2>1, <2>2, MailEnds DEF JobStates
  <2>4. pc'[w] = "idle" /\ \A v \in Slots : v # w =>
             pc'[v] = pc[v] /\ item'[v] = item[v] /\ row'[v] = row[v]
    BY <2>2 DEF Release, TypeOK
  <2>. QED
    BY <1>8, <2>2, <2>3, <2>4
<1>10. ASSUME NEW w \in Slots, Send(w) \/ Mark(w)
       PROVE  RowsOwn'
  <2>1. pc[w] \in DeliverySteps /\ UNCHANGED <<gen, item, row>>
    BY <1>10 DEF Send, Mark, DeliverySteps
  <2>2. row[w] \in DOMAIN rows
    BY <2>1 DEF TypeOK
  <2>3. /\ Len(rows') = Len(rows)
        /\ \A n \in 1 .. Len(rows) :
             /\ rows'[n].of = rows[n].of /\ (rows'[n].urgent => rows[n].urgent)
             /\ rows'[n].mail = rows[n].mail
    <3>1. CASE Send(w)
      BY <1>0, <2>2, <3>1, RowSent DEF Send
    <3>2. CASE Mark(w)
      BY <1>0, <2>2, <3>2, RowDelivered DEF Mark
    <3>. QED
      BY <1>10, <3>1, <3>2
  <2>4. pc'[w] \in DeliverySteps /\ \A v \in Slots : v # w => pc'[v] = pc[v]
    BY <1>10 DEF Send, Mark, AfterMark, Goto, TypeOK, DeliverySteps
  <2>. QED
    BY <1>8, <2>1, <2>3, <2>4
<1>11. ASSUME NEW w \in Slots, Find(w)
       PROVE  RowsOwn'
  <2>1. pc[w] \in DeliverySteps /\ UNCHANGED <<gen, rows, item, row>>
    BY <1>11 DEF Find, DeliverySteps
  <2>2. pc'[w] \in DeliverySteps /\ \A v \in Slots : v # w => pc'[v] = pc[v]
    BY <1>11 DEF Find, AfterFind, Goto, TypeOK, DeliverySteps
  <2>. QED
    BY <1>8, <2>1, <2>2
<1>12. ASSUME NEW w \in Slots, NEW m \in DOMAIN rows, TakeMail(w, m)
       PROVE  RowsOwn'
  <2>1. /\ Len(rows') = Len(rows)
        /\ \A n \in 1 .. Len(rows) :
             /\ rows'[n].of = rows[n].of /\ (rows'[n].urgent => rows[n].urgent)
             /\ rows'[n].mail = "absent" => rows[n].mail = "absent"
    BY <1>0, <1>12, MailSet DEF TakeMail, JobStates
  <2>2. /\ pc[w] = "idle" /\ UNCHANGED <<gen, item>> /\ pc'[w] \in DeliverySteps
        /\ \A v \in Slots : v # w => pc'[v] = pc[v] /\ row'[v] = row[v]
    BY <1>12 DEF TakeMail, Goto, TypeOK, DeliverySteps
  <2>. QED
    BY <1>8, <2>1, <2>2
<1>13. CASE UNCHANGED vars
  BY <1>13 DEF vars, slotVars, RowsOwn
<1>. QED
  BY <1>1, <1>2, <1>3, <1>4, <1>5, <1>6, <1>7, <1>9, <1>10, <1>11, <1>12, <1>13
    DEF Next, SlotStep, GeneratorStep, DeliveryStep

-----------------------------------------------------------------------------
\* A row waits for its hand-over until its one creator makes it.
LEMMA HandoverStep ==
  ASSUME TypeOK, HandoverInv, [Next]_vars
  PROVE  HandoverInv'
<1>0. rows \in Seq(Row) /\ Len(rows) \in Nat /\ rows' \in Seq(Row)
  BY TypesStep DEF TypeOK, Row
<1>00. \A v \in Slots : pc[v] \in DeliverySteps \cup {"enqueue"} => row[v] \in 1 .. Len(rows)
  BY <1>0 DEF TypeOK
<1>1. ASSUME Len(rows') = Len(rows),
             \A n \in 1 .. Len(rows) :
                rows'[n].mail = rows[n].mail
                \/ (rows[n].mail # "absent" /\ rows'[n].mail # "absent"),
             \A v \in Slots :
                /\ pc'[v] \in DeliverySteps => pc[v] \in DeliverySteps /\ row'[v] = row[v]
                /\ pc'[v] = "enqueue" => pc[v] = "enqueue" /\ row'[v] = row[v]
      PROVE  HandoverInv'
  BY <1>0, <1>00, <1>1 DEF HandoverInv
<1>2. ASSUME NEW w \in Slots,
             LoadSkips(w) \/ Reject(w) \/ Return(w) \/ WriteRefused(w) \/ Load(w)
               \/ DetectNothing(w) \/ Find(w)
      PROVE  HandoverInv'
  <2>1. rows' = rows
    BY <1>2 DEF LoadSkips, Reject, Return, WriteRefused, GeneratorEnds, Load, DetectNothing, Find
  <2>2. \A v \in Slots :
           /\ pc'[v] \in DeliverySteps => pc[v] \in DeliverySteps /\ row'[v] = row[v]
           /\ pc'[v] = "enqueue" => pc[v] = "enqueue" /\ row'[v] = row[v]
    BY <1>2 DEF LoadSkips, Reject, Return, WriteRefused, Release, Load, DetectNothing, Find,
          AfterFind, Goto, DeliverySteps, TypeOK
  <2>. QED
    BY <1>1, <2>1, <2>2
<1>3. ASSUME NEW w \in Slots, Write(w) \/ Detect(w)
      PROVE  HandoverInv'
  <2>1. /\ Len(rows') = Len(rows) + 1 /\ \A n \in 1 .. Len(rows) : rows'[n] = rows[n]
        /\ rows'[Len(rows) + 1].mail = "absent"
    <3>1. PICK urgent \in BOOLEAN : rows'[Len(rows) + 1] = NewRow(item[w], urgent)
      BY <1>3, NewRowStep
    <3>. QED
      BY <1>3, <3>1, NewRowStep DEF NewRow
  <2>2. /\ row' = [row EXCEPT ![w] = Len(rows) + 1]
        /\ \E step \in {"enqueue", "detect"} : pc' = [pc EXCEPT ![w] = step]
    BY <1>3 DEF Write, AfterWrite, Detect, AfterDetect, Goto
  <2>3. /\ row'[w] = Len(rows) + 1 /\ pc'[w] \notin DeliverySteps
        /\ \A v \in Slots : v # w => pc'[v] = pc[v] /\ row'[v] = row[v]
    BY <2>2 DEF TypeOK, DeliverySteps
  <2>. QED
    BY <1>0, <1>00, <2>1, <2>3 DEF HandoverInv
<1>4. ASSUME NEW w \in Slots, EnqueueDelivery(w)
      PROVE  HandoverInv'
  <2>1. row[w] \in 1 .. Len(rows) /\ pc[w] = "enqueue" /\ row' = row
    BY <1>00, <1>4 DEF EnqueueDelivery
  <2>2. Len(rows') = Len(rows) /\ \A n \in 1 .. Len(rows) :
           rows'[n].mail = IF n = row[w] THEN "waiting" ELSE rows[n].mail
    BY <1>0, <1>4, <2>1, MailSet DEF EnqueueDelivery, JobStates
  <2>3. pc'[w] \in {"detect", "return"} /\ \A v \in Slots : v # w => pc'[v] = pc[v]
    BY <1>4 DEF EnqueueDelivery, Goto, TypeOK
  <2>. QED
    BY <1>00, <2>1, <2>2, <2>3 DEF HandoverInv, DeliverySteps
<1>5. ASSUME NEW w \in Slots, NEW m \in DOMAIN rows, TakeMail(w, m)
      PROVE  HandoverInv'
  <2>1. Len(rows') = Len(rows) /\ \A n \in 1 .. Len(rows) :
           rows'[n].mail = IF n = m THEN "active" ELSE rows[n].mail
    BY <1>0, <1>5, MailSet DEF TakeMail, JobStates
  <2>2. /\ pc'[w] = "find" /\ row'[w] = m /\ m \in 1 .. Len(rows) /\ rows[m].mail = "waiting"
        /\ \A v \in Slots : v # w => pc'[v] = pc[v] /\ row'[v] = row[v]
    BY <1>0, <1>5 DEF TakeMail, Goto, TypeOK
  <2>. QED
    BY <1>00, <2>1, <2>2 DEF HandoverInv
<1>6. ASSUME NEW w \in Slots, NotFound(w) \/ Refused(w) \/ Finish(w)
      PROVE  HandoverInv'
  <2>1. PICK state \in {"done", "dead"} : DeliveryEnds(w, state)
    BY <1>6 DEF NotFound, Refused, Finish, Fatal
  <2>2. pc[w] \in DeliverySteps /\ Release(w)
    BY <1>6 DEF NotFound, Refused, Finish, DeliverySteps
  <2>3. Len(rows') = Len(rows) /\ \A n \in 1 .. Len(rows) :
           rows'[n].mail = IF n = row[w] /\ Accepted(w) THEN state ELSE rows[n].mail
    BY <2>1, <2>2, MailEnds DEF JobStates
  <2>4. rows[row[w]].mail # "absent"
    BY <2>2 DEF HandoverInv
  <2>5. \A v \in Slots :
           /\ pc'[v] \in DeliverySteps => pc[v] \in DeliverySteps /\ row'[v] = row[v]
           /\ pc'[v] = "enqueue" => pc[v] = "enqueue" /\ row'[v] = row[v]
    BY <2>2 DEF Release, DeliverySteps, TypeOK
  <2>. QED
    BY <1>1, <2>3, <2>4, <2>5
<1>7. ASSUME NEW w \in Slots, Send(w) \/ Mark(w)
      PROVE  HandoverInv'
  <2>1. row[w] \in DOMAIN rows
    BY <1>7 DEF Send, Mark, TypeOK, DeliverySteps
  <2>2. Len(rows') = Len(rows) /\ \A n \in 1 .. Len(rows) : rows'[n].mail = rows[n].mail
    <3>1. CASE Send(w)
      BY <1>0, <2>1, <3>1, RowSent DEF Send
    <3>2. CASE Mark(w)
      BY <1>0, <2>1, <3>2, RowDelivered DEF Mark
    <3>. QED
      BY <1>7, <3>1, <3>2
  <2>3. \A v \in Slots :
           /\ pc'[v] \in DeliverySteps => pc[v] \in DeliverySteps /\ row'[v] = row[v]
           /\ pc'[v] = "enqueue" => pc[v] = "enqueue" /\ row'[v] = row[v]
    BY <1>7 DEF Send, Mark, AfterMark, Goto, DeliverySteps, TypeOK
  <2>. QED
    BY <1>1, <2>2, <2>3
<1>8. ASSUME NEW w \in Slots, Interrupt(w) \/ LoseLock(w)
      PROVE  HandoverInv'
  <2>1. PICK state \in {"waiting", "dead"} : pc[w] # "idle" /\ Ends(w, state)
    BY <1>8 DEF Interrupt, LoseLock
  <2>2. Len(rows') = Len(rows) /\ \A n \in 1 .. Len(rows) :
           \/ rows'[n].mail = rows[n].mail
           \/ rows'[n].mail = state /\ n = row[w] /\ pc[w] \in DeliverySteps
    BY <2>1, EndsRows DEF JobStates
  <2>3. \A v \in Slots :
           /\ pc'[v] \in DeliverySteps => pc[v] \in DeliverySteps /\ row'[v] = row[v]
           /\ pc'[v] = "enqueue" => pc[v] = "enqueue" /\ row'[v] = row[v]
    BY <1>8 DEF Interrupt, LoseLock, Release, DeliverySteps, TypeOK
  <2>4. pc[w] \in DeliverySteps => rows[row[w]].mail # "absent"
    BY DEF HandoverInv
  <2>. QED
    BY <1>1, <2>2, <2>3, <2>4
<1>9. ASSUME NEW i \in Items, Request(i)
      PROVE  HandoverInv'
  BY <1>1, <1>9 DEF Request, slotVars
<1>10. ASSUME NEW w \in Slots, NEW i \in Items, Take(w, i)
       PROVE  HandoverInv'
  BY <1>1, <1>10 DEF Take, Goto, DeliverySteps, TypeOK
<1>11. CASE UNCHANGED vars
  BY <1>1, <1>11 DEF vars, slotVars
<1>. QED
  BY <1>2, <1>3, <1>4, <1>5, <1>6, <1>7, <1>8, <1>9, <1>10, <1>11
    DEF Next, SlotStep, GeneratorStep, DeliveryStep

-----------------------------------------------------------------------------
\* An attempt is made once, and is spent by what it sends: only a fault gives the
\* delivery another one.
LEMMA SendsStep ==
  ASSUME TypeOK, HandoverInv, SendsInv, [Next]_vars
  PROVE  SendsInv'
<1>0. rows \in Seq(Row) /\ Len(rows) \in Nat /\ rows' \in Seq(Row) /\ faults \in Nat
      /\ \A n \in 1 .. Len(rows) : rows[n].sent \in Nat
  <2>1. rows \in Seq(Row) /\ rows' \in Seq(Row) /\ faults \in Nat
    BY TypesStep DEF TypeOK, Row
  <2>2. \A n \in 1 .. Len(rows) : rows[n] \in Row
    BY <2>1
  <2>. QED
    BY <2>1, <2>2 DEF Row
<1>00. DOMAIN rows = 1 .. Len(rows) /\ DOMAIN rows' = 1 .. Len(rows')
  BY <1>0
<1>1. \A n \in 1 .. Len(rows) : Cardinality(Attempts(n)) \in Nat
  BY <1>00, FS_CardinalityType DEF SendsInv
<1>2. ASSUME faults' \in {faults, faults + 1},
             Len(rows') = Len(rows),
             \A n \in 1 .. Len(rows) :
                /\ rows'[n].sent = rows[n].sent
                /\ rows'[n].mail = "absent" => rows[n].mail = "absent"
                /\ rows'[n].mail = "waiting" => rows[n].mail = "waiting" \/ faults' # faults,
             \A v \in Slots : pc'[v] \in {"find", "send"} =>
                pc[v] \in {"find", "send"} /\ row'[v] = row[v]
      PROVE  SendsInv'
  <2>. SUFFICES ASSUME NEW n \in 1 .. Len(rows)
                PROVE  /\ rows'[n].mail = "absent" => rows'[n].sent = 0
                       /\ IsFiniteSet(Attempts(n)')
                       /\ rows'[n].sent + Cardinality(Attempts(n)')
                            + (IF rows'[n].mail = "waiting" THEN 1 ELSE 0) <= 1 + faults'
    BY <1>00, <1>2 DEF SendsInv
  <2>1. Attempts(n)' \subseteq Attempts(n)
    BY <1>2 DEF Attempts
  <2>2. /\ IsFiniteSet(Attempts(n)') /\ Cardinality(Attempts(n)') \in Nat
        /\ Cardinality(Attempts(n)') <= Cardinality(Attempts(n))
    BY <1>00, <2>1, FS_Subset, FS_CardinalityType DEF SendsInv
  <2>3. /\ rows[n].mail = "absent" => rows[n].sent = 0
        /\ rows[n].sent + Cardinality(Attempts(n))
             + (IF rows[n].mail = "waiting" THEN 1 ELSE 0) <= 1 + faults
    BY <1>00 DEF SendsInv
  <2>. QED
    <3>1. /\ Cardinality(Attempts(n)) \in Nat /\ rows[n].sent \in Nat
          /\ rows'[n].sent = rows[n].sent /\ IsFiniteSet(Attempts(n)')
          /\ rows'[n].mail = "absent" => rows'[n].sent = 0
      BY <1>0, <1>1, <1>2, <2>2, <2>3
    <3>2. CASE rows'[n].mail = "waiting" /\ rows[n].mail # "waiting"
      <4>1. faults' = faults + 1
        BY <1>2, <3>2
      <4>. QED
        BY <1>0, <2>2, <2>3, <3>1, <3>2, <4>1
    <3>3. CASE ~(rows'[n].mail = "waiting" /\ rows[n].mail # "waiting")
      BY <1>0, <1>2, <2>2, <2>3, <3>1, <3>3
    <3>. QED
      BY <3>2, <3>3
<1>3. ASSUME NEW w \in Slots,
             LoadSkips(w) \/ Reject(w) \/ Return(w) \/ WriteRefused(w) \/ Load(w)
               \/ DetectNothing(w) \/ Find(w)
      PROVE  SendsInv'
  <2>1. rows' = rows /\ faults' = faults
    BY <1>3 DEF LoadSkips, Reject, Return, WriteRefused, GeneratorEnds, Load, DetectNothing, Find
  <2>2. \A v \in Slots : pc'[v] \in {"find", "send"} =>
           pc[v] \in {"find", "send"} /\ row'[v] = row[v]
    BY <1>3 DEF LoadSkips, Reject, Return, WriteRefused, Release, Load, DetectNothing, Find,
          AfterFind, Goto, TypeOK
  <2>. QED
    BY <1>2, <2>1, <2>2
<1>4. ASSUME NEW w \in Slots, Write(w) \/ Detect(w)
      PROVE  SendsInv'
  <2>1. /\ Len(rows') = Len(rows) + 1 /\ \A n \in 1 .. Len(rows) : rows'[n] = rows[n]
        /\ rows'[Len(rows) + 1].mail = "absent" /\ rows'[Len(rows) + 1].sent = 0
    <3>1. PICK urgent \in BOOLEAN : rows'[Len(rows) + 1] = NewRow(item[w], urgent)
      BY <1>4, NewRowStep
    <3>. QED
      BY <1>4, <3>1, NewRowStep DEF NewRow
  <2>2. /\ row' = [row EXCEPT ![w] = Len(rows) + 1] /\ pc[w] \notin {"find", "send"}
        /\ \E step \in {"enqueue", "detect"} : pc' = [pc EXCEPT ![w] = step]
        /\ faults' = faults
    BY <1>4 DEF Write, AfterWrite, Detect, AfterDetect, Goto
  <2>3. pc'[w] \notin {"find", "send"}
        /\ \A v \in Slots : v # w => pc'[v] = pc[v] /\ row'[v] = row[v]
    BY <2>2 DEF TypeOK
  <2>4. \A n : Attempts(n)' = Attempts(n)
    BY <2>2, <2>3 DEF Attempts
  <2>. SUFFICES ASSUME NEW n \in DOMAIN rows'
                PROVE  /\ rows'[n].mail = "absent" => rows'[n].sent = 0
                       /\ IsFiniteSet(Attempts(n)')
                       /\ rows'[n].sent + Cardinality(Attempts(n)')
                            + (IF rows'[n].mail = "waiting" THEN 1 ELSE 0) <= 1 + faults'
    BY DEF SendsInv
  <2>5. CASE n \in 1 .. Len(rows)
    BY <1>00, <2>1, <2>2, <2>4, <2>5 DEF SendsInv
  <2>6. CASE n = Len(rows) + 1
    <3>1. \A v \in Slots : row[v] # n
      BY <1>0, <2>6 DEF TypeOK
    <3>2. Attempts(n)' = {}
      BY <2>4, <3>1 DEF Attempts
    <3>3. IsFiniteSet(Attempts(n)') /\ Cardinality(Attempts(n)') = 0
      BY <3>2, FS_EmptySet
    <3>. QED
      BY <1>0, <2>1, <2>2, <2>6, <3>3
  <2>. QED
    BY <1>0, <1>00, <2>1, <2>5, <2>6
<1>5. ASSUME NEW w \in Slots, EnqueueDelivery(w)
      PROVE  SendsInv'
  <2>1. row[w] \in 1 .. Len(rows) /\ pc[w] = "enqueue" /\ row' = row /\ faults' = faults
    BY <1>00, <1>5 DEF EnqueueDelivery, TypeOK
  <2>2. Len(rows') = Len(rows) /\ \A n \in 1 .. Len(rows) :
           /\ rows'[n].mail = IF n = row[w] THEN "waiting" ELSE rows[n].mail
           /\ rows'[n].sent = rows[n].sent
    BY <1>0, <1>5, <2>1, MailSet DEF EnqueueDelivery, JobStates
  <2>3. pc'[w] \in {"detect", "return"} /\ \A v \in Slots : v # w => pc'[v] = pc[v]
    BY <1>5 DEF EnqueueDelivery, Goto, TypeOK
  <2>4. \A n : Attempts(n)' = Attempts(n)
    BY <2>1, <2>3 DEF Attempts
  <2>5. rows[row[w]].sent = 0 /\ Attempts(row[w]) = {}
    BY <1>00, <2>1 DEF HandoverInv, SendsInv, Attempts, DeliverySteps
  <2>6. Cardinality(Attempts(row[w])) = 0
    BY <2>5, FS_EmptySet
  <2>. SUFFICES ASSUME NEW n \in 1 .. Len(rows)
                PROVE  /\ rows'[n].mail = "absent" => rows'[n].sent = 0
                       /\ IsFiniteSet(Attempts(n)')
                       /\ rows'[n].sent + Cardinality(Attempts(n)')
                            + (IF rows'[n].mail = "waiting" THEN 1 ELSE 0) <= 1 + faults'
    BY <1>00, <2>2 DEF SendsInv
  <2>7. CASE n = row[w]
    <3>1. /\ rows'[n].mail = "waiting" /\ rows'[n].sent = 0 /\ Attempts(n)' = {}
          /\ Cardinality(Attempts(n)') = 0
      BY <2>2, <2>4, <2>5, <2>6, <2>7
    <3>. QED
      BY <1>0, <2>1, <3>1, FS_EmptySet
  <2>8. CASE n # row[w]
    BY <1>00, <2>1, <2>2, <2>4, <2>8 DEF SendsInv
  <2>. QED
    BY <2>7, <2>8
<1>6. ASSUME NEW w \in Slots, NEW m \in DOMAIN rows, TakeMail(w, m)
      PROVE  SendsInv'
  <2>1. Len(rows') = Len(rows) /\ \A n \in 1 .. Len(rows) :
           /\ rows'[n].mail = IF n = m THEN "active" ELSE rows[n].mail
           /\ rows'[n].sent = rows[n].sent
    BY <1>0, <1>6, MailSet DEF TakeMail, JobStates
  <2>2. /\ pc[w] = "idle" /\ pc'[w] = "find" /\ row'[w] = m /\ m \in 1 .. Len(rows)
        /\ rows[m].mail = "waiting" /\ faults' = faults
        /\ \A v \in Slots : v # w => pc'[v] = pc[v] /\ row'[v] = row[v]
    BY <1>0, <1>6 DEF TakeMail, Goto, TypeOK
  <2>3. /\ Attempts(m)' = Attempts(m) \cup {w} /\ w \notin Attempts(m)
        /\ \A n : n # m => Attempts(n)' = Attempts(n)
    BY <2>2 DEF Attempts
  <2>4. /\ IsFiniteSet(Attempts(m)')
        /\ Cardinality(Attempts(m)') = Cardinality(Attempts(m)) + 1
    BY <1>00, <2>2, <2>3, FS_AddElement DEF SendsInv
  <2>. SUFFICES ASSUME NEW n \in 1 .. Len(rows)
                PROVE  /\ rows'[n].mail = "absent" => rows'[n].sent = 0
                       /\ IsFiniteSet(Attempts(n)')
                       /\ rows'[n].sent + Cardinality(Attempts(n)')
                            + (IF rows'[n].mail = "waiting" THEN 1 ELSE 0) <= 1 + faults'
    BY <1>00, <2>1 DEF SendsInv
  <2>5. CASE n = m
    <3>1. rows[m].sent + Cardinality(Attempts(m)) + 1 <= 1 + faults
      BY <1>00, <2>2 DEF SendsInv
    <3>. QED
      BY <1>0, <1>1, <2>1, <2>2, <2>4, <2>5, <3>1
  <2>6. CASE n # m
    BY <1>00, <2>1, <2>2, <2>3, <2>6 DEF SendsInv
  <2>. QED
    BY <2>5, <2>6
<1>7. ASSUME NEW w \in Slots, NotFound(w) \/ Refused(w) \/ Finish(w)
      PROVE  SendsInv'
  <2>1. PICK state \in {"done", "dead"} : DeliveryEnds(w, state)
    BY <1>7 DEF NotFound, Refused, Finish, Fatal
  <2>2. pc[w] \in DeliverySteps /\ Release(w) /\ faults' = faults
    BY <1>7 DEF NotFound, Refused, Finish, DeliverySteps
  <2>3. Len(rows') = Len(rows) /\ \A n \in 1 .. Len(rows) :
           /\ rows'[n].mail = IF n = row[w] /\ Accepted(w) THEN state ELSE rows[n].mail
           /\ rows'[n].sent = rows[n].sent
    BY <2>1, <2>2, MailEnds DEF JobStates
  <2>4. \A v \in Slots : pc'[v] \in {"find", "send"} =>
           pc[v] \in {"find", "send"} /\ row'[v] = row[v]
    BY <2>2 DEF Release, TypeOK
  <2>. QED
    BY <1>2, <2>2, <2>3, <2>4
<1>8. ASSUME NEW w \in Slots, Mark(w)
      PROVE  SendsInv'
  <2>1. row[w] \in DOMAIN rows
    BY <1>8 DEF Mark, TypeOK, DeliverySteps
  <2>2. Len(rows') = Len(rows) /\ \A n \in 1 .. Len(rows) :
           rows'[n].mail = rows[n].mail /\ rows'[n].sent = rows[n].sent
    BY <1>0, <1>8, <2>1, RowDelivered DEF Mark
  <2>3. faults' = faults /\ \A v \in Slots : pc'[v] \in {"find", "send"} =>
           pc[v] \in {"find", "send"} /\ row'[v] = row[v]
    BY <1>8 DEF Mark, AfterMark, Goto, TypeOK
  <2>. QED
    BY <1>2, <2>2, <2>3
<1>9. ASSUME NEW w \in Slots, Send(w)
      PROVE  SendsInv'
  <2>1. row[w] \in 1 .. Len(rows) /\ pc[w] = "send" /\ row' = row /\ faults' = faults
    BY <1>00, <1>9 DEF Send, TypeOK, DeliverySteps
  <2>2. Len(rows') = Len(rows) /\ \A n \in 1 .. Len(rows) :
           /\ rows'[n].mail = rows[n].mail
           /\ rows'[n].sent = IF n = row[w] THEN rows[row[w]].sent + 1 ELSE rows[n].sent
    BY <1>0, <1>00, <1>9, <2>1, RowSent DEF Send
  <2>3. pc'[w] = "mark" /\ \A v \in Slots : v # w => pc'[v] = pc[v]
    BY <1>9 DEF Send, Goto, TypeOK
  <2>4. /\ Attempts(row[w])' = Attempts(row[w]) \ {w} /\ w \in Attempts(row[w])
        /\ \A n : n # row[w] => Attempts(n)' = Attempts(n)
    BY <2>1, <2>3 DEF Attempts
  <2>5. /\ IsFiniteSet(Attempts(row[w])')
        /\ Cardinality(Attempts(row[w])') = Cardinality(Attempts(row[w])) - 1
    BY <1>00, <2>1, <2>4, FS_RemoveElement DEF SendsInv
  <2>6. rows[row[w]].mail # "absent"
    BY <2>1 DEF HandoverInv, DeliverySteps
  <2>. SUFFICES ASSUME NEW n \in 1 .. Len(rows)
                PROVE  /\ rows'[n].mail = "absent" => rows'[n].sent = 0
                       /\ IsFiniteSet(Attempts(n)')
                       /\ rows'[n].sent + Cardinality(Attempts(n)')
                            + (IF rows'[n].mail = "waiting" THEN 1 ELSE 0) <= 1 + faults'
    BY <1>00, <2>2 DEF SendsInv
  <2>7. CASE n = row[w]
    <3>1. rows[n].sent + Cardinality(Attempts(n))
            + (IF rows[n].mail = "waiting" THEN 1 ELSE 0) <= 1 + faults
      BY <1>00 DEF SendsInv
    <3>2. /\ rows'[n].mail = rows[n].mail /\ rows'[n].sent = rows[n].sent + 1
          /\ rows'[n].mail # "absent"
      BY <2>2, <2>6, <2>7
    <3>3. /\ IsFiniteSet(Attempts(n)') /\ Cardinality(Attempts(n)') = Cardinality(Attempts(n)) - 1
          /\ Cardinality(Attempts(n)) \in Nat /\ rows[n].sent \in Nat
      BY <1>0, <1>1, <2>1, <2>5, <2>7
    <3>. QED
      BY <1>0, <2>1, <3>1, <3>2, <3>3
  <2>8. CASE n # row[w]
    BY <1>00, <2>1, <2>2, <2>4, <2>8 DEF SendsInv
  <2>. QED
    BY <2>7, <2>8
<1>10. ASSUME NEW w \in Slots, Interrupt(w) \/ LoseLock(w)
       PROVE  SendsInv'
  <2>1. PICK state \in {"waiting", "dead"} : pc[w] # "idle" /\ Ends(w, state)
    BY <1>10 DEF Interrupt, LoseLock
  <2>2. Len(rows') = Len(rows) /\ \A n \in 1 .. Len(rows) :
           /\ rows'[n].sent = rows[n].sent
           /\ rows'[n].mail \in {rows[n].mail, state}
    BY <2>1, EndsRows DEF JobStates
  <2>3. /\ faults' = faults + 1
        /\ \A v \in Slots : pc'[v] \in {"find", "send"} =>
             pc[v] \in {"find", "send"} /\ row'[v] = row[v]
    BY <1>10 DEF Interrupt, LoseLock, Release, TypeOK
  <2>. QED
    BY <1>0, <1>2, <2>2, <2>3
<1>11. ASSUME NEW i \in Items, Request(i)
       PROVE  SendsInv'
  BY <1>2, <1>11 DEF Request, slotVars
<1>12. ASSUME NEW w \in Slots, NEW i \in Items, Take(w, i)
       PROVE  SendsInv'
  BY <1>2, <1>12 DEF Take, Goto, TypeOK
<1>13. CASE UNCHANGED vars
  BY <1>2, <1>13 DEF vars, slotVars
<1>. QED
  BY <1>3, <1>4, <1>5, <1>6, <1>7, <1>8, <1>9, <1>10, <1>11, <1>12, <1>13
    DEF Next, SlotStep, GeneratorStep, DeliveryStep

-----------------------------------------------------------------------------
LEMMA DueType ==
  ASSUME TypeOK
  PROVE  /\ \A i : Share(i) \in Nat
         /\ \A w \in Slots : Due(w) \in Nat
<1>1. Len(Severities) \in Nat
  BY SettingsAssumption
<1>2. \A i : Share(i) \in Nat
  BY <1>1 DEF Share
<1>. QED
  BY <1>1, <1>2 DEF Due, TypeOK

\* The rows of an item are finitely many.
LEMMA RowsOfFinite ==
  ASSUME TypeOK, NEW i
  PROVE  IsFiniteSet(RowsOf(i)) /\ Cardinality(RowsOf(i)) \in Nat
<1>1. rows \in Seq(Row)
  BY DEF TypeOK, Row
<1>2. RowsOf(i) \subseteq 1 .. Len(rows) /\ Len(rows) \in Nat
  BY <1>1 DEF RowsOf
<1>3. IsFiniteSet(1 .. Len(rows))
  BY <1>2, FS_Interval
<1>. QED
  BY <1>2, <1>3, FS_Subset, FS_CardinalityType

\* An attempt that writes nothing spends at most what it holds; a fault pays for the
\* run that it brings about.
LEMMA NothingWritten ==
  ASSUME TypeOK, RowsInv, TypeOK', faults' \in {faults, faults + 1}, RowsKept,
         NEW i \in Weeks \cup Txns,
         gen'[i] \in {"absent", "waiting"} =>
           gen[i] \in {"absent", "waiting"} \/ faults' # faults,
         \A v \in Slots : item'[v] = i => item[v] = i /\ Due(v)' <= Due(v)
  PROVE  Within(i)'
<1>0. rows \in Seq(Row) /\ rows' \in Seq(Row)
  BY DEF TypeOK, Row
<1>1. RowsOf(i)' = RowsOf(i)
  <2>1. DOMAIN rows' = DOMAIN rows /\ DOMAIN rows = 1 .. Len(rows)
    BY <1>0 DEF RowsKept
  <2>. QED
    BY <2>1 DEF RowsOf, RowsKept
<1>2. Tickets(i)' \subseteq Tickets(i)
  <2>. SUFFICES ASSUME NEW v \in Slots, NEW k \in Nat, item'[v] = i, k \in 1 .. Due(v)'
                PROVE  item[v] = i /\ k \in 1 .. Due(v)
    BY DEF Tickets
  <2>1. Due(v) \in Nat
    BY DueType
  <2>2. Due(v)' \in Nat
    <3>1. Len(Severities) \in Nat
      BY SettingsAssumption
    <3>. QED
      BY <3>1 DEF Due, Share, TypeOK
  <2>. QED
    BY <2>1, <2>2
<1>3. /\ IsFiniteSet(Tickets(i)) /\ IsFiniteSet(Tickets(i)')
      /\ Cardinality(Tickets(i)) \in Nat /\ Cardinality(Tickets(i)') \in Nat
      /\ Cardinality(Tickets(i)') <= Cardinality(Tickets(i))
  BY <1>2, FS_Subset, FS_CardinalityType DEF RowsInv, Within
<1>4. faults \in Nat /\ Share(i) \in Nat /\ Share(i)' = Share(i)
      /\ Cardinality(RowsOf(i)) \in Nat
  BY RowsOfFinite, DueType DEF TypeOK, Share
<1>5. Share(i) * (1 + (faults + 1)) = Share(i) * (1 + faults) + Share(i)
      /\ Share(i) * (1 + faults) \in Nat
  BY <1>4
<1>6. Cardinality(RowsOf(i)) + Cardinality(Tickets(i))
        + (IF gen[i] \in {"absent", "waiting"} THEN Share(i) ELSE 0)
        <= Share(i) * (1 + faults)
  BY DEF RowsInv, Within
<1>. DEFINE all == Share(i) * (1 + faults)
<1>7. Cardinality(RowsOf(i)') + Cardinality(Tickets(i)')
        + (IF gen'[i] \in {"absent", "waiting"} THEN Share(i) ELSE 0)
        <= Share(i) * (1 + faults')
  <2>1. CASE faults' = faults
    <3>1. all \in Nat /\ Share(i) * (1 + faults') = all
      BY <1>5, <2>1
    <3>2. Cardinality(RowsOf(i)) + Cardinality(Tickets(i))
            + (IF gen[i] \in {"absent", "waiting"} THEN Share(i) ELSE 0) <= all
      BY <1>6
    <3>. HIDE DEF all
    <3>3. CASE gen'[i] \in {"absent", "waiting"}
      BY <1>1, <1>3, <1>4, <2>1, <3>1, <3>2, <3>3
    <3>4. CASE gen'[i] \notin {"absent", "waiting"}
      BY <1>1, <1>3, <1>4, <3>1, <3>2, <3>4
    <3>. QED
      BY <3>3, <3>4
  <2>2. CASE faults' = faults + 1
    <3>1. all \in Nat /\ Share(i) * (1 + faults') = all + Share(i)
      BY <1>5, <2>2
    <3>2. Cardinality(RowsOf(i)) + Cardinality(Tickets(i))
            + (IF gen[i] \in {"absent", "waiting"} THEN Share(i) ELSE 0) <= all
      BY <1>6
    <3>. HIDE DEF all
    <3>. QED
      BY <1>1, <1>3, <1>4, <3>1, <3>2
  <2>. QED
    BY <2>1, <2>2
<1>. QED
  BY <1>3, <1>4, <1>7 DEF Within

\* A row is paid for with one of the writes that its slot still owes.
LEMMA RowPaid ==
  ASSUME TypeOK, ItemInv, RowsInv, NEW w \in Slots, Write(w) \/ Detect(w), TypeOK',
         NEW i \in Weeks \cup Txns
  PROVE  Within(i)'
<1>0. rows \in Seq(Row) /\ rows' \in Seq(Row)
  BY DEF TypeOK, Row
<1>1. /\ UNCHANGED <<gen, item, faults>> /\ item[w] \in Items
      /\ \A v \in Slots : v # w => pc'[v] = pc[v] /\ left'[v] = left[v]
  BY NewRowStep DEF Write, Detect, Goto, TypeOK
<1>2. \A v \in Slots : v # w => Due(v)' = Due(v)
  BY <1>1 DEF Due, Share
<1>3. Due(w) \in Nat /\ Due(w) > 0 /\ Due(w)' = Due(w) - 1
  <2>1. CASE Write(w)
    <3>1. pc[w] = "write" /\ pc'[w] = "enqueue" /\ item[w] \notin Txns
      BY <2>1 DEF Write, AfterWrite, Goto, TypeOK, ItemInv
    <3>. QED
      BY <1>1, <3>1 DEF Due, Share
  <2>2. CASE Detect(w)
    <3>1. /\ pc[w] = "detect" /\ item[w] \in Txns /\ left[w] > 0 /\ left'[w] = left[w] - 1
          /\ pc'[w] \in {"detect", "enqueue"} /\ left[w] \in Nat
      BY <2>2 DEF Detect, AfterDetect, Goto, TypeOK, ItemInv
    <3>. QED
      BY <1>1, <3>1 DEF Due, Share
  <2>. QED
    BY <2>1, <2>2
<1>4. /\ Len(rows') = Len(rows) + 1 /\ \A n \in 1 .. Len(rows) : rows'[n] = rows[n]
      /\ rows'[Len(rows) + 1].of = item[w]
  <2>1. PICK urgent \in BOOLEAN : rows'[Len(rows) + 1] = NewRow(item[w], urgent)
    BY NewRowStep
  <2>. QED
    BY <2>1, NewRowStep DEF NewRow
<1>5. DOMAIN rows = 1 .. Len(rows) /\ DOMAIN rows' = 1 .. Len(rows') /\ Len(rows) \in Nat
  BY <1>0
<1>6. /\ IsFiniteSet(Tickets(i)) /\ Cardinality(Tickets(i)) \in Nat
      /\ IsFiniteSet(RowsOf(i)) /\ Cardinality(RowsOf(i)) \in Nat
  BY RowsOfFinite, FS_CardinalityType DEF RowsInv, Within
<1>7. Share(i)' = Share(i)
  BY DEF Share
<1>8. CASE item[w] # i
  <2>1. RowsOf(i)' = RowsOf(i)
    BY <1>4, <1>5, <1>8 DEF RowsOf
  <2>2. Tickets(i)' = Tickets(i)
    <3>1. \A v \in Slots : item[v] = i => Due(v)' = Due(v)
      BY <1>2, <1>8
    <3>. QED
      BY <1>1, <3>1 DEF Tickets
  <2>. QED
    BY <1>1, <1>7, <2>1, <2>2 DEF RowsInv, Within
<1>9. CASE item[w] = i
  <2>1. /\ RowsOf(i)' = RowsOf(i) \cup {Len(rows) + 1} /\ Len(rows) + 1 \notin RowsOf(i)
    BY <1>4, <1>5, <1>9 DEF RowsOf
  <2>2. /\ Tickets(i)' = Tickets(i) \ {<<w, Due(w)>>} /\ <<w, Due(w)>> \in Tickets(i)
    <3>1. <<w, Due(w)>> \in Tickets(i)
      BY <1>3, <1>9 DEF Tickets
    <3>2. ASSUME NEW v \in Slots, NEW k \in Nat
          PROVE  <<v, k>> \in Tickets(i)' <=> <<v, k>> \in Tickets(i) /\ <<v, k>> # <<w, Due(w)>>
      <4>1. CASE v = w
        BY <1>1, <1>3, <4>1 DEF Tickets
      <4>2. CASE v # w
        BY <1>1, <1>2, <4>2 DEF Tickets
      <4>. QED
        BY <4>1, <4>2
    <3>. QED
      BY <3>1, <3>2 DEF Tickets
  <2>3. /\ Cardinality(RowsOf(i)') = Cardinality(RowsOf(i)) + 1
        /\ IsFiniteSet(Tickets(i)')
        /\ Cardinality(Tickets(i)') = Cardinality(Tickets(i)) - 1
    <3>1. Cardinality(RowsOf(i) \cup {Len(rows) + 1}) = Cardinality(RowsOf(i)) + 1
      BY <1>6, <2>1, FS_AddElement
    <3>2. /\ IsFiniteSet(Tickets(i) \ {<<w, Due(w)>>})
          /\ Cardinality(Tickets(i) \ {<<w, Due(w)>>}) = Cardinality(Tickets(i)) - 1
      BY <1>6, <2>2, FS_RemoveElement
    <3>. QED
      BY <2>1, <2>2, <3>1, <3>2
  <2>4. Cardinality(RowsOf(i)') + Cardinality(Tickets(i)')
          = Cardinality(RowsOf(i)) + Cardinality(Tickets(i))
    BY <1>6, <2>3
  <2>. QED
    BY <1>1, <1>7, <2>3, <2>4 DEF RowsInv, Within
<1>. QED
  BY <1>8, <1>9

\* A run owes as many rows as the waiting job stood for.
LEMMA RunTaken ==
  ASSUME TypeOK, RowsInv, NEW w \in Slots, NEW j \in Items, Take(w, j), TypeOK',
         NEW i \in Weeks \cup Txns
  PROVE  Within(i)'
<1>1. /\ pc[w] = "idle" /\ gen[j] = "waiting" /\ gen' = [gen EXCEPT ![j] = "active"]
      /\ item' = [item EXCEPT ![w] = j] /\ pc' = [pc EXCEPT ![w] = "load"]
      /\ UNCHANGED <<rows, left, faults>>
  BY DEF Take, Goto
<1>2. /\ item[w] = NoItem /\ item'[w] = j /\ pc'[w] = "load" /\ Due(w)' = Share(j)
      /\ \A v \in Slots : v # w => item'[v] = item[v] /\ Due(v)' = Due(v)
  <2>1. item[w] = NoItem
    BY <1>1 DEF TypeOK, Generates, GeneratorSteps
  <2>2. /\ item'[w] = j /\ pc'[w] = "load"
        /\ \A v \in Slots : v # w => item'[v] = item[v] /\ pc'[v] = pc[v]
    BY <1>1 DEF TypeOK
  <2>. QED
    BY <1>1, <2>1, <2>2 DEF Due, Share
<1>3. RowsOf(i)' = RowsOf(i) /\ Share(i)' = Share(i)
  BY <1>1 DEF RowsOf, Share
<1>4. /\ IsFiniteSet(Tickets(i)) /\ Cardinality(Tickets(i)) \in Nat /\ Share(i) \in Nat
      /\ IsFiniteSet(RowsOf(i)) /\ Cardinality(RowsOf(i)) \in Nat
  BY DueType, RowsOfFinite, FS_CardinalityType DEF RowsInv, Within
<1>5. CASE i # j
  <2>1. Tickets(i)' = Tickets(i)
    <3>1. item[w] # i
      BY <1>2, ItemsAssumption DEF Items
    <3>2. \A v \in Slots : (item'[v] = i <=> item[v] = i) /\ (item[v] = i => Due(v)' = Due(v))
      BY <1>2, <1>5, <3>1
    <3>. QED
      BY <3>2 DEF Tickets
  <2>2. gen'[i] = gen[i]
    BY <1>1, <1>5 DEF TypeOK
  <2>. QED
    BY <1>1, <1>3, <2>1, <2>2 DEF RowsInv, Within
<1>6. CASE i = j
  <2>. DEFINE new == {w} \X (1 .. Share(i))
  <2>1. IsFiniteSet(new) /\ Cardinality(new) = Share(i)
    <3>1. IsFiniteSet({w}) /\ Cardinality({w}) = 1
      BY FS_Singleton
    <3>2. IsFiniteSet(1 .. Share(i)) /\ Cardinality(1 .. Share(i)) = Share(i)
      BY <1>4, FS_Interval
    <3>3. IsFiniteSet(new) /\ Cardinality(new) = Cardinality({w}) * Cardinality(1 .. Share(i))
      BY <3>1, <3>2, FS_Product
    <3>. HIDE DEF new
    <3>. QED
      BY <1>4, <3>1, <3>2, <3>3
  <2>2. Tickets(i)' \subseteq Tickets(i) \cup new
    <3>. SUFFICES ASSUME NEW v \in Slots, NEW k \in Nat, item'[v] = i, k \in 1 .. Due(v)'
                  PROVE  <<v, k>> \in Tickets(i) \cup new
      BY DEF Tickets
    <3>1. CASE v = w
      BY <1>2, <1>6, <3>1
    <3>2. CASE v # w
      BY <1>2, <3>2 DEF Tickets
    <3>. QED
      BY <3>1, <3>2
  <2>. HIDE DEF new
  <2>3. /\ IsFiniteSet(Tickets(i) \cup new)
        /\ Cardinality(Tickets(i) \cup new)
             = Cardinality(Tickets(i)) + Cardinality(new) - Cardinality(Tickets(i) \cap new)
    BY <1>4, <2>1, FS_Union
  <2>4. Cardinality(Tickets(i) \cap new) \in Nat
    BY <1>4, FS_Intersection, FS_CardinalityType
  <2>5. /\ IsFiniteSet(Tickets(i)')
        /\ Cardinality(Tickets(i)') <= Cardinality(Tickets(i) \cup new)
        /\ Cardinality(Tickets(i)') \in Nat
    BY <2>2, <2>3, FS_Subset, FS_CardinalityType
  <2>6. Cardinality(Tickets(i)') <= Cardinality(Tickets(i)) + Share(i)
    BY <1>4, <2>1, <2>3, <2>4, <2>5
  <2>7. gen[i] = "waiting" /\ gen'[i] = "active"
    BY <1>1, <1>6 DEF TypeOK
  <2>. DEFINE all == Share(i) * (1 + faults)
  <2>8. all \in Nat /\ Cardinality(RowsOf(i)) + Cardinality(Tickets(i)) + Share(i) <= all
    <3>1. all \in Nat
      <4>1. faults \in Nat /\ Share(i) \in Nat
        BY <1>4 DEF TypeOK
      <4>. QED
        BY <4>1
    <3>2. Cardinality(RowsOf(i)) + Cardinality(Tickets(i)) + Share(i) <= all
      BY <2>7, Zenon DEF RowsInv, Within
    <3>. QED
      BY <3>1, <3>2
  <2>9. Cardinality(RowsOf(i)') + Cardinality(Tickets(i)') + 0 <= all
    <3>. HIDE DEF all
    <3>1. RowsOf(i)' = RowsOf(i) /\ Cardinality(RowsOf(i)) \in Nat
      BY <1>3, <1>4
    <3>2. /\ Cardinality(Tickets(i)) \in Nat /\ Share(i) \in Nat
          /\ Cardinality(Tickets(i)') \in Nat
      BY <1>4, <2>5
    <3>. QED
      BY <2>6, <2>8, <3>1, <3>2
  <2>. QED
    BY <1>1, <1>3, <2>5, <2>7, <2>9 DEF Within
<1>. QED
  BY <1>5, <1>6

LEMMA RowsStep ==
  ASSUME TypeOK, ItemInv, RowsInv, [Next]_vars
  PROVE  RowsInv'
<1>. SUFFICES ASSUME NEW i \in Weeks \cup Txns
              PROVE  Within(i)'
  BY DEF RowsInv
<1>0. TypeOK' /\ i \in Items /\ i # NoItem /\ i \notin Months
  BY TypesStep, ItemsAssumption DEF Items
<1>00. RowsKept \/ \E w \in Slots : Write(w) \/ Detect(w)
  BY OldRows
<1>1. ASSUME NEW w \in Slots, Write(w) \/ Detect(w)
      PROVE  Within(i)'
  BY <1>0, <1>1, RowPaid
<1>2. ASSUME NEW w \in Slots, NEW j \in Items, Take(w, j)
      PROVE  Within(i)'
  BY <1>0, <1>2, RunTaken
<1>. SUFFICES ASSUME RowsKept
              PROVE  Within(i)'
  BY <1>00, <1>1
<1>3. ASSUME NEW w \in Slots, Release(w), faults' \in {faults, faults + 1},
             gen'[i] \in {"absent", "waiting"} =>
               gen[i] \in {"absent", "waiting"} \/ faults' # faults
      PROVE  Within(i)'
  <2>1. item'[w] # i /\ \A v \in Slots : v # w =>
          item'[v] = item[v] /\ pc'[v] = pc[v] /\ left'[v] = left[v]
    BY <1>0, <1>3 DEF Release, TypeOK
  <2>2. \A v \in Slots : v # w => Due(v)' = Due(v)
    BY <2>1 DEF Due, Share
  <2>3. \A v \in Slots : Due(v) \in Nat
    BY DueType
  <2>4. \A v \in Slots : item'[v] = i => item[v] = i /\ Due(v)' <= Due(v)
    BY <2>1, <2>2, <2>3
  <2>. QED
    BY <1>0, <1>3, <2>4, NothingWritten
<1>4. ASSUME NEW w \in Slots, LoadSkips(w) \/ Reject(w) \/ Return(w)
      PROVE  Within(i)'
  <2>1. Release(w) /\ faults' = faults /\ \E state \in {"done", "dead"} : GeneratorEnds(w, state)
    BY <1>4 DEF LoadSkips, Reject, Return, Fatal
  <2>2. gen'[i] \in {"absent", "waiting"} => gen[i] \in {"absent", "waiting"}
    BY <1>0, <2>1 DEF GeneratorEnds, TypeOK
  <2>. QED
    BY <1>3, <2>1, <2>2
<1>5. ASSUME NEW w \in Slots, WriteRefused(w)
      PROVE  Within(i)'
  <2>1. Release(w) /\ faults' = faults /\ item[w] # i /\ \E state : GeneratorEnds(w, state)
    BY <1>0, <1>5 DEF WriteRefused, Insertable
  <2>2. gen'[i] = gen[i]
    BY <1>0, <2>1 DEF GeneratorEnds, TypeOK
  <2>. QED
    BY <1>3, <2>1, <2>2
<1>6. ASSUME NEW w \in Slots, Load(w)
      PROVE  Within(i)'
  <2>1. /\ pc[w] = "load" /\ UNCHANGED <<gen, item, faults>>
        /\ \A v \in Slots : v # w => pc'[v] = pc[v] /\ left'[v] = left[v]
        /\ item[w] \in Txns => pc'[w] = "detect" /\ left'[w] = Len(Severities)
        /\ item[w] \notin Txns => pc'[w] = "write"
    BY <1>6 DEF Load, Goto, TypeOK
  <2>2. \A v \in Slots : Due(v)' = Due(v)
    BY <2>1 DEF Due, Share
  <2>3. \A v \in Slots : Due(v) \in Nat
    BY DueType
  <2>. QED
    BY <1>0, <2>1, <2>2, <2>3, NothingWritten
<1>7. ASSUME NEW w \in Slots, DetectNothing(w)
      PROVE  Within(i)'
  <2>1. /\ UNCHANGED <<gen, item, faults, pc>> /\ left[w] \in Nat /\ left'[w] = left[w] - 1
        /\ pc[w] = "detect" /\ \A v \in Slots : v # w => left'[v] = left[v]
    BY <1>7 DEF DetectNothing, TypeOK
  <2>2. \A v \in Slots : v # w => Due(v)' = Due(v)
    BY <2>1 DEF Due, Share
  <2>3. Due(w)' <= Due(w)
    BY <2>1 DEF Due, Share
  <2>4. \A v \in Slots : Due(v) \in Nat
    BY DueType
  <2>5. \A v \in Slots : item'[v] = i => item[v] = i /\ Due(v)' <= Due(v)
    BY <2>1, <2>2, <2>3, <2>4
  <2>. QED
    BY <1>0, <2>1, <2>5, NothingWritten
<1>8. ASSUME NEW w \in Slots, EnqueueDelivery(w)
      PROVE  Within(i)'
  <2>1. /\ UNCHANGED <<gen, item, faults, left>> /\ pc[w] = "enqueue"
        /\ pc'[w] = IF item[w] \in Txns THEN "detect" ELSE "return"
        /\ \A v \in Slots : v # w => pc'[v] = pc[v]
    BY <1>8 DEF EnqueueDelivery, Goto, TypeOK
  <2>2. \A v \in Slots : Due(v)' = Due(v)
    BY <2>1 DEF Due, Share
  <2>3. \A v \in Slots : Due(v) \in Nat
    BY DueType
  <2>. QED
    BY <1>0, <2>1, <2>2, <2>3, NothingWritten
<1>9. ASSUME gen' = gen, item' = item, left' = left, faults' = faults, NEW w \in Slots,
             pc[w] \in {"idle"} \cup DeliverySteps, pc'[w] \in DeliverySteps,
             \A v \in Slots : v # w => pc'[v] = pc[v]
      PROVE  Within(i)'
  <2>1. \A v \in Slots : Due(v)' = Due(v)
    BY <1>9 DEF Due, Share, DeliverySteps
  <2>2. \A v \in Slots : Due(v) \in Nat
    BY DueType
  <2>. QED
    BY <1>0, <1>9, <2>1, <2>2, NothingWritten
<1>10. ASSUME NEW w \in Slots, DeliveryStep(w)
       PROVE  Within(i)'
  <2>1. CASE Find(w) \/ Send(w) \/ Mark(w)
    <3>1. /\ UNCHANGED <<gen, item, left, faults>> /\ pc[w] \in DeliverySteps
          /\ pc'[w] \in DeliverySteps /\ \A v \in Slots : v # w => pc'[v] = pc[v]
      BY <2>1 DEF Find, AfterFind, Send, Mark, AfterMark, Goto, DeliverySteps, TypeOK
    <3>. QED
      BY <1>9, <3>1
  <2>2. CASE NotFound(w) \/ Refused(w) \/ Finish(w)
    <3>1. Release(w) /\ faults' = faults /\ gen' = gen
      BY <2>2 DEF NotFound, Refused, Finish, DeliveryEnds
    <3>. QED
      BY <1>3, <3>1
  <2>. QED
    BY <1>10, <2>1, <2>2 DEF DeliveryStep
<1>11. ASSUME NEW w \in Slots, NEW n \in DOMAIN rows, TakeMail(w, n)
       PROVE  Within(i)'
  <2>1. /\ UNCHANGED <<gen, item, left, faults>> /\ pc[w] = "idle"
        /\ pc'[w] \in DeliverySteps /\ \A v \in Slots : v # w => pc'[v] = pc[v]
    BY <1>11 DEF TakeMail, Goto, DeliverySteps, TypeOK
  <2>. QED
    BY <1>9, <2>1
<1>12. ASSUME NEW w \in Slots, Interrupt(w)
       PROVE  Within(i)'
  <2>1. faults' = faults + 1 /\ faults \in Nat /\ Release(w)
    BY <1>12 DEF Interrupt, TypeOK
  <2>2. faults' # faults
    BY <2>1
  <2>. QED
    BY <1>3, <2>1, <2>2
<1>13. ASSUME NEW w \in Slots, LoseLock(w)
       PROVE  Within(i)'
  <2>1. faults' = faults + 1 /\ faults \in Nat /\ UNCHANGED <<pc, item, left>>
    BY <1>13 DEF LoseLock, TypeOK
  <2>2. \A v \in Slots : Due(v)' = Due(v) /\ Due(v) \in Nat
    BY <2>1, DueType DEF Due, Share
  <2>3. faults' # faults
    BY <2>1
  <2>. QED
    BY <1>0, <2>1, <2>2, <2>3, NothingWritten
<1>14. ASSUME UNCHANGED <<pc, item, left, faults>>,
              gen'[i] \in {"absent", "waiting"} => gen[i] \in {"absent", "waiting"}
       PROVE  Within(i)'
  <2>1. \A v \in Slots : Due(v)' = Due(v) /\ Due(v) \in Nat
    BY <1>14, DueType DEF Due, Share
  <2>. QED
    BY <1>0, <1>14, <2>1, NothingWritten
<1>15. ASSUME NEW j \in Items, Request(j)
       PROVE  Within(i)'
  <2>1. gen[j] = "absent" /\ gen' = [gen EXCEPT ![j] = "waiting"]
        /\ UNCHANGED <<pc, item, left, faults>>
    BY <1>15 DEF Request, Known, slotVars
  <2>2. gen'[i] \in {"absent", "waiting"} => gen[i] \in {"absent", "waiting"}
    BY <1>0, <2>1 DEF TypeOK
  <2>. QED
    BY <1>14, <2>1, <2>2
<1>16. CASE UNCHANGED vars
  BY <1>14, <1>16 DEF vars, slotVars
<1>. QED
  BY <1>1, <1>2, <1>4, <1>5, <1>6, <1>7, <1>8, <1>10, <1>11, <1>12, <1>13, <1>15, <1>16
    DEF Next, SlotStep, GeneratorStep

-----------------------------------------------------------------------------
LEMMA Inductive == Spec => []IInv
<1>1. Init => IInv
  <2>. SUFFICES ASSUME Init
                PROVE  IInv
    OBVIOUS
  <2>1. rows = <<>> /\ Len(rows) = 0 /\ DOMAIN rows = {} /\ Len(Severities) \in Nat
    BY SettingsAssumption DEF Init
  <2>2. TypeOK
    BY <2>1 DEF Init, TypeOK, Generates, GeneratorSteps, DeliverySteps, JobStates
  <2>3. HandoverInv /\ SendsInv
    BY <2>1 DEF Init, HandoverInv, SendsInv, DeliverySteps
  <2>4. ASSUME NEW i \in Weeks \cup Txns
        PROVE  Within(i)
    <3>1. RowsOf(i) = {} /\ Tickets(i) = {} /\ gen[i] = "absent" /\ faults = 0
      BY <2>1 DEF Init, RowsOf, Tickets, Due, Items
    <3>2. Share(i) \in Nat
      BY <2>1 DEF Share
    <3>. QED
      BY <3>1, <3>2, FS_EmptySet DEF Within
  <2>. QED
    BY <2>1, <2>2, <2>3, <2>4 DEF Init, IInv, ItemInv, MailInv, DeliveredMeansSent, ReportInv,
          UrgentInv, RowsInv,
          OwnerInv, SlotsOwn, RowsOwn, BuriedForAReason, DeliverySteps
<1>2. IInv /\ [Next]_vars => IInv'
  <2>. SUFFICES ASSUME IInv, [Next]_vars
                PROVE  IInv'
    OBVIOUS
  <2>1. OwnerInv'
    <3>. SUFFICES ASSUME faults' = 0
                  PROVE  SlotsOwn' /\ RowsOwn'
      BY DEF OwnerInv
    <3>1. faults = 0 /\ \A w \in Slots : ~Interrupt(w) /\ ~LoseLock(w)
      BY FaultsKept DEF IInv, TypeOK, Interrupt, LoseLock
    <3>. QED
      BY <3>1, SlotsOwnStep, RowsOwnStep DEF IInv, OwnerInv
  <2>. QED
    BY <2>1, TypesStep, ItemStep, MailStep, ReportStep, UrgentStep, BuriedStep, HandoverStep,
       SendsStep, RowsStep DEF IInv
<1>. QED
  BY <1>1, <1>2, PTL DEF Spec

-----------------------------------------------------------------------------
\* Generators, rows and slots keep their types, and a slot that delivers or hands
\* over a row has one (digest-service.ts:144-162, delivery-service.ts:45-103).
THEOREM TypeCorrect == Spec => []TypeOK
  BY Inductive, PTL DEF IInv

\* With any number of slots and faults, a delivery that ended well has its row
\* marked, and a marked row was accepted by its channel (delivery-service.ts:55-60).
THEOREM DeliveredAlwaysMeansSent == Spec => []DeliveredMeansSent
  BY Inductive, PTL DEF IInv, MailInv

\* With any number of overlapping and repeated runs, a month has one report at most
\* (report-service.ts:50-57 and the unique index).
THEOREM OneReportPerMonthHolds == Spec => []OneReportPerMonth
<1>1. IInv => OneReportPerMonth
  <2>. SUFFICES ASSUME IInv, NEW i \in Months
                PROVE  Cardinality(RowsOf(i)) <= 1
    BY DEF OneReportPerMonth
  <2>1. CASE RowsOf(i) = {}
    BY <2>1, FS_EmptySet
  <2>2. ASSUME NEW n \in RowsOf(i)
        PROVE  Cardinality(RowsOf(i)) <= 1
    <3>1. RowsOf(i) = {n}
      BY <2>2 DEF IInv, ReportInv, RowsOf
    <3>2. Cardinality({n}) = 1
      BY FS_Singleton
    <3>. QED
      BY <3>1, <3>2
  <2>. QED
    BY <2>1, <2>2
<1>. QED
  BY <1>1, Inductive, PTL

\* While nothing fails, for any detectors and any number of slots, a generator that
\* is done has handed to delivery exactly its urgent rows (digest-service.ts:144-162,
\* anomaly-service.ts:84-114, report-service.ts:50-57).
THEOREM UrgentIsAlwaysQueued == Spec => []UrgentIsQueued
<1>1. IInv => UrgentIsQueued
  <2>. SUFFICES ASSUME IInv, faults = 0, NEW n \in DOMAIN rows, gen[rows[n].of] = "done"
                PROVE  rows[n].urgent <=> rows[n].mail # "absent"
    BY DEF UrgentIsQueued
  <2>1. ASSUME rows[n].urgent, rows[n].mail = "absent"
        PROVE  FALSE
    <3>1. PICK w \in Slots : pc[w] = "enqueue" /\ item[w] = rows[n].of
      BY <2>1 DEF IInv, OwnerInv, RowsOwn
    <3>2. item[w] # NoItem
      BY <3>1 DEF IInv, TypeOK, Generates, GeneratorSteps
    <3>. QED
      BY <3>1, <3>2 DEF IInv, OwnerInv, SlotsOwn
  <2>. QED
    BY <2>1 DEF IInv, UrgentInv
<1>. QED
  BY <1>1, Inductive, PTL

\* While nothing fails, a delivery is buried because its channel does not reach the
\* user or because its row is beyond the Limit oldest ones, for every positive Limit
\* (delivery-service.ts:45-51, :65-70, :90-103).
THEOREM BuriedAlwaysForAReason == Spec => []BuriedForAReason
  BY Inductive, PTL DEF IInv

\* For any weeks, detectors, slots and faults, no row is sent more often than once and
\* once more per fault, a week has at most one digest and one more per fault, and a
\* transaction at most the anomalies of one evaluation per fault and of one more
\* (delivery-service.ts:61-100, digest-service.ts:144-162, anomaly-service.ts:84-114).
THEOREM DuplicatesAreOnlyByFaults == Spec => []DuplicatesOnlyByFaults
<1>1. IInv => DuplicatesOnlyByFaults
  <2>. SUFFICES ASSUME IInv
                PROVE  DuplicatesOnlyByFaults
    OBVIOUS
  <2>0. rows \in Seq(Row) /\ faults \in Nat
    BY DEF IInv, TypeOK, Row
  <2>1. ASSUME NEW n \in DOMAIN rows
        PROVE  rows[n].sent <= 1 + faults
    <3>1. Cardinality(Attempts(n)) \in Nat
      BY <2>1, FS_CardinalityType DEF IInv, SendsInv
    <3>2. rows[n] \in Row
      BY <2>0
    <3>3. rows[n].sent \in Nat
      BY <3>2 DEF Row
    <3>. QED
      BY <2>0, <3>1, <3>3 DEF IInv, SendsInv
  <2>2. ASSUME NEW i \in Weeks \cup Txns
        PROVE  Cardinality(RowsOf(i)) <= Share(i) * (1 + faults)
    <3>. DEFINE all == Share(i) * (1 + faults)
    <3>1. Share(i) \in Nat /\ Cardinality(RowsOf(i)) \in Nat
      BY DueType, RowsOfFinite DEF IInv
    <3>2. Cardinality(Tickets(i)) \in Nat
      BY <2>2, FS_CardinalityType DEF IInv, RowsInv, Within
    <3>3. all \in Nat
      BY <2>0, <3>1
    <3>4. Cardinality(RowsOf(i)) + Cardinality(Tickets(i))
            + (IF gen[i] \in {"absent", "waiting"} THEN Share(i) ELSE 0) <= all
      BY DEF IInv, RowsInv, Within
    <3>. HIDE DEF all
    <3>5. Cardinality(RowsOf(i)) <= all
      BY <3>1, <3>2, <3>3, <3>4
    <3>. QED
      BY <3>5 DEF all
  <2>3. ASSUME NEW i \in Weeks
        PROVE  Cardinality(RowsOf(i)) <= 1 + faults
    <3>1. Share(i) = 1
      BY ItemsAssumption DEF Share
    <3>2. Cardinality(RowsOf(i)) <= 1 * (1 + faults)
      BY <2>2, <3>1
    <3>. QED
      BY <2>0, <3>2
  <2>4. ASSUME NEW i \in Txns
        PROVE  Cardinality(RowsOf(i)) <= Len(Severities) * (1 + faults)
    BY <2>2 DEF Share
  <2>. QED
    BY <2>1, <2>3, <2>4 DEF DuplicatesOnlyByFaults
<1>. QED
  BY <1>1, Inductive, PTL
=============================================================================
