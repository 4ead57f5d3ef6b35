----------------------------- MODULE RulesProofs -----------------------------
(***************************************************************************)
(* Proofs about Rules, for all cases that its assumptions allow, all sums,  *)
(* points and domain rules: which charge a receipt is linked to and what a  *)
(* digest shows of receipts, which charge is unusual, what a week adds up   *)
(* to and which prose about it is let through, which mail is read and what  *)
(* is taken from it, and which dates a digest and a report have.            *)
(***************************************************************************)
EXTENDS Rules, FiniteSetTheorems, WellFoundedInduction, TLAPS

\* The answer is the one that the question has.
MatchAnswered ==
    Asked("match") =>
        \E receipt \in ReceiptCases, txns \in ChargeCases :
            /\ question = [about |-> "match", receipt |-> receipt, txns |-> txns]
            /\ answer = [best |-> Best(receipt, InMatchWindow(receipt, txns)),
                         fact |-> UnmatchedFact(receipt, txns)]

SectionsAnswered ==
    Asked("sections") =>
        \E case \in SectionCases :
            LET unmatched == {r \in case.receipts : ~\E l \in case.before : l[1] = r}
            IN /\ question = [about |-> "sections", case |-> case]
               /\ answer = Sections(unmatched, case.after, case.txns)

ChargeAnswered ==
    Asked("charge") =>
        \E case \in EvaluationCases :
            /\ question = [about |-> "charge", case |-> case]
            /\ answer = Verdicts(case.txn, case.history, case.baseline)

DigestAnswered ==
    Asked("digest") =>
        \E txns \in WeekCases, baselines \in BaselineCases, prose \in ProseCases :
          \E raised \in {{}} \cup {{t} : t \in txns} :
            LET facts == DigestFacts(txns, baselines, raised)
            IN /\ question = [about |-> "digest", txns |-> txns, baselines |-> baselines,
                              prose |-> prose]
               /\ answer = [facts |-> facts, accepted |-> Accepted(prose, DigestMoney(facts))]

ReportAnswered ==
    Asked("report") =>
        \E txns \in WeekCases, prose \in ProseCases :
            LET facts == MonthlyFacts(txns)
            IN /\ question = [about |-> "report", txns |-> txns, prose |-> prose]
               /\ answer = [facts |-> facts, accepted |-> Accepted(prose, MonthlyMoney(facts))]

MailAnswered ==
    Asked("mail") =>
        \E mail \in MailCases :
            question = [about |-> "mail", mail |-> mail] /\ answer = Ingested(mail)

ParseAnswered ==
    Asked("parse") =>
        \E case \in ParseCases :
            /\ question = [about |-> "parse", case |-> case]
            /\ answer = MapReceiptResponse(case.response, Bodies(case.parts))

RunsAnswered ==
    Asked("runs") =>
        \E case \in RunCases :
            /\ question = [about |-> "runs", case |-> case]
            /\ answer = [i \in 1 .. 2 |-> WeekWindow(RunAt(case[i].day, case[i].hour, case[i].delay))]

MonthAnswered ==
    Asked("month") =>
        \E at \in MonthStart(2) .. MonthStart(Len(Months) + 1) - 1 :
            /\ question = [about |-> "month", at |-> at]
            /\ answer = [reported |-> MonthWindow(MonthOf(at) - 1), current |-> MonthWindowFor(at)]

IInv ==
    /\ MatchAnswered /\ SectionsAnswered /\ ChargeAnswered /\ DigestAnswered /\ ReportAnswered
    /\ MailAnswered /\ ParseAnswered /\ RunsAnswered /\ MonthAnswered

LEMMA Inductive == Spec => []IInv
<1>. USE DEF IInv, MatchAnswered, SectionsAnswered, ChargeAnswered, DigestAnswered,
             ReportAnswered, MailAnswered, ParseAnswered, RunsAnswered, MonthAnswered, Asked
<1>1. Init => IInv
  BY DEF Init, Nothing
<1>2. IInv /\ [Next]_vars => IInv'
  <2>. SUFFICES ASSUME IInv, [Next]_vars
                PROVE  IInv'
    OBVIOUS
  <2>. USE DEF Answer
  <2>1. CASE MatchReceipt
    <3>1. MatchAnswered'
      BY <2>1 DEF MatchReceipt
    <3>2. question'.about = "match"
      BY <2>1 DEF MatchReceipt
    <3>. QED
      BY <3>1, <3>2
  <2>2. CASE ShowReceipts
    <3>1. SectionsAnswered'
      BY <2>2 DEF ShowReceipts
    <3>2. question'.about = "sections"
      BY <2>2 DEF ShowReceipts
    <3>. QED
      BY <3>1, <3>2
  <2>3. CASE EvaluateCharge
    <3>1. ChargeAnswered'
      BY <2>3 DEF EvaluateCharge
    <3>2. question'.about = "charge"
      BY <2>3 DEF EvaluateCharge
    <3>. QED
      BY <3>1, <3>2
  <2>4. CASE WriteDigest
    <3>1. DigestAnswered'
      BY <2>4 DEF WriteDigest
    <3>2. question'.about = "digest"
      BY <2>4 DEF WriteDigest
    <3>. QED
      BY <3>1, <3>2
  <2>5. CASE WriteReport
    <3>1. ReportAnswered'
      BY <2>5 DEF WriteReport
    <3>2. question'.about = "report"
      BY <2>5 DEF WriteReport
    <3>. QED
      BY <3>1, <3>2
  <2>6. CASE SortMail
    <3>1. MailAnswered'
      BY <2>6 DEF SortMail
    <3>2. question'.about = "mail"
      BY <2>6 DEF SortMail
    <3>. QED
      BY <3>1, <3>2
  <2>7. CASE ParseMail
    <3>1. ParseAnswered'
      BY <2>7 DEF ParseMail
    <3>2. question'.about = "parse"
      BY <2>7 DEF ParseMail
    <3>. QED
      BY <3>1, <3>2
  <2>8. CASE RunDigests
    <3>1. RunsAnswered'
      BY <2>8 DEF RunDigests
    <3>2. question'.about = "runs"
      BY <2>8 DEF RunDigests
    <3>. QED
      BY <3>1, <3>2
  <2>9. CASE ReportMonth
    <3>1. MonthAnswered'
      BY <2>9 DEF ReportMonth
    <3>2. question'.about = "month"
      BY <2>9 DEF ReportMonth
    <3>. QED
      BY <3>1, <3>2
  <2>10. CASE UNCHANGED vars
    <3>. question' = question /\ answer' = answer
      BY <2>10 DEF vars
    <3>1. MatchAnswered'
      OBVIOUS
    <3>2. SectionsAnswered'
      OBVIOUS
    <3>3. ChargeAnswered'
      OBVIOUS
    <3>4. DigestAnswered'
      OBVIOUS
    <3>5. ReportAnswered'
      OBVIOUS
    <3>6. MailAnswered'
      OBVIOUS
    <3>7. ParseAnswered'
      OBVIOUS
    <3>8. RunsAnswered'
      OBVIOUS
    <3>9. MonthAnswered'
      OBVIOUS
    <3>. QED
      BY <3>1, <3>2, <3>3, <3>4, <3>5, <3>6, <3>7, <3>8, <3>9
  <2>. QED
    BY <2>1, <2>2, <2>3, <2>4, <2>5, <2>6, <2>7, <2>8, <2>9, <2>10 DEF Next
<1>. QED
  BY <1>1, <1>2, PTL DEF Spec

-----------------------------------------------------------------------------
\* Of some subsets of a finite set one is smallest; of some numbers one is least.
LEMMA SmallestSubset ==
  ASSUME NEW S, IsFiniteSet(S), NEW W \in SUBSET SUBSET S, W # {}
  PROVE  \E T \in W : \A x \in T : T \ {x} \notin W
<1>1. IsWellFoundedOn(StrictSubsetOrdering(S), SUBSET S)
  BY FS_FiniteSubsetsOfFinite, FS_StrictSubsetOrderingWellFounded
<1>2. PICK T \in W : \A U \in W : <<U, T>> \notin StrictSubsetOrdering(S)
  BY <1>1, WFMin
<1>3. ASSUME NEW x \in T
      PROVE  <<T \ {x}, T>> \in StrictSubsetOrdering(S)
  BY DEF StrictSubsetOrdering
<1>. QED
  BY <1>2, <1>3

LEMMA LeastNumber ==
  ASSUME NEW N \in SUBSET Nat, N # {}
  PROVE  \E n \in N : \A m \in N : n <= m
<1>. DEFINE Less == {ij \in Nat \X Nat : ij[1] < ij[2]}
<1>1. \A i, j \in Nat : i < j => <<i, j>> \in Less
  OBVIOUS
<1>2. IsWellFoundedOn(Less, Nat)
  BY NatLessThanWellFounded DEF OpToRel
<1>. HIDE DEF Less
<1>3. PICK n \in N : \A m \in N : <<m, n>> \notin Less
  BY <1>2, WFMin
<1>4. ASSUME NEW m \in N
      PROVE  n <= m
  <2>1. ~(m < n)
    BY <1>1, <1>3
  <2>. QED
    BY <2>1
<1>. QED
  BY <1>4

\* A finite set has an element with the greatest value and one with the least.
LEMMA Greatest ==
  ASSUME NEW S, IsFiniteSet(S), S # {}, NEW f, \A x \in S : f[x] \in Int
  PROVE  \E x \in S : \A y \in S : f[y] <= f[x]
<1>. DEFINE Most(T) == \E x \in T : \A y \in T : f[y] <= f[x]
            Without == {T \in SUBSET S : T # {} /\ ~Most(T)}
<1>. SUFFICES ASSUME Without # {}
              PROVE  FALSE
  OBVIOUS
<1>1. PICK T \in Without : \A x \in T : T \ {x} \notin Without
  <2>1. Without \in SUBSET SUBSET S
    OBVIOUS
  <2>. HIDE DEF Without
  <2>. QED
    BY <2>1, SmallestSubset
<1>2. PICK x \in T : TRUE
  OBVIOUS
<1>3. T \ {x} \notin Without
  BY <1>1, <1>2
<1>4. f[x] \in Int /\ \A y \in T : f[y] \in Int
  BY <1>2
<1>5. T \ {x} # {}
  BY <1>2, <1>4
<1>6. PICK z \in T \ {x} : \A y \in T \ {x} : f[y] <= f[z]
  BY <1>3, <1>5
<1>7. CASE f[x] <= f[z]
  BY <1>6, <1>7
<1>8. CASE f[z] <= f[x]
  BY <1>4, <1>6, <1>8
<1>. QED
  BY <1>4, <1>6, <1>7, <1>8

LEMMA Least ==
  ASSUME NEW S, IsFiniteSet(S), S # {}, NEW f, \A x \in S : f[x] \in Int
  PROVE  \E x \in S : \A y \in S : f[x] <= f[y]
<1>. DEFINE g == [x \in S |-> -f[x]]
<1>1. \A x \in S : g[x] \in Int
  OBVIOUS
<1>2. PICK x \in S : \A y \in S : g[y] <= g[x]
  <2>. HIDE DEF g
  <2>. QED
    BY <1>1, Greatest
<1>. QED
  BY <1>2

\* A finite set of charges can be put in the order of their points.
LEMMA CanBeSorted ==
  ASSUME NEW S, IsFiniteSet(S), NEW f, \A x \in S : f[x] \in Int
  PROVE  \E s \in SetToSeqs(S) : \A i, j \in DOMAIN s : i < j => f[s[i]] >= f[s[j]]
<1>. DEFINE Falls(s) == \A i, j \in DOMAIN s : i < j => f[s[i]] >= f[s[j]]
            Without == {T \in SUBSET S : ~\E s \in SetToSeqs(T) : Falls(s)}
<1>. SUFFICES ASSUME Without # {}
              PROVE  FALSE
  OBVIOUS
<1>1. PICK T \in Without : \A x \in T : T \ {x} \notin Without
  <2>1. Without \in SUBSET SUBSET S
    OBVIOUS
  <2>. HIDE DEF Without
  <2>. QED
    BY <2>1, SmallestSubset
<1>2. IsFiniteSet(T) /\ \A x \in T : f[x] \in Int
  BY FS_Subset
<1>3. CASE T = {}
  <2>1. Cardinality(T) = 0
    BY <1>3, FS_EmptySet
  <2>2. << >> \in SetToSeqs(T)
    BY <1>3, <2>1 DEF SetToSeqs
  <2>3. Falls(<< >>)
    OBVIOUS
  <2>. QED
    BY <2>2, <2>3
<1>4. CASE T # {}
  <2>1. PICK x \in T : \A y \in T : f[y] <= f[x]
    BY <1>2, <1>4, Greatest
  <2>. DEFINE n == Cardinality(T)
  <2>2. IsFiniteSet(T \ {x}) /\ Cardinality(T \ {x}) = n - 1 /\ n \in Nat
    BY <1>2, <2>1, FS_RemoveElement, FS_CardinalityType
  <2>3. n - 1 \in Nat
    BY <2>2, FS_CardinalityType
  <2>4. T \ {x} \notin Without
    <3>. HIDE DEF Without
    <3>. QED
      BY <1>1, <2>1
  <2>5. PICK rest \in SetToSeqs(T \ {x}) : Falls(rest)
    BY <2>4
  <2>6. /\ rest \in [1 .. n - 1 -> T \ {x}]
        /\ \A i, j \in 1 .. n - 1 : i # j => rest[i] # rest[j]
        /\ \A i, j \in 1 .. n - 1 : i < j => f[rest[i]] >= f[rest[j]]
    BY <2>2, <2>5 DEF SetToSeqs
  <2>. HIDE DEF n
  <2>. DEFINE s == [i \in 1 .. n |-> IF i = 1 THEN x ELSE rest[i - 1]]
  <2>7. \A i \in 1 .. n : i # 1 => i - 1 \in 1 .. n - 1 /\ rest[i - 1] \in T \ {x}
    BY <2>2, <2>3, <2>6
  <2>8. s \in [1 .. n -> T] /\ \A i, j \in 1 .. n : i # j => s[i] # s[j]
    <3>1. \A i \in 1 .. n : s[i] \in T
      BY <2>1, <2>7
    <3>2. ASSUME NEW i \in 1 .. n, NEW j \in 1 .. n, i # j
          PROVE  s[i] # s[j]
      <4>1. CASE i = 1
        BY <2>7, <3>2, <4>1
      <4>2. CASE j = 1
        BY <2>7, <3>2, <4>2
      <4>3. CASE i # 1 /\ j # 1
        <5>1. i - 1 \in 1 .. n - 1 /\ j - 1 \in 1 .. n - 1 /\ i - 1 # j - 1
          BY <2>7, <3>2, <4>3
        <5>. QED
          BY <2>6, <4>3, <5>1
      <4>. QED
        BY <4>1, <4>2, <4>3
    <3>. QED
      BY <3>1, <3>2
  <2>9. s \in SetToSeqs(T)
    BY <2>8 DEF SetToSeqs, n
  <2>10. ASSUME NEW i \in 1 .. n, NEW j \in 1 .. n, i < j
         PROVE  f[s[i]] >= f[s[j]]
    <3>1. j # 1 /\ s[j] = rest[j - 1] /\ j - 1 \in 1 .. n - 1 /\ rest[j - 1] \in T
      BY <2>2, <2>7, <2>10
    <3>2. CASE i = 1
      BY <1>2, <2>1, <3>1, <3>2
    <3>3. CASE i # 1
      <4>1. i - 1 \in 1 .. n - 1 /\ i - 1 < j - 1 /\ s[i] = rest[i - 1]
        BY <2>2, <2>7, <2>10, <3>3
      <4>. QED
        BY <2>6, <3>1, <4>1
    <3>. QED
      BY <3>2, <3>3
  <2>11. Falls(s)
    <3>1. DOMAIN s = 1 .. n
      OBVIOUS
    <3>. HIDE DEF s
    <3>. QED
      BY <2>10, <3>1
  <2>. QED
    BY <2>9, <2>11
<1>. QED
  BY <1>3, <1>4

\* The kinds of pairs that the points tell apart.
Near(receipt, txn) == Known(receipt) /\ Distance(receipt.total, txn.amount) \in 1 .. Tolerance
Exact(receipt, txn) == Known(receipt) /\ receipt.total = txn.amount
Named(receipt, txn) == MerchantsAgree(txn.merchant, receipt.merchant)

LEMMA SignalsAre ==
  ASSUME NEW receipt \in ReceiptCases, NEW txns \in ChargeCases, NEW txn \in txns
  PROVE  LET signals == SignalsOf(receipt, txn)
             days == DayDiff(receipt, txn)
             within == days <= WindowDays
         IN /\ days \in Nat /\ txn.amount \in Int /\ txn.occurredAt \in Int
            /\ Anchor(receipt) \in Int
            /\ "date_out_of_range" \in signals <=> ~within
            /\ "sameDay" \in signals <=> within /\ days = 0
            /\ "nearDay" \in signals <=> within /\ days # 0
            /\ "exactAmount" \in signals <=> within /\ Exact(receipt, txn)
            /\ "nearAmount" \in signals <=> within /\ Near(receipt, txn)
            /\ "merchantFuzzy" \in signals <=> within /\ Named(receipt, txn)
            /\ "orderIdInMemo" \in signals <=> within /\ OrderNamed(receipt, txn)
            /\ "categoryBonus" \in signals <=> within /\ txn.category \in Triggers
<1>. DEFINE signals == SignalsOf(receipt, txn)
            days == DayDiff(receipt, txn)
            diff == Distance(receipt.total, txn.amount)
<1>1. /\ Anchor(receipt) \in Int /\ txn.occurredAt \in Int /\ txn.amount \in Int
      /\ Known(receipt) => receipt.total \in Int
  BY ReceiptAssumption DEF Anchor, Known
<1>2. days \in Nat
  BY <1>1, MatchConfigAssumption DEF DayDiff, Distance
<1>3. Known(receipt) => diff \in Nat /\ (diff = 0 <=> receipt.total = txn.amount)
  BY <1>1 DEF Distance
<1>4. WindowDays \in Nat
  BY MatchConfigAssumption
<1>5. CASE days > WindowDays
  <2>1. signals = {"date_out_of_range"} /\ ~(days <= WindowDays)
    BY <1>2, <1>4, <1>5 DEF SignalsOf
  <2>. QED
    BY <1>1, <1>2, <2>1
<1>6. CASE days <= WindowDays
  <2>1. signals = {IF days = 0 THEN "sameDay" ELSE "nearDay"}
            \cup When(Known(receipt) /\ diff = 0, "exactAmount")
            \cup When(Known(receipt) /\ diff \in 1 .. Tolerance, "nearAmount")
            \cup When(Named(receipt, txn), "merchantFuzzy")
            \cup When(OrderNamed(receipt, txn), "orderIdInMemo")
            \cup When(txn.category \in Triggers, "categoryBonus")
    BY <1>2, <1>4, <1>6 DEF SignalsOf, Known, Named, OrderNamed
  <2>. HIDE DEF days, signals
  <2>2. \A s : s \in signals <=>
          \/ s = (IF days = 0 THEN "sameDay" ELSE "nearDay")
          \/ s = "exactAmount" /\ Known(receipt) /\ diff = 0
          \/ s = "nearAmount" /\ Near(receipt, txn)
          \/ s = "merchantFuzzy" /\ Named(receipt, txn)
          \/ s = "orderIdInMemo" /\ OrderNamed(receipt, txn)
          \/ s = "categoryBonus" /\ txn.category \in Triggers
    BY <2>1 DEF When, Near
  <2>3. Known(receipt) /\ diff = 0 <=> Exact(receipt, txn)
    BY <1>3 DEF Exact
  <2>. HIDE DEF diff
  <2>4. /\ "exactAmount" \in signals <=> Exact(receipt, txn)
        /\ "nearAmount" \in signals <=> Near(receipt, txn)
        /\ "merchantFuzzy" \in signals <=> Named(receipt, txn)
        /\ "orderIdInMemo" \in signals <=> OrderNamed(receipt, txn)
        /\ "categoryBonus" \in signals <=> txn.category \in Triggers
    BY <2>2, <2>3
  <2>5. /\ "date_out_of_range" \notin signals
        /\ "sameDay" \in signals <=> days = 0
        /\ "nearDay" \in signals <=> days # 0
    BY <2>2
  <2>. QED
    BY <1>1, <1>2, <1>6, <2>4, <2>5 DEF days, signals
<1>. QED
  BY <1>2, <1>4, <1>5, <1>6

PointsFor(condition, signal) == IF condition THEN Weight[signal] ELSE 0

\* The points of a pair whose dates are near, and of any other.
LEMMA ScoreIs ==
  ASSUME NEW receipt \in ReceiptCases, NEW txns \in ChargeCases, NEW txn \in txns
  PROVE  Score(receipt, txn) =
           IF DayDiff(receipt, txn) > WindowDays THEN 0
           ELSE (IF DayDiff(receipt, txn) = 0 THEN Weight["sameDay"] ELSE Weight["nearDay"])
                  + PointsFor(Exact(receipt, txn), "exactAmount")
                  + PointsFor(Near(receipt, txn), "nearAmount")
                  + PointsFor(Named(receipt, txn), "merchantFuzzy")
                  + PointsFor(OrderNamed(receipt, txn), "orderIdInMemo")
                  + PointsFor(txn.category \in Triggers, "categoryBonus")
<1>. DEFINE signals == SignalsOf(receipt, txn)
            days == DayDiff(receipt, txn)
<1>1. /\ days \in Nat /\ WindowDays \in Nat
      /\ "sameDay" \in signals <=> days <= WindowDays /\ days = 0
      /\ "nearDay" \in signals <=> days <= WindowDays /\ days # 0
      /\ "exactAmount" \in signals <=> days <= WindowDays /\ Exact(receipt, txn)
      /\ "nearAmount" \in signals <=> days <= WindowDays /\ Near(receipt, txn)
      /\ "merchantFuzzy" \in signals <=> days <= WindowDays /\ Named(receipt, txn)
      /\ "orderIdInMemo" \in signals <=> days <= WindowDays /\ OrderNamed(receipt, txn)
      /\ "categoryBonus" \in signals <=> days <= WindowDays /\ txn.category \in Triggers
  BY SignalsAre, MatchConfigAssumption
<1>2. \A s \in Signals : Weight[s] \in Int
  BY MatchConfigAssumption
<1>3. /\ Weight["sameDay"] \in Int /\ Weight["nearDay"] \in Int /\ Weight["exactAmount"] \in Int
      /\ Weight["nearAmount"] \in Int /\ Weight["merchantFuzzy"] \in Int
      /\ Weight["orderIdInMemo"] \in Int /\ Weight["categoryBonus"] \in Int
  BY <1>2 DEF Signals
<1>4. Score(receipt, txn) =
        PointsFor("sameDay" \in signals, "sameDay") + PointsFor("nearDay" \in signals, "nearDay")
          + PointsFor("exactAmount" \in signals, "exactAmount")
          + PointsFor("nearAmount" \in signals, "nearAmount")
          + PointsFor("merchantFuzzy" \in signals, "merchantFuzzy")
          + PointsFor("orderIdInMemo" \in signals, "orderIdInMemo")
          + PointsFor("categoryBonus" \in signals, "categoryBonus")
  BY DEF Score, PointsFor
<1>. HIDE DEF signals, days
<1>5. CASE days > WindowDays
  BY <1>1, <1>4, <1>5 DEF PointsFor, days
<1>6. CASE days <= WindowDays
  BY <1>1, <1>3, <1>4, <1>6 DEF PointsFor, days
<1>. QED
  BY <1>1, <1>5, <1>6 DEF days

-----------------------------------------------------------------------------
\* The charges with points, none before one with more.
LEMMA RankedIs ==
  ASSUME NEW receipt \in ReceiptCases, NEW txns \in ChargeCases, NEW some \in SUBSET txns
  PROVE  LET ranked == Ranked(receipt, some)
             n == Len(ranked)
         IN /\ n \in Nat /\ DOMAIN ranked = 1 .. n /\ (n = 0 <=> ranked = << >>)
            /\ \A i \in 1 .. n : ranked[i] \in some /\ Score(receipt, ranked[i]) > 0
            /\ \A t \in some : Score(receipt, t) > 0 =>
                 n >= 1 /\ Score(receipt, ranked[1]) >= Score(receipt, t)
            /\ n > 1 => ranked[1] # ranked[2]
<1>. DEFINE scored == {t \in some : Score(receipt, t) > 0}
            points == [t \in scored |-> Score(receipt, t)]
            ranked == Ranked(receipt, some)
            Falls(s) == \A i, j \in DOMAIN s : i < j => Score(receipt, s[i]) >= Score(receipt, s[j])
            n == Cardinality(scored)
<1>1. \A t \in txns : Score(receipt, t) \in Int
  <2>. SUFFICES ASSUME NEW t \in txns
                PROVE  Score(receipt, t) \in Int
    OBVIOUS
  <2>. DEFINE counts(s) == IF s \in SignalsOf(receipt, t) THEN Weight[s] ELSE 0
  <2>1. \A s \in Signals : counts(s) \in Int
    BY MatchConfigAssumption
  <2>2. /\ "sameDay" \in Signals /\ "nearDay" \in Signals /\ "exactAmount" \in Signals
        /\ "nearAmount" \in Signals /\ "merchantFuzzy" \in Signals
        /\ "orderIdInMemo" \in Signals /\ "categoryBonus" \in Signals
    BY DEF Signals
  <2>3. Score(receipt, t) =
          counts("sameDay") + counts("nearDay") + counts("exactAmount") + counts("nearAmount")
            + counts("merchantFuzzy") + counts("orderIdInMemo") + counts("categoryBonus")
    BY Zenon DEF Score
  <2>. HIDE DEF counts
  <2>. QED
    BY <2>1, <2>2, <2>3
<1>2. IsFiniteSet(scored) /\ n \in Nat
  <2>1. scored \subseteq txns
    OBVIOUS
  <2>. QED
    BY <2>1, ReceiptAssumption, FS_Subset, FS_CardinalityType
<1>3. \A s : s \in SetToSeqs(scored) =>
        s \in [1 .. n -> scored] /\ (\A i, j \in 1 .. n : i # j => s[i] # s[j])
  BY DEF SetToSeqs
<1>4. \E s \in SetToSeqs(scored) : Falls(s)
  <2>1. \A t \in scored : points[t] \in Int /\ points[t] = Score(receipt, t)
    BY <1>1
  <2>. HIDE DEF scored, points
  <2>2. PICK s \in SetToSeqs(scored) :
          \A i, j \in DOMAIN s : i < j => points[s[i]] >= points[s[j]]
    BY <1>2, <2>1, CanBeSorted
  <2>3. s \in [1 .. n -> scored] /\ DOMAIN s = 1 .. n
    BY <1>3
  <2>4. ASSUME NEW i \in DOMAIN s, NEW j \in DOMAIN s, i < j
        PROVE  Score(receipt, s[i]) >= Score(receipt, s[j])
    <3>1. points[s[i]] >= points[s[j]]
      BY <2>2, <2>4
    <3>2. s[i] \in scored /\ s[j] \in scored
      BY <2>3
    <3>. QED
      BY <2>1, <3>1, <3>2
  <2>. QED
    BY <2>4
<1>5. ranked \in SetToSeqs(scored) /\ Falls(ranked)
  <2>1. ranked = CHOOSE s \in SetToSeqs(scored) : Falls(s)
    BY DEF Ranked
  <2>. HIDE DEF scored, Falls, ranked
  <2>. QED
    BY <1>4, <2>1
<1>. HIDE DEF ranked
<1>6. /\ ranked \in [1 .. n -> scored]
      /\ \A i, j \in 1 .. n : i # j => ranked[i] # ranked[j]
      /\ \A i, j \in 1 .. n : i < j => Score(receipt, ranked[i]) >= Score(receipt, ranked[j])
  <2>1. ranked \in [1 .. n -> scored] /\ \A i, j \in 1 .. n : i # j => ranked[i] # ranked[j]
    BY <1>3, <1>5
  <2>2. DOMAIN ranked = 1 .. n
    BY <2>1
  <2>. QED
    BY <1>5, <2>1, <2>2
<1>7. Len(ranked) = n /\ DOMAIN ranked = 1 .. n /\ (n = 0 <=> ranked = << >>)
  BY <1>2, <1>6
<1>8. ASSUME NEW t \in scored
      PROVE  \E i \in 1 .. n : ranked[i] = t
  <2>. DEFINE others == scored \ {t}
  <2>. SUFFICES ASSUME \A i \in 1 .. n : ranked[i] # t
                PROVE  FALSE
    OBVIOUS
  <2>1. ranked \in [1 .. n -> others]
    BY <1>6
  <2>2. IsFiniteSet(others) /\ Cardinality(others) = n - 1
    BY <1>2, <1>8, FS_RemoveElement
  <2>3. IsFiniteSet(1 .. n) /\ Cardinality(1 .. n) = n
    BY <1>2, FS_Interval
  <2>. HIDE DEF others, n
  <2>4. ranked \in Injection(1 .. n, others)
    BY <1>6, <2>1 DEF Injection, IsInjective
  <2>5. Cardinality(1 .. n) <= Cardinality(others)
    BY <2>2, <2>3, <2>4, FS_Injection DEF ExistsInjection
  <2>. QED
    BY <1>2, <2>2, <2>3, <2>5
<1>9. ASSUME NEW t \in some, Score(receipt, t) > 0
      PROVE  n >= 1 /\ Score(receipt, ranked[1]) >= Score(receipt, t)
  <2>1. PICK i \in 1 .. n : ranked[i] = t
    BY <1>8, <1>9
  <2>2. CASE i = 1
    BY <1>1, <1>2, <1>9, <2>1, <2>2
  <2>3. CASE i # 1
    <3>1. 1 \in 1 .. n /\ 1 < i
      BY <1>2, <2>1, <2>3
    <3>. QED
      BY <1>2, <1>6, <2>1, <3>1
  <2>. QED
    BY <2>2, <2>3
<1>10. \A i \in 1 .. n : ranked[i] \in some /\ Score(receipt, ranked[i]) > 0
  BY <1>6
<1>11. n > 1 => ranked[1] # ranked[2]
  <2>1. n > 1 => 1 \in 1 .. n /\ 2 \in 1 .. n
    BY <1>2
  <2>. QED
    BY <1>6, <2>1
<1>. HIDE DEF n
<1>. QED
  BY <1>2, <1>7, <1>9, <1>10, <1>11 DEF ranked

\* Instants that are so many days apart, and the days they fall on.
LEMMA DaysApart ==
  ASSUME NEW a \in Int, NEW b \in Int, NEW p \in Nat \ {0}, NEW w \in Nat
  PROVE  /\ a - b <= w * p => a \div p - b \div p <= w
         /\ a - b > w * p => a \div p - b \div p >= w
<1>. DEFINE qa == a \div p
            qb == b \div p
<1>1. /\ qa \in Int /\ qb \in Int
      /\ p * qa <= a /\ a < p * qa + p
      /\ p * qb <= b /\ b < p * qb + p
  OBVIOUS
<1>. HIDE DEF qa, qb
<1>2. \A m, k \in Int : m <= k => m * p <= k * p
  OBVIOUS
<1>3. /\ w * p \in Int /\ p * qa \in Int /\ p * qb \in Int /\ (qa - qb - 1) * p = p * qa - p * qb - p
      /\ (qa - qb + 1) * p = p * qa - p * qb + p
  BY <1>1
<1>4. ASSUME a - b <= w * p, ~(qa - qb <= w)
      PROVE  FALSE
  <2>1. w <= qa - qb - 1
    BY <1>1, <1>4
  <2>2. w * p <= (qa - qb - 1) * p
    BY <1>1, <1>2, <2>1
  <2>. QED
    BY <1>1, <1>3, <1>4, <2>2
<1>5. ASSUME a - b > w * p, ~(qa - qb >= w)
      PROVE  FALSE
  <2>1. qa - qb + 1 <= w
    BY <1>1, <1>5
  <2>2. (qa - qb + 1) * p <= w * p
    BY <1>1, <1>2, <2>1
  <2>. QED
    BY <1>1, <1>3, <1>5, <2>2
<1>. QED
  BY <1>4, <1>5 DEF qa, qb

\* The window of ticks and the window of days.
LEMMA WindowIs ==
  ASSUME NEW receipt \in ReceiptCases, NEW txns \in ChargeCases, NEW t \in txns
  PROVE  /\ t \in InMatchWindow(receipt, txns) => DayDiff(receipt, t) <= WindowDays
         /\ t \notin InMatchWindow(receipt, txns) => DayDiff(receipt, t) >= WindowDays
<1>. DEFINE a == t.occurredAt
            b == Anchor(receipt)
<1>1. a \in Int /\ b \in Int /\ PerDay \in Nat \ {0} /\ WindowDays \in Nat
  BY SignalsAre, MatchConfigAssumption
<1>2. DayDiff(receipt, t) = Distance(a \div PerDay, b \div PerDay)
  BY DEF DayDiff
<1>3. t \in InMatchWindow(receipt, txns) <=> Distance(a, b) <= WindowDays * PerDay
  BY DEF InMatchWindow, WindowTicks
<1>. HIDE DEF a, b
<1>4. /\ a \div PerDay \in Int /\ b \div PerDay \in Int /\ WindowDays * PerDay \in Nat
  BY <1>1
<1>5. /\ a - b <= WindowDays * PerDay => a \div PerDay - b \div PerDay <= WindowDays
      /\ b - a <= WindowDays * PerDay => b \div PerDay - a \div PerDay <= WindowDays
      /\ a - b > WindowDays * PerDay => a \div PerDay - b \div PerDay >= WindowDays
      /\ b - a > WindowDays * PerDay => b \div PerDay - a \div PerDay >= WindowDays
  BY <1>1, DaysApart
<1>. DEFINE da == a \div PerDay
            db == b \div PerDay
            ticks == WindowDays * PerDay
<1>6. /\ da \in Int /\ db \in Int /\ ticks \in Nat
      /\ a - b <= ticks => da - db <= WindowDays
      /\ b - a <= ticks => db - da <= WindowDays
      /\ a - b > ticks => da - db >= WindowDays
      /\ b - a > ticks => db - da >= WindowDays
  BY <1>4, <1>5
<1>7. /\ DayDiff(receipt, t) = Distance(da, db)
      /\ t \in InMatchWindow(receipt, txns) <=> Distance(a, b) <= ticks
  BY <1>2, <1>3
<1>. HIDE DEF da, db, ticks
<1>. QED
  BY <1>1, <1>6, <1>7 DEF Distance

\* What points say of a pair in the window.
LEMMA PointsTell ==
  ASSUME PointsAreBalanced,
         NEW receipt \in ReceiptCases, NEW txns \in ChargeCases, NEW t \in txns,
         DayDiff(receipt, t) <= WindowDays
  PROVE  /\ Score(receipt, t) \in Int /\ Score(receipt, t) > 0
         /\ Score(receipt, t) >= MinScore =>
              IF AmountsAgree(receipt, t)
              THEN \/ Named(receipt, t) \/ OrderNamed(receipt, t)
                   \/ DayDiff(receipt, t) = 0 /\ receipt.total = t.amount
              ELSE Named(receipt, t) /\ OrderNamed(receipt, t) /\ DayDiff(receipt, t) = 0
         /\ Exact(receipt, t) /\ Named(receipt, t) => Score(receipt, t) >= MinScore
<1>. DEFINE day == IF DayDiff(receipt, t) = 0 THEN Weight["sameDay"] ELSE Weight["nearDay"]
            exact == PointsFor(Exact(receipt, t), "exactAmount")
            near == PointsFor(Near(receipt, t), "nearAmount")
            named == PointsFor(Named(receipt, t), "merchantFuzzy")
            order == PointsFor(OrderNamed(receipt, t), "orderIdInMemo")
            bonus == PointsFor(t.category \in Triggers, "categoryBonus")
<1>1. DayDiff(receipt, t) \in Nat /\ WindowDays \in Nat /\ MinScore \in Nat /\ Tolerance \in Nat
  BY SignalsAre, MatchConfigAssumption
<1>2. \A s \in Signals : Weight[s] \in Int
  BY MatchConfigAssumption
<1>3. /\ Weight["sameDay"] \in Int /\ Weight["nearDay"] \in Int /\ Weight["exactAmount"] \in Int
      /\ Weight["nearAmount"] \in Int /\ Weight["merchantFuzzy"] \in Int
      /\ Weight["orderIdInMemo"] \in Int /\ Weight["categoryBonus"] \in Int
  BY <1>2 DEF Signals
<1>4. /\ Weight["sameDay"] > 0 /\ Weight["nearDay"] > 0 /\ Weight["exactAmount"] > 0
      /\ Weight["nearAmount"] > 0 /\ Weight["merchantFuzzy"] > 0
      /\ Weight["orderIdInMemo"] > 0 /\ Weight["categoryBonus"] > 0
  BY DEF PointsAreBalanced, Signals
<1>5. /\ Weight["nearDay"] < Weight["sameDay"] /\ Weight["nearAmount"] < Weight["exactAmount"]
      /\ Weight["sameDay"] + Weight["nearAmount"] + Weight["categoryBonus"] < MinScore
      /\ Weight["nearDay"] + Weight["exactAmount"] + Weight["categoryBonus"] < MinScore
      /\ Weight["sameDay"] + Weight["merchantFuzzy"] + Weight["categoryBonus"] < MinScore
      /\ Weight["sameDay"] + Weight["orderIdInMemo"] + Weight["categoryBonus"] < MinScore
      /\ Weight["nearDay"] + Weight["merchantFuzzy"] + Weight["orderIdInMemo"]
           + Weight["categoryBonus"] < MinScore
      /\ Weight["nearDay"] + Weight["exactAmount"] + Weight["merchantFuzzy"] >= MinScore
  BY DEF PointsAreBalanced
<1>6. Score(receipt, t) = day + exact + near + named + order + bonus
  BY <1>1, ScoreIs
<1>7. /\ Exact(receipt, t) => ~Near(receipt, t)
      /\ AmountsAgree(receipt, t) => Exact(receipt, t) \/ Near(receipt, t)
      /\ ~AmountsAgree(receipt, t) => ~Exact(receipt, t) /\ ~Near(receipt, t)
      /\ Exact(receipt, t) => receipt.total = t.amount
  <2>1. t.amount \in Int /\ (Known(receipt) => receipt.total \in Int)
    BY SignalsAre, ReceiptAssumption DEF Known
  <2>. QED
    BY <1>1, <2>1 DEF Exact, Near, AmountsAgree, Distance
<1>8. /\ day = IF DayDiff(receipt, t) = 0 THEN Weight["sameDay"] ELSE Weight["nearDay"]
      /\ exact = IF Exact(receipt, t) THEN Weight["exactAmount"] ELSE 0
      /\ near = IF Near(receipt, t) THEN Weight["nearAmount"] ELSE 0
      /\ named = IF Named(receipt, t) THEN Weight["merchantFuzzy"] ELSE 0
      /\ order = IF OrderNamed(receipt, t) THEN Weight["orderIdInMemo"] ELSE 0
      /\ bonus \in {0, Weight["categoryBonus"]}
  BY DEF PointsFor
<1>. HIDE DEF day, exact, near, named, order, bonus
<1>9. Score(receipt, t) \in Int /\ Score(receipt, t) > 0
  BY <1>3, <1>4, <1>6, <1>8
<1>10. Exact(receipt, t) /\ Named(receipt, t) => Score(receipt, t) >= MinScore
  BY <1>1, <1>3, <1>4, <1>5, <1>6, <1>8
<1>11. CASE AmountsAgree(receipt, t)
  <2>1. ASSUME ~Named(receipt, t), ~OrderNamed(receipt, t),
               ~(DayDiff(receipt, t) = 0 /\ receipt.total = t.amount)
        PROVE  Score(receipt, t) < MinScore
    BY <1>1, <1>3, <1>4, <1>5, <1>6, <1>7, <1>8, <1>11, <2>1
  <2>. QED
    BY <1>1, <1>9, <1>10, <1>11, <2>1
<1>12. CASE ~AmountsAgree(receipt, t)
  <2>1. ASSUME ~(Named(receipt, t) /\ OrderNamed(receipt, t) /\ DayDiff(receipt, t) = 0)
        PROVE  Score(receipt, t) < MinScore
    BY <1>1, <1>3, <1>4, <1>5, <1>6, <1>7, <1>8, <1>12, <2>1
  <2>. QED
    BY <1>1, <1>9, <1>10, <1>12, <2>1
<1>. QED
  BY <1>11, <1>12

One(condition) == IF condition THEN 1 ELSE 0

\* A pair with more to say for it has more points.
LEMMA MoreMeritsMorePoints ==
  ASSUME PointsAreBalanced,
         NEW receipt \in ReceiptCases, NEW txns \in ChargeCases, NEW t \in txns, NEW u \in txns,
         DayDiff(receipt, t) <= WindowDays, DayDiff(receipt, u) <= WindowDays,
         Dominates(Merits(receipt, t), Merits(receipt, u))
  PROVE  Score(receipt, t) > Score(receipt, u)
<1>. DEFINE Same(x) == DayDiff(receipt, x) = 0
            Agree(x) == AmountsAgree(receipt, x)
            Equal(x) == receipt.total = x.amount
            Bonus(x) == x.category \in Triggers
            M(x) == <<One(Same(x)), One(Agree(x)) + One(Equal(x)), One(Named(receipt, x)),
                      One(OrderNamed(receipt, x)), One(Bonus(x))>>
<1>1. \A s \in Signals : Weight[s] \in Int /\ Weight[s] > 0
  BY MatchConfigAssumption DEF PointsAreBalanced
<1>2. /\ Weight["sameDay"] \in Int /\ Weight["nearDay"] \in Int /\ Weight["exactAmount"] \in Int
      /\ Weight["nearAmount"] \in Int /\ Weight["merchantFuzzy"] \in Int
      /\ Weight["orderIdInMemo"] \in Int /\ Weight["categoryBonus"] \in Int
      /\ Weight["sameDay"] > 0 /\ Weight["nearDay"] > 0 /\ Weight["exactAmount"] > 0
      /\ Weight["nearAmount"] > 0 /\ Weight["merchantFuzzy"] > 0
      /\ Weight["orderIdInMemo"] > 0 /\ Weight["categoryBonus"] > 0
      /\ Weight["nearDay"] < Weight["sameDay"] /\ Weight["nearAmount"] < Weight["exactAmount"]
  BY <1>1 DEF Signals, PointsAreBalanced
<1>3. \A x : Merits(receipt, x) = M(x)
  BY DEF Merits, Named, One
<1>4. \A x : /\ DOMAIN M(x) = 1 .. 5
             /\ M(x)[1] = One(Same(x)) /\ M(x)[2] = One(Agree(x)) + One(Equal(x))
             /\ M(x)[3] = One(Named(receipt, x)) /\ M(x)[4] = One(OrderNamed(receipt, x))
             /\ M(x)[5] = One(Bonus(x))
  OBVIOUS
<1>. HIDE DEF M
<1>5. /\ One(Same(t)) >= One(Same(u))
      /\ One(Agree(t)) + One(Equal(t)) >= One(Agree(u)) + One(Equal(u))
      /\ One(Named(receipt, t)) >= One(Named(receipt, u))
      /\ One(OrderNamed(receipt, t)) >= One(OrderNamed(receipt, u))
      /\ One(Bonus(t)) >= One(Bonus(u))
  <2>1. M(t)[1] >= M(u)[1] /\ M(t)[2] >= M(u)[2] /\ M(t)[3] >= M(u)[3] /\ M(t)[4] >= M(u)[4]
        /\ M(t)[5] >= M(u)[5]
    <3>1. \A i \in 1 .. 5 : M(t)[i] >= M(u)[i]
      BY <1>3, <1>4 DEF Dominates
    <3>. QED
      BY <3>1
  <2>. QED
    BY <1>4, <2>1
<1>6. ~(/\ One(Same(t)) = One(Same(u))
        /\ One(Agree(t)) + One(Equal(t)) = One(Agree(u)) + One(Equal(u))
        /\ One(Named(receipt, t)) = One(Named(receipt, u))
        /\ One(OrderNamed(receipt, t)) = One(OrderNamed(receipt, u))
        /\ One(Bonus(t)) = One(Bonus(u)))
  <2>1. M(t) # M(u)
    BY <1>3 DEF Dominates
  <2>. QED
    BY <2>1 DEF M
<1>7. \A x \in txns : /\ Exact(receipt, x) <=> Agree(x) /\ Equal(x)
                      /\ Near(receipt, x) <=> Agree(x) /\ ~Equal(x)
                      /\ Equal(x) => Agree(x)
  <2>. SUFFICES ASSUME NEW x \in txns
                PROVE  /\ Exact(receipt, x) <=> Agree(x) /\ Equal(x)
                       /\ Near(receipt, x) <=> Agree(x) /\ ~Equal(x)
                       /\ Equal(x) => Agree(x)
    OBVIOUS
  <2>1. /\ x.amount \in Int /\ (Known(receipt) => receipt.total \in Int) /\ Tolerance \in Nat
        /\ x.amount # Null
    BY SignalsAre, ReceiptAssumption, MatchConfigAssumption DEF Known
  <2>. QED
    BY <2>1 DEF Exact, Near, AmountsAgree, Distance, Known
<1>8. \A x \in txns : DayDiff(receipt, x) <= WindowDays =>
        Score(receipt, x) =
          (IF Same(x) THEN Weight["sameDay"] ELSE Weight["nearDay"])
            + PointsFor(Agree(x) /\ Equal(x), "exactAmount")
            + PointsFor(Agree(x) /\ ~Equal(x), "nearAmount")
            + PointsFor(Named(receipt, x), "merchantFuzzy")
            + PointsFor(OrderNamed(receipt, x), "orderIdInMemo")
            + PointsFor(Bonus(x), "categoryBonus")
  <2>. SUFFICES ASSUME NEW x \in txns, DayDiff(receipt, x) <= WindowDays
                PROVE  Score(receipt, x) =
                         (IF Same(x) THEN Weight["sameDay"] ELSE Weight["nearDay"])
                           + PointsFor(Agree(x) /\ Equal(x), "exactAmount")
                           + PointsFor(Agree(x) /\ ~Equal(x), "nearAmount")
                           + PointsFor(Named(receipt, x), "merchantFuzzy")
                           + PointsFor(OrderNamed(receipt, x), "orderIdInMemo")
                           + PointsFor(Bonus(x), "categoryBonus")
    OBVIOUS
  <2>1. DayDiff(receipt, x) \in Nat /\ WindowDays \in Nat
    BY SignalsAre, MatchConfigAssumption
  <2>2. /\ PointsFor(Exact(receipt, x), "exactAmount") = PointsFor(Agree(x) /\ Equal(x), "exactAmount")
        /\ PointsFor(Near(receipt, x), "nearAmount") = PointsFor(Agree(x) /\ ~Equal(x), "nearAmount")
    BY <1>7 DEF PointsFor
  <2>. QED
    BY <2>1, <2>2, ScoreIs
<1>9. \A x \in txns : Equal(x) => Agree(x)
  BY <1>7
<1>. HIDE DEF Same, Agree, Equal, Bonus
<1>. DEFINE day(x) == IF Same(x) THEN Weight["sameDay"] ELSE Weight["nearDay"]
            amount(x) == PointsFor(Agree(x) /\ Equal(x), "exactAmount")
                           + PointsFor(Agree(x) /\ ~Equal(x), "nearAmount")
            named(x) == PointsFor(Named(receipt, x), "merchantFuzzy")
            order(x) == PointsFor(OrderNamed(receipt, x), "orderIdInMemo")
            bonus(x) == PointsFor(Bonus(x), "categoryBonus")
<1>10. /\ day(t) \in Int /\ day(u) \in Int /\ day(t) >= day(u)
       /\ One(Same(t)) # One(Same(u)) => day(t) > day(u)
  BY <1>2, <1>5 DEF One
<1>11. /\ amount(t) \in Int /\ amount(u) \in Int /\ amount(t) >= amount(u)
       /\ One(Agree(t)) + One(Equal(t)) # One(Agree(u)) + One(Equal(u)) => amount(t) > amount(u)
  BY <1>2, <1>5, <1>9 DEF One, PointsFor
<1>12. /\ named(t) \in Int /\ named(u) \in Int /\ named(t) >= named(u)
       /\ One(Named(receipt, t)) # One(Named(receipt, u)) => named(t) > named(u)
  BY <1>2, <1>5 DEF One, PointsFor
<1>13. /\ order(t) \in Int /\ order(u) \in Int /\ order(t) >= order(u)
       /\ One(OrderNamed(receipt, t)) # One(OrderNamed(receipt, u)) => order(t) > order(u)
  BY <1>2, <1>5 DEF One, PointsFor
<1>14. /\ bonus(t) \in Int /\ bonus(u) \in Int /\ bonus(t) >= bonus(u)
       /\ One(Bonus(t)) # One(Bonus(u)) => bonus(t) > bonus(u)
  BY <1>2, <1>5 DEF One, PointsFor
<1>15. /\ Score(receipt, t) = day(t) + amount(t) + named(t) + order(t) + bonus(t)
       /\ Score(receipt, u) = day(u) + amount(u) + named(u) + order(u) + bonus(u)
  <2>1. \A x : PointsFor(Agree(x) /\ Equal(x), "exactAmount") \in Int
               /\ PointsFor(Agree(x) /\ ~Equal(x), "nearAmount") \in Int
               /\ day(x) \in Int
    BY <1>2 DEF PointsFor
  <2>. QED
    BY <1>8, <2>1
<1>. HIDE DEF day, amount, named, order, bonus
<1>. QED
  BY <1>6, <1>10, <1>11, <1>12, <1>13, <1>14, <1>15

\* Amounts agree exactly or nearly.
LEMMA AgreeIs ==
  ASSUME NEW receipt \in ReceiptCases, NEW txns \in ChargeCases, NEW txn \in txns
  PROVE  AmountsAgree(receipt, txn) <=> Exact(receipt, txn) \/ Near(receipt, txn)
<1>1. /\ txn.amount \in Int /\ Tolerance \in Nat
      /\ Known(receipt) => receipt.total \in Int
  BY MatchConfigAssumption, ReceiptAssumption DEF Known
<1>. QED
  BY <1>1 DEF Exact, Near, AmountsAgree, Distance

\* What each sentence says.
LEMMA SaysIs ==
  ASSUME NEW receipt, NEW candidates
  PROVE  LET noneIsSure == \A t \in candidates : Score(receipt, t) < MinScore
         IN /\ Says("no charge in the window", receipt, candidates) <=> candidates = {}
            /\ Says("no charge of the amount", receipt, candidates) <=>
                 Known(receipt) /\ \A t \in candidates : ~AmountsAgree(receipt, t)
            /\ Says("no charge of the merchant", receipt, candidates) <=>
                 \A t \in candidates : ~MerchantsAgree(t.merchant, receipt.merchant)
            /\ Says("too uncertain to link", receipt, candidates) <=>
                 receipt.confidence < MinConfidence /\ noneIsSure
            /\ Says("several charges and none sure", receipt, candidates) <=>
                 noneIsSure /\ \E t, u \in candidates : t # u
  BY DEF Says

\* What is said of receipts and charges is right: a link rests on evidence and is the
\* best there was, and the sentence that a digest shows of a missing one is true except
\* in the three cases that ReasonsAreHonest names, and false in each of those, for all
\* points that are balanced as those of config/default.yaml:60-69 are
\* (receipt-match-scorer.ts:52-156, unmatch-reasons.ts:21-125).
THEOREM MatchesAreAlwaysSound ==
  ASSUME PointsAreBalanced
  PROVE  Spec => []MatchesAreSound
<1>1. IInv => MatchesAreSound
  <2>. SUFFICES ASSUME IInv, Asked("match")
                PROVE  MatchesAreSound
    BY DEF MatchesAreSound, LinkedOnEvidence, NothingBetterIsLeft, ReasonsAreHonest
  <2>1. PICK receipt \in ReceiptCases, txns \in ChargeCases :
          /\ question = [about |-> "match", receipt |-> receipt, txns |-> txns]
          /\ answer = [best |-> Best(receipt, InMatchWindow(receipt, txns)),
                       fact |-> UnmatchedFact(receipt, txns)]
    BY DEF IInv, MatchAnswered
  <2>. DEFINE candidates == InMatchWindow(receipt, txns)
              ranked == Ranked(receipt, candidates)
              n == Len(ranked)
              top == ranked[1]
              Scored(t) == Score(receipt, t)
  <2>2. /\ question.receipt = receipt /\ question.txns = txns
        /\ answer.best = IF ranked = << >> \/ Scored(top) < MinScore THEN Null ELSE top
        /\ answer.fact.reason = Reason(receipt, ranked)
        /\ answer.fact.detail = ReasonDetail[Reason(receipt, ranked)]
        /\ answer.fact.maybe = MaybeTransactions(receipt, ranked)
    BY <2>1 DEF Best, UnmatchedFact
  <2>3. candidates \subseteq txns /\ \A t \in candidates : DayDiff(receipt, t) <= WindowDays
    <3>1. candidates \subseteq txns
      BY DEF InMatchWindow
    <3>. QED
      BY <3>1, WindowIs
  <2>4. /\ n \in Nat /\ DOMAIN ranked = 1 .. n /\ (n = 0 <=> ranked = << >>)
        /\ \A i \in 1 .. n : ranked[i] \in candidates /\ Scored(ranked[i]) > 0
        /\ \A t \in candidates : Scored(t) > 0 => n >= 1 /\ Scored(top) >= Scored(t)
        /\ n > 1 => top # ranked[2]
    BY <2>3, RankedIs
  <2>5. \A t \in candidates :
          /\ Scored(t) \in Int /\ Scored(t) > 0
          /\ Scored(t) >= MinScore =>
               IF AmountsAgree(receipt, t)
               THEN \/ Named(receipt, t) \/ OrderNamed(receipt, t)
                    \/ DayDiff(receipt, t) = 0 /\ receipt.total = t.amount
               ELSE Named(receipt, t) /\ OrderNamed(receipt, t) /\ DayDiff(receipt, t) = 0
          /\ Exact(receipt, t) /\ Named(receipt, t) => Scored(t) >= MinScore
    BY <2>3, PointsTell
  <2>6. /\ MinScore \in Nat \ {0} /\ Null \notin txns
        /\ \A t \in txns : t.amount # Null
    BY MatchConfigAssumption, ReceiptAssumption
  <2>7. \A t \in candidates : n >= 1 /\ Scored(top) >= Scored(t)
    BY <2>4, <2>5
  <2>8. n >= 1 => top \in candidates /\ top \in txns /\ top # Null /\ Scored(top) \in Int
    BY <2>3, <2>4, <2>5, <2>6
  <2>9. /\ answer.best # Null => n >= 1 /\ answer.best = top /\ Scored(top) >= MinScore
        /\ answer.best = Null => \A t \in candidates : Scored(t) < MinScore
    <3>1. ASSUME answer.best # Null
          PROVE  n >= 1 /\ answer.best = top /\ Scored(top) >= MinScore
      <4>1. n >= 1
        BY <2>2, <2>4, <3>1
      <4>. QED
        BY <2>2, <2>6, <2>8, <3>1, <4>1
    <3>2. ASSUME answer.best = Null, NEW t \in candidates
          PROVE  Scored(t) < MinScore
      <4>1. ranked # << >> /\ top # Null
        BY <2>4, <2>7, <2>8
      <4>2. Scored(top) < MinScore
        BY <2>2, <3>2, <4>1
      <4>. QED
        BY <2>5, <2>6, <2>7, <2>8, <4>2
    <3>. QED
      BY <3>1, <3>2
  <2>10. LinkedOnEvidence
    BY <2>2, <2>5, <2>8, <2>9 DEF LinkedOnEvidence, Named
  <2>11. NothingBetterIsLeft
    <3>1. ASSUME answer.best = Null, NEW t \in candidates, receipt.total = t.amount
          PROVE  ~MerchantsAgree(t.merchant, receipt.merchant)
      <4>1. Exact(receipt, t)
        BY <2>3, <2>6, <3>1 DEF Exact, Known
      <4>2. Scored(t) < MinScore /\ Scored(t) \in Int
        BY <2>5, <2>9, <3>1
      <4>. QED
        BY <2>5, <2>6, <4>1, <4>2 DEF Named
    <3>2. ASSUME answer.best # Null, NEW t \in candidates,
                 Dominates(Merits(receipt, t), Merits(receipt, answer.best))
          PROVE  FALSE
      <4>1. Scored(t) > Scored(top)
        BY <2>3, <2>8, <2>9, <3>2, MoreMeritsMorePoints
      <4>. QED
        BY <2>5, <2>7, <2>8, <4>1
    <3>. HIDE DEF Scored
    <3>. QED
      BY <2>2, <3>1, <3>2 DEF NothingBetterIsLeft
  <2>12. ReasonsAreHonest
    <3>. DEFINE reason == Reason(receipt, ranked)
                maybe == MaybeTransactions(receipt, ranked)
                m == Min({2, n})
                signals == SignalsOf(receipt, top)
    <3>1. n >= 1 =>
            /\ "date_out_of_range" \notin signals
            /\ "exactAmount" \in signals <=> Exact(receipt, top)
            /\ "nearAmount" \in signals <=> Near(receipt, top)
            /\ "merchantFuzzy" \in signals <=> Named(receipt, top)
      BY <2>3, <2>8, SignalsAre
    <3>2. /\ reason \in {"low_parse_confidence", "merchant_unclear", "no_bank_activity",
                         "multiple_candidates", "amount_mismatch"}
          /\ reason = "low_parse_confidence" => receipt.confidence < MinConfidence
          /\ reason = "merchant_unclear" => n = 0 \/ (n >= 1 /\ "merchantFuzzy" \notin signals)
          /\ reason = "no_bank_activity" => n = 0
          /\ reason = "multiple_candidates" => n > 1
          /\ reason = "amount_mismatch" =>
               /\ n >= 1
               /\ \/ receipt.total # Null /\ signals \cap AmountSignals = {}
                  \/ /\ receipt.total # Null => signals \cap AmountSignals # {}
                     /\ "merchantFuzzy" \in signals
      <4>1. reason =
              IF receipt.confidence < MinConfidence THEN "low_parse_confidence"
              ELSE IF ranked = <<>> /\ receipt.total = Null THEN "merchant_unclear"
              ELSE IF ranked = <<>> THEN "no_bank_activity"
              ELSE IF n > 1 /\ Close(Scored(top), Scored(ranked[2])) THEN "multiple_candidates"
              ELSE IF "date_out_of_range" \in signals THEN "date_out_of_range"
              ELSE IF receipt.total # Null /\ signals \cap AmountSignals = {} THEN "amount_mismatch"
              ELSE IF "merchantFuzzy" \notin signals THEN "merchant_unclear"
              ELSE "amount_mismatch"
        BY DEF Reason
      <4>. HIDE DEF reason, signals
      <4>2. ranked = << >> <=> n = 0
        BY <2>4
      <4>3. n # 0 => n >= 1
        BY <2>4
      <4>4. "date_out_of_range" \in signals => n = 0
        BY <3>1, <4>3
      <4>. HIDE DEF n, ranked, top, Scored
      <4>5. CASE receipt.confidence < MinConfidence
        BY <4>1, <4>5
      <4>6. CASE ~(receipt.confidence < MinConfidence) /\ n = 0
        <5>1. reason \in {"merchant_unclear", "no_bank_activity"}
          BY <4>1, <4>2, <4>6
        <5>. QED
          BY <4>6, <5>1
      <4>7. CASE ~(receipt.confidence < MinConfidence) /\ n >= 1 /\ n # 0
        <5>. DEFINE rivals == n > 1 /\ Close(Scored(top), Scored(ranked[2]))
                    differ == receipt.total # Null /\ signals \cap AmountSignals = {}
                    named == "merchantFuzzy" \in signals
        <5>1. reason = IF rivals THEN "multiple_candidates"
                       ELSE IF differ THEN "amount_mismatch"
                       ELSE IF ~named THEN "merchant_unclear"
                       ELSE "amount_mismatch"
          BY <4>1, <4>2, <4>4, <4>7
        <5>2. rivals => n > 1
          OBVIOUS
        <5>3. ~differ => (receipt.total # Null => signals \cap AmountSignals # {})
          OBVIOUS
        <5>4. differ => receipt.total # Null /\ signals \cap AmountSignals = {}
          OBVIOUS
        <5>. HIDE DEF rivals, differ
        <5>. QED
          BY <4>7, <5>1, <5>2, <5>3, <5>4
      <4>. QED
        BY <4>3, <4>5, <4>6, <4>7
    <3>3. m = IF n < 2 THEN n ELSE 2
      <4>1. \E x \in {2, n} : \A y \in {2, n} : x <= y
        BY <2>4
      <4>2. m \in {2, n} /\ \A y \in {2, n} : m <= y
        BY <4>1 DEF Min
      <4>3. n \in Nat
        BY <2>4
      <4>. HIDE DEF m, n
      <4>. QED
        BY <4>2, <4>3
    <3>4. /\ DOMAIN maybe = 1 .. m
          /\ \A i \in 1 .. m :
               /\ i \in 1 .. n
               /\ maybe[i].txn = ranked[i] /\ maybe[i].score = Scored(ranked[i])
               /\ maybe[i].whyNot = WhyNot(receipt, ranked[i])
      <4>1. \A i \in 1 .. m : i \in 1 .. n
        BY <2>4, <3>3
      <4>. QED
        BY <4>1 DEF MaybeTransactions
    <3>5. n >= 1 => maybe # << >>
      <4>1. n >= 1 => 1 \in 1 .. m
        BY <2>4, <3>3
      <4>2. n >= 1 => 1 \in DOMAIN maybe
        BY <3>4, <4>1
      <4>3. 1 \notin DOMAIN << >>
        OBVIOUS
      <4>. HIDE DEF maybe, m, n
      <4>. QED
        BY <4>2, <4>3
    <3>. HIDE DEF m
    <3>6. n >= 1 => 1 \in 1 .. m
      <4>1. n \in Nat
        BY <2>4
      <4>. HIDE DEF n
      <4>. QED
        BY <3>3, <4>1
    <3>7. \A t : WhyNot(receipt, t) = {} <=> Scored(t) >= MinScore
      <4>1. \A t : ~(Scored(t) >= MinScore) => "score" \in WhyNot(receipt, t)
        BY DEF WhyNot
      <4>2. \A t : Scored(t) >= MinScore => WhyNot(receipt, t) = {}
        BY DEF WhyNot
      <4>. HIDE DEF Scored
      <4>. QED
        BY <4>1, <4>2
    <3>8. n = 0 => \A t \in txns : DayDiff(receipt, t) >= WindowDays
      <4>1. n = 0 => candidates = {}
        BY <2>4, <2>7
      <4>. QED
        BY <4>1, WindowIs
    <3>9. n >= 1 => maybe[1].txn = top
      BY <3>4, <3>6
    <3>12. reason = "amount_mismatch" =>
             /\ n >= 1
             /\ \/ Known(receipt) /\ ~AmountsAgree(receipt, top)
                \/ (Known(receipt) => AmountsAgree(receipt, top)) /\ Named(receipt, top)
      <4>1. n >= 1 => (AmountsAgree(receipt, top) <=> Exact(receipt, top) \/ Near(receipt, top))
        BY <2>8, AgreeIs
      <4>. HIDE DEF reason, signals, top, n
      <4>. QED
        BY <3>1, <3>2, <4>1 DEF AmountSignals, Known
    <3>13. ASSUME reason = "amount_mismatch", Known(receipt), answer.best = Null
           PROVE  top.amount # receipt.total
      <4>1. n >= 1
        BY <3>2, <3>13
      <4>. SUFFICES ASSUME top.amount = receipt.total
                    PROVE  FALSE
        OBVIOUS
      <4>2. Exact(receipt, top)
        BY <3>13 DEF Exact
      <4>3. Named(receipt, top)
        BY <3>1, <3>2, <3>13, <4>1, <4>2 DEF AmountSignals
      <4>4. Scored(top) >= MinScore /\ Scored(top) < MinScore /\ Scored(top) \in Int
        BY <2>5, <2>8, <2>9, <3>13, <4>1, <4>2, <4>3
      <4>. QED
        BY <2>6, <4>4
    <3>14. (\A t \in candidates : Scored(t) < MinScore) <=> answer.best = Null
      <4>1. answer.best # Null => ~(Scored(top) < MinScore) /\ top \in candidates
        BY <2>6, <2>8, <2>9
      <4>. HIDE DEF Scored, top, candidates
      <4>. QED
        BY <2>9, <4>1
    <3>15. n = 0 => candidates = {}
      BY <2>4, <2>7
    <3>16. n > 1 => \E t, u \in candidates : t # u
      <4>1. n > 1 => 1 \in 1 .. n /\ 2 \in 1 .. n
        BY <2>4
      <4>. QED
        BY <2>4, <4>1
    <3>17. n >= 1 => top \in candidates
      BY <2>8
    <3>18. n \in Nat /\ (n > 1 => n >= 1) /\ (n = 0 \/ n >= 1)
      BY <2>4
    <3>. DEFINE detail == ReasonDetail[reason]
                closest == maybe[1].txn
                others == IF maybe = << >> THEN {} ELSE candidates \ {closest}
                Agree(t) == AmountsAgree(receipt, t)
    <3>19. Says(detail, receipt, candidates) <=>
             /\ ~BarIsCleared(detail, answer.best)
             /\ ~AmountIsNotTheReason(detail, receipt, closest)
             /\ ~AnotherHasIt(detail, receipt, others)
      <4>. DEFINE noneIsSure == \A t \in candidates : Scored(t) < MinScore
                  Asserted(d) == Says(d, receipt, candidates)
      <4>1. /\ Asserted("no charge in the window") <=> candidates = {}
            /\ Asserted("no charge of the amount") <=>
                 Known(receipt) /\ \A t \in candidates : ~Agree(t)
            /\ Asserted("no charge of the merchant") <=>
                 \A t \in candidates : ~Named(receipt, t)
            /\ Asserted("too uncertain to link") <=>
                 receipt.confidence < MinConfidence /\ noneIsSure
            /\ Asserted("several charges and none sure") <=>
                 noneIsSure /\ \E t, u \in candidates : t # u
        BY SaysIs DEF Named
      <4>2. noneIsSure <=> answer.best = Null
        BY <3>14
      <4>. HIDE DEF reason, maybe, n, top, candidates, noneIsSure
      <4>3. CASE reason = "no_bank_activity"
        <5>1. detail = "no charge in the window" /\ candidates = {}
          BY <3>2, <3>15, <4>3 DEF ReasonDetail
        <5>. QED
          BY <4>1, <5>1 DEF BarIsCleared, AmountIsNotTheReason, AnotherHasIt
      <4>4. CASE reason = "low_parse_confidence"
        <5>1. detail = "too uncertain to link" /\ receipt.confidence < MinConfidence
          BY <3>2, <4>4 DEF ReasonDetail
        <5>2. Says(detail, receipt, candidates) <=> answer.best = Null
          BY <4>1, <4>2, <5>1
        <5>. HIDE DEF detail, others
        <5>. QED
          BY <5>1, <5>2 DEF BarIsCleared, AmountIsNotTheReason, AnotherHasIt
      <4>5. CASE reason = "multiple_candidates"
        <5>1. detail = "several charges and none sure" /\ \E t, u \in candidates : t # u
          BY <3>2, <3>16, <4>5 DEF ReasonDetail
        <5>2. Says(detail, receipt, candidates) <=> answer.best = Null
          BY <4>1, <4>2, <5>1
        <5>. HIDE DEF detail, others
        <5>. QED
          BY <5>1, <5>2 DEF BarIsCleared, AmountIsNotTheReason, AnotherHasIt
      <4>6. CASE reason = "amount_mismatch"
        <5>1. detail = "no charge of the amount" /\ n >= 1
          BY <3>2, <4>6 DEF ReasonDetail
        <5>2. closest = top /\ top \in candidates /\ others = candidates \ {top}
          BY <3>5, <3>9, <3>17, <5>1
        <5>3. Says(detail, receipt, candidates) <=>
                Known(receipt) /\ \A t \in candidates : ~Agree(t)
          BY <4>1, <5>1
        <5>4. AmountIsNotTheReason(detail, receipt, closest) <=>
                (Known(receipt) => Agree(top)) /\ Named(receipt, top)
          BY <5>1, <5>2 DEF AmountIsNotTheReason, Named
        <5>5. AnotherHasIt(detail, receipt, others) <=> \E t \in candidates \ {top} : Agree(t)
          BY <5>1, <5>2 DEF AnotherHasIt
        <5>6. ~BarIsCleared(detail, answer.best)
          BY <5>1 DEF BarIsCleared
        <5>7. \A t : Agree(t) => Known(receipt)
          BY DEF AmountsAgree
        <5>. HIDE DEF detail, closest, others, Agree
        <5>. QED
          BY <3>12, <4>6, <5>2, <5>3, <5>4, <5>5, <5>6, <5>7 DEF Agree
      <4>7. CASE reason = "merchant_unclear"
        <5>1. detail = "no charge of the merchant"
          BY <4>7 DEF ReasonDetail
        <5>2. Says(detail, receipt, candidates) <=> \A t \in candidates : ~Named(receipt, t)
          BY <4>1, <5>1
        <5>3. AnotherHasIt(detail, receipt, others) <=> \E t \in others : Named(receipt, t)
          BY <5>1 DEF AnotherHasIt, Named
        <5>4. \/ candidates = {} /\ others = {}
              \/ /\ top \in candidates /\ others = candidates \ {top}
                 /\ ~Named(receipt, top)
          BY <3>1, <3>2, <3>5, <3>9, <3>15, <3>17, <3>18, <4>7
        <5>. HIDE DEF detail, closest, others
        <5>. QED
          BY <5>1, <5>2, <5>3, <5>4 DEF BarIsCleared, AmountIsNotTheReason
      <4>. QED
        BY <3>2, <4>3, <4>4, <4>5, <4>6, <4>7
    <3>10. answer.best # Null => maybe[1].whyNot = {}
      <4>. SUFFICES ASSUME answer.best # Null
                    PROVE  maybe[1].whyNot = {}
        OBVIOUS
      <4>1. 1 \in 1 .. m /\ maybe[1].whyNot = WhyNot(receipt, top) /\ Scored(top) >= MinScore
        BY <2>9, <3>4, <3>6
      <4>. HIDE DEF maybe, top
      <4>. QED
        BY <3>7, <4>1
    <3>11. \A i \in DOMAIN maybe :
             /\ DayDiff(receipt, maybe[i].txn) <= WindowDays
             /\ maybe[i].whyNot = {} <=> maybe[i].score >= MinScore
      BY <2>3, <2>4, <3>4, <3>7
    <3>20. reason = "amount_mismatch" /\ Known(receipt) /\ answer.best = Null =>
             closest.amount # receipt.total
      BY <3>2, <3>9, <3>13
    <3>21. /\ answer.fact.reason = reason /\ answer.fact.maybe = maybe
           /\ answer.fact.detail = detail
      BY <2>2 DEF reason, maybe, detail
    <3>. HIDE DEF reason, maybe, detail, n, Scored
    <3>. QED
      BY <2>2, <3>2, <3>8, <3>10, <3>11, <3>19, <3>20, <3>21 DEF ReasonsAreHonest
  <2>. QED
    BY <2>10, <2>11, <2>12 DEF MatchesAreSound
<1>. QED
  BY <1>1, Inductive, PTL

-----------------------------------------------------------------------------
\* A receipt and a charge of the window are each shown in one section of a digest,
\* whatever is linked while the digest reads (receipt-enrichment-load.ts:20-53,
\* receipt-enrichment-facts.ts:42-152).
THEOREM EverythingIsAlwaysShownOnce == Spec => []EverythingIsShownOnce
<1>1. IInv => EverythingIsShownOnce
  <2>. SUFFICES ASSUME IInv, Asked("sections")
                PROVE  EverythingIsShownOnce
    BY DEF EverythingIsShownOnce
  <2>1. PICK case \in SectionCases :
          /\ question = [about |-> "sections", case |-> case]
          /\ answer = Sections({r \in case.receipts : ~\E l \in case.before : l[1] = r},
                               case.after, case.txns)
    BY DEF IInv, SectionsAnswered
  <2>. DEFINE unlinked == {r \in case.receipts : ~\E l \in case.before : l[1] = r}
              matched == {f.receipt : f \in answer.matched}
              unmatched == {f.receipt : f \in answer.unmatched}
              charged == {f.charge : f \in answer.matched}
  <2>2. /\ answer.matched = MatchedFacts(case.after, case.txns)
        /\ answer.unmatched = {UnmatchedFact(r, case.txns) : r \in unlinked}
        /\ answer.missing = Missing(case.after, case.txns)
    BY <2>1 DEF Sections
  <2>3. \A r : UnmatchedFact(r, case.txns).receipt = r
    BY DEF UnmatchedFact
  <2>4. unmatched = unlinked
    BY <2>2, <2>3
  <2>5. /\ \A r : r \in matched <=> \E l \in case.after : l[1] = r /\ l[2] \in case.txns
        /\ \A t : t \in charged <=> \E l \in case.after : l[2] = t /\ t \in case.txns
    <3>1. \A f : f \in answer.matched <=>
            \E l \in case.after : l[2] \in case.txns /\ f = [receipt |-> l[1], charge |-> l[2]]
      BY <2>2 DEF MatchedFacts, LinksInWindow
    <3>2. \A l \in case.after : l[2] \in case.txns =>
            [receipt |-> l[1], charge |-> l[2]] \in answer.matched
      BY <3>1
    <3>3. \A l \in case.after : l[2] \in case.txns => l[1] \in matched /\ l[2] \in charged
      <4>. SUFFICES ASSUME NEW l \in case.after, l[2] \in case.txns
                    PROVE  l[1] \in matched /\ l[2] \in charged
        OBVIOUS
      <4>. DEFINE f == [receipt |-> l[1], charge |-> l[2]]
      <4>1. f \in answer.matched /\ f.receipt = l[1] /\ f.charge = l[2]
        BY <3>2
      <4>. QED
        BY <4>1
    <3>4. \A f \in answer.matched :
            \E l \in case.after : l[2] \in case.txns /\ l[1] = f.receipt /\ l[2] = f.charge
      BY <3>1
    <3>. QED
      BY <3>3, <3>4
  <2>6. \A r \in matched \cap unmatched : r \in {l[1] : l \in case.after \ case.before}
    BY <2>4, <2>5
  <2>7. \A r \in case.receipts \ (matched \cup unmatched) :
          \E l \in case.before : l[1] = r /\ l[2] \notin case.txns
    BY <2>4, <2>5, SectionAssumption
  <2>8. /\ charged \cap answer.missing = {}
        /\ \A t \in case.txns : t.category \in Triggers => t \in charged \cup answer.missing
    BY <2>2, <2>5 DEF Missing
  <2>. QED
    BY <2>1, <2>6, <2>7, <2>8 DEF EverythingIsShownOnce
<1>. QED
  BY <1>1, Inductive, PTL

-----------------------------------------------------------------------------
AtMost(v, values) == {i \in DOMAIN values : values[i] <= v}
Under(v, values) == {i \in DOMAIN values : values[i] < v}

LEMMA Ranks ==
  ASSUME NEW n \in Nat, NEW values \in [1 .. n -> Int], NEW I, I \subseteq 1 .. n
  PROVE  /\ IsFiniteSet(I) /\ Cardinality(I) \in Nat
         /\ \A J \in SUBSET I : IsFiniteSet(J) /\ Cardinality(J) <= Cardinality(I)
<1>1. IsFiniteSet(1 .. n)
  BY FS_Interval
<1>2. IsFiniteSet(I)
  BY <1>1, FS_Subset
<1>. QED
  BY <1>2, FS_Subset, FS_CardinalityType

\* The value at a place of the sorted sequence: the least one that enough values do
\* not exceed.
LEMMA SmallestIsThere ==
  ASSUME NEW n \in Nat, NEW values \in [1 .. n -> Int], NEW k \in 1 .. n
  PROVE  /\ Smallest(k, values) \in Int
         /\ \E i \in 1 .. n : values[i] = Smallest(k, values)
         /\ Cardinality(Under(Smallest(k, values), values)) < k
         /\ Cardinality(AtMost(Smallest(k, values), values)) >= k
<1>. DEFINE enough == {i \in 1 .. n : Cardinality(AtMost(values[i], values)) >= k}
<1>. DOMAIN values = 1 .. n
  OBVIOUS
<1>1. \A v \in Int : /\ AtMost(v, values) \subseteq 1 .. n /\ Under(v, values) \subseteq 1 .. n
                     /\ AtMost(v, values) = {i \in 1 .. n : values[i] <= v}
                     /\ Under(v, values) = {i \in 1 .. n : values[i] < v}
  BY DEF AtMost, Under
<1>2. \A i \in 1 .. n : values[i] \in Int
  OBVIOUS
<1>3. enough # {}
  <2>1. IsFiniteSet(1 .. n) /\ Cardinality(1 .. n) = n
    BY FS_Interval
  <2>2. PICK i \in 1 .. n : \A j \in 1 .. n : values[j] <= values[i]
    BY <1>2, <2>1, Greatest
  <2>3. AtMost(values[i], values) = 1 .. n
    BY <1>1, <2>2
  <2>. QED
    BY <2>1, <2>3
<1>4. PICK i \in enough : \A j \in enough : values[i] <= values[j]
  <2>1. IsFiniteSet(enough) /\ \A j \in enough : values[j] \in Int
    BY Ranks, <1>2
  <2>. HIDE DEF enough
  <2>. QED
    BY <1>3, <2>1, Least
<1>. DEFINE v == values[i]
<1>5. v \in Int /\ i \in 1 .. n /\ Cardinality(AtMost(v, values)) >= k
  BY <1>2, <1>4
<1>6. Cardinality(Under(v, values)) < k
  <2>. DEFINE below == Under(v, values)
  <2>1. CASE below = {}
    BY <2>1, FS_EmptySet
  <2>2. CASE below # {}
    <3>1. IsFiniteSet(below) /\ Cardinality(below) \in Nat /\ \A j \in below : values[j] \in Int
      BY <1>1, <1>2, <1>5, Ranks
    <3>2. PICK w \in below : \A j \in below : values[j] <= values[w]
      <4>. HIDE DEF below
      <4>. QED
        BY <2>2, <3>1, Greatest
    <3>3. w \in 1 .. n /\ values[w] < v /\ values[w] \in Int
      BY <1>1, <1>2, <1>5
    <3>4. AtMost(values[w], values) = below
      <4>1. AtMost(values[w], values) \subseteq below
        BY <1>1, <1>2, <1>5, <3>3
      <4>2. below \subseteq AtMost(values[w], values)
        BY <1>1, <1>5, <3>2, <3>3
      <4>. QED
        BY <4>1, <4>2
    <3>5. w \notin enough
      BY <1>4, <1>5, <3>3
    <3>. QED
      BY <3>1, <3>3, <3>4, <3>5
  <2>. QED
    BY <2>1, <2>2
<1>7. v \in Range(values)
  BY <1>5 DEF Range
<1>8. Smallest(k, values) = CHOOSE u \in Range(values) :
        Cardinality(Under(u, values)) < k /\ Cardinality(AtMost(u, values)) >= k
  BY DEF Smallest, Under, AtMost
<1>. DEFINE s == Smallest(k, values)
<1>9. /\ s \in Range(values)
      /\ Cardinality(Under(s, values)) < k /\ Cardinality(AtMost(s, values)) >= k
  BY <1>5, <1>6, <1>7, <1>8
<1>. QED
  BY <1>2, <1>9 DEF Range

LEMMA SmallestIsSorted ==
  ASSUME NEW n \in Nat, NEW values \in [1 .. n -> Int], NEW k \in 1 .. n, k + 1 \in 1 .. n
  PROVE  Smallest(k, values) <= Smallest(k + 1, values)
<1>. DEFINE first == Smallest(k, values)
            second == Smallest(k + 1, values)
<1>1. first \in Int /\ Cardinality(Under(first, values)) < k
  BY SmallestIsThere
<1>2. second \in Int /\ Cardinality(AtMost(second, values)) >= k + 1
  BY SmallestIsThere
<1>. SUFFICES ASSUME second < first
              PROVE  FALSE
  BY <1>1, <1>2
<1>3. AtMost(second, values) \subseteq Under(first, values) /\ Under(first, values) \subseteq 1 .. n
  BY <1>1, <1>2 DEF AtMost, Under
<1>4. /\ Cardinality(AtMost(second, values)) <= Cardinality(Under(first, values))
      /\ Cardinality(Under(first, values)) \in Nat /\ Cardinality(AtMost(second, values)) \in Nat
  BY <1>3, Ranks
<1>. QED
  BY <1>1, <1>2, <1>4

LEMMA HalfUp ==
  ASSUME NEW x \in Int
  PROVE  Rounded(x, 2) \in Int /\ 2 * Rounded(x, 2) >= x /\ 2 * Rounded(x, 2) <= x + 1
BY DEF Rounded

\* At least half of the values are no greater than the median; the median of equal
\* values is their value, and of positive values is positive.
LEMMA MedianIsInTheMiddle ==
  ASSUME NEW n \in Nat, n >= 2, NEW values \in [1 .. n -> Int], Len(values) = n
  PROVE  /\ Median(values) \in Int
         /\ 2 * Cardinality(AtMost(Median(values), values)) >= n
         /\ \A v \in Int : (\A i \in 1 .. n : values[i] = v) => Median(values) = v
         /\ (\A i \in 1 .. n : values[i] > 0) => Median(values) > 0
<1>. DEFINE mid == n \div 2
            upper == Smallest(mid + 1, values)
<1>1. mid \in 1 .. n /\ mid + 1 \in 1 .. n /\ (n = 2 * mid \/ n = 2 * mid + 1)
  OBVIOUS
<1>2. mid \in Nat /\ (n % 2 = 0 <=> n = 2 * mid)
  OBVIOUS
<1>3. Median(values) = IF n % 2 = 0 THEN Rounded(Smallest(mid, values) + upper, 2) ELSE upper
  BY DEF Median
<1>. HIDE DEF mid
<1>4. /\ upper \in Int /\ \E i \in 1 .. n : values[i] = upper
      /\ Cardinality(AtMost(upper, values)) >= mid + 1
  BY <1>1, SmallestIsThere
<1>. DEFINE lower == Smallest(mid, values)
<1>5. /\ lower \in Int /\ \E i \in 1 .. n : values[i] = lower
      /\ Cardinality(AtMost(lower, values)) >= mid /\ lower <= upper
  BY <1>1, SmallestIsThere, SmallestIsSorted
<1>. HIDE DEF upper, lower
<1>6. ASSUME NEW u \in Int, NEW m \in Int, u <= m
      PROVE  /\ Cardinality(AtMost(u, values)) <= Cardinality(AtMost(m, values))
             /\ Cardinality(AtMost(u, values)) \in Nat /\ Cardinality(AtMost(m, values)) \in Nat
  <2>1. AtMost(u, values) \subseteq AtMost(m, values) /\ AtMost(m, values) \subseteq 1 .. n
    BY <1>6 DEF AtMost
  <2>. QED
    BY <2>1, Ranks
<1>7. CASE n % 2 = 0
  <2>1. Median(values) = Rounded(lower + upper, 2) /\ n = 2 * mid
    BY <1>2, <1>3, <1>7 DEF lower, upper
  <2>2. /\ Median(values) \in Int
        /\ 2 * Median(values) >= lower + upper /\ 2 * Median(values) <= lower + upper + 1
    BY <1>4, <1>5, <2>1, HalfUp
  <2>3. lower <= Median(values)
    BY <1>4, <1>5, <2>2
  <2>4. 2 * Cardinality(AtMost(Median(values), values)) >= n
    <3>1. /\ Cardinality(AtMost(lower, values)) <= Cardinality(AtMost(Median(values), values))
          /\ Cardinality(AtMost(lower, values)) \in Nat
          /\ Cardinality(AtMost(Median(values), values)) \in Nat
      BY <1>5, <1>6, <2>2, <2>3
    <3>. QED
      BY <1>2, <1>5, <2>1, <3>1
  <2>5. ASSUME NEW v \in Int, \A i \in 1 .. n : values[i] = v
        PROVE  Median(values) = v
    <3>1. lower = v /\ upper = v
      BY <1>4, <1>5, <2>5
    <3>. QED
      BY <2>2, <3>1
  <2>6. ASSUME \A i \in 1 .. n : values[i] > 0
        PROVE  Median(values) > 0
    <3>1. lower > 0
      BY <1>5, <2>6
    <3>. QED
      BY <1>5, <2>2, <2>3, <3>1
  <2>. QED
    BY <2>2, <2>4, <2>5, <2>6
<1>8. CASE n % 2 # 0
  <2>1. Median(values) = upper /\ n = 2 * mid + 1
    BY <1>1, <1>2, <1>3, <1>8
  <2>2. 2 * Cardinality(AtMost(Median(values), values)) >= n
    <3>1. Cardinality(AtMost(upper, values)) \in Nat
      BY <1>4, <1>6
    <3>. QED
      BY <1>2, <1>4, <2>1, <3>1
  <2>3. ASSUME NEW v \in Int, \A i \in 1 .. n : values[i] = v
        PROVE  upper = v
    BY <1>4, <2>3
  <2>4. ASSUME \A i \in 1 .. n : values[i] > 0
        PROVE  upper > 0
    BY <1>4, <2>4
  <2>. QED
    BY <1>4, <2>1, <2>2, <2>3, <2>4
<1>. QED
  BY <1>7, <1>8

\* A reason is among the verdicts when its detector says so.
Among(r, s) == \E i \in DOMAIN s : s[i] = r

LEMMA PartOfSequence ==
  ASSUME NEW T, NEW s \in Seq(T), NEW i \in 1 .. Len(s)
  PROVE  s[i] \in T
OBVIOUS

LEMMA Joined ==
  ASSUME NEW T, NEW s \in Seq(T), NEW t \in Seq(T)
  PROVE  /\ s \o t \in Seq(T)
         /\ \A r : Among(r, s \o t) <=> Among(r, s) \/ Among(r, t)
<1>1. /\ DOMAIN s = 1 .. Len(s) /\ DOMAIN t = 1 .. Len(t)
      /\ DOMAIN (s \o t) = 1 .. Len(s) + Len(t)
      /\ Len(s) \in Nat /\ Len(t) \in Nat
  OBVIOUS
<1>2. ASSUME NEW r, NEW i \in DOMAIN (s \o t), (s \o t)[i] = r
      PROVE  Among(r, s) \/ Among(r, t)
  <2>1. CASE i <= Len(s)
    <3>1. i \in DOMAIN s /\ s[i] = r
      BY <1>1, <1>2, <2>1
    <3>. QED
      BY <3>1 DEF Among
  <2>2. CASE i > Len(s)
    <3>1. i - Len(s) \in DOMAIN t /\ t[i - Len(s)] = r
      BY <1>1, <1>2, <2>2
    <3>. QED
      BY <3>1 DEF Among
  <2>. QED
    BY <1>1, <1>2, <2>1, <2>2
<1>3. ASSUME NEW r, NEW i \in DOMAIN s, s[i] = r
      PROVE  Among(r, s \o t)
  <2>1. i \in DOMAIN (s \o t) /\ (s \o t)[i] = r
    BY <1>1, <1>3
  <2>. QED
    BY <2>1 DEF Among
<1>4. ASSUME NEW r, NEW i \in DOMAIN t, t[i] = r
      PROVE  Among(r, s \o t)
  <2>1. Len(s) + i \in DOMAIN (s \o t) /\ (s \o t)[Len(s) + i] = r
    BY <1>1, <1>4
  <2>. QED
    BY <2>1 DEF Among
<1>5. s \o t \in Seq(T)
  OBVIOUS
<1>. QED
  BY <1>2, <1>3, <1>4, <1>5 DEF Among

LEMMA OneReason ==
  ASSUME NEW T, NEW reason \in T
  PROVE  <<reason>> \in Seq(T) /\ \A r : Among(r, <<reason>>) <=> r = reason
<1>1. <<reason>> \in Seq(T) /\ Len(<<reason>>) = 1
  OBVIOUS
<1>2. DOMAIN <<reason>> = 1 .. 1 /\ <<reason>>[1] = reason
  OBVIOUS
<1>3. 1 .. 1 = {1}
  OBVIOUS
<1>. HIDE DEF Among
<1>4. \A r : Among(r, <<reason>>) <=> \E i \in {1} : <<reason>>[i] = r
  BY <1>2, <1>3, Zenon DEF Among
<1>. QED
  BY <1>1, <1>2, <1>4

LEMMA NoReason ==
  ASSUME NEW T
  PROVE  << >> \in Seq(T) /\ \A r : ~Among(r, << >>)
  BY DEF Among

LEMMA VerdictsAre ==
  ASSUME NEW txn, NEW history, NEW baseline, answer = Verdicts(txn, history, baseline)
  PROVE  /\ Raised("price_increase") <=> PriceIncrease(txn, history)
         /\ Raised("duplicate_charge") <=> Duplicate(txn, history)
<1>. DEFINE T == {"price_increase", "duplicate_charge", "new_subscription", "unusual_spend"}
            v1 == Verdict(PriceIncrease(txn, history), "price_increase")
            v2 == Verdict(Duplicate(txn, history), "duplicate_charge")
            v3 == Verdict(NewSubscription(txn, history), "new_subscription")
            v4 == Verdict(Unusual(txn, baseline), "unusual_spend")
<1>1. answer = ((v1 \o v2) \o v3) \o v4
  BY DEF Verdicts
<1>2. \A reason : <<reason>> # << >>
  OBVIOUS
<1>3. /\ v1 = <<"price_increase">> \/ v1 = << >>
      /\ v1 = <<"price_increase">> <=> PriceIncrease(txn, history)
      /\ v2 = <<"duplicate_charge">> \/ v2 = << >>
      /\ v2 = <<"duplicate_charge">> <=> Duplicate(txn, history)
      /\ v3 = <<"new_subscription">> \/ v3 = << >>
      /\ v4 = <<"unusual_spend">> \/ v4 = << >>
  BY <1>2, Zenon DEF Verdict
<1>. HIDE DEF v1, v2, v3, v4
<1>4. /\ "price_increase" \in T /\ "duplicate_charge" \in T
      /\ "new_subscription" \in T /\ "unusual_spend" \in T
  OBVIOUS
<1>. HIDE DEF T
<1>5. /\ v1 \in Seq(T)
      /\ \A r : Among(r, v1) <=> PriceIncrease(txn, history) /\ r = "price_increase"
  <2>1. CASE PriceIncrease(txn, history)
    BY <1>3, <2>1, <1>4, OneReason
  <2>2. CASE ~PriceIncrease(txn, history)
    BY <1>3, <2>2, NoReason
  <2>. QED
    BY <2>1, <2>2
<1>6. /\ v2 \in Seq(T)
      /\ \A r : Among(r, v2) <=> Duplicate(txn, history) /\ r = "duplicate_charge"
  <2>1. CASE Duplicate(txn, history)
    BY <1>3, <2>1, <1>4, OneReason
  <2>2. CASE ~Duplicate(txn, history)
    BY <1>3, <2>2, NoReason
  <2>. QED
    BY <2>1, <2>2
<1>7. v3 \in Seq(T) /\ \A r : Among(r, v3) => r = "new_subscription"
  <2>1. CASE v3 = <<"new_subscription">>
    BY <2>1, <1>4, OneReason
  <2>2. CASE v3 = << >>
    BY <2>2, NoReason
  <2>. QED
    BY <1>3, <2>1, <2>2
<1>8. v4 \in Seq(T) /\ \A r : Among(r, v4) => r = "unusual_spend"
  <2>1. CASE v4 = <<"unusual_spend">>
    BY <2>1, <1>4, OneReason
  <2>2. CASE v4 = << >>
    BY <2>2, NoReason
  <2>. QED
    BY <1>3, <2>1, <2>2
<1>9. v1 \o v2 \in Seq(T) /\ \A r : Among(r, v1 \o v2) <=> Among(r, v1) \/ Among(r, v2)
  BY <1>5, <1>6, Joined
<1>10. /\ (v1 \o v2) \o v3 \in Seq(T)
       /\ \A r : Among(r, (v1 \o v2) \o v3) <=> Among(r, v1 \o v2) \/ Among(r, v3)
  BY <1>7, <1>9, Joined
<1>11. \A r : Among(r, answer) <=> Among(r, (v1 \o v2) \o v3) \/ Among(r, v4)
  <2>. DEFINE three == (v1 \o v2) \o v3
  <2>1. three \o v4 = answer
    BY <1>1
  <2>2. three \in Seq(T) /\ v4 \in Seq(T)
    BY <1>8, <1>10
  <2>. HIDE DEF three
  <2>3. \A r : Among(r, three \o v4) <=> Among(r, three) \/ Among(r, v4)
    BY <2>2, Joined
  <2>4. \A r : Among(r, answer) <=> Among(r, three) \/ Among(r, v4)
    BY <2>1, <2>3
  <2>. QED
    BY <2>4 DEF three
<1>12. \A r : Raised(r) <=> Among(r, answer)
  BY DEF Raised, Among
<1>13. \A r : Raised(r) <=> Among(r, v1) \/ Among(r, v2) \/ Among(r, v3) \/ Among(r, v4)
  BY <1>9, <1>10, <1>11, <1>12
<1>14. \A r : r \notin {"new_subscription", "unusual_spend"} =>
         (Raised(r) <=> \/ PriceIncrease(txn, history) /\ r = "price_increase"
                        \/ Duplicate(txn, history) /\ r = "duplicate_charge")
  BY <1>5, <1>6, <1>7, <1>8, <1>13
<1>. QED
  BY <1>14

\* A charge is reported for what it is, whichever charges the merchant has and in
\* whichever order they are evaluated, when the factor of an increase is above one,
\* as config/default.yaml:35 has it (anomaly-detectors.ts:28-120).
THEOREM AlertsAreAlwaysJustified ==
  ASSUME IncreasePercent > 100
  PROVE  Spec => []AlertsAreJustified
<1>1. IInv => AlertsAreJustified
  <2>. SUFFICES ASSUME IInv, Asked("charge")
                PROVE  AlertsAreJustified
    BY DEF AlertsAreJustified, DuplicateSeenFromBoth, IncreaseIsAboveTheUsual
  <2>1. PICK case \in EvaluationCases :
          /\ question = [about |-> "charge", case |-> case]
          /\ answer = Verdicts(case.txn, case.history, case.baseline)
    BY DEF IInv, ChargeAnswered
  <2>. DEFINE txn == case.txn
              history == case.history
              n == Len(history)
              values == [i \in DOMAIN history |-> history[i].amount]
              median == Median(values)
  <2>2. /\ question.case.txn = txn /\ question.case.history = history
        /\ txn.amount \in Int /\ txn.at \in Int
        /\ history \in Seq([amount : Int, at : Int])
    BY <2>1, EvaluationAssumption
  <2>3. /\ n \in Nat /\ DOMAIN history = 1 .. n
        /\ \A i \in 1 .. n : history[i].amount \in Int /\ history[i].at \in Int
    <3>1. n \in Nat /\ DOMAIN history = 1 .. n
      BY <2>2
    <3>2. \A i \in 1 .. n : history[i] \in [amount : Int, at : Int]
      BY <2>2, PartOfSequence
    <3>. QED
      BY <3>1, <3>2
  <2>4. /\ values \in [1 .. n -> Int] /\ Len(values) = n /\ DOMAIN values = 1 .. n
        /\ \A i \in 1 .. n : values[i] = history[i].amount
    BY <2>3
  <2>5. /\ Raised("price_increase") <=> PriceIncrease(txn, history)
        /\ Raised("duplicate_charge") <=> Duplicate(txn, history)
    BY <2>1, VerdictsAre
  <2>6. PriceIncrease(txn, history) <=>
          n >= 2 /\ median # 0 /\ 100 * txn.amount >= IncreasePercent * median
    BY DEF PriceIncrease
  <2>. HIDE DEF txn, history, n, values, median
  <2>7. n >= 2 =>
          /\ median \in Int
          /\ 2 * Cardinality(AtMost(median, values)) >= n
          /\ \A v \in Int : (\A i \in 1 .. n : values[i] = v) => median = v
          /\ (\A i \in 1 .. n : values[i] > 0) => median > 0
    BY <2>3, <2>4, MedianIsInTheMiddle DEF median
  <2>8. \A m \in Int : m > 0 => IncreasePercent * m > 100 * m
    BY SpendingConfigAssumption
  <2>9. IncreasePercent \in Nat
    BY SpendingConfigAssumption
  <2>10. DuplicateSeenFromBoth
    <3>1. ASSUME NEW i \in DOMAIN history, history[i].amount = txn.amount,
                 Magnitude(history[i].at - txn.at) = DuplicateTicks
          PROVE  Duplicate(txn, history) /\ Duplicate(history[i], <<txn>>)
      <4>1. history[i].at \in Int /\ txn.at \in Int /\ DuplicateTicks \in Nat \ {0}
        BY <2>2, <2>3, SpendingConfigAssumption
      <4>2. Magnitude(txn.at - history[i].at) = DuplicateTicks
        BY <3>1, <4>1 DEF Magnitude
      <4>3. DuplicateTicks \in 1 .. DuplicateTicks
        BY <4>1
      <4>4. Duplicate(txn, history)
        BY <3>1, <4>2, <4>3 DEF Duplicate
      <4>5. DOMAIN <<txn>> = {1} /\ <<txn>>[1] = txn
        OBVIOUS
      <4>6. Duplicate(history[i], <<txn>>)
        BY <3>1, <4>3, <4>5 DEF Duplicate
      <4>. QED
        BY <4>4, <4>6
    <3>2. ASSUME \A i \in DOMAIN history : history[i].amount = txn.amount, txn.amount > 0
          PROVE  ~PriceIncrease(txn, history)
      <4>1. n >= 2 => median = txn.amount
        <5>1. \A i \in 1 .. n : values[i] = txn.amount
          BY <2>3, <2>4, <3>2
        <5>. QED
          BY <2>2, <2>7, <5>1
      <4>2. IncreasePercent * txn.amount > 100 * txn.amount
        BY <2>2, <2>8, <3>2
      <4>3. IncreasePercent * txn.amount \in Int /\ 100 * txn.amount \in Int
        BY <2>2, <2>9
      <4>. QED
        BY <2>6, <4>1, <4>2, <4>3
    <3>. QED
      BY <2>2, <2>5, <3>1, <3>2 DEF DuplicateSeenFromBoth
  <2>11. IncreaseIsAboveTheUsual
    <3>. SUFFICES ASSUME PriceIncrease(txn, history),
                         \A i \in DOMAIN history : history[i].amount > 0
                  PROVE  /\ txn.amount > 0
                         /\ 2 * Cardinality({i \in DOMAIN history : history[i].amount < txn.amount}) >= n
      BY <2>2, <2>5 DEF IncreaseIsAboveTheUsual, n
    <3>. DEFINE below == {i \in DOMAIN history : history[i].amount < txn.amount}
    <3>1. n >= 2 /\ median \in Int /\ median > 0 /\ 100 * txn.amount >= IncreasePercent * median
      BY <2>3, <2>4, <2>6, <2>7
    <3>2. IncreasePercent * median > 100 * median
      BY <2>8, <3>1
    <3>3. median < txn.amount
      <4>1. IncreasePercent * median \in Int
        BY <2>9, <3>1
      <4>. QED
        BY <2>2, <3>1, <3>2, <4>1
    <3>4. AtMost(median, values) \subseteq below /\ below \subseteq 1 .. n
      <4>1. ASSUME NEW i \in AtMost(median, values)
            PROVE  i \in 1 .. n /\ history[i].amount <= median
        BY <2>4 DEF AtMost
      <4>2. ASSUME NEW i \in 1 .. n, history[i].amount <= median
            PROVE  history[i].amount < txn.amount
        <5>1. history[i].amount \in Int /\ txn.amount \in Int /\ median \in Int
          BY <2>2, <2>3, <3>1
        <5>. QED
          BY <3>3, <4>2, <5>1
      <4>. QED
        BY <2>3, <4>1, <4>2
    <3>5. /\ Cardinality(AtMost(median, values)) <= Cardinality(below)
          /\ Cardinality(below) \in Nat /\ Cardinality(AtMost(median, values)) \in Nat
      BY <2>3, <2>4, <3>4, Ranks
    <3>6. txn.amount > 0
      <4>1. txn.amount \in Int /\ median \in Int /\ median > 0
        BY <2>2, <3>1
      <4>. QED
        BY <3>3, <4>1
    <3>7. 2 * Cardinality(AtMost(median, values)) >= n
      BY <2>7, <3>1
    <3>. HIDE DEF below
    <3>8. 2 * Cardinality(below) >= n
      BY <2>3, <3>5, <3>7
    <3>. QED
      BY <3>6, <3>8 DEF below
  <2>. QED
    BY <2>10, <2>11 DEF AlertsAreJustified
<1>. QED
  BY <1>1, Inductive, PTL

-----------------------------------------------------------------------------
\* A sum over a set is a function of its subsets: nothing for the empty one, and for
\* another one of its elements and the sum of the rest.
IsSum(g, f, S) ==
    g = [s \in SUBSET S |-> IF s = {} THEN 0
                            ELSE f[CHOOSE x \in s : TRUE] + g[s \ {CHOOSE x \in s : TRUE}]]

Sums(f, S) == CHOOSE g : IsSum(g, f, S)

LEMMA SumIs ==
  ASSUME NEW f, NEW S
  PROVE  SumOf(f, S) = Sums(f, S)[S]
BY DEF SumOf, Sums, IsSum, MapThenSumSet, MapThenFoldSet

\* There is such a function: it is found for the subsets of a size after those of
\* the size below.
LEMMA SumsAreThere ==
  ASSUME NEW S, IsFiniteSet(S), NEW f
  PROVE  IsSum(Sums(f, S), f, S)
<1>. DEFINE pick(s) == CHOOSE x \in s : TRUE
            UpTo(n) == {s \in SUBSET S : Cardinality(s) <= n}
            Next1(g, s) == IF s = {} THEN 0 ELSE f[pick(s)] + g[s \ {pick(s)}]
            Found(n) == \E g : \A s \in UpTo(n) : g[s] = Next1(g, s)
            Lost == {n \in Nat : ~Found(n)}
<1>1. \A s \in SUBSET S : /\ IsFiniteSet(s) /\ Cardinality(s) \in Nat
                          /\ Cardinality(s) <= Cardinality(S) /\ Cardinality(S) \in Nat
                          /\ Cardinality(s) = 0 <=> s = {}
  BY FS_Subset, FS_CardinalityType, FS_EmptySet
<1>2. \A s \in SUBSET S : s # {} => pick(s) \in s
  OBVIOUS
<1>3. \A s \in SUBSET S : s # {} =>
        s \ {pick(s)} \in SUBSET S /\ Cardinality(s \ {pick(s)}) = Cardinality(s) - 1
  BY <1>1, <1>2, FS_RemoveElement
<1>. HIDE DEF pick
<1>4. Lost = {}
  <2>. SUFFICES ASSUME Lost # {}
                PROVE  FALSE
    OBVIOUS
  <2>1. PICK n \in Lost : \A m \in Lost : n <= m
    <3>1. Lost \in SUBSET Nat
      OBVIOUS
    <3>. HIDE DEF Lost
    <3>. QED
      BY <3>1, LeastNumber
  <2>2. CASE n = 0
    <3>1. \A s \in UpTo(n) : s = {}
      BY <1>1, <2>2
    <3>2. \A s \in UpTo(n) : [s1 \in SUBSET S |-> 0][s] = Next1([s1 \in SUBSET S |-> 0], s)
      BY <3>1
    <3>. QED
      BY <2>1, <3>2
  <2>3. CASE n # 0
    <3>1. n - 1 \in Nat /\ n - 1 \notin Lost
      <4>1. n \in Nat
        BY <2>1
      <4>. HIDE DEF Lost
      <4>2. n - 1 \in Nat /\ ~(n <= n - 1)
        BY <2>3, <4>1
      <4>. QED
        BY <2>1, <4>2
    <3>2. PICK g : \A s \in UpTo(n - 1) : g[s] = Next1(g, s)
      BY <3>1
    <3>. DEFINE h == [s \in SUBSET S |-> Next1(g, s)]
    <3>3. ASSUME NEW s \in UpTo(n)
          PROVE  h[s] = Next1(h, s)
      <4>1. CASE s = {}
        BY <4>1
      <4>2. CASE s # {}
        <5>. DEFINE r == s \ {pick(s)}
        <5>1. r \in UpTo(n - 1)
          BY <1>1, <1>3, <2>1, <4>2
        <5>2. h[r] = g[r]
          BY <3>2, <5>1
        <5>3. h[s] = f[pick(s)] + g[r]
          BY <4>2
        <5>. QED
          BY <4>2, <5>2, <5>3
      <4>. QED
        BY <4>1, <4>2
    <3>. HIDE DEF h, Next1
    <3>4. Found(n)
      BY <3>3
    <3>. QED
      BY <2>1, <3>4
  <2>. QED
    BY <2>2, <2>3
<1>5. PICK g : \A s \in SUBSET S : g[s] = Next1(g, s)
  <2>1. Cardinality(S) \in Nat /\ UpTo(Cardinality(S)) = SUBSET S
    BY <1>1
  <2>2. Found(Cardinality(S))
    BY <1>4, <2>1
  <2>. HIDE DEF Next1
  <2>. QED
    BY <2>1, <2>2
<1>. DEFINE h == [s \in SUBSET S |-> g[s]]
<1>6. h = [s \in SUBSET S |-> Next1(h, s)]
  <2>1. ASSUME NEW s \in SUBSET S
        PROVE  h[s] = Next1(h, s)
    <3>1. CASE s = {}
      BY <1>5, <3>1
    <3>2. CASE s # {}
      <4>1. h[s] = f[pick(s)] + g[s \ {pick(s)}]
        BY <1>5, <3>2
      <4>2. h[s \ {pick(s)}] = g[s \ {pick(s)}]
        BY <1>3, <3>2
      <4>. QED
        BY <3>2, <4>1, <4>2
    <3>. QED
      BY <3>1, <3>2
  <2>. HIDE DEF Next1
  <2>2. h = [s \in SUBSET S |-> h[s]]
    OBVIOUS
  <2>. HIDE DEF h
  <2>. QED
    BY <2>1, <2>2
<1>7. IsSum(h, f, S)
  BY <1>6 DEF IsSum, pick
<1>. QED
  BY <1>7 DEF Sums

\* Which element is taken out does not matter.
Adds(g, f, S) ==
    /\ g[{}] = 0
    /\ \A s \in SUBSET S : g[s] \in Int
    /\ \A s \in SUBSET S : \A y \in s : g[s] = f[y] + g[s \ {y}]

LEMMA SumsStep ==
  ASSUME NEW S, IsFiniteSet(S), NEW f, \A x \in S : f[x] \in Int
  PROVE  Adds(Sums(f, S), f, S)
<1>. DEFINE pick(s) == CHOOSE x \in s : TRUE
            g == Sums(f, S)
<1>1. \A s \in SUBSET S :
        g[s] = IF s = {} THEN 0 ELSE f[pick(s)] + g[s \ {pick(s)}]
  <2>1. IsSum(g, f, S)
    BY SumsAreThere
  <2>2. g = [s \in SUBSET S |-> IF s = {} THEN 0 ELSE f[pick(s)] + g[s \ {pick(s)}]]
    BY <2>1 DEF IsSum
  <2>. HIDE DEF g, pick
  <2>. QED
    BY <2>2
<1>2. \A s \in SUBSET S : s # {} => pick(s) \in s
  OBVIOUS
<1>. HIDE DEF g, pick
<1>3. \A s \in SUBSET S : g[s] \in Int
  <2>. DEFINE W == {s \in SUBSET S : g[s] \notin Int}
  <2>. SUFFICES ASSUME W # {}
                PROVE  FALSE
    OBVIOUS
  <2>1. PICK s \in W : \A x \in s : s \ {x} \notin W
    BY SmallestSubset
  <2>2. CASE s = {}
    <3>1. g[{}] = 0 /\ g[s] \notin Int
      BY <1>1, <2>1
    <3>. QED
      BY <2>2, <3>1
  <2>3. CASE s # {}
    <3>1. pick(s) \in s /\ s \ {pick(s)} \in SUBSET S /\ f[pick(s)] \in Int
      BY <1>2, <2>1, <2>3
    <3>2. g[s \ {pick(s)}] \in Int
      BY <2>1, <3>1
    <3>. QED
      BY <1>1, <2>1, <2>3, <3>1, <3>2
  <2>. QED
    BY <2>2, <2>3
<1>4. \A s \in SUBSET S : \A y \in s : g[s] = f[y] + g[s \ {y}]
  <2>. DEFINE W == {s \in SUBSET S : \E y \in s : g[s] # f[y] + g[s \ {y}]}
  <2>. SUFFICES ASSUME W # {}
                PROVE  FALSE
    OBVIOUS
  <2>1. PICK s \in W : \A x \in s : s \ {x} \notin W
    BY SmallestSubset
  <2>2. PICK y \in s : g[s] # f[y] + g[s \ {y}]
    BY <2>1
  <2>. DEFINE x == pick(s)
  <2>3. x \in s /\ g[s] = f[x] + g[s \ {x}] /\ s \in SUBSET S
    BY <1>1, <1>2, <2>1, <2>2
  <2>4. CASE x = y
    BY <2>2, <2>3, <2>4
  <2>5. CASE x # y
    <3>1. /\ y \in s \ {x} /\ x \in s \ {y}
          /\ s \ {x} \in SUBSET S /\ s \ {y} \in SUBSET S /\ (s \ {x}) \ {y} \in SUBSET S
          /\ (s \ {x}) \ {y} = (s \ {y}) \ {x}
      BY <2>2, <2>3, <2>5
    <3>2. g[s \ {x}] = f[y] + g[(s \ {x}) \ {y}]
      BY <2>1, <2>3, <3>1
    <3>3. g[s \ {y}] = f[x] + g[(s \ {y}) \ {x}]
      BY <2>1, <2>2, <3>1
    <3>. DEFINE r == g[(s \ {x}) \ {y}]
    <3>4. f[x] \in Int /\ f[y] \in Int /\ r \in Int
      BY <1>3, <2>2, <2>3, <3>1
    <3>5. g[s] = f[x] + (f[y] + r) /\ g[s \ {y}] = f[x] + r
      BY <2>3, <3>1, <3>2, <3>3
    <3>. HIDE DEF x, r
    <3>6. g[s] = f[y] + g[s \ {y}]
      BY <3>4, <3>5
    <3>. QED
      BY <2>2, <3>6
  <2>. QED
    BY <2>4, <2>5
<1>5. g[{}] = 0
  BY <1>1
<1>. QED
  BY <1>3, <1>4, <1>5 DEF g, Adds

\* The sum over a part is the same, as a part or by itself.
LEMMA SumOfPart ==
  ASSUME NEW S, IsFiniteSet(S), NEW f, \A x \in S : f[x] \in Int,
         NEW T \in SUBSET S, NEW h, \A x \in T : h[x] = f[x]
  PROVE  SumOf(h, T) = Sums(f, S)[T]
<1>. DEFINE g == Sums(f, S)
            k == Sums(h, T)
            W == {s \in SUBSET T : k[s] # g[s]}
<1>1. IsFiniteSet(T) /\ \A x \in T : h[x] \in Int
  BY FS_Subset
<1>2. Adds(k, h, T) /\ Adds(g, f, S)
  BY <1>1, SumsStep
<1>. HIDE DEF g, k
<1>3. W = {}
  <2>. SUFFICES ASSUME W # {}
                PROVE  FALSE
    OBVIOUS
  <2>1. PICK s \in W : \A x \in s : s \ {x} \notin W
    BY <1>1, SmallestSubset
  <2>2. s # {}
    BY <1>2, <2>1 DEF Adds
  <2>3. PICK y \in s : TRUE
    BY <2>2
  <2>4. s \ {y} \in SUBSET T /\ k[s \ {y}] = g[s \ {y}] /\ y \in T /\ s \in SUBSET S
    BY <2>1, <2>3
  <2>5. k[s] = h[y] + k[s \ {y}] /\ g[s] = f[y] + g[s \ {y}]
    BY <1>2, <2>1, <2>3, <2>4 DEF Adds
  <2>. QED
    BY <2>1, <2>4, <2>5
<1>4. k[T] = g[T]
  BY <1>3
<1>. QED
  BY <1>4, SumIs DEF g, k

\* What is needed of sums: they are numbers, nothing sums to 0, an element can be
\* taken out, and only the values count.
LEMMA SumFacts ==
  ASSUME NEW S, IsFiniteSet(S), NEW f, \A x \in S : f[x] \in Int
  PROVE  /\ SumOf(f, S) \in Int
         /\ S = {} => SumOf(f, S) = 0
         /\ \A y \in S : SumOf(f, S) = f[y] + SumOf(f, S \ {y})
         /\ \A h : (\A x \in S : h[x] = f[x]) => SumOf(h, S) = SumOf(f, S)
<1>1. SumOf(f, S) = Sums(f, S)[S]
  BY SumIs
<1>. Adds(Sums(f, S), f, S)
  BY SumsStep
<1>2. SumOf(f, S) \in Int /\ (S = {} => SumOf(f, S) = 0)
  BY <1>1 DEF Adds
<1>3. ASSUME NEW y \in S
      PROVE  SumOf(f, S) = f[y] + SumOf(f, S \ {y})
  <2>1. SumOf(f, S \ {y}) = Sums(f, S)[S \ {y}]
    BY SumOfPart
  <2>2. Sums(f, S)[S] = f[y] + Sums(f, S)[S \ {y}]
    BY DEF Adds
  <2>. QED
    BY <1>1, <2>1, <2>2
<1>4. ASSUME NEW h, \A x \in S : h[x] = f[x]
      PROVE  SumOf(h, S) = SumOf(f, S)
  BY <1>1, <1>4, SumOfPart
<1>. QED
  BY <1>2, <1>3, <1>4

\* The sum over two sets apart is that of both.
LEMMA SumOfUnion ==
  ASSUME NEW S, IsFiniteSet(S), NEW f, \A x \in S : f[x] \in Int,
         NEW A \in SUBSET S, NEW B \in SUBSET S, A \cap B = {}
  PROVE  SumOf(f, A \cup B) = SumOf(f, A) + SumOf(f, B)
<1>. DEFINE W == {T \in SUBSET B : SumOf(f, A \cup T) # SumOf(f, A) + SumOf(f, T)}
<1>1. \A T \in SUBSET S : IsFiniteSet(T) /\ SumOf(f, T) \in Int /\ (T = {} => SumOf(f, T) = 0)
  BY FS_Subset, SumFacts
<1>2. \A T \in SUBSET S : \A y \in T : SumOf(f, T) = f[y] + SumOf(f, T \ {y})
  BY <1>1, SumFacts
<1>3. W = {}
  <2>. SUFFICES ASSUME W # {}
                PROVE  FALSE
    OBVIOUS
  <2>1. PICK T \in W : \A x \in T : T \ {x} \notin W
    BY <1>1, SmallestSubset
  <2>2. T \in SUBSET S /\ A \cup T \in SUBSET S
    BY <2>1
  <2>3. CASE T = {}
    <3>1. A \cup T = A
      BY <2>3
    <3>. QED
      BY <1>1, <2>1, <2>2, <2>3, <3>1
  <2>4. CASE T # {}
    <3>1. PICK y \in T : TRUE
      BY <2>4
    <3>2. /\ T \ {y} \in SUBSET S /\ A \cup (T \ {y}) \in SUBSET S
          /\ (A \cup T) \ {y} = A \cup (T \ {y}) /\ y \in A \cup T /\ y \in S
      BY <2>1, <2>2, <3>1
    <3>3. SumOf(f, A \cup (T \ {y})) = SumOf(f, A) + SumOf(f, T \ {y})
      BY <2>1, <3>1, <3>2
    <3>. DEFINE a == SumOf(f, A)
                t == SumOf(f, T \ {y})
    <3>4. SumOf(f, A \cup T) = f[y] + (a + t) /\ SumOf(f, T) = f[y] + t
      BY <1>2, <2>2, <3>1, <3>2, <3>3
    <3>5. a \in Int /\ t \in Int /\ f[y] \in Int
      BY <1>1, <3>2
    <3>. HIDE DEF a, t
    <3>6. f[y] + (a + t) = a + (f[y] + t)
      BY <3>5
    <3>7. SumOf(f, A \cup T) = a + SumOf(f, T)
      BY <3>4, <3>6
    <3>. QED
      BY <2>1, <3>7 DEF a
  <2>. QED
    BY <2>3, <2>4
<1>. QED
  BY <1>3

\* The sums of the kinds add up to the sum.
OfKind(c, k, S) == {x \in S : k[x] = c}

LEMMA SumOfKinds ==
  ASSUME NEW S, IsFiniteSet(S), NEW f, \A x \in S : f[x] \in Int,
         NEW C, IsFiniteSet(C), NEW k, \A x \in S : k[x] \in C,
         NEW g, \A c \in C : g[c] = SumOf(f, OfKind(c, k, S))
  PROVE  SumOf(g, C) = SumOf(f, S)
<1>. DEFINE of(D) == {x \in S : k[x] \in D}
            W == {D \in SUBSET C : SumOf(g, D) # SumOf(f, of(D))}
<1>1. \A T \in SUBSET S : IsFiniteSet(T) /\ SumOf(f, T) \in Int /\ (T = {} => SumOf(f, T) = 0)
  BY FS_Subset, SumFacts
<1>2. \A c \in C : g[c] \in Int
  BY <1>1 DEF OfKind
<1>3. W = {}
  <2>. SUFFICES ASSUME W # {}
                PROVE  FALSE
    OBVIOUS
  <2>1. PICK D \in W : \A c \in D : D \ {c} \notin W
    BY <1>1, SmallestSubset
  <2>2. IsFiniteSet(D) /\ D \in SUBSET C /\ \A c \in D : g[c] \in Int
    BY <1>2, <2>1, FS_Subset
  <2>3. CASE D = {}
    <3>1. of(D) = {}
      BY <2>3
    <3>2. SumOf(f, of(D)) = 0
      BY <1>1, <3>1
    <3>3. SumOf(g, D) = 0
      BY <2>2, <2>3, SumFacts
    <3>. QED
      BY <2>1, <3>2, <3>3
  <2>4. CASE D # {}
    <3>1. PICK c \in D : TRUE
      BY <2>4
    <3>. DEFINE A == of(D \ {c})
                B == OfKind(c, k, S)
    <3>2. A \in SUBSET S /\ B \in SUBSET S /\ A \cap B = {} /\ of(D) = A \cup B
      BY <2>1, <3>1 DEF OfKind
    <3>3. SumOf(g, D \ {c}) = SumOf(f, A)
      BY <2>1, <3>1
    <3>4. g[c] = SumOf(f, B) /\ SumOf(f, A) \in Int /\ SumOf(f, B) \in Int
      BY <1>1, <2>2, <3>1, <3>2
    <3>. HIDE DEF A, B, W
    <3>5. SumOf(f, A \cup B) = SumOf(f, A) + SumOf(f, B)
      BY <3>2, SumOfUnion
    <3>6. SumOf(g, D) = g[c] + SumOf(g, D \ {c})
      BY <2>2, <3>1, SumFacts
    <3>7. SumOf(g, D) = SumOf(f, of(D))
      <4>. HIDE DEF of
      <4>. QED
        BY <3>2, <3>3, <3>4, <3>5, <3>6
    <3>. QED
      BY <2>1, <3>7 DEF W
  <2>. QED
    BY <2>3, <2>4
<1>4. of(C) = S
  OBVIOUS
<1>5. SumOf(g, C) = SumOf(f, of(C))
  BY <1>3
<1>. QED
  BY <1>4, <1>5

LEMMA KindsAreFinite ==
  ASSUME NEW S, IsFiniteSet(S), NEW k
  PROVE  IsFiniteSet({k[x] : x \in S})
<1>. DEFINE W == {T \in SUBSET S : ~IsFiniteSet({k[x] : x \in T})}
<1>. SUFFICES ASSUME W # {}
              PROVE  FALSE
  OBVIOUS
<1>1. PICK T \in W : \A x \in T : T \ {x} \notin W
  BY SmallestSubset
<1>2. CASE T = {}
  <2>1. {k[x] : x \in T} = {}
    BY <1>2
  <2>. QED
    BY <1>1, <2>1, FS_EmptySet
<1>3. CASE T # {}
  <2>1. PICK y \in T : TRUE
    BY <1>3
  <2>2. IsFiniteSet({k[x] : x \in T \ {y}})
    BY <1>1, <2>1
  <2>3. {k[x] : x \in T} = {k[x] : x \in T \ {y}} \cup {k[y]}
    BY <2>1
  <2>. DEFINE R == {k[x] : x \in T \ {y}}
  <2>4. IsFiniteSet(R \cup {k[y]})
    <3>. HIDE DEF R
    <3>. QED
      BY <2>2, FS_AddElement DEF R
  <2>. QED
    BY <1>1, <2>3, <2>4
<1>. QED
  BY <1>2, <1>3

\* Rounding is off by no more than a half.
LEMMA RoundedIsNear ==
  ASSUME NEW n \in Int, NEW d \in Nat \ {0}
  PROVE  /\ Rounded(n, d) \in Int
         /\ -d <= 2 * (d * Rounded(n, d)) - 2 * n
         /\ 2 * (d * Rounded(n, d)) - 2 * n <= d
<1>. DEFINE a == 2 * n + d
            b == 2 * d
            q == a \div b
<1>1. a \in Int /\ b \in Int /\ b > 0
  OBVIOUS
<1>. HIDE DEF a, b
<1>2. q \in Int /\ b * q <= a /\ a < b * q + b
  BY <1>1
<1>3. q = Rounded(n, d)
  BY DEF a, b, Rounded
<1>. HIDE DEF q
<1>4. b * q = 2 * (d * q)
  BY <1>2 DEF b
<1>. DEFINE p == d * q
<1>5. p \in Int
  BY <1>2
<1>6. 2 * p <= a /\ a < 2 * p + b
  BY <1>2, <1>4
<1>. HIDE DEF p
<1>7. -d <= 2 * p - 2 * n /\ 2 * p - 2 * n <= d
  BY <1>5, <1>6 DEF a, b
<1>. QED
  BY <1>2, <1>3, <1>7 DEF p

\* What the roundings of parts are off by in all: half a point for each.
LEMMA RoundedSum ==
  ASSUME NEW C, IsFiniteSet(C), NEW a, \A c \in C : a[c] \in Int,
         NEW m \in Int, NEW d \in Nat \ {0},
         NEW r, \A c \in C : r[c] = Rounded(m * a[c], d)
  PROVE  /\ SumOf(r, C) \in Int
         /\ -(d * Cardinality(C)) <= 2 * (d * SumOf(r, C)) - 2 * (m * SumOf(a, C))
         /\ 2 * (d * SumOf(r, C)) - 2 * (m * SumOf(a, C)) <= d * Cardinality(C)
<1>. DEFINE Holds(D) ==
              /\ -(d * Cardinality(D)) <= 2 * (d * SumOf(r, D)) - 2 * (m * SumOf(a, D))
              /\ 2 * (d * SumOf(r, D)) - 2 * (m * SumOf(a, D)) <= d * Cardinality(D)
            W == {D \in SUBSET C : ~Holds(D)}
<1>1. ASSUME NEW c \in C
      PROVE  /\ r[c] \in Int
             /\ -d <= 2 * (d * r[c]) - 2 * (m * a[c])
             /\ 2 * (d * r[c]) - 2 * (m * a[c]) <= d
  <2>1. m * a[c] \in Int
    OBVIOUS
  <2>. DEFINE n == m * a[c]
  <2>. HIDE DEF n
  <2>2. /\ Rounded(n, d) \in Int
        /\ -d <= 2 * (d * Rounded(n, d)) - 2 * n
        /\ 2 * (d * Rounded(n, d)) - 2 * n <= d
    BY <2>1, RoundedIsNear DEF n
  <2>. QED
    BY <2>2 DEF n
<1>2. \A D \in SUBSET C : /\ IsFiniteSet(D) /\ Cardinality(D) \in Nat
                          /\ SumOf(r, D) \in Int /\ SumOf(a, D) \in Int
  <2>. SUFFICES ASSUME NEW D \in SUBSET C
                PROVE  /\ IsFiniteSet(D) /\ Cardinality(D) \in Nat
                       /\ SumOf(r, D) \in Int /\ SumOf(a, D) \in Int
    OBVIOUS
  <2>1. IsFiniteSet(D) /\ Cardinality(D) \in Nat
    BY FS_Subset, FS_CardinalityType
  <2>2. SumOf(r, D) \in Int
    BY <1>1, <2>1, SumFacts
  <2>3. SumOf(a, D) \in Int
    BY <2>1, SumFacts
  <2>. QED
    BY <2>1, <2>2, <2>3
<1>3. W = {}
  <2>. SUFFICES ASSUME W # {}
                PROVE  FALSE
    OBVIOUS
  <2>1. PICK D \in W : \A c \in D : D \ {c} \notin W
    BY SmallestSubset
  <2>2. D \in SUBSET C /\ IsFiniteSet(D) /\ \A c \in D : r[c] \in Int /\ a[c] \in Int
    BY <1>1, <1>2, <2>1
  <2>3. CASE D = {}
    <3>1. Cardinality(D) = 0 /\ SumOf(r, D) = 0 /\ SumOf(a, D) = 0
      BY <2>2, <2>3, FS_EmptySet, SumFacts
    <3>2. Holds(D)
      BY <3>1
    <3>. QED
      BY <2>1, <3>2
  <2>4. CASE D # {}
    <3>1. PICK c \in D : TRUE
      BY <2>4
    <3>. DEFINE n == Cardinality(D \ {c})
                x == SumOf(r, D \ {c})
                y == SumOf(a, D \ {c})
                rc == r[c]
                ac == a[c]
    <3>2. /\ n \in Nat /\ x \in Int /\ y \in Int /\ rc \in Int /\ ac \in Int
          /\ D \ {c} \in SUBSET C
      BY <1>1, <1>2, <2>1, <3>1
    <3>3. Cardinality(D) = n + 1
      BY <1>2, <2>2, <3>1, FS_RemoveElement
    <3>4. SumOf(r, D) = rc + x
      BY <2>2, <3>1, SumFacts
    <3>5. SumOf(a, D) = ac + y
      BY <2>2, <3>1, SumFacts
    <3>6. Holds(D \ {c})
      <4>. HIDE DEF Holds
      <4>. QED
        BY <2>1, <3>1, <3>2
    <3>7. -d <= 2 * (d * rc) - 2 * (m * ac) /\ 2 * (d * rc) - 2 * (m * ac) <= d
      BY <1>1, <2>2, <3>1
    <3>8. /\ -(d * n) <= 2 * (d * x) - 2 * (m * y)
          /\ 2 * (d * x) - 2 * (m * y) <= d * n
      BY <3>6
    <3>. HIDE DEF n, x, y, rc, ac
    <3>. DEFINE dx == d * x
                dr == d * rc
                my == m * y
                ma == m * ac
                dn == d * n
    <3>9. dx \in Int /\ dr \in Int /\ my \in Int /\ ma \in Int /\ dn \in Int
      BY <3>2
    <3>10. /\ d * (rc + x) = dr + dx /\ m * (ac + y) = ma + my /\ d * (n + 1) = dn + d
      BY <3>2
    <3>11. /\ -d <= 2 * dr - 2 * ma /\ 2 * dr - 2 * ma <= d
           /\ -dn <= 2 * dx - 2 * my /\ 2 * dx - 2 * my <= dn
      BY <3>7, <3>8
    <3>. HIDE DEF dx, dr, my, ma, dn
    <3>12. /\ -(dn + d) <= 2 * (dr + dx) - 2 * (ma + my)
           /\ 2 * (dr + dx) - 2 * (ma + my) <= dn + d
      BY <3>9, <3>11
    <3>13. Holds(D)
      BY <3>3, <3>4, <3>5, <3>10, <3>12
    <3>. HIDE DEF Holds
    <3>. QED
      BY <2>1, <3>13
  <2>. QED
    BY <2>3, <2>4
<1>4. Holds(C)
  BY <1>3
<1>. QED
  BY <1>2, <1>4

-----------------------------------------------------------------------------
\* The trends of the categories, and their shares.
LEMMA TrendIsTrue ==
  ASSUME NEW amount \in Int, NEW base \in Nat \ {0}
  PROVE  LET trend == Trend(amount, base)
         IN /\ trend.direction = "up" => amount > base
            /\ trend.direction = "down" => amount < base
            /\ trend.direction = "flat" => trend.percent <= FlatPercent
            /\ 2 * Magnitude(base * trend.percent - 100 * Magnitude(amount - base)) <= base
<1>. DEFINE change == 100 * (amount - base)
            far == Magnitude(change)
            flat == FlatPercent * base
            p == Rounded(far, base)
            bp == base * p
<1>1. FlatPercent \in Nat /\ flat \in Nat /\ change \in Int
  BY SpendingConfigAssumption
<1>2. far \in Nat /\ far = 100 * Magnitude(amount - base)
  BY DEF Magnitude
<1>3. /\ Trend(amount, base).direction = IF change > flat THEN "up"
                                         ELSE IF change < -flat THEN "down" ELSE "flat"
      /\ Trend(amount, base).percent = p
  <2>1. Ratio(amount, base) = [n |-> amount, d |-> base]
    BY DEF Ratio
  <2>2. -FlatPercent * base = -flat
    BY <1>1
  <2>. QED
    BY <2>1, <2>2 DEF Trend
<1>4. p \in Int /\ bp \in Int /\ -base <= 2 * bp - 2 * far /\ 2 * bp - 2 * far <= base
  <2>. HIDE DEF far
  <2>1. far \in Int
    BY <1>2
  <2>2. p \in Int /\ -base <= 2 * bp - 2 * far /\ 2 * bp - 2 * far <= base
    BY <2>1, RoundedIsNear
  <2>. HIDE DEF p
  <2>. QED
    BY <2>2
<1>5. 2 * Magnitude(bp - far) <= base
  <2>. HIDE DEF bp, far
  <2>. QED
    BY <1>2, <1>4 DEF Magnitude
<1>6. far <= flat => p <= FlatPercent
  <2>. SUFFICES ASSUME far <= flat, p > FlatPercent
                PROVE  FALSE
    BY <1>1, <1>4
  <2>1. bp >= base * (FlatPercent + 1)
    <3>. HIDE DEF p
    <3>. DEFINE more == p - (FlatPercent + 1)
    <3>1. more \in Nat /\ p = FlatPercent + 1 + more
      BY <1>1, <1>4
    <3>2. base * more >= 0 /\ base * more \in Int
      BY <3>1
    <3>3. base * p = base * (FlatPercent + 1) + base * more
      BY <1>1, <3>1
    <3>. QED
      BY <1>1, <3>2, <3>3
  <2>2. base * (FlatPercent + 1) = flat + base
    BY <1>1
  <2>. HIDE DEF bp, far, flat
  <2>. QED
    BY <1>1, <1>2, <1>4, <2>1, <2>2
<1>7. (~(change > flat) /\ ~(change < -flat)) => far <= flat
  <2>. HIDE DEF change, flat
  <2>. QED
    BY <1>1 DEF Magnitude
<1>8. /\ change > flat => amount > base
      /\ change < -flat => amount < base
  <2>. HIDE DEF flat
  <2>. QED
    BY <1>1
<1>. HIDE DEF change, far, flat, p
<1>. QED
  BY <1>2, <1>3, <1>5, <1>6, <1>7, <1>8

LEMMA Divided ==
  ASSUME NEW d \in Nat \ {0}, NEW x \in Int, NEW y \in Int, d * x <= d * y
  PROVE  x <= y
<1>. SUFFICES ASSUME x > y
              PROVE  FALSE
  OBVIOUS
<1>. DEFINE more == x - y - 1
<1>1. more \in Nat /\ x = y + 1 + more
  OBVIOUS
<1>2. d * x = d * y + d + d * more /\ d * more >= 0 /\ d * y \in Int /\ d * more \in Int
  BY <1>1
<1>. HIDE DEF more
<1>. QED
  BY <1>2

LEMMA SharesAddUp ==
  ASSUME NEW C, IsFiniteSet(C), NEW a, \A c \in C : a[c] \in Int,
         SumOf(a, C) # 0,
         NEW r, \A c \in C : r[c] = Share(a[c], SumOf(a, C))
  PROVE  2 * Magnitude(SumOf(r, C) - 100) <= Cardinality(C)
<1>. DEFINE total == SumOf(a, C)
            n == Cardinality(C)
            shares == SumOf(r, C)
<1>1. total \in Int /\ total # 0 /\ n \in Nat
  BY SumFacts, FS_CardinalityType
<1>2. \E d \in Nat \ {0} :
        /\ shares \in Int
        /\ -(d * n) <= 2 * (d * shares) - 2 * (100 * d)
        /\ 2 * (d * shares) - 2 * (100 * d) <= d * n
  <2>1. CASE total > 0
    <3>. HIDE DEF total
    <3>1. \A c \in C : r[c] = Rounded(100 * a[c], total)
      BY <1>1, <2>1 DEF Share, total
    <3>2. /\ shares \in Int
          /\ -(total * n) <= 2 * (total * shares) - 2 * (100 * total)
          /\ 2 * (total * shares) - 2 * (100 * total) <= total * n
      <4>1. total \in Nat \ {0} /\ 100 \in Int
        BY <1>1, <2>1
      <4>. QED
        BY <3>1, <4>1, RoundedSum DEF total
    <3>. QED
      BY <1>1, <2>1, <3>2
  <2>2. CASE total < 0
    <3>. DEFINE d == -total
                m == -100
    <3>. HIDE DEF total
    <3>1. \A c \in C : r[c] = Rounded(m * a[c], d)
      BY <1>1, <2>2 DEF Share, total
    <3>2. d \in Nat \ {0} /\ m \in Int /\ m * total = 100 * d
      BY <1>1, <2>2
    <3>. HIDE DEF d, m
    <3>3. /\ shares \in Int
          /\ -(d * n) <= 2 * (d * shares) - 2 * (m * total)
          /\ 2 * (d * shares) - 2 * (m * total) <= d * n
      BY <3>1, <3>2, RoundedSum DEF total
    <3>. QED
      BY <3>2, <3>3
  <2>. QED
    BY <1>1, <2>1, <2>2
<1>3. PICK d \in Nat \ {0} :
        /\ shares \in Int
        /\ -(d * n) <= 2 * (d * shares) - 2 * (100 * d)
        /\ 2 * (d * shares) - 2 * (100 * d) <= d * n
  BY <1>2
<1>. HIDE DEF shares, n
<1>. DEFINE off == 2 * shares - 200
<1>4. off \in Int /\ d * off = 2 * (d * shares) - 2 * (100 * d) /\ d * (-n) = -(d * n)
  BY <1>1, <1>3
<1>5. off <= n /\ -n <= off
  <2>1. d * off <= d * n /\ d * (-n) <= d * off
    BY <1>3, <1>4
  <2>. HIDE DEF off
  <2>2. -n \in Int /\ n \in Int
    BY <1>1
  <2>. QED
    BY <1>4, <2>1, <2>2, Divided
<1>. QED
  BY <1>1, <1>3, <1>5 DEF Magnitude, shares, n

\* The categories of a week have the total, whatever they are called.
LEMMA CategoriesAddUp ==
  ASSUME NEW txns \in WeekCases
  PROVE  LET named == {t.category : t \in Active(txns)}
         IN /\ IsFiniteSet(named)
            /\ \A c : Total(OfCategory(c, txns)) \in Int
            /\ \A a : (\A c \in named : a[c] = Total(OfCategory(c, txns))) =>
                         SumOf(a, named) = Total(Active(txns))
<1>. DEFINE S == Active(txns)
            f == [t \in S |-> t.amount]
            k == [t \in S |-> t.category]
            named == {t.category : t \in S}
<1>1. IsFiniteSet(txns) /\ \A t \in txns : t.amount \in Int
  BY WeekAssumption
<1>2. S \subseteq txns /\ IsFiniteSet(S)
  BY <1>1, FS_Subset DEF Active
<1>3. \A x \in S : f[x] \in Int
  BY <1>1, <1>2
<1>4. \A c : OfCategory(c, txns) = OfKind(c, k, S)
  BY DEF OfCategory, OfKind
<1>5. \A T \in SUBSET S : Total(T) = SumOf(f, T) /\ Total(T) \in Int
  <2>. SUFFICES ASSUME NEW T \in SUBSET S
                PROVE  Total(T) = SumOf(f, T) /\ Total(T) \in Int
    OBVIOUS
  <2>. DEFINE h == [t \in T |-> t.amount]
  <2>1. IsFiniteSet(T) /\ \A x \in T : f[x] \in Int /\ h[x] = f[x]
    BY <1>2, <1>3, FS_Subset
  <2>. HIDE DEF f, h
  <2>2. SumOf(h, T) = SumOf(f, T) /\ SumOf(f, T) \in Int
    BY <2>1, SumFacts
  <2>. QED
    BY <2>2 DEF Total, h
<1>6. named = {k[x] : x \in S} /\ \A x \in S : k[x] \in named
  OBVIOUS
<1>7. IsFiniteSet(named)
  <2>. HIDE DEF k, named
  <2>. QED
    BY <1>2, <1>6, KindsAreFinite
<1>8. \A c : Total(OfCategory(c, txns)) = SumOf(f, OfKind(c, k, S))
             /\ Total(OfCategory(c, txns)) \in Int
  BY <1>4, <1>5 DEF OfKind
<1>9. ASSUME NEW a, \A c \in named : a[c] = Total(OfCategory(c, txns))
      PROVE  SumOf(a, named) = Total(S)
  <2>1. \A c \in named : a[c] = SumOf(f, OfKind(c, k, S))
    BY <1>8, <1>9
  <2>. HIDE DEF S, f, k, named
  <2>2. SumOf(a, named) = SumOf(f, S)
    BY <1>2, <1>3, <1>6, <1>7, <2>1, SumOfKinds
  <2>3. Total(S) = SumOf(f, S)
    BY <1>5
  <2>. QED
    BY <2>2, <2>3
<1>. QED
  BY <1>7, <1>8, <1>9

\* The figures of a digest add up to what was spent, their shares to a hundred but
\* for the rounding, and up and down are so (digest-facts.ts:36-148,
\* monthly-report-facts.ts:26-67).
THEOREM FiguresAreAlwaysTrue == Spec => []FiguresAreTrue
<1>1. IInv => FiguresAreTrue
  <2>. SUFFICES ASSUME IInv
                PROVE  FiguresAreTrue
    OBVIOUS
  <2>1. ASSUME Asked("digest")
        PROVE  /\ LET categories == Summary.categories
                      named == DOMAIN categories
                      shares == SumOf([c \in named |-> categories[c].share], named)
                  IN /\ Summary.total = Total(Spent(question.txns))
                     /\ Summary.total = SumOf([c \in named |-> categories[c].amount], named)
                     /\ Summary.total # 0 =>
                          2 * Magnitude(shares - 100) <= Cardinality(DOMAIN categories)
               /\ TrendsAreTrue
    <3>1. PICK txns \in WeekCases, baselines \in BaselineCases, prose \in ProseCases :
          \E raised \in {{}} \cup {{t} : t \in txns} :
            /\ question = [about |-> "digest", txns |-> txns, baselines |-> baselines,
                           prose |-> prose]
            /\ answer = [facts |-> DigestFacts(txns, baselines, raised),
                         accepted |-> Accepted(prose, DigestMoney(DigestFacts(txns, baselines, raised)))]
      BY <2>1 DEF IInv, DigestAnswered
    <3>. DEFINE named == {t.category : t \in Active(txns)}
                amount(c) == Total(OfCategory(c, txns))
                total == Total(Active(txns))
                a == [c \in named |-> amount(c)]
                r == [c \in named |-> Share(amount(c), total)]
    <3>2. /\ question.txns = txns /\ question.baselines = baselines
          /\ Summary.total = total
          /\ Summary.categories = [c \in named |-> CategoryFact(c, txns, baselines)]
      BY <3>1 DEF Summary, DigestFacts
    <3>3. DOMAIN Summary.categories = named
      BY <3>2
    <3>4. \A c \in named : /\ Summary.categories[c].amount = amount(c)
                           /\ Summary.categories[c].share = Share(amount(c), total)
                           /\ Summary.categories[c].trend =
                                IF c \in DOMAIN baselines /\ baselines[c].samples >= MinSamples
                                THEN Trend(amount(c), baselines[c].mean) ELSE NoTrend
      BY <3>2 DEF CategoryFact
    <3>5. /\ IsFiniteSet(named) /\ \A c \in named : a[c] \in Int
          /\ SumOf(a, named) = total
      BY CategoriesAddUp
    <3>6. /\ [c \in named |-> Summary.categories[c].amount] = a
          /\ [c \in named |-> Summary.categories[c].share] = r
      BY <3>4
    <3>7. total # 0 => 2 * Magnitude(SumOf(r, named) - 100) <= Cardinality(named)
      <4>1. \A c \in named : r[c] = Share(a[c], SumOf(a, named))
        BY <3>5
      <4>. HIDE DEF r, a, named, total
      <4>. QED
        BY <3>5, <4>1, SharesAddUp
    <3>8. Spent(txns) = Active(txns)
      BY DEF Spent, Active
    <3>9. TrendsAreTrue
      <4>. SUFFICES ASSUME NEW c \in named
                    PROVE  LET fact == Summary.categories[c]
                               base == baselines[c].mean
                           IN /\ fact.trend # NoTrend =>
                                   c \in DOMAIN baselines /\ baselines[c].samples >= MinSamples
                              /\ fact.trend # NoTrend /\ base > 0 =>
                                   /\ fact.trend.direction = "up" => fact.amount > base
                                   /\ fact.trend.direction = "down" => fact.amount < base
                                   /\ fact.trend.direction = "flat" =>
                                        fact.trend.percent <= FlatPercent
                                   /\ 2 * Magnitude(base * fact.trend.percent
                                                      - 100 * Magnitude(fact.amount - base))
                                        <= base
        BY <3>2, <3>3 DEF TrendsAreTrue
      <4>. DEFINE base == baselines[c].mean
      <4>1. CASE ~(c \in DOMAIN baselines /\ baselines[c].samples >= MinSamples)
        BY <3>4, <4>1
      <4>2. CASE c \in DOMAIN baselines /\ baselines[c].samples >= MinSamples
        <5>1. base \in Int /\ amount(c) \in Int
          BY <3>5, <4>2, WeekAssumption
        <5>2. /\ Summary.categories[c].trend = Trend(amount(c), base)
              /\ Summary.categories[c].amount = amount(c)
          BY <3>4, <4>2
        <5>. DEFINE m == amount(c)
        <5>. HIDE DEF base, m
        <5>3. base > 0 =>
                LET trend == Trend(m, base)
                IN /\ trend.direction = "up" => m > base
                   /\ trend.direction = "down" => m < base
                   /\ trend.direction = "flat" => trend.percent <= FlatPercent
                   /\ 2 * Magnitude(base * trend.percent - 100 * Magnitude(m - base)) <= base
          <6>1. m \in Int
            BY <5>1 DEF m
          <6>2. base > 0 => base \in Nat \ {0}
            BY <5>1
          <6>. QED
            BY <6>1, <6>2, TrendIsTrue
        <5>. QED
          BY <4>2, <5>2, <5>3 DEF base, m
      <4>. QED
        BY <4>1, <4>2
    <3>. HIDE DEF named, total, a, r
    <3>. QED
      BY <3>2, <3>3, <3>5, <3>6, <3>7, <3>8, <3>9 DEF total
  <2>2. ASSUME Asked("report")
        PROVE  Summary.total = SumOf(Summary.categories, DOMAIN Summary.categories)
    <3>1. PICK txns \in WeekCases : Summary = MonthlyFacts(txns)
      BY <2>2 DEF IInv, ReportAnswered, Summary
    <3>. DEFINE named == {t.category : t \in Active(txns)}
                a == [c \in named |-> Total(OfCategory(c, txns))]
    <3>2. /\ Summary.total = Total(Active(txns))
          /\ Summary.categories = a
      BY <3>1 DEF MonthlyFacts, DigestFacts, CategoryFact
    <3>3. SumOf(a, named) = Total(Active(txns))
      BY CategoriesAddUp
    <3>. QED
      BY <3>2, <3>3
  <2>3. TrendsAreTrue
    BY <2>1 DEF TrendsAreTrue
  <2>. QED
    BY <2>1, <2>2, <2>3 DEF FiguresAreTrue, FactsAddUp
<1>. QED
  BY <1>1, Inductive, PTL

-----------------------------------------------------------------------------
\* The days before a day, and before a month.
LEMMA SumToFacts ==
  ASSUME NEW m \in Nat, NEW l, \A i \in 1 .. m : l[i] \in Nat
  PROVE  /\ SumTo(l, 0) = 0
         /\ \A n \in 0 .. m : SumTo(l, n) \in Nat
         /\ \A n \in 1 .. m : SumTo(l, n) = l[n] + SumTo(l, n - 1)
         /\ \A a, b \in 0 .. m : a <= b => SumTo(l, a) <= SumTo(l, b)
<1>1. \A n : SumTo(l, n) = SumOf(l, 1 .. n)
  BY DEF SumTo, SumOf
<1>2. SumTo(l, 0) = 0
  <2>1. 1 .. 0 = {} /\ IsFiniteSet({})
    BY FS_EmptySet
  <2>2. SumOf(l, {}) = 0
    BY <2>1, SumFacts
  <2>. QED
    BY <1>1, <2>1, <2>2
<1>3. ASSUME NEW n \in 1 .. m
      PROVE  SumTo(l, n) = l[n] + SumTo(l, n - 1)
  <2>1. IsFiniteSet(1 .. n) /\ n \in 1 .. n /\ (1 .. n) \ {n} = 1 .. n - 1
    BY FS_Interval
  <2>2. \A i \in 1 .. n : l[i] \in Int
    OBVIOUS
  <2>. DEFINE S == 1 .. n
  <2>3. SumOf(l, S) = l[n] + SumOf(l, S \ {n})
    <3>1. IsFiniteSet(S) /\ n \in S /\ \A i \in S : l[i] \in Int
      BY <2>1, <2>2
    <3>. HIDE DEF S
    <3>. QED
      BY <3>1, SumFacts
  <2>. QED
    BY <1>1, <2>1, <2>3
<1>. DEFINE t(n) == SumTo(l, n)
            Small == {n \in 0 .. m : t(n) \notin Nat}
            Falls == {b \in 0 .. m : \E a \in 0 .. m : a <= b /\ ~(t(a) <= t(b))}
<1>4. t(0) = 0 /\ \A n \in 1 .. m : t(n) = l[n] + t(n - 1)
  BY <1>2, <1>3
<1>. HIDE DEF t
<1>5. Small = {}
  <2>. SUFFICES ASSUME Small # {}
                PROVE  FALSE
    OBVIOUS
  <2>1. PICK n \in Small : \A k \in Small : n <= k
    <3>1. Small \in SUBSET Nat
      OBVIOUS
    <3>. HIDE DEF Small
    <3>. QED
      BY <3>1, LeastNumber
  <2>2. n \in 1 .. m
    BY <1>4, <2>1
  <2>3. n - 1 \in 0 .. m /\ ~(n <= n - 1)
    BY <2>2
  <2>4. t(n - 1) \in Nat
    BY <2>1, <2>3
  <2>5. l[n] \in Nat /\ t(n) = l[n] + t(n - 1)
    BY <1>4, <2>2
  <2>. QED
    BY <2>1, <2>4, <2>5
<1>6. Falls = {}
  <2>. SUFFICES ASSUME Falls # {}
                PROVE  FALSE
    OBVIOUS
  <2>1. PICK b \in Falls : \A k \in Falls : b <= k
    <3>1. Falls \in SUBSET Nat
      OBVIOUS
    <3>. HIDE DEF Falls
    <3>. QED
      BY <3>1, LeastNumber
  <2>2. PICK a \in 0 .. m : a <= b /\ ~(t(a) <= t(b))
    BY <2>1
  <2>3. \A n \in 0 .. m : t(n) \in Nat
    BY <1>5
  <2>4. a # b
    BY <2>1, <2>2, <2>3
  <2>5. b \in 1 .. m /\ b - 1 \in 0 .. m /\ a <= b - 1 /\ ~(b <= b - 1)
    BY <2>1, <2>2, <2>4
  <2>6. t(a) <= t(b - 1)
    BY <2>1, <2>2, <2>5
  <2>7. t(b) = l[b] + t(b - 1) /\ l[b] \in Nat
    BY <1>4, <2>5
  <2>. QED
    BY <2>2, <2>3, <2>5, <2>6, <2>7
<1>. QED
  BY <1>2, <1>3, <1>5, <1>6 DEF t

\* The digest of an instant has the seven dates up to the last midnight before it.
LEMMA DatesAre ==
  ASSUME NEW at \in Int
  PROVE  LET last == (at - 1) \div 24
         IN /\ LastDate(WeekWindow(at)) = last /\ last \in Int
            /\ Dates(WeekWindow(at)) = last - 6 .. last
<1>. DEFINE last == (at - 1) \div 24
            lo == (at - 168) \div 24
            hi == at \div 24
<1>1. WeekWindow(at) = [start |-> at - 168, end |-> at]
  BY DEF WeekWindow, WeekHours
<1>2. LastDate(WeekWindow(at)) = last /\ last \in Int
  BY <1>1 DEF LastDate
<1>3. Dates(WeekWindow(at)) = {n \in lo .. hi : at - 168 <= 24 * n /\ 24 * n < at}
  BY <1>1 DEF Dates, Covers
<1>4. /\ 24 * last <= at - 1 /\ at - 1 < 24 * last + 24
      /\ lo \in Int /\ 24 * lo <= at - 168
      /\ hi \in Int /\ at < 24 * hi + 24
  OBVIOUS
<1>. HIDE DEF last, lo, hi
<1>5. \A n \in Int : (n \in lo .. hi /\ at - 168 <= 24 * n /\ 24 * n < at) <=> n \in last - 6 .. last
  BY <1>2, <1>4
<1>6. lo .. hi \subseteq Int /\ last - 6 .. last \subseteq Int
  BY <1>2, <1>4
<1>. QED
  BY <1>2, <1>3, <1>5, <1>6 DEF last

LEMMA AtLeastNone ==
  ASSUME NEW n \in Int
  PROVE  Max({0, n}) = IF n > 0 THEN n ELSE 0
BY DEF Max

\* The month of an instant of the calendar.
LEMMA MonthIsThere ==
  ASSUME NEW at \in MonthStart(2) .. MonthStart(Len(Months) + 1) - 1
  PROVE  /\ MonthOf(at) \in 1 .. Len(Months)
         /\ MonthStart(MonthOf(at)) <= at /\ at < MonthStart(MonthOf(at) + 1)
<1>. DEFINE len == Len(Months)
            month(n) == SumTo(Months, n)
            day(n) == SumTo(Days, n)
<1>1. len \in Nat /\ len # 0 /\ DOMAIN Months = 1 .. len /\ \A i \in 1 .. len : Months[i] \in Nat
  BY CalendarAssumption
<1>2. /\ \A n \in 0 .. len : month(n) \in Nat /\ month(n) <= month(len)
      /\ month(0) = 0
  <2>. HIDE DEF len
  <2>1. /\ month(0) = 0 /\ \A n \in 0 .. len : month(n) \in Nat
        /\ \A a, b \in 0 .. len : a <= b => month(a) <= month(b)
    BY <1>1, SumToFacts
  <2>. HIDE DEF month
  <2>. QED
    BY <1>1, <2>1
<1>3. Len(Days) \in Nat /\ \A i \in 1 .. Len(Days) : Days[i] \in Nat
  BY CalendarAssumption
<1>4. day(0) = 0 /\ \A n \in 0 .. Len(Days) : day(n) \in Nat
  BY <1>3, SumToFacts
<1>5. month(len) <= Len(Days) /\ Offset \in Nat
  BY CalendarAssumption, ZoneAssumption
<1>. HIDE DEF len, month, day
<1>6. \A k \in 1 .. len + 1 : month(k - 1) \in 0 .. Len(Days)
  BY <1>1, <1>2, <1>3, <1>5
<1>7. \A k \in 1 .. len + 1 : MonthStart(k) = Offset + day(month(k - 1)) /\ MonthStart(k) \in Nat
  <2>. SUFFICES ASSUME NEW k \in 1 .. len + 1
                PROVE  MonthStart(k) = Offset + day(month(k - 1)) /\ MonthStart(k) \in Nat
    OBVIOUS
  <2>1. month(k - 1) \in Nat /\ month(k - 1) \in 0 .. Len(Days)
    BY <1>6
  <2>2. MonthStart(k) = Offset + day((1 + month(k - 1)) - 1)
    BY DEF MonthStart, DayStart, day, month
  <2>3. (1 + month(k - 1)) - 1 = month(k - 1)
    BY <2>1
  <2>. QED
    BY <1>4, <1>5, <2>1, <2>2, <2>3
<1>8. MonthStart(1) = Offset
  BY <1>1, <1>2, <1>4, <1>5, <1>7
<1>9. at \in Int /\ MonthStart(2) <= at /\ at < MonthStart(len + 1)
  <2>1. MonthStart(2) \in Int /\ MonthStart(len + 1) \in Int
    BY <1>1, <1>7
  <2>2. at \in MonthStart(2) .. MonthStart(len + 1) - 1
    BY DEF len
  <2>. QED
    BY <2>1, <2>2
<1>10. MonthStart(1) <= at
  <2>1. MonthStart(2) = Offset + day(month(1)) /\ month(1) \in 0 .. Len(Days)
    <3>1. 2 \in 1 .. len + 1 /\ 2 - 1 = 1
      BY <1>1
    <3>2. MonthStart(2) = Offset + day(month(2 - 1)) /\ month(2 - 1) \in 0 .. Len(Days)
      BY <1>6, <1>7, <3>1
    <3>. QED
      BY <3>1, <3>2
  <2>2. day(month(1)) \in Nat
    BY <1>4, <2>1
  <2>. QED
    BY <1>5, <1>8, <1>9, <2>1, <2>2
<1>. DEFINE Later == {n \in 1 .. len + 1 : at < MonthStart(n)}
<1>11. PICK n \in Later : \A m \in Later : n <= m
  <2>1. Later \in SUBSET Nat /\ len + 1 \in Later
    BY <1>1, <1>9
  <2>. HIDE DEF Later
  <2>. QED
    BY <2>1, LeastNumber
<1>12. n # 1
  BY <1>8, <1>9, <1>10, <1>11, <1>5
<1>13. n - 1 \in 1 .. len /\ ~(n <= n - 1) /\ n - 1 + 1 = n /\ n - 1 \in 1 .. len + 1
  BY <1>1, <1>11, <1>12
<1>14. MonthStart(n - 1) <= at
  <2>1. ~(at < MonthStart(n - 1))
    BY <1>11, <1>13
  <2>. QED
    BY <1>7, <1>9, <1>13, <2>1
<1>15. \E k \in DOMAIN Months : MonthStart(k) <= at /\ at < MonthStart(k + 1)
  <2>1. at < MonthStart(n - 1 + 1)
    BY <1>11, <1>13
  <2>. QED
    BY <1>1, <1>13, <1>14, <2>1
<1>. QED
  BY <1>1, <1>15 DEF MonthOf, len

\* Of two digests the second leaves out, or repeats, exactly the days by which the time
\* between them is not a week (window.ts:16-35).
LEMMA WeeksFollow == IInv => EachChargeInOneDigest
<1>. SUFFICES ASSUME IInv, Asked("runs")
              PROVE  EachChargeInOneDigest
  BY DEF EachChargeInOneDigest
<1>1. PICK case \in RunCases :
        answer = [i \in 1 .. 2 |-> WeekWindow(RunAt(case[i].day, case[i].hour, case[i].delay))]
  BY DEF IInv, RunsAnswered
<1>. DEFINE run(i) == RunAt(case[i].day, case[i].hour, case[i].delay)
            first == (run(1) - 1) \div 24
            second == (run(2) - 1) \div 24
<1>2. answer[1] = WeekWindow(run(1)) /\ answer[2] = WeekWindow(run(2))
  BY <1>1
<1>3. ASSUME NEW i \in 1 .. 2
      PROVE  run(i) \in Int
  <2>1. /\ case[i].day \in 1 .. Len(Days) /\ case[i].hour \in Int /\ case[i].delay \in Int
        /\ Len(Days) \in Nat /\ \A j \in 1 .. Len(Days) : Days[j] \in Nat
        /\ Offset \in Int
    <3>1. case[i].day \in 1 .. Len(Days) /\ case[i].hour \in 0 .. 23 /\ case[i].delay \in Nat
      BY RunAssumption
    <3>2. /\ Len(Days) \in Nat /\ \A j \in 1 .. Len(Days) : Days[j] \in Nat
          /\ Offset \in Int
      BY CalendarAssumption
    <3>3. case[i].hour \in Int /\ case[i].delay \in Int
      <4>. DEFINE h == case[i].hour
                  e == case[i].delay
      <4>1. h \in 0 .. 23 /\ e \in Nat
        BY <3>1
      <4>. HIDE DEF h, e
      <4>2. h \in Int /\ e \in Int
        BY <4>1
      <4>. QED
        BY <4>2 DEF h, e
    <3>. QED
      BY <3>1, <3>2, <3>3
  <2>2. case[i].day - 1 \in 0 .. Len(Days)
    BY <2>1
  <2>3. SumTo(Days, case[i].day - 1) \in Nat
    BY <2>1, <2>2, SumToFacts
  <2>. QED
    BY <2>1, <2>3 DEF RunAt, DayStart
<1>4. run(1) \in Int /\ run(2) \in Int /\ run(1) <= run(2)
  BY <1>3, RunAssumption
<1>. HIDE DEF run
<1>5. first \in Int /\ second \in Int /\ first <= second
  BY <1>4
<1>6. /\ LastDate(answer[1]) = first /\ LastDate(answer[2]) = second
      /\ Dates(answer[1]) = first - 6 .. first /\ Dates(answer[2]) = second - 6 .. second
  BY <1>2, <1>4, DatesAre
<1>. HIDE DEF first, second
<1>. DEFINE apart == second - first
<1>7. apart \in Int /\ apart >= 0
  BY <1>5
<1>8. Cardinality((first + 1 .. second) \ (second - 6 .. second)) = Max({0, apart - 7})
  <2>. DEFINE left == (first + 1 .. second) \ (second - 6 .. second)
              x == Cardinality(left)
  <2>1. left = first + 1 .. second - 7
    BY <1>5
  <2>. HIDE DEF left
  <2>2. x = IF first + 1 > second - 7 THEN 0 ELSE (second - 7) - (first + 1) + 1
    BY <1>5, <2>1, FS_Interval
  <2>3. Max({0, apart - 7}) = IF apart - 7 > 0 THEN apart - 7 ELSE 0
    BY <1>7, AtLeastNone
  <2>. HIDE DEF x
  <2>4. x = IF apart - 7 > 0 THEN apart - 7 ELSE 0
    BY <1>5, <2>2
  <2>. QED
    BY <2>3, <2>4 DEF left, x
<1>9. Cardinality((first - 6 .. first) \cap (second - 6 .. second)) = Max({0, 7 - apart})
  <2>. DEFINE twice == (first - 6 .. first) \cap (second - 6 .. second)
              x == Cardinality(twice)
  <2>1. twice = second - 6 .. first
    BY <1>5
  <2>. HIDE DEF twice
  <2>2. x = IF second - 6 > first THEN 0 ELSE first - (second - 6) + 1
    BY <1>5, <2>1, FS_Interval
  <2>3. Max({0, 7 - apart}) = IF 7 - apart > 0 THEN 7 - apart ELSE 0
    BY <1>7, AtLeastNone
  <2>. HIDE DEF x
  <2>4. x = IF 7 - apart > 0 THEN 7 - apart ELSE 0
    BY <1>5, <2>2
  <2>. QED
    BY <2>3, <2>4 DEF twice, x
<1>. QED
  BY <1>6, <1>8, <1>9 DEF EachChargeInOneDigest

\* The report of a month begins where the one before ends, and has the charges of its
\* dates, but for the first in a zone behind UTC (window.ts:49-78).
LEMMA MonthsFollow == IInv => ReportsFollowEachOther
<1>. SUFFICES ASSUME IInv, Asked("month")
              PROVE  ReportsFollowEachOther
  BY DEF ReportsFollowEachOther
<1>1. PICK at \in MonthStart(2) .. MonthStart(Len(Months) + 1) - 1 :
        /\ question = [about |-> "month", at |-> at]
        /\ answer = [reported |-> MonthWindow(MonthOf(at) - 1), current |-> MonthWindowFor(at)]
  BY DEF IInv, MonthAnswered
<1>. DEFINE k == MonthOf(at)
            len == Len(Months)
<1>2. k \in 1 .. len /\ MonthStart(k) <= at /\ at < MonthStart(k + 1)
  BY MonthIsThere
<1>3. /\ len \in Nat /\ \A i \in 1 .. len : Months[i] \in Nat \ {0}
      /\ Len(Days) \in Nat /\ Offset \in 0 .. 23
      /\ \A i \in 1 .. Len(Days) : Days[i] \in Nat
  BY CalendarAssumption
<1>. HIDE DEF k
<1>4. /\ question.at = at
      /\ answer.current = [start |-> MonthStart(k), end |-> MonthStart(k + 1)]
      /\ answer.reported.end = MonthStart(k - 1 + 1)
  BY <1>1 DEF k, MonthWindow, MonthWindowFor, NextMonth
<1>5. k - 1 + 1 = k /\ k + 1 - 1 = k /\ k - 1 \in 0 .. len /\ k \in 0 .. len
  BY <1>2, <1>3
<1>. DEFINE first == SumTo(Months, k - 1)
            after == SumTo(Months, k)
            drift(n) == Offset + SumTo(Days, n) - 24 * n
<1>6. /\ first \in Nat /\ after \in Nat /\ after = Months[k] + first
      /\ after <= SumTo(Months, len) /\ SumTo(Months, len) \in Nat
  <2>. DEFINE t(n) == SumTo(Months, n)
  <2>. HIDE DEF len
  <2>1. /\ \A n \in 0 .. len : t(n) \in Nat
        /\ \A n \in 1 .. len : t(n) = Months[n] + t(n - 1)
        /\ \A a, b \in 0 .. len : a <= b => t(a) <= t(b)
    BY <1>3, SumToFacts
  <2>. HIDE DEF t
  <2>2. t(k - 1) \in Nat /\ t(k) \in Nat /\ t(k) = Months[k] + t(k - 1)
    BY <1>2, <1>5, <2>1
  <2>3. len \in 0 .. len /\ k <= len
    BY <1>2, <1>3
  <2>4. t(k) <= t(len) /\ t(len) \in Nat
    BY <1>5, <2>1, <2>3
  <2>. QED
    BY <2>2, <2>4 DEF t
<1>7. first \in 0 .. Len(Days) /\ after \in 0 .. Len(Days)
  <2>1. SumTo(Months, len) <= Len(Days)
    BY ZoneAssumption
  <2>. DEFINE total == SumTo(Months, len)
  <2>2. Len(Days) \in Nat /\ total \in Nat /\ total <= Len(Days) /\ Months[k] \in Nat
    BY <1>2, <1>3, <1>6, <2>1
  <2>3. first \in Nat /\ after \in Nat /\ after = Months[k] + first /\ after <= total
    BY <1>6
  <2>. HIDE DEF first, after, len, total
  <2>. QED
    BY <2>2, <2>3
<1>8. \A n \in 0 .. Len(Days) : /\ SumTo(Days, n) \in Nat
                                /\ drift(n) \in IF Offset = 0 THEN {0} ELSE 1 .. 23
  BY <1>3, SumToFacts, ZoneAssumption
<1>9. /\ MonthStart(k) = Offset + SumTo(Days, first)
      /\ MonthStart(k + 1) = Offset + SumTo(Days, after)
  <2>1. (1 + first) - 1 = first /\ (1 + after) - 1 = after
    BY <1>6
  <2>. HIDE DEF first, after
  <2>2. MonthStart(k) = Offset + SumTo(Days, (1 + first) - 1)
    BY DEF MonthStart, DayStart, first
  <2>3. MonthStart(k + 1) = Offset + SumTo(Days, (1 + after) - 1)
    BY <1>5 DEF MonthStart, DayStart, after
  <2>. QED
    BY <2>1, <2>2, <2>3
<1>. DEFINE from == MonthStart(k)
            to == MonthStart(k + 1)
            m == Months[k]
<1>10. m \in Nat \ {0}
  BY <1>2, <1>3
<1>11. /\ from \in Int /\ to \in Int
       /\ from - 24 * first \in IF Offset = 0 THEN {0} ELSE 1 .. 23
       /\ to - 24 * after \in IF Offset = 0 THEN {0} ELSE 1 .. 23
  <2>. HIDE DEF first, after
  <2>1. /\ SumTo(Days, first) \in Nat /\ SumTo(Days, after) \in Nat
        /\ drift(first) \in IF Offset = 0 THEN {0} ELSE 1 .. 23
        /\ drift(after) \in IF Offset = 0 THEN {0} ELSE 1 .. 23
    BY <1>7, <1>8
  <2>. DEFINE x == SumTo(Days, first)
              y == SumTo(Days, after)
  <2>2. /\ x \in Nat /\ y \in Nat /\ Offset \in Nat /\ first \in Nat /\ after \in Nat
        /\ from = Offset + x /\ to = Offset + y
        /\ drift(first) = Offset + x - 24 * first /\ drift(after) = Offset + y - 24 * after
    BY <1>3, <1>6, <1>9, <2>1
  <2>. HIDE DEF x, y, from, to, drift
  <2>3. from \in Int /\ to \in Int /\ from - 24 * first = drift(first) /\ to - 24 * after = drift(after)
    BY <2>2
  <2>. QED
    BY <2>1, <2>3 DEF x, y
<1>12. ASSUME NEW d \in first .. first + m - 1
       PROVE  Covers(answer.current, 24 * d) <=> (d # first \/ Offset = 0)
  <2>1. Covers(answer.current, 24 * d) <=> from <= 24 * d /\ 24 * d < to
    BY <1>4 DEF Covers
  <2>. HIDE DEF from, to, m, first, after, drift
  <2>2. after = m + first
    BY <1>6 DEF m
  <2>3. d \in Int /\ first <= d /\ d <= first + m - 1
    BY <1>6, <1>10
  <2>4. CASE Offset = 0
    <3>1. from = 24 * first /\ to = 24 * after
      <4>1. from - 24 * first = 0 /\ to - 24 * after = 0
        BY <1>11, <2>4
      <4>2. from \in Int /\ to \in Int /\ first \in Int /\ after \in Int
        BY <1>6, <1>11
      <4>. QED
        BY <4>1, <4>2
    <3>2. m \in Int /\ first \in Int /\ after \in Int
      BY <1>6, <1>10
    <3>3. 24 * first <= 24 * d /\ 24 * d < 24 * after
      BY <2>2, <2>3, <3>2
    <3>. QED
      BY <2>1, <2>4, <3>1, <3>3
  <2>5. CASE Offset # 0
    <3>1. from >= 24 * first + 1 /\ from <= 24 * first + 23 /\ to >= 24 * after + 1
      <4>1. from - 24 * first \in 1 .. 23 /\ to - 24 * after \in 1 .. 23
        BY <1>11, <2>5
      <4>2. from \in Int /\ to \in Int /\ first \in Int /\ after \in Int
        BY <1>6, <1>11
      <4>. QED
        BY <4>1, <4>2
    <3>2. 24 * d < to
      <4>1. to \in Int /\ to >= 24 * after + 1
        BY <1>11, <3>1
      <4>2. m \in Int /\ first \in Int /\ after \in Int
        BY <1>6, <1>10
      <4>. QED
        BY <2>2, <2>3, <4>1, <4>2
    <3>3. d = first => ~(from <= 24 * d)
      BY <1>6, <1>11, <3>1
    <3>4. d # first => from <= 24 * d
      BY <1>6, <1>11, <2>3, <3>1
    <3>. QED
      BY <2>1, <2>5, <3>2, <3>3, <3>4
  <2>. QED
    BY <2>4, <2>5
<1>13. Covers(answer.current, question.at)
  BY <1>2, <1>4 DEF Covers
<1>14. answer.reported.end = answer.current.start
  BY <1>4, <1>5
<1>. QED
  BY <1>4, <1>12, <1>13, <1>14 DEF ReportsFollowEachOther, k

\* Every charge has the digest and the report that its date says, in each zone behind
\* UTC and through every change of the clock (window.ts:16-78).
THEOREM EverySpanIsAlwaysCovered == Spec => []EverySpanIsCovered
<1>1. IInv => EverySpanIsCovered
  BY WeeksFollow, MonthsFollow DEF EverySpanIsCovered
<1>. QED
  BY <1>1, Inductive, PTL

-----------------------------------------------------------------------------
\* A token is the figure without its minus.
LEMMA TokenOfFigure ==
  ASSUME NEW prose \in ProseCases, NEW d \in prose
  PROVE  /\ Token(d).cents = d.cents
         /\ ~d.minus => Token(d) = d
<1>1. d \in [minus : BOOLEAN, cents : Nat, commas : BOOLEAN]
  BY ProseAssumption
<1>. QED
  BY <1>1 DEF Token

LEMMA MagnitudeDisplayed ==
  ASSUME NEW n
  PROVE  Display(n).cents = Magnitude(n)
  BY DEF Display

\* The guard knows the figures of a digest, zero aside, and no others.
LEMMA GuardKnowsTheFigures ==
  ASSUME NEW facts
  PROVE  /\ \A d \in DigestMoney(facts) : \E n \in Figures(facts) : d = Display(n)
         /\ facts.trend = NoTrend => facts.trend.baseline = 0
         /\ \A n \in Figures(facts) \ {0} : Display(n) \in DigestMoney(facts)
<1>1. NoTrend.baseline = 0
  BY DEF NoTrend
<1>2. /\ \A n \in Figures(facts) :
            \/ n = facts.total \/ n = facts.trend.baseline \/ n \in facts.anomalies
            \/ \E c \in DOMAIN facts.categories :
                 n \in {facts.categories[c].amount, facts.categories[c].trend.baseline}
      /\ facts.total \in Figures(facts) /\ facts.trend.baseline \in Figures(facts)
      /\ facts.anomalies \subseteq Figures(facts)
      /\ \A c \in DOMAIN facts.categories :
            /\ facts.categories[c].amount \in Figures(facts)
            /\ facts.categories[c].trend.baseline \in Figures(facts)
  BY DEF Figures
<1>3. \A d : d \in DigestMoney(facts) <=>
        \/ d = Display(facts.total)
        \/ facts.trend # NoTrend /\ d = Display(facts.trend.baseline)
        \/ \E n \in facts.anomalies : d = Display(n)
        \/ \E c \in DOMAIN facts.categories :
              \/ d = Display(facts.categories[c].amount)
              \/ /\ facts.categories[c].trend # NoTrend
                 /\ d = Display(facts.categories[c].trend.baseline)
  BY DEF DigestMoney, CategoryMoney, TrendMoney
<1>4. \A d \in DigestMoney(facts) : \E n \in Figures(facts) : d = Display(n)
  BY <1>2, <1>3
<1>5. \A n \in Figures(facts) \ {0} : Display(n) \in DigestMoney(facts)
  BY <1>1, <1>2, <1>3
<1>. QED
  BY <1>1, <1>4, <1>5

\* Prose with an amount that no figure of the facts has is refused, and prose that
\* repeats the amounts as they are displayed is let through as long as none is
\* negative, for any facts (money-contract.ts:4-71).
THEOREM GuardIsAlwaysExact == Spec => []GuardIsExact
<1>1. IInv => GuardIsExact
  <2>. SUFFICES ASSUME IInv, Asked("digest")
                PROVE  GuardIsExact
    BY DEF GuardIsExact
  <2>1. PICK prose \in ProseCases :
          \E facts :
            /\ question.prose = prose
            /\ answer = [facts |-> facts, accepted |-> Accepted(prose, DigestMoney(facts))]
    BY DEF IInv, DigestAnswered
  <2>. DEFINE figures == Figures(Summary)
  <2>2. /\ question.prose = prose
        /\ answer.accepted <=> \A d \in prose : Token(d) \in DigestMoney(Summary)
    BY <2>1 DEF Accepted, Summary
  <2>3. ASSUME answer.accepted, NEW d \in prose
        PROVE  \E n \in figures : Magnitude(n) = d.cents
    <3>1. Token(d).cents = d.cents
      BY TokenOfFigure
    <3>2. PICK n \in figures : Token(d) = Display(n)
      BY <2>2, <2>3, GuardKnowsTheFigures
    <3>. QED
      BY <3>1, <3>2, MagnitudeDisplayed
  <2>4. ASSUME NEW d \in prose, ~d.minus, \E n \in figures \ {0} : d = Display(n)
        PROVE  Token(d) \in DigestMoney(Summary)
    BY <2>4, TokenOfFigure, GuardKnowsTheFigures
  <2>. QED
    BY <2>2, <2>3, <2>4 DEF GuardIsExact
<1>. QED
  BY <1>1, Inductive, PTL

-----------------------------------------------------------------------------
\* A non-empty set of positions has a first one.
LEMMA FirstPosition ==
  ASSUME NEW n \in Nat, NEW I \in SUBSET (1 .. n), I # {}
  PROVE  Min(I) \in I /\ \A i \in I : Min(I) <= i
<1>1. I \in SUBSET Nat
  OBVIOUS
<1>2. \E k \in I : \A i \in I : k <= i
  BY <1>1, LeastNumber
<1>. QED
  BY <1>2 DEF Min

\* SelectInSeq finds the first element that passes the test.
LEMMA FirstResult ==
  ASSUME NEW mail
  PROVE  ClassifyMail(mail) =
           IF BankAlert(mail) # Undecided THEN BankAlert(mail)
           ELSE IF Marketing(mail) # Undecided THEN Marketing(mail)
           ELSE IF ByDomain(mail) # Undecided THEN ByDomain(mail)
           ELSE Classify("unknown")
<1>. DEFINE I == {i \in 1 .. 3 : Classifiers(mail)[i] # Undecided}
<1>1. /\ Len(Classifiers(mail)) = 3 /\ Classifiers(mail)[1] = BankAlert(mail)
      /\ Classifiers(mail)[2] = Marketing(mail) /\ Classifiers(mail)[3] = ByDomain(mail)
  BY DEF Classifiers
<1>2. ClassifyMail(mail) =
        LET first == IF I # {} THEN Min(I) ELSE 0
        IN IF first = 0 THEN Classify("unknown") ELSE Classifiers(mail)[first]
  BY <1>1 DEF ClassifyMail, SelectInSeq
<1>3. I # {} => Min(I) \in I /\ \A i \in I : Min(I) <= i
  BY FirstPosition
<1>. QED
  BY <1>1, <1>2, <1>3

LEMMA FirstRule ==
  ASSUME NEW mail
  PROVE  \/ /\ ByDomain(mail) = Undecided
            /\ \A i \in DOMAIN DomainRules : ~Applies(DomainRules[i], mail)
         \/ \E i \in DOMAIN DomainRules :
              /\ ByDomain(mail) = Classify(DomainRules[i].kind)
              /\ Applies(DomainRules[i], mail)
<1>. DEFINE I == {i \in 1 .. Len(DomainRules) : Applies(DomainRules[i], mail)}
<1>1. Len(DomainRules) \in Nat /\ DOMAIN DomainRules = 1 .. Len(DomainRules)
  BY MailAssumption
<1>2. ByDomain(mail) =
        LET first == IF I # {} THEN Min(I) ELSE 0
        IN IF first = 0 THEN Undecided ELSE Classify(DomainRules[first].kind)
  BY DEF ByDomain, SelectInSeq
<1>3. CASE I = {}
  <2>1. \A i \in DOMAIN DomainRules : ~Applies(DomainRules[i], mail)
    BY <1>1, <1>3
  <2>. QED
    BY <1>2, <1>3, <2>1
<1>4. CASE I # {}
  <2>. DEFINE k == Min(I)
  <2>1. k \in I
    BY <1>1, <1>4, FirstPosition
  <2>2. k \in DOMAIN DomainRules /\ k # 0 /\ Applies(DomainRules[k], mail)
    BY <1>1, <2>1
  <2>3. ByDomain(mail) = Classify(DomainRules[k].kind)
    BY <1>2, <1>4, <2>2
  <2>. QED
    BY <2>2, <2>3
<1>. QED
  BY <1>3, <1>4

\* A domain and its subdomains, label by label from the right.
LEMMA SubdomainLabels ==
  ASSUME NEW d \in Seq(STRING), NEW domain \in Seq(STRING)
  PROVE  IsSuffix(d, domain) <=>
           /\ Len(domain) >= Len(d)
           /\ \A i \in 1 .. Len(d) : domain[Len(domain) - Len(d) + i] = d[i]
<1>. Len(d) \in Nat /\ Len(domain) \in Nat
  OBVIOUS
<1>1. /\ Reverse(d) \in Seq(STRING) /\ Len(Reverse(d)) = Len(d)
      /\ \A i \in 1 .. Len(d) : Reverse(d)[i] = d[Len(d) - i + 1]
  BY DEF Reverse
<1>2. /\ Reverse(domain) \in Seq(STRING) /\ Len(Reverse(domain)) = Len(domain)
      /\ \A i \in 1 .. Len(domain) : Reverse(domain)[i] = domain[Len(domain) - i + 1]
  BY DEF Reverse
<1>3. IsSuffix(d, domain) <=>
        /\ Len(d) <= Len(domain)
        /\ SubSeq(Reverse(d), 1, Len(d)) = SubSeq(Reverse(domain), 1, Len(d))
  BY <1>1, <1>2 DEF IsSuffix, IsPrefix
<1>. SUFFICES ASSUME Len(d) <= Len(domain)
              PROVE  SubSeq(Reverse(d), 1, Len(d)) = SubSeq(Reverse(domain), 1, Len(d)) <=>
                       \A i \in 1 .. Len(d) : domain[Len(domain) - Len(d) + i] = d[i]
  BY <1>3
<1>4. SubSeq(Reverse(d), 1, Len(d)) = [i \in 1 .. Len(d) |-> d[Len(d) - i + 1]]
  BY <1>1
<1>5. SubSeq(Reverse(domain), 1, Len(d)) = [i \in 1 .. Len(d) |-> domain[Len(domain) - i + 1]]
  BY <1>2
<1>6. ASSUME \A i \in 1 .. Len(d) : domain[Len(domain) - i + 1] = d[Len(d) - i + 1],
             NEW i \in 1 .. Len(d)
      PROVE  domain[Len(domain) - Len(d) + i] = d[i]
  <2>1. Len(d) - i + 1 \in 1 .. Len(d)
    OBVIOUS
  <2>2. /\ Len(domain) - (Len(d) - i + 1) + 1 = Len(domain) - Len(d) + i
        /\ Len(d) - (Len(d) - i + 1) + 1 = i
    OBVIOUS
  <2>. QED
    BY <1>6, <2>1, <2>2
<1>7. ASSUME \A i \in 1 .. Len(d) : domain[Len(domain) - Len(d) + i] = d[i],
             NEW i \in 1 .. Len(d)
      PROVE  domain[Len(domain) - i + 1] = d[Len(d) - i + 1]
  <2>1. Len(d) - i + 1 \in 1 .. Len(d)
    OBVIOUS
  <2>2. Len(domain) - Len(d) + (Len(d) - i + 1) = Len(domain) - i + 1
    OBVIOUS
  <2>. QED
    BY <1>7, <2>1, <2>2
<1>. QED
  BY <1>4, <1>5, <1>6, <1>7

\* The outcomes are told apart.
LEMMA OutcomesDiffer ==
  /\ \A reason : Ignore(reason) # Undecided /\ Ignore(reason).outcome = "ignore"
  /\ \A kind : /\ Classify(kind) # Undecided /\ Classify(kind).outcome = "classify"
               /\ Classify(kind).kind = kind
  BY DEF Ignore, Classify, Undecided

\* What is read of a message that the domain rules decide.
LEMMA WhatIsRead ==
  ASSUME NEW mail, Ingested(mail).status = "classified"
  PROVE  /\ BankAlert(mail) = Undecided /\ Marketing(mail) = Undecided
         /\ ByDomain(mail) = Undecided => Ingested(mail).kind = "unknown"
         /\ \A kind : ByDomain(mail) = Classify(kind) => Ingested(mail).kind = kind
<1>. DEFINE result == ClassifyMail(mail)
<1>1. /\ result.outcome # "ignore" /\ result.kind \notin Excluded
      /\ Ingested(mail).kind = result.kind
  BY DEF Ingested
<1>2. BankAlert(mail) = Undecided
  BY <1>1, FirstResult, OutcomesDiffer DEF BankAlert, Excluded
<1>3. Marketing(mail) = Undecided
  BY <1>1, <1>2, FirstResult, OutcomesDiffer DEF Marketing, Excluded
<1>4. result = IF ByDomain(mail) # Undecided THEN ByDomain(mail) ELSE Classify("unknown")
  BY <1>2, <1>3, FirstResult
<1>. QED
  BY <1>1, <1>2, <1>3, <1>4, OutcomesDiffer

\* Mail is read as a receipt only when nothing blocks it, and has the kind of the
\* shop it is from, whatever senders, domains and rules there are
\* (mail-classifiers.ts:93-180, mail-ingest.ts:82-114).
THEOREM MailIsAlwaysSorted == Spec => []MailIsSorted
<1>1. IInv => MailIsSorted
  <2>. SUFFICES ASSUME IInv, Asked("mail")
                PROVE  MailIsSorted
    BY DEF MailIsSorted, BlockedIsNeverParsed, ShopKindsAreEarned
  <2>1. PICK mail \in MailCases : question.mail = mail /\ answer = Ingested(mail)
    BY DEF IInv, MailAnswered
  <2>2. answer.status \in {"ignored", "classified"}
    BY <2>1 DEF Ingested
  <2>3. BlockedIsNeverParsed
    <3>1. ASSUME answer.status = "classified"
          PROVE  /\ Topics(mail) \cap Promotion = {} /\ mail.from \notin PromoSenders
                 /\ BlockBankCardAlerts =>
                      Topics(mail) \cap Alert = {} /\ mail.from \notin BankSenders
      <4>1. BankAlert(mail) = Undecided /\ Marketing(mail) = Undecided
        BY <2>1, <3>1, WhatIsRead
      <4>2. Topics(mail) \cap Promotion = {} /\ mail.from \notin PromoSenders
        BY <4>1, OutcomesDiffer DEF Marketing
      <4>3. BlockBankCardAlerts => Topics(mail) \cap Alert = {} /\ mail.from \notin BankSenders
        BY <4>1, OutcomesDiffer DEF BankAlert
      <4>. QED
        BY <4>2, <4>3
    <3>. QED
      BY <2>1, <2>2, <3>1 DEF BlockedIsNeverParsed
  <2>4. ShopKindsAreEarned
    <3>. DEFINE Of(rule) == \E d \in rule.domains :
                   Len(mail.domain) >= Len(d)
                   /\ \A i \in 1 .. Len(d) :
                         mail.domain[Len(mail.domain) - Len(d) + i] = d[i]
    <3>. SUFFICES ASSUME answer.status = "classified"
                  PROVE  /\ answer.kind # "unknown" =>
                               \E rule \in Range(DomainRules) : rule.kind = answer.kind /\ Of(rule)
                         /\ (\E rule \in Range(DomainRules) : rule.topics = {} /\ Of(rule))
                               => answer.kind # "unknown"
      BY <2>1 DEF ShopKindsAreEarned
    <3>1. /\ ByDomain(mail) = Undecided => answer.kind = "unknown"
          /\ \A kind : ByDomain(mail) = Classify(kind) => answer.kind = kind
      BY <2>1, WhatIsRead
    <3>2. \A i \in DOMAIN DomainRules :
            /\ DomainRules[i] \in Range(DomainRules)
            /\ Of(DomainRules[i]) <=> \E d \in DomainRules[i].domains : IsSuffix(d, mail.domain)
      <4>. SUFFICES ASSUME NEW i \in DOMAIN DomainRules
                    PROVE  /\ DomainRules[i] \in Range(DomainRules)
                           /\ Of(DomainRules[i]) <=>
                                \E d \in DomainRules[i].domains : IsSuffix(d, mail.domain)
        OBVIOUS
      <4>1. DomainRules[i].domains \subseteq Seq(STRING) /\ mail.domain \in Seq(STRING)
        <5>. DEFINE RuleType == [domains : SUBSET Seq(STRING), kind : STRING, topics : SUBSET STRING]
        <5>1. DomainRules \in Seq(RuleType) /\ mail.domain \in Seq(STRING)
          BY MailAssumption
        <5>2. DOMAIN DomainRules = 1 .. Len(DomainRules)
          BY <5>1
        <5>. HIDE DEF RuleType
        <5>3. DomainRules[i] \in RuleType
          BY <5>1, <5>2
        <5>. QED
          BY <5>1, <5>3 DEF RuleType
      <4>2. \A d \in DomainRules[i].domains :
              IsSuffix(d, mail.domain) <=>
                /\ Len(mail.domain) >= Len(d)
                /\ \A j \in 1 .. Len(d) :
                      mail.domain[Len(mail.domain) - Len(d) + j] = d[j]
        BY <4>1, SubdomainLabels
      <4>. QED
        BY <4>2 DEF Range
    <3>. HIDE DEF Of
    <3>3. CASE ByDomain(mail) = Undecided
      <4>1. \A i \in DOMAIN DomainRules : ~Applies(DomainRules[i], mail)
        BY <3>3, FirstRule, OutcomesDiffer
      <4>2. \A i \in DOMAIN DomainRules : ~(DomainRules[i].topics = {} /\ Of(DomainRules[i]))
        BY <3>2, <4>1 DEF Applies
      <4>. QED
        BY <3>1, <3>3, <4>2 DEF Range
    <3>4. CASE ByDomain(mail) # Undecided
      <4>1. PICK i \in DOMAIN DomainRules :
              ByDomain(mail) = Classify(DomainRules[i].kind) /\ Applies(DomainRules[i], mail)
        BY <3>4, FirstRule
      <4>2. answer.kind = DomainRules[i].kind /\ answer.kind # "unknown"
        BY <3>1, <4>1, MailAssumption
      <4>3. Of(DomainRules[i]) /\ DomainRules[i] \in Range(DomainRules)
        BY <3>2, <4>1 DEF Applies
      <4>. QED
        BY <4>2, <4>3
    <3>. QED
      BY <3>3, <3>4
  <2>. QED
    BY <2>3, <2>4 DEF MailIsSorted
<1>. QED
  BY <1>1, Inductive, PTL

-----------------------------------------------------------------------------
\* The body that stands for a type is a part of the message.
LEMMA BodyIsPart ==
  ASSUME NEW parts \in Seq(MailParts), NEW type
  PROVE  FirstOf(type, parts) = NoValue \/ FirstOf(type, parts) \in Range(parts)
<1>. DEFINE I == {i \in 1 .. Len(parts) : parts[i].type = type /\ ~parts[i].empty}
<1>1. Len(parts) \in Nat /\ DOMAIN parts = 1 .. Len(parts)
  OBVIOUS
<1>2. FirstOf(type, parts) =
        LET first == IF I # {} THEN Min(I) ELSE 0
        IN IF first = 0 THEN NoValue ELSE parts[first]
  BY DEF FirstOf, SelectInSeq
<1>3. I # {} => Min(I) \in DOMAIN parts
  BY <1>1, FirstPosition
<1>. QED
  BY <1>2, <1>3 DEF Range

\* The model is shown figures of the body, and these are the message's.
LEMMA BodyFigures ==
  ASSUME NEW parts \in Seq(MailParts)
  PROVE  /\ Shown(Bodies(parts)) \subseteq Corpus(Bodies(parts))
         /\ Corpus(Bodies(parts)) \subseteq UNION {p.figures : p \in Range(parts)}
         /\ Corpus(Bodies(parts)) \subseteq PrintedFigures
<1>. DEFINE bodies == Bodies(parts)
<1>1. \A p \in Range(parts) : p \in MailParts
  BY DEF Range
<1>2. /\ bodies.plain = NoValue \/ bodies.plain \in Range(parts)
      /\ bodies.html = NoValue \/ bodies.html \in Range(parts)
  BY BodyIsPart DEF Bodies
<1>. HIDE DEF bodies
<1>3. Shown(bodies) \subseteq Corpus(bodies)
  BY DEF Shown, Corpus, FiguresOf
<1>4. \A figure \in Corpus(bodies) : \E p \in Range(parts) : figure \in p.figures
  BY <1>2 DEF Corpus, FiguresOf
<1>5. \A p \in Range(parts) : p.figures \subseteq PrintedFigures
  BY <1>1 DEF MailParts
<1>. QED
  BY <1>3, <1>4, <1>5 DEF bodies

\* The powers that an amount can be below, and the amounts below one of them.
Powers == {1000, 10000, 100000, 1000000, 10000000}
Amounts == 0 .. MaxCents

LEMMA MaxCentsFits == MaxCents \in Nat /\ MaxCents < 10000000
  BY SMT DEF MaxCents

LEMMA ScaleAbove ==
  ASSUME NEW cents \in Amounts
  PROVE  Scale(cents) \in Powers /\ cents < Scale(cents)
<1>. DEFINE powers == <<1000, 10000, 100000, 1000000, 10000000>>
            I == {i \in 1 .. 5 : cents < powers[i]}
<1>1. Scale(cents) = powers[IF I # {} THEN Min(I) ELSE 0]
  BY SMT DEF Scale, SelectInSeq
<1>2. 5 \in I
  <2>1. cents \in Int /\ cents <= MaxCents
    BY MaxCentsFits, SMT DEF Amounts
  <2>2. powers[5] = 10000000
    BY SMT
  <2>3. cents < 10000000
    BY <2>1, MaxCentsFits, SMT
  <2>. QED
    BY <2>2, <2>3, SMT
<1>3. Min(I) \in I
  <2>. HIDE DEF powers
  <2>. QED
    BY <1>2, FirstPosition
<1>4. Min(I) \in 1 .. 5 /\ cents < powers[Min(I)] /\ Scale(cents) = powers[Min(I)]
  BY <1>1, <1>3, SMT
<1>5. \A i \in 1 .. 5 : powers[i] \in Powers
  BY SMT DEF Powers
<1>. HIDE DEF powers, I
<1>. QED
  BY <1>4, <1>5

\* What is left of an amount after its thousands, ten thousands and so on.
LEMMA LastDigits ==
  ASSUME NEW amount \in Nat, NEW power \in Powers
  PROVE  amount % power <= amount /\ (amount < power => amount % power = amount)
  BY SMT DEF Powers

\* An amount is found in a figure that is not less, and in the figure it copies.
LEMMA FoundBelow ==
  ASSUME NEW figure \in PrintedFigures, NEW cents \in Amounts
  PROVE  /\ FoundIn(figure, cents) => figure.cents /\ cents <= figure.amount
         /\ figure.cents /\ (figure.commas => figure.dollar) /\ figure.amount = cents
              => FoundIn(figure, cents)
<1>. figure.amount \in Nat
  BY DEF PrintedFigures
<1>1. figure.amount % Scale(cents) <= figure.amount
  BY ScaleAbove, LastDigits
<1>2. figure.amount = cents => figure.amount % Scale(cents) = cents
  BY ScaleAbove, LastDigits
<1>. QED
  BY <1>1, <1>2, SMT DEF FoundIn

LEMMA AmountOfDecimal ==
  ASSUME NEW d \in Decimals, d # NoValue, Unsigned(FromDecimal(d)) <= MaxCents
  PROVE  Unsigned(FromDecimal(d)) \in Amounts
<1>1. d.minus \in BOOLEAN /\ d.whole \in Nat /\ d.cents \in Nat \cup {NoValue}
  BY DEF Decimals
<1>. DEFINE cents == IF d.cents = NoValue THEN 0 ELSE d.cents
            minor == 100 * d.whole + cents
<1>2. minor \in Nat
  <2>1. cents \in Nat
    BY <1>1
  <2>. QED
    BY <1>1, <2>1
<1>. HIDE DEF minor
<1>3. FromDecimal(d) = IF d.minus THEN -minor ELSE minor
  BY DEF FromDecimal, minor
<1>4. Unsigned(FromDecimal(d)) \in Nat
  BY <1>2, <1>3 DEF Unsigned
<1>. QED
  BY <1>4, MaxCentsFits, SMT DEF Amounts

\* No amount of a receipt is above the highest that its message prints, though it may
\* be a part of a printed figure, and an answer that copies what the model was shown is
\* never refused, for any parts of a message and amounts up to MaxCents
\* (receipt-amount-validate.ts:9-55, prompts/receipt.ts:59-70, mime-walk.ts:14-36).
THEOREM ExtractionIsAlwaysGrounded == Spec => []ExtractionIsGrounded
<1>1. IInv => ExtractionIsGrounded
  <2>. SUFFICES ASSUME IInv, Asked("parse")
                PROVE  ExtractionIsGrounded
    BY DEF ExtractionIsGrounded
  <2>1. PICK case \in ParseCases :
          /\ question = [about |-> "parse", case |-> case]
          /\ answer = MapReceiptResponse(case.response, Bodies(case.parts))
    BY DEF IInv, ParseAnswered
  <2>. DEFINE response == case.response
              bodies == Bodies(case.parts)
              read == response.items \cup {response.total}
              amounts == {FromDecimal(d) : d \in read}
              printed == UNION {p.figures : p \in Range(case.parts)}
  <2>2. /\ case.parts \in Seq(MailParts) /\ response.occurredAt # "refused"
        /\ \A d \in read :
              d \in Decimals /\ (d # NoValue => Unsigned(FromDecimal(d)) <= MaxCents)
    BY ParseAssumption
  <2>3. answer = IF AmountsPresent(bodies, amounts) /\ response.occurredAt # "not a date"
                 THEN [total |-> FromDecimal(response.total),
                       items |-> {FromDecimal(d) : d \in response.items},
                       occurredAt |-> response.occurredAt]
                 ELSE Refused
    <3>1. {FromDecimal(d) : d \in response.items} \cup {FromDecimal(response.total)} = amounts
      OBVIOUS
    <3>. QED
      BY <2>1, <3>1 DEF MapReceiptResponse
  <2>4. \A d \in read : FromDecimal(d) # NoValue => d # NoValue
    BY DEF FromDecimal
  <2>5. ASSUME NEW amount \in (answer.items \cup {answer.total}) \ {NoValue}
        PROVE  \E figure \in printed : figure.cents /\ Unsigned(amount) <= figure.amount
    <3>1. answer # Refused /\ AmountsPresent(bodies, amounts) /\ amount \in amounts
      BY <2>3, <2>5 DEF Refused
    <3>2. PICK d \in read : amount = FromDecimal(d) /\ d # NoValue
      BY <2>4, <2>5, <3>1
    <3>3. PICK figure \in Corpus(bodies) : FoundIn(figure, Unsigned(amount))
      BY <2>5, <3>1 DEF AmountsPresent
    <3>4. figure \in printed /\ figure \in PrintedFigures
      BY <2>2, BodyFigures
    <3>. QED
      BY <2>2, <3>2, <3>3, <3>4, FoundBelow, AmountOfDecimal
  <2>6. ASSUME \A d \in read \ {NoValue} : \E figure \in Shown(bodies) : Copies(d, figure),
               response.occurredAt # "not a date"
        PROVE  answer # Refused
    <3>1. ASSUME NEW amount \in amounts \ {NoValue}
          PROVE  \E figure \in Corpus(bodies) : FoundIn(figure, Unsigned(amount))
      <4>1. PICK d \in read : amount = FromDecimal(d) /\ d # NoValue
        BY <2>4
      <4>2. PICK figure \in Shown(bodies) : Copies(d, figure)
        BY <2>6, <4>1
      <4>3. figure \in Corpus(bodies) /\ figure \in PrintedFigures
        BY <2>2, BodyFigures
      <4>. QED
        BY <2>2, <4>1, <4>2, <4>3, FoundBelow, AmountOfDecimal DEF Copies
    <3>2. AmountsPresent(bodies, amounts)
      BY <3>1 DEF AmountsPresent
    <3>3. answer.occurredAt = response.occurredAt
      BY <2>3, <2>6, <3>2
    <3>. QED
      BY <2>2, <3>3 DEF Refused
  <2>. QED
    BY <2>1, <2>5, <2>6 DEF ExtractionIsGrounded
<1>. QED
  BY <1>1, Inductive, PTL
=============================================================================
