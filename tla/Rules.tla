-------------------------------- MODULE Rules --------------------------------
(***************************************************************************)
(* The decisions that need no waiting: which charge a receipt belongs to,   *)
(* what a digest shows of receipts, which charge is unusual, what a week    *)
(* adds up to, which prose is let through, which mail is read and what is   *)
(* taken from it, and which span of time a digest or a report covers.  The  *)
(* operators are translated in the modules below; here each is asked one    *)
(* question, and the answer is compared with what a reader of the digest    *)
(* relies on.                                                               *)
(***************************************************************************)
EXTENDS Matching, Spending, Windows, Classifiers, Extraction

CONSTANTS
    ReceiptCases,     \* bound: receipts
    ChargeCases,      \* bound: sets of charges around them
    SectionCases,     \* bound: receipts, charges, links before and after
    EvaluationCases,  \* bound: a charge, its merchant's history, a baseline
    WeekCases,        \* bound: sets of transactions of one week
    BaselineCases,    \* bound: the baselines of a user
    ProseCases,       \* bound: the figures of a text
    MailCases,        \* bound: messages
    ParseCases,       \* bound: the parts of a message, an answer of the model
    RunCases          \* bound: two digests: day and hour of each, delay of each

\* What the questions are asked about.  Links are added and never taken away.
ASSUME ReceiptAssumption ==
    /\ Null \notin Int
    /\ \A receipt \in ReceiptCases :
          /\ receipt.occurredAt \in Int \cup {Null} /\ receipt.receivedAt \in Int
          /\ receipt.total \in Int \cup {Null}
    /\ \A txns \in ChargeCases :
          /\ IsFiniteSet(txns) /\ Null \notin txns
          /\ \A t \in txns : t.occurredAt \in Int /\ t.amount \in Int
ASSUME SectionAssumption == \A case \in SectionCases : case.before \subseteq case.after
ASSUME ProseAssumption ==
    \A prose \in ProseCases : prose \subseteq [minus : BOOLEAN, cents : Nat, commas : BOOLEAN]
ASSUME WeekAssumption ==
    /\ \A txns \in WeekCases : IsFiniteSet(txns) /\ \A t \in txns : t.amount \in Int
    /\ \A baselines \in BaselineCases : \A c \in DOMAIN baselines :
          baselines[c].mean \in Int /\ baselines[c].samples \in Nat
ASSUME EvaluationAssumption ==
    \A case \in EvaluationCases :
        /\ case.txn.amount \in Int /\ case.txn.at \in Int
        /\ case.history \in Seq([amount : Int, at : Int])
ASSUME MailAssumption ==
    /\ \A mail \in MailCases : mail.domain \in Seq(STRING)
    /\ DomainRules \in Seq([domains : SUBSET Seq(STRING), kind : STRING, topics : SUBSET STRING])
    /\ \A i \in DOMAIN DomainRules : DomainRules[i].kind # "unknown"

PrintedFigures == [amount : Nat, commas : BOOLEAN, dollar : BOOLEAN, cents : BOOLEAN]
MailParts == [type : STRING, figures : SUBSET PrintedFigures, empty : BOOLEAN, blank : BOOLEAN]
Decimals == [minus : BOOLEAN, whole : Nat, cents : Nat \cup {NoValue}] \cup {NoValue}
MaxCents == 9999999  \* bound: an amount

ASSUME ParseAssumption ==
    \A case \in ParseCases :
        /\ case.parts \in Seq(MailParts)
        /\ \A d \in case.response.items \cup {case.response.total} :
              /\ d \in Decimals
              /\ d # NoValue => Unsigned(FromDecimal(d)) <= MaxCents
        /\ case.response.occurredAt # "refused"

ASSUME RunAssumption ==
    \A case \in RunCases :
        /\ \A i \in 1 .. 2 :
              case[i].day \in 1 .. Len(Days) /\ case[i].hour \in 0 .. 23 /\ case[i].delay \in Nat
        /\ RunAt(case[1].day, case[1].hour, case[1].delay)
              <= RunAt(case[2].day, case[2].hour, case[2].delay)

VARIABLES question, answer

vars == <<question, answer>>

Nothing == [about |-> "nothing"]

Init == question = Nothing /\ answer = Nothing

Asked(what) == question.about = what

Answer(case, result) == question' = case /\ answer' = result

\* receipt.match of a receipt, and what a digest says while it has no charge.
MatchReceipt ==
    \E receipt \in ReceiptCases, txns \in ChargeCases :
        Answer([about |-> "match", receipt |-> receipt, txns |-> txns],
               [best |-> Best(receipt, InMatchWindow(receipt, txns)),
                fact |-> UnmatchedFact(receipt, txns)])

\* The sections of a digest: the receipts without a link are read first, the links
\* of the charges afterwards.
ShowReceipts ==
    \E case \in SectionCases :
        LET unmatched == {r \in case.receipts : ~\E l \in case.before : l[1] = r}
        IN Answer([about |-> "sections", case |-> case],
                  Sections(unmatched, case.after, case.txns))

EvaluateCharge ==
    \E case \in EvaluationCases :
        Answer([about |-> "charge", case |-> case],
               Verdicts(case.txn, case.history, case.baseline))

WriteDigest ==
    \E txns \in WeekCases, baselines \in BaselineCases, prose \in ProseCases :
      \E raised \in {{}} \cup {{t} : t \in txns} :
        LET facts == DigestFacts(txns, baselines, raised)
        IN Answer([about |-> "digest", txns |-> txns, baselines |-> baselines, prose |-> prose],
                  [facts |-> facts, accepted |-> Accepted(prose, DigestMoney(facts))])

WriteReport ==
    \E txns \in WeekCases, prose \in ProseCases :
        LET facts == MonthlyFacts(txns)
        IN Answer([about |-> "report", txns |-> txns, prose |-> prose],
                  [facts |-> facts, accepted |-> Accepted(prose, MonthlyMoney(facts))])

SortMail ==
    \E mail \in MailCases : Answer([about |-> "mail", mail |-> mail], Ingested(mail))

ParseMail ==
    \E case \in ParseCases :
        Answer([about |-> "parse", case |-> case],
               MapReceiptResponse(case.response, Bodies(case.parts)))

RunDigests ==
    \E case \in RunCases :
        Answer([about |-> "runs", case |-> case],
               [i \in 1 .. 2 |-> WeekWindow(RunAt(case[i].day, case[i].hour, case[i].delay))])

\* The report that is due in a month is about the month before.
ReportMonth ==
    \E at \in MonthStart(2) .. MonthStart(Len(Months) + 1) - 1 :
        Answer([about |-> "month", at |-> at],
               [reported |-> MonthWindow(MonthOf(at) - 1), current |-> MonthWindowFor(at)])

Next ==
    /\ Asked("nothing")
    /\ \/ MatchReceipt \/ ShowReceipts \/ EvaluateCharge
       \/ WriteDigest \/ WriteReport
       \/ SortMail \/ ParseMail
       \/ RunDigests \/ ReportMonth

Spec == Init /\ [][Next]_vars

-----------------------------------------------------------------------------
(* Receipts and charges. *)

Known(receipt) == receipt.total # Null

AmountsAgree(receipt, txn) ==
    Known(receipt) /\ Distance(receipt.total, txn.amount) <= Tolerance

OrderNamed(receipt, txn) == receipt.order # Null /\ receipt.order \in txn.merchant

\* What the points of config/default.yaml:60-69 are chosen for: each counts, the
\* exact day and amount more than a near one, neither date nor amount is enough
\* without a second sign, and a near day, amount and merchant together are.
PointsAreBalanced ==
    /\ \A s \in Signals : Weight[s] > 0
    /\ Weight["nearDay"] < Weight["sameDay"] /\ Weight["nearAmount"] < Weight["exactAmount"]
    /\ LET rest == Weight["categoryBonus"]
       IN /\ Weight["sameDay"] + Weight["nearAmount"] + rest < MinScore
          /\ Weight["nearDay"] + Weight["exactAmount"] + rest < MinScore
          /\ Weight["sameDay"] + Weight["merchantFuzzy"] + rest < MinScore
          /\ Weight["sameDay"] + Weight["orderIdInMemo"] + rest < MinScore
          /\ Weight["nearDay"] + Weight["merchantFuzzy"] + Weight["orderIdInMemo"] + rest < MinScore
    /\ Weight["nearDay"] + Weight["exactAmount"] + Weight["merchantFuzzy"] >= MinScore

\* With the points of config/default.yaml a receipt is never linked on closeness
\* of dates alone: the amounts agree, and so do the merchants, or the order is
\* named, or it is the exact amount on the day itself; when the amounts do not
\* agree, merchant, order and day all do (receipt-match-scorer.ts:52-156).
LinkedOnEvidence ==
    Asked("match") /\ answer.best # Null =>
        LET receipt == question.receipt
            txn == answer.best
            sameDay == DayDiff(receipt, txn) = 0
            merchants == MerchantsAgree(txn.merchant, receipt.merchant)
            order == OrderNamed(receipt, txn)
        IN IF AmountsAgree(receipt, txn)
           THEN merchants \/ order \/ (sameDay /\ receipt.total = txn.amount)
           ELSE merchants /\ order /\ sameDay

\* What speaks for a pair, each the more the better.
Merits(receipt, txn) ==
    LET one(condition) == IF condition THEN 1 ELSE 0
    IN <<one(DayDiff(receipt, txn) = 0),
         one(AmountsAgree(receipt, txn)) + one(receipt.total = txn.amount),
         one(MerchantsAgree(txn.merchant, receipt.merchant)),
         one(OrderNamed(receipt, txn)),
         one(txn.category \in Triggers)>>

Dominates(a, b) == a # b /\ \A i \in DOMAIN a : a[i] >= b[i]

\* No charge of the window is at least as good in everything and better in
\* something than the one that is linked, and a charge of the receipt's merchant
\* and exact amount is never left without a link (receipt-match-scorer.ts:137-156).
NothingBetterIsLeft ==
    Asked("match") =>
        LET receipt == question.receipt
            candidates == InMatchWindow(receipt, question.txns)
        IN IF answer.best = Null
           THEN \A txn \in candidates :
                  receipt.total = txn.amount => ~MerchantsAgree(txn.merchant, receipt.merchant)
           ELSE \A txn \in candidates :
                  ~Dominates(Merits(receipt, txn), Merits(receipt, answer.best))

\* What a sentence of ReasonDetail says is so, of the charges in the window.
Says(detail, receipt, candidates) ==
    LET noneIsSure == \A t \in candidates : Score(receipt, t) < MinScore
    IN CASE detail = "no charge in the window" -> candidates = {}
         [] detail = "no charge of the amount" ->
              Known(receipt) /\ \A t \in candidates : ~AmountsAgree(receipt, t)
         [] detail = "no charge of the merchant" ->
              \A t \in candidates : ~MerchantsAgree(t.merchant, receipt.merchant)
         [] detail = "too uncertain to link" ->
              receipt.confidence < MinConfidence /\ noneIsSure
         [] detail = "several charges and none sure" ->
              noneIsSure /\ \E t, u \in candidates : t # u

\* A charge clears the bar, because another receipt has it or the match is still to
\* come, and the sentence says none did or that the receipt was too uncertain, which
\* receipt.match does not ask (unmatch-reasons.ts:36-38, receipt-match-service.ts).
BarIsCleared(detail, best) ==
    detail \in {"several charges and none sure", "too uncertain to link"} /\ best # Null

\* The merchant of the closest charge agrees, and so does its amount or the receipt has
\* none to compare; only its score is low, or another receipt has it.  The sentence
\* still says that the amount is no charge's (unmatch-reasons.ts:30, :82).
AmountIsNotTheReason(detail, receipt, closest) ==
    /\ detail = "no charge of the amount"
    /\ Known(receipt) => AmountsAgree(receipt, closest)
    /\ MerchantsAgree(closest.merchant, receipt.merchant)

\* The sentence speaks of every charge and the reason was found at the closest one:
\* another, with fewer points, has the amount or the merchant that this one lacks
\* (unmatch-reasons.ts:54, :70-81).
AnotherHasIt(detail, receipt, others) ==
    \E t \in others :
        \/ detail = "no charge of the amount" /\ AmountsAgree(receipt, t)
        \/ /\ detail = "no charge of the merchant"
           /\ MerchantsAgree(t.merchant, receipt.merchant)

\* The sentence that the digest shows of a receipt without a charge is true, except
\* in the three cases above, and false in each of them.  While nothing clears the
\* bar, an amount mismatch of a receipt with a total is never said of an exact amount.
\* No sentence speaks of dates; there is no activity only when no charge is nearer
\* than the window; and what may be meant lies in the window
\* (unmatch-reasons.ts:21-125).
ReasonsAreHonest ==
    Asked("match") =>
        LET receipt == question.receipt
            fact == answer.fact
            candidates == InMatchWindow(receipt, question.txns)
            closest == fact.maybe[1].txn
            others == IF fact.maybe = <<>> THEN {} ELSE candidates \ {closest}
        IN /\ Says(fact.detail, receipt, candidates) <=>
                /\ ~BarIsCleared(fact.detail, answer.best)
                /\ ~AmountIsNotTheReason(fact.detail, receipt, closest)
                /\ ~AnotherHasIt(fact.detail, receipt, others)
           /\ fact.reason = "amount_mismatch" /\ Known(receipt) /\ answer.best = Null =>
                closest.amount # receipt.total
           /\ fact.reason # "date_out_of_range"
           /\ fact.reason = "no_bank_activity" =>
                \A t \in question.txns : DayDiff(receipt, t) >= WindowDays
           /\ \A i \in DOMAIN fact.maybe :
                /\ DayDiff(receipt, fact.maybe[i].txn) <= WindowDays
                /\ fact.maybe[i].whyNot = {} <=> fact.maybe[i].score >= MinScore
           /\ answer.best # Null => fact.maybe[1].whyNot = {}

\* What is said of receipts and charges is right: a link rests on evidence and is the
\* best there was, and the sentence about a missing one is true but for the three
\* cases that ReasonsAreHonest names (receipt-match-scorer.ts:52-156,
\* unmatch-reasons.ts:21-125).
MatchesAreSound == LinkedOnEvidence /\ NothingBetterIsLeft /\ ReasonsAreHonest

\* A receipt and a charge of the window are each shown in one section.  The links
\* are read after the list of receipts, so a receipt that is linked in between
\* shows as matched and as unmatched, and one whose charge is not in the window
\* shows nowhere (receipt-enrichment-load.ts:20-53, receipt-enrichment-facts.ts:
\* 42-152).
EverythingIsShownOnce ==
    Asked("sections") =>
        LET case == question.case
            matched == {f.receipt : f \in answer.matched}
            unmatched == {f.receipt : f \in answer.unmatched}
            charged == {f.charge : f \in answer.matched}
            meanwhile == {l[1] : l \in case.after \ case.before}
        IN /\ \A r \in matched \cap unmatched : r \in meanwhile
           /\ \A r \in case.receipts \ (matched \cup unmatched) :
                \E l \in case.before : l[1] = r /\ l[2] \notin case.txns
           /\ charged \cap answer.missing = {}
           /\ \A t \in case.txns :
                t.category \in Triggers => t \in charged \cup answer.missing

-----------------------------------------------------------------------------
(* Charges and weeks. *)

Raised(reason) == \E i \in DOMAIN answer : answer[i] = reason

\* Two equal charges on neighbouring days are reported whichever of them is
\* evaluated last: a late and an early one see the same pair, and it is no
\* increase in price (anomaly-detectors.ts:57-79).
DuplicateSeenFromBoth ==
    Asked("charge") =>
        LET txn == question.case.txn
            history == question.case.history
        IN /\ \A i \in DOMAIN history :
                /\ history[i].amount = txn.amount
                /\ Magnitude(history[i].at - txn.at) = DuplicateTicks
                => Raised("duplicate_charge") /\ Duplicate(history[i], <<txn>>)
           /\ (\A i \in DOMAIN history : history[i].amount = txn.amount) /\ txn.amount > 0
                => ~Raised("price_increase")

\* A price that is called increased is above at least half of the charges of the
\* merchant, whatever their order; a refund among positive charges never is
\* (anomaly-detectors.ts:31-56, baseline-math.ts:49-56).
IncreaseIsAboveTheUsual ==
    Asked("charge") /\ Raised("price_increase")
      /\ (\A i \in DOMAIN question.case.history : question.case.history[i].amount > 0) =>
        LET txn == question.case.txn
            history == question.case.history
            below == {i \in DOMAIN history : history[i].amount < txn.amount}
        IN txn.amount > 0 /\ 2 * Cardinality(below) >= Len(history)

\* A charge is reported for what it is, in whichever order the charges of a merchant
\* are evaluated (anomaly-detectors.ts:28-120).
AlertsAreJustified == DuplicateSeenFromBoth /\ IncreaseIsAboveTheUsual

Summary == answer.facts

Spent(txns) == {t \in txns : ~t.removed /\ t.category # "none"}

\* The figures of a digest and of a report fit together: the total is what was
\* spent and is the sum of the categories, and the shares differ from a hundred
\* by no more than the rounding of each, also when refunds outweigh a category
\* (digest-facts.ts:36-91, monthly-report-facts.ts:26-67).
FactsAddUp ==
    /\ Asked("digest") =>
         LET categories == Summary.categories
             named == DOMAIN categories
             shares == SumOf([c \in named |-> categories[c].share], named)
         IN /\ Summary.total = Total(Spent(question.txns))
            /\ Summary.total = SumOf([c \in named |-> categories[c].amount], named)
            /\ Summary.total # 0 =>
                 2 * Magnitude(shares - 100) <= Cardinality(DOMAIN categories)
    /\ Asked("report") =>
         Summary.total = SumOf(Summary.categories, DOMAIN Summary.categories)

\* A digest speaks of up and down only against a baseline with enough samples, and
\* rightly so when the baseline is above zero (digest-facts.ts:66-105, 120-148).
TrendsAreTrue ==
    Asked("digest") =>
        \A c \in DOMAIN Summary.categories :
            LET fact == Summary.categories[c]
                base == question.baselines[c].mean
            IN /\ fact.trend # NoTrend =>
                    c \in DOMAIN question.baselines /\ question.baselines[c].samples >= MinSamples
               /\ fact.trend # NoTrend /\ base > 0 =>
                    /\ fact.trend.direction = "up" => fact.amount > base
                    /\ fact.trend.direction = "down" => fact.amount < base
                    /\ fact.trend.direction = "flat" => fact.trend.percent <= FlatPercent
                    /\ 2 * Magnitude(base * fact.trend.percent - 100 * Magnitude(fact.amount - base))
                         <= base

\* The figures that the prose is written from add up and their trends are true
\* (digest-facts.ts:36-148, monthly-report-facts.ts:26-67).
FiguresAreTrue == FactsAddUp /\ TrendsAreTrue

Figures(facts) ==
    {facts.total, facts.trend.baseline} \cup facts.anomalies
        \cup UNION {{facts.categories[c].amount, facts.categories[c].trend.baseline}
                        : c \in DOMAIN facts.categories}

\* Prose with an amount that no figure of the facts has is refused, and prose that
\* repeats the amounts as they are displayed is let through as long as none is
\* negative (money-contract.ts:4-71).
GuardIsExact ==
    Asked("digest") =>
        LET figures == Figures(Summary)
        IN /\ answer.accepted =>
                \A d \in question.prose : \E n \in figures : Magnitude(n) = d.cents
           /\ (\A d \in question.prose : ~d.minus /\ \E n \in figures \ {0} : d = Display(n))
                => answer.accepted

-----------------------------------------------------------------------------
(* Mail. *)

\* An alert of a bank or an advertisement is never parsed as a receipt, also when
\* it comes from a shop's domain (mail-classifiers.ts:96-141, 178-188).
BlockedIsNeverParsed ==
    Asked("mail") =>
        LET mail == question.mail
        IN (\/ Topics(mail) \cap Promotion # {} \/ mail.from \in PromoSenders
            \/ BlockBankCardAlerts /\ (Topics(mail) \cap Alert # {} \/ mail.from \in BankSenders))
           => answer.status = "ignored"

\* The kind of a shop's receipts is given to mail of that shop or a subdomain of
\* it only, not to a domain that contains its name; and a shop that needs no
\* topic has its kind for all mail that is not blocked (mail-classifiers.ts:143-161).
ShopKindsAreEarned ==
    Asked("mail") /\ answer.status = "classified" =>
        LET mail == question.mail
            Of(rule) == \E d \in rule.domains :
                Len(mail.domain) >= Len(d)
                /\ \A i \in 1 .. Len(d) :
                      mail.domain[Len(mail.domain) - Len(d) + i] = d[i]
        IN /\ answer.kind # "unknown" =>
                \E rule \in Range(DomainRules) : rule.kind = answer.kind /\ Of(rule)
           /\ (\E rule \in Range(DomainRules) : rule.topics = {} /\ Of(rule))
                => answer.kind # "unknown"

\* Mail is read as a receipt only when nothing blocks it, and has the kind of the
\* shop it is from (mail-classifiers.ts:93-180, mail-ingest.ts:82-114).
MailIsSorted == BlockedIsNeverParsed /\ ShopKindsAreEarned

\* A figure that a decimal string of the model may copy.
Copies(decimal, figure) ==
    /\ figure.cents /\ (figure.commas => figure.dollar)
    /\ figure.amount = Unsigned(FromDecimal(decimal))

\* No amount of a receipt is above the highest that its message prints, and a letter
\* that prints none gives none; a part of a longer figure passes.  And an answer that
\* copies amounts from the text the model is shown, and no wrong date, is never
\* refused, whichever part of the message that text is
\* (receipt-amount-validate.ts:9-55, prompts/receipt.ts:59-70, mime-walk.ts:14-36).
ExtractionIsGrounded ==
    Asked("parse") =>
        LET response == question.case.response
            decimals == (response.items \cup {response.total}) \ {NoValue}
            printed == UNION {p.figures : p \in Range(question.case.parts)}
            shown == Shown(Bodies(question.case.parts))
        IN /\ \A amount \in (answer.items \cup {answer.total}) \ {NoValue} :
                \E figure \in printed : figure.cents /\ Unsigned(amount) <= figure.amount
           /\ (\A d \in decimals : \E figure \in shown : Copies(d, figure))
                /\ response.occurredAt # "not a date" => answer # Refused

-----------------------------------------------------------------------------
(* Spans of time. *)

\* The dates whose charges a window covers: a charge has the date of its bank, at
\* midnight UTC.
Dates(window) ==
    {n \in window.start \div 24 .. window.end \div 24 : Covers(window, 24 * n)}

\* The last midnight before a run.
LastDate(window) == (window.end - 1) \div 24

\* Between two digests exactly the dates are left out by which the second is more
\* than seven later, and exactly those appear twice by which it is less: once a
\* week at the same hour each charge has its digest, through a change of the
\* clock as long as the run stays on its date, and a digest day that is moved
\* leaves out or repeats the days it is moved by (window.ts:16-35,
\* preferences.ts:25-44).
EachChargeInOneDigest ==
    Asked("runs") =>
        LET apart == LastDate(answer[2]) - LastDate(answer[1])
            between == LastDate(answer[1]) + 1 .. LastDate(answer[2])
        IN /\ Cardinality(between \ Dates(answer[2])) = Max({0, apart - 7})
           /\ Cardinality(Dates(answer[1]) \cap Dates(answer[2])) = Max({0, 7 - apart})

\* Reports follow each other without gap or overlap, whatever the clock does in the
\* month, and each has the charges of its dates but for one day: the charges of
\* the first fall into the month before in a zone behind UTC (window.ts:49-78,
\* report-schedule.ts:25-30).
ReportsFollowEachOther ==
    Asked("month") =>
        /\ answer.reported.end = answer.current.start
        /\ Covers(answer.current, question.at)
        /\ LET k == MonthOf(question.at)
               first == SumTo(Months, k - 1)
           IN \A d \in first .. first + Months[k] - 1 :
                Covers(answer.current, 24 * d) <=> (d # first \/ Offset = 0)

\* Every charge has the digest and the report that its date says, through changes of
\* the clock and of the digest day (window.ts:16-78).
EverySpanIsCovered == EachChargeInOneDigest /\ ReportsFollowEachOther

=============================================================================
