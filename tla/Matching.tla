------------------------------ MODULE Matching ------------------------------
(***************************************************************************)
(* How a receipt and a bank charge are compared: the points of a pair, the  *)
(* choice of the best charge, the reason that a digest gives for a receipt  *)
(* without a charge, and the three receipt sections of a digest.            *)
(*                                                                          *)
(* Time is counted in ticks, PerDay of them a UTC day.  A merchant name is  *)
(* the set of its normalised words, "includes" a subset and an order id one *)
(* more word of the charge's memo.  Receipts and charges are records; the   *)
(* copy that a fact carries to the reader is left out.                      *)
(***************************************************************************)
EXTENDS Integers, Sequences, FiniteSets, FiniteSetsExt, SequencesExt

CONSTANTS
    PerDay, WindowDays, Tolerance, MinScore, MinConfidence,
    Weight,    \* points of each signal
    Triggers,  \* categories that trigger matching, and earn the bonus
    Null

Signals == {"sameDay", "nearDay", "exactAmount", "nearAmount", "merchantFuzzy",
            "orderIdInMemo", "categoryBonus"}

ASSUME MatchConfigAssumption ==
    /\ PerDay \in Nat \ {0} /\ WindowDays \in Nat /\ Tolerance \in Nat
    /\ MinScore \in Nat \ {0}
    /\ Weight \in [Signals -> Nat]
    /\ Null \notin Triggers

-----------------------------------------------------------------------------
(* receipt-match-scorer.ts *)

Distance(a, b) == IF a < b THEN b - a ELSE a - b

Anchor(receipt) ==
    IF receipt.occurredAt = Null THEN receipt.receivedAt ELSE receipt.occurredAt

DayDiff(receipt, txn) ==
    Distance(txn.occurredAt \div PerDay, Anchor(receipt) \div PerDay)

\* Half of the words of the longer name are shared.
TokenOverlap(a, b) ==
    /\ a # {} /\ b # {}
    /\ 2 * Cardinality(a \cap b) >= Max({Cardinality(a), Cardinality(b)})

\* The memo holds the raw and the cleaned name: here one set of words.
MerchantsAgree(a, b) == a \subseteq b \/ b \subseteq a \/ TokenOverlap(a, b)

When(condition, signal) == IF condition THEN {signal} ELSE {}

SignalsOf(receipt, txn) ==
    LET days == DayDiff(receipt, txn)
        diff == Distance(receipt.total, txn.amount)
        known == receipt.total # Null
    IN IF days > WindowDays
       THEN {"date_out_of_range"}
       ELSE {IF days = 0 THEN "sameDay" ELSE "nearDay"}
            \cup When(known /\ diff = 0, "exactAmount")
            \cup When(known /\ diff \in 1 .. Tolerance, "nearAmount")
            \cup When(MerchantsAgree(txn.merchant, receipt.merchant), "merchantFuzzy")
            \cup When(receipt.order # Null /\ receipt.order \in txn.merchant, "orderIdInMemo")
            \cup When(txn.category \in Triggers, "categoryBonus")

\* A pair out of the range of dates has no points.
Score(receipt, txn) ==
    LET signals == SignalsOf(receipt, txn)
        points(signal) == IF signal \in signals THEN Weight[signal] ELSE 0
    IN points("sameDay") + points("nearDay") + points("exactAmount") + points("nearAmount")
         + points("merchantFuzzy") + points("orderIdInMemo") + points("categoryBonus")

\* Those with points, the most points first; equal ones in some order.
Ranked(receipt, txns) ==
    CHOOSE ranked \in SetToSeqs({t \in txns : Score(receipt, t) > 0}) :
        \A i, j \in DOMAIN ranked :
            i < j => Score(receipt, ranked[i]) >= Score(receipt, ranked[j])

Best_AnyScore(receipt, txns) ==
    IF Ranked(receipt, txns) = <<>> THEN Null ELSE Ranked(receipt, txns)[1]

Best(receipt, txns) ==
    LET ranked == Ranked(receipt, txns)
    IN IF ranked = <<>> \/ Score(receipt, ranked[1]) < MinScore THEN Null ELSE ranked[1]

-----------------------------------------------------------------------------
(* unmatch-reasons.ts *)

WindowTicks == WindowDays * PerDay

InMatchWindow(receipt, txns) ==
    {t \in txns : Distance(t.occurredAt, Anchor(receipt)) <= WindowTicks}

\* Both reach four fifths of the threshold and lie close together.
Close(a, b) == 5 * a >= 4 * MinScore /\ 5 * b >= 4 * MinScore /\ a - b < 10

AmountSignals == {"exactAmount", "nearAmount"}

Reason(receipt, ranked) ==
    LET top == ranked[1]
        signals == SignalsOf(receipt, top)
        rivals == Len(ranked) > 1 /\ Close(Score(receipt, top), Score(receipt, ranked[2]))
    IN IF receipt.confidence < MinConfidence THEN "low_parse_confidence"
       ELSE IF ranked = <<>> /\ receipt.total = Null THEN "merchant_unclear"
       ELSE IF ranked = <<>> THEN "no_bank_activity"
       ELSE IF rivals THEN "multiple_candidates"
       ELSE IF "date_out_of_range" \in signals THEN "date_out_of_range"
       ELSE IF receipt.total # Null /\ signals \cap AmountSignals = {} THEN "amount_mismatch"
       ELSE IF "merchantFuzzy" \notin signals THEN "merchant_unclear"
       ELSE "amount_mismatch"

\* unmatchReasonDetail: what the sentence that the reader sees says of the charges.
ReasonDetail ==
    [no_bank_activity |-> "no charge in the window",
     amount_mismatch |-> "no charge of the amount",
     date_out_of_range |-> "no charge in the window",
     merchant_unclear |-> "no charge of the merchant",
     low_parse_confidence |-> "too uncertain to link",
     multiple_candidates |-> "several charges and none sure"]

\* explainWhyNotLinked; nothing when the pair clears the threshold.
WhyNot(receipt, txn) ==
    LET signals == SignalsOf(receipt, txn)
    IN IF Score(receipt, txn) >= MinScore THEN {}
       ELSE {"score"}
            \cup When(signals \cap AmountSignals = {}, "amount differs")
            \cup When("merchantFuzzy" \notin signals, "merchant name differs")

MaybeTransactions(receipt, ranked) ==
    [i \in 1 .. Min({2, Len(ranked)}) |->
        [txn |-> ranked[i], score |-> Score(receipt, ranked[i]),
         whyNot |-> WhyNot(receipt, ranked[i])]]

\* The charges of other receipts are among the candidates.
UnmatchedFact(receipt, txns) ==
    LET ranked == Ranked(receipt, InMatchWindow(receipt, txns))
        reason == Reason(receipt, ranked)
    IN [receipt |-> receipt, reason |-> reason, detail |-> ReasonDetail[reason],
        maybe |-> MaybeTransactions(receipt, ranked)]

-----------------------------------------------------------------------------
(* receipt-enrichment-load.ts and receipt-enrichment-facts.ts: links is the   *)
(* table of links, as pairs; unmatched are the receipts without one whose     *)
(* extraction falls into the window; txns the live charges of the window.     *)

LinksInWindow(links, txns) == {l \in links : l[2] \in txns}

MatchedFacts(links, txns) ==
    {[receipt |-> l[1], charge |-> l[2]] : l \in LinksInWindow(links, txns)}

Missing_Live(links, txns) == {t \in txns : t.category \in Triggers}

Missing(links, txns) ==
    {t \in txns : t.category \in Triggers /\ ~\E l \in links : l[2] = t}

Sections(unmatched, links, txns) ==
    [matched |-> MatchedFacts(links, txns),
     unmatched |-> {UnmatchedFact(r, txns) : r \in unmatched},
     missing |-> Missing(links, txns)]

=============================================================================
