------------------------------ MODULE Spending ------------------------------
(***************************************************************************)
(* The arithmetic of a digest: sums and trends, the statistics behind a     *)
(* trend, the four anomaly detectors, and the guard that lets prose through *)
(* only with amounts that the facts contain.                                *)
(*                                                                          *)
(* An amount is an integer number of cents of one currency; a refund is     *)
(* negative.  A percentage or a factor of the configuration is an integer   *)
(* number of hundredths.  Dates are integers, a tick being what the module  *)
(* that instantiates this one takes it for.                                 *)
(***************************************************************************)
EXTENDS Integers, Sequences, FiniteSets, FiniteSetsExt, SequencesExt

CONSTANTS
    IncreasePercent,  \* anomaly.priceIncreaseFactor, 150
    DuplicateTicks,   \* anomaly.duplicateWindowMs
    Sigma,            \* anomaly.unusualSigma
    MinSamples,       \* minBaselineSamples of detectors and digests
    FlatPercent       \* digest.flatThreshold, 5

ASSUME SpendingConfigAssumption ==
    /\ IncreasePercent \in Nat /\ DuplicateTicks \in Nat \ {0} /\ Sigma \in Nat
    /\ MinSamples \in Nat /\ FlatPercent \in Nat

Magnitude(n) == IF n < 0 THEN -n ELSE n

\* Math.round of n / d, for d > 0: halves go up, below zero too.
Rounded(n, d) == (2 * n + d) \div (2 * d)

SumOf(f, S) == MapThenSumSet(LAMBDA x : f[x], S)

Total(txns) == SumOf([t \in txns |-> t.amount], txns)

-----------------------------------------------------------------------------
(* money.ts *)

\* toDisplayString groups thousands of dollars; formatMinor of the detectors and
\* toDecimalString do not.
Display(cents) == [minus |-> cents < 0, cents |-> Magnitude(cents), commas |-> Magnitude(cents) >= 100000]

Plain(cents) == [minus |-> cents < 0, cents |-> Magnitude(cents), commas |-> FALSE]

-----------------------------------------------------------------------------
(* baseline-math.ts *)

Sum(values) == FoldSeq(LAMBDA v, acc : v + acc, 0, values)

Mean(values) == Rounded(Sum(values), Len(values))

\* What sorting puts at place k.
Smallest(k, values) ==
    CHOOSE v \in Range(values) :
        /\ Cardinality({i \in DOMAIN values : values[i] < v}) < k
        /\ Cardinality({i \in DOMAIN values : values[i] <= v}) >= k

Median(values) ==
    LET mid == Len(values) \div 2
    IN IF Len(values) % 2 = 0 THEN Rounded(Smallest(mid, values) + Smallest(mid + 1, values), 2)
       ELSE Smallest(mid + 1, values)

\* The square of the standard deviation, times the number of values.
Squares(values) ==
    FoldSeq(LAMBDA v, acc : (v - Mean(values)) * (v - Mean(values)) + acc, 0, values)

Stats(values) ==
    [mean |-> Mean(values), median |-> Median(values), squares |-> Squares(values),
     samples |-> Len(values)]

-----------------------------------------------------------------------------
(* anomaly-detectors.ts: history is the other recent charges of the merchant, *)
(* the earlier ones and the later ones.                                       *)

PriceIncrease(txn, history) ==
    /\ Len(history) >= 2
    /\ Median([i \in DOMAIN history |-> history[i].amount]) # 0
    /\ 100 * txn.amount >= IncreasePercent * Median([i \in DOMAIN history |-> history[i].amount])

Duplicate_NextDay(txn, history) ==
    \E i \in DOMAIN history :
        history[i].amount = txn.amount /\ txn.at - history[i].at \in 1 .. DuplicateTicks

Duplicate(txn, history) ==
    \E i \in DOMAIN history :
        /\ history[i].amount = txn.amount
        /\ Magnitude(txn.at - history[i].at) \in 1 .. DuplicateTicks

NewSubscription(txn, history) == txn.recurring /\ history = <<>>

\* More than Sigma standard deviations above the mean, without the root.
Unusual(txn, baseline) ==
    LET excess == txn.amount - baseline.mean
    IN /\ baseline.samples > 0 /\ baseline.samples >= MinSamples
       /\ excess > 0
       /\ excess * excess * baseline.samples > Sigma * Sigma * baseline.squares

Severity(reason) == IF reason \in {"price_increase", "duplicate_charge"} THEN "high" ELSE "low"

Verdict(condition, reason) == IF condition THEN <<reason>> ELSE << >>

\* The verdicts in the order of the registry.
Verdicts(txn, history, baseline) ==
    Verdict(PriceIncrease(txn, history), "price_increase")
        \o Verdict(Duplicate(txn, history), "duplicate_charge")
        \o Verdict(NewSubscription(txn, history), "new_subscription")
        \o Verdict(Unusual(txn, baseline), "unusual_spend")

-----------------------------------------------------------------------------
(* digest-facts.ts and monthly-report-facts.ts *)

Ratio_Swapped(current, base) ==
    IF current > 0 THEN [n |-> base, d |-> current] ELSE [n |-> 0, d |-> 1]

\* ratioTo is 0 for an empty baseline; a negative one turns the sign of both.
Ratio(current, base) ==
    CASE base = 0 -> [n |-> 0, d |-> 1]
      [] base > 0 -> [n |-> current, d |-> base]
      [] OTHER    -> [n |-> -current, d |-> -base]

Trend(current, base) ==
    LET ratio == Ratio(current, base)
        change == 100 * (ratio.n - ratio.d)
    IN [direction |-> IF change > FlatPercent * ratio.d THEN "up"
                      ELSE IF change < -FlatPercent * ratio.d THEN "down" ELSE "flat",
        percent |-> Rounded(Magnitude(change), ratio.d),
        baseline |-> base]

NoTrend == [direction |-> "none", percent |-> 0, baseline |-> 0]

Active(txns) == {t \in txns : t.category # "none" /\ ~t.removed}

OfCategory(category, txns) == {t \in Active(txns) : t.category = category}

Mature(baselines) == \E c \in DOMAIN baselines : baselines[c].samples >= MinSamples

Share(amount, total) ==
    CASE total = 0 -> 0
      [] total > 0 -> Rounded(100 * amount, total)
      [] OTHER     -> Rounded(-100 * amount, -total)

CategoryFact(category, txns, baselines) ==
    LET amount == Total(OfCategory(category, txns))
        known == category \in DOMAIN baselines /\ baselines[category].samples >= MinSamples
    IN [amount |-> amount, share |-> Share(amount, Total(Active(txns))),
        trend |-> IF known THEN Trend(amount, baselines[category].mean) ELSE NoTrend]

TotalTrend(txns, baselines) ==
    LET counted == {c \in DOMAIN baselines : baselines[c].samples >= MinSamples}
        base == SumOf([c \in counted |-> baselines[c].mean], counted)
    IN IF base > 0 THEN Trend(Total(Active(txns)), base) ELSE NoTrend

\* An anomaly whose charge is not one of the window's shows no amount.
AnomalyAmount(txn, txns) == IF txn \in txns THEN txn.amount ELSE 0

\* baselines is a function on the categories that have one; raised are the charges
\* of the undelivered anomalies.
DigestFacts(txns, baselines, raised) ==
    [total |-> Total(Active(txns)),
     categories |-> [c \in {t.category : t \in Active(txns)} |-> CategoryFact(c, txns, baselines)],
     trend |-> TotalTrend(txns, baselines),
     anomalies |-> {AnomalyAmount(t, txns) : t \in raised},
     maturity |-> IF Mature(baselines) THEN "established" ELSE "learning"]

\* A monthly report has no baselines and no anomalies.
MonthlyFacts(txns) ==
    LET facts == DigestFacts(txns, << >>, {})
    IN [total |-> facts.total,
        categories |-> [c \in DOMAIN facts.categories |-> facts.categories[c].amount]]

-----------------------------------------------------------------------------
(* money-contract.ts and monthly-report-contract.ts *)

TrendMoney_None(trend) == {}

TrendMoney(trend) == IF trend = NoTrend THEN {} ELSE {Display(trend.baseline)}

CategoryMoney(facts) ==
    UNION {{Display(facts.categories[c].amount)} \cup TrendMoney(facts.categories[c].trend)
               : c \in DOMAIN facts.categories}

\* The amounts of the receipts are left out: they are added in the same way.
DigestMoney(facts) ==
    {Display(facts.total)} \cup TrendMoney(facts.trend) \cup CategoryMoney(facts)
        \cup {Display(amount) : amount \in facts.anomalies}

MonthlyMoney(facts) ==
    {Display(facts.total)} \cup {Display(facts.categories[c]) : c \in DOMAIN facts.categories}

\* The pattern of a figure starts at the dollar sign.
Token(display) == [display EXCEPT !.minus = FALSE]

Accepted(prose, allowed) == \A display \in prose : Token(display) \in allowed

=============================================================================
