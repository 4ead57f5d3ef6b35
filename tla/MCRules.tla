------------------------------- MODULE MCRules -------------------------------
(* Questions for Rules, with the values of config/default.yaml.  A day has two *)
(* ticks for receipts; amounts are cents.                                      *)
EXTENDS Rules

CONSTANTS none, bank, promo, shop

Points == [exactAmount |-> 40, nearAmount |-> 25, sameDay |-> 25, nearDay |-> 15,
           merchantFuzzy |-> 20, orderIdInMemo |-> 15, categoryBonus |-> 10]

\* What the theorems about matches and alerts suppose of the configuration.
ASSUME PointsAssumption == PointsAreBalanced
ASSUME IncreaseAssumption == IncreasePercent > 100

(* Receipts anchored at noon of day 6, and charges at midnight around it. *)
Noon == 13

SomeReceipts ==
    [occurredAt : {none, Noon}, receivedAt : {Noon, 14}, total : {none, 1000},
     merchant : {{"blue", "cup"}}, order : {none, "o7"}, confidence : {60, 90}]

ChargeAt == {0, 4, 12, 14, 24}

SomeCharges ==
    [occurredAt : ChargeAt, amount : {1000, 1080, 1500},
     merchant : {{"blue", "cup"}, {"red", "mug", "o7"}, {"blue", "o7", "inc"}},
     category : {none, "dining"}]

FewCharges ==
    [occurredAt : {4, 12}, amount : {1000, 1080, 1500},
     merchant : {{"blue", "cup"}, {"red", "mug", "o7"}}, category : {none, "dining"}]

SomeChargeSets ==
    {{}} \cup {{t} : t \in SomeCharges} \cup {{t, u} : t, u \in FewCharges}

(* Two receipts and three charges, the last one before the window. *)
ReceiptNo(n) ==
    [occurredAt |-> Noon, receivedAt |-> Noon, total |-> 1000 + n, merchant |-> {"blue"},
     order |-> none, confidence |-> 90]
ChargeNo(n) ==
    [occurredAt |-> 2 * n, amount |-> 1000, merchant |-> {"blue"}, category |-> "dining"]

TwoReceipts == {ReceiptNo(1), ReceiptNo(2)}
InWeek == {ChargeNo(6), ChargeNo(7)}
LinkTables ==
    {links \in SUBSET (TwoReceipts \X (InWeek \cup {ChargeNo(5)})) :
        \A l, k \in links : l[1] = k[1] \/ l[2] = k[2] => l = k}

SomeSections ==
    {case \in [receipts : {TwoReceipts}, txns : SUBSET InWeek,
               before : LinkTables, after : LinkTables] : case.before \subseteq case.after}

(* A charge, up to three others of its merchant and a baseline. *)
Charge(amount, at) == [amount |-> amount, at |-> at, recurring |-> TRUE]
Others == [amount : {-200, 400, 900, 1000}, at : {0, 24, 48}]
Histories == UNION {[1 .. n -> Others] : n \in 0 .. 3}
BaselineOf(values) == Stats(values)

SomeEvaluations ==
    [txn : {Charge(amount, 24) : amount \in {-200, 400, 900, 1000}}, history : Histories,
     baseline : {BaselineOf(<<400, 500, 400, 500>>), BaselineOf(<<900>>)}]

(* Weeks of up to two transactions, and baselines. *)
SomeTransactions ==
    [amount : {-200, 300, 100005}, category : {"none", "dining", "travel"}, removed : BOOLEAN,
     id : {1}]
SomeWeeks == {{t, u} : t, u \in SomeTransactions}

SomeBaselines ==
    {b \in [{"dining", "travel"} -> [mean : {-100, 0, 290, 1000}, samples : {3, 4}]] :
        b["travel"].mean # -100 /\ b["dining"].mean # 1000}

SomeProse ==
    {{}} \cup {{Display(n)} : n \in {300, 290, -200, 100005, 99999}}
        \cup {{Plain(100005)}, {Display(300), Display(77)}, {Display(300), Display(290)}}

(* Mail of shops, of a bank, and of a name that resembles them. *)
MailDomains == {<<"amazon", "com">>, <<"mail", "amazon", "com">>, <<"amazon", "com", "example", "org">>,
                <<"lyft", "com">>, <<"chase", "com">>}
BankOf == {<<"chase", "com">>}
SomeTopics == SUBSET {"order", "sale", "card activity"}
SomeMail ==
    [from : {bank, promo, shop}, domain : MailDomains, subject : SomeTopics, snippet : SomeTopics]
ShopRules ==
    <<[domains |-> {<<"amazon", "com">>}, kind |-> "order_confirmation", topics |-> {"order"}],
      [domains |-> {<<"lyft", "com">>}, kind |-> "rideshare", topics |-> {}]>>

(* Messages of up to two parts with one figure each, and answers of the model. *)
Figure(amount, commas, dollar, cents) ==
    [amount |-> amount, commas |-> commas, dollar |-> dollar, cents |-> cents]
SomeFigures ==
    {Figure(455, FALSE, TRUE, TRUE), Figure(4500, FALSE, TRUE, FALSE),
     Figure(120455, TRUE, TRUE, TRUE), Figure(120455, TRUE, FALSE, TRUE),
     Figure(120455, FALSE, FALSE, TRUE)}
Part(type, figures, empty) ==
    [type |-> type, figures |-> IF empty THEN {} ELSE figures, empty |-> empty,
     blank |-> empty \/ figures = {}]
SomeParts ==
    {Part(type, figures, empty) : type \in {"text/plain", "text/html", "image/png"},
        figures \in {{}} \cup {{f} : f \in SomeFigures}, empty \in BOOLEAN}
Decimal(minus, whole, cents) == [minus |-> minus, whole |-> whole, cents |-> cents]
SomeTotalsRead ==
    {NoValue, Decimal(FALSE, 4, 55), Decimal(FALSE, 45, NoValue), Decimal(FALSE, 1204, 55),
     Decimal(TRUE, 204, 55)}
SomeParses ==
    [parts : {<<p>> : p \in SomeParts} \cup {<<p, q>> : p, q \in SomeParts},
     response : [total : SomeTotalsRead, items : {{}, {NoValue, Decimal(FALSE, 4, 55)}},
                 occurredAt : {NoValue, "day", "not a date"}]]

(* Three weeks; the clock goes forward on day 8 and back on day 17. *)
ThreeWeeks == [d \in 1 .. 21 |-> IF d = 8 THEN 23 ELSE IF d = 17 THEN 25 ELSE 24]
ThreeMonths == <<6, 9, 6>>
SomeRuns ==
    {<<[day |-> a, hour |-> h, delay |-> 0], [day |-> b, hour |-> k, delay |-> e]>> :
        a \in 1 .. 7, b \in 8 .. 20, h \in {9, 18}, k \in {9, 18}, e \in 0 .. 2}
=============================================================================
