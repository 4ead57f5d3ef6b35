SPECIFICATION Spec
CONSTANTS
    PerDay = 2
    WindowDays = 5
    Tolerance = 100
    MinScore = 70
    MinConfidence = 75
    Weight <- Points
    Triggers = {"shopping", "subscriptions", "dining", "travel", "entertainment"}
    none = none
    Null = none
    IncreasePercent = 150
    DuplicateTicks = 24
    Sigma = 3
    MinSamples = 4
    FlatPercent = 5
    Days <- ThreeWeeks
    Months <- ThreeMonths
    Offset = 7
    bank = bank
    promo = promo
    shop = shop
    BlockBankCardAlerts = TRUE
    BankSenders = {bank}
    BankDomains <- BankOf
    PromoSenders = {promo}
    DomainRules <- ShopRules
    ReceiptCases <- SomeReceipts
    ChargeCases <- SomeChargeSets
    SectionCases <- SomeSections
    EvaluationCases <- SomeEvaluations
    WeekCases <- SomeWeeks
    BaselineCases <- SomeBaselines
    ProseCases <- SomeProse
    MailCases <- SomeMail
    NoValue = NoValue
    ParseCases <- SomeParses
    RunCases <- SomeRuns
CHECK_DEADLOCK FALSE
INVARIANT MatchesAreSound
INVARIANT EverythingIsShownOnce
INVARIANT AlertsAreJustified
INVARIANT FiguresAreTrue
INVARIANT GuardIsExact
INVARIANT MailIsSorted
INVARIANT ExtractionIsGrounded
INVARIANT EverySpanIsCovered
