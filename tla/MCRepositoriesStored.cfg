SPECIFICATION CallsSpec
CONSTANTS
    Null = Null
    Users = {"u", "v"}
    Items = {"i"}
    Plaids = {"p", "q"}
    Gmails = {"g", "h"}
    Batches <- SomeBatches
    Words <- SomeWords
    Enrichments <- SomeEnrichments
    Merchants <- SomeMerchants
    Baselines <- SomeBaselines
    Addresses <- SomeAddresses
    Seed <- SomeSeed
    Totals <- SomeTotals
    LineItems <- SomeItems
    Limit = 2
    MaxCalls = 3
CHECK_DEADLOCK FALSE
INVARIANT PricedItemsAreShown
