SPECIFICATION Spec
CONSTANTS
    shop = shop
    Txns = {1, 2, 3}
    Merchants = {shop}
    MerchantOf <- OneMerchant
    Hints <- SomeHints
    Categories = {"groceries", "subscriptions"}
    Recurring = {"subscriptions"}
    Triggers = {"subscriptions"}
    None = None
    Slots = {s1, s2}
    Writers = {d1}
    BaselineSlots = {b1, b2}
    MaxConcurrent = 1
    MaxEvents = 3
CHECK_DEADLOCK FALSE
INVARIANT PlacesAreGivenBack
INVARIANT CacheSavesAnswers
INVARIANT DoneIsFannedOut
INVARIANT BaselinesCatchUp
PROPERTY ServedInLine
