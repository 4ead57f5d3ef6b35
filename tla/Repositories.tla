----------------------------- MODULE Repositories -----------------------------
(***************************************************************************)
(* The repositories of the tests and those of production, called alike.     *)
(* Every service is tested on the first and runs on the second, so what a   *)
(* test shows holds in production as far as the two give the same answers.  *)
(* An action is one call of an operation that writes; what the operations   *)
(* that read would answer is compared in every state.                       *)
(***************************************************************************)
EXTENDS Integers, Sequences, FiniteSets, Functions, Records

CONSTANTS
    Null, Users, Items,
    Batches,      \* bound: sequences of transactions without ids
    Plaids, Words, Enrichments, Merchants, Baselines,
    Addresses, Gmails,
    Seed,         \* what a store that is not empty has at the start
    Totals, LineItems,  \* bound: of a receipt
    Limit,        \* how many rows a list of sent things may have
    MaxCalls      \* bound: calls that write

IsMoney(amount) ==
    amount = [class |-> "Money", minor |-> amount.minor, currency |-> amount.currency]

\* A transaction as the bank's batch gives it, with the id that it gets.
Numbered(id, t) ==
    [id |-> id, user |-> t.user, plaid |-> t.plaid, amount |-> t.amount, rawName |-> t.rawName,
     name |-> t.name, category |-> t.category, at |-> t.at, removed |-> t.removed]

ASSUME LimitsOfCalls == Limit \in Nat /\ MaxCalls \in Nat

\* What is stored has the fields of its entity, and its amounts are Money.
ASSUME RowsAssumption ==
    /\ \A batch \in Batches :
         batch \in Seq(Range(batch)) /\ \A i \in DOMAIN batch : IsMoney(batch[i].amount)
    /\ \A e \in Enrichments : DOMAIN e = {"name", "category"}
    /\ \A b \in Baselines :
         /\ b = [user |-> b.user, category |-> b.category, period |-> b.period,
                 mean |-> b.mean, median |-> b.median]
         /\ IsMoney(b.mean) /\ IsMoney(b.median) /\ b.mean.currency = b.median.currency
    /\ \A a \in Addresses : a = [name |-> a.name, upper |-> a.upper] /\ a.upper \in BOOLEAN
    /\ \A total \in Totals \ {Null} :
         IsMoney(total) /\ total.minor # Null /\ total.currency # Null
    /\ Seed.user \in Users /\ Seed.address \in Addresses
    /\ Seed.txn = Numbered(1, Seed.txn) /\ Seed.txn.user = Seed.user /\ IsMoney(Seed.txn.amount)

Memory == INSTANCE MemoryStore WITH Null <- Null
Db == INSTANCE Database WITH Null <- Null

VARIABLES memory, database, answers, calls

stores == <<memory, database, answers, calls>>

Times == 1 .. 2

SeedUsers == [u \in Users |-> [id |-> u, day |-> 1, zone |-> "east"]]
SeedItems == [i \in Items |-> [id |-> i, cursor |-> Null, synced |-> FALSE, status |-> "good"]]

EmptyMemory == Memory!Empty(SeedUsers, SeedItems)
EmptyDatabase == Db!Empty(Range(SeedUsers), Range(SeedItems))

\* A user's mail account, a message in it and a transaction, seeded alike.
SeededMemory ==
    LET account == Memory!CreateAccount(EmptyMemory, 1, Seed.user, Seed.address, "t1").store
        message == Memory!UpsertSeen(account, 1, Seed.user, 1, Seed.gmail).store
    IN Memory!UpsertMany(message, Seed.user, <<Seed.txn>>).store

SeededDatabase ==
    LET account == Db!CreateAccount(EmptyDatabase, 1, Seed.user, Seed.address, "t1").store
        message == Db!UpsertSeen(account, 1, Seed.user, 1, Seed.gmail).store
    IN Db!UpsertMany(message, Seed.user, <<Seed.txn>>).store

Opening ==
    /\ \/ memory = EmptyMemory /\ database = EmptyDatabase
       \/ memory = SeededMemory /\ database = SeededDatabase
    /\ answers = <<Null, Null>>
    /\ calls = 0

Both(m, d) ==
    /\ calls < MaxCalls /\ calls' = calls + 1
    /\ memory' = m.store /\ database' = d.store
    /\ answers' = <<m.answer, d.answer>>

Fresh(rows) == Cardinality(DOMAIN rows) + 1

-----------------------------------------------------------------------------

UpsertTransactions ==
    \E user \in Users, batch \in Batches :
        LET txns == [i \in DOMAIN batch |-> Numbered(Fresh(memory.txns) + i - 1, batch[i])]
        IN Both(Memory!UpsertMany(memory, user, txns), Db!UpsertMany(database, user, txns))

RemoveTransactions ==
    \E user \in Users, plaids \in SUBSET Plaids \ {{}} :
        Both(Memory!SoftDelete(memory, user, plaids), Db!SoftDelete(database, user, plaids))

EnrichTransaction ==
    \E user \in Users, id \in DOMAIN memory.txns, e \in Enrichments :
        Both(Memory!SaveEnrichment(memory, user, id, e), Db!SaveEnrichment(database, user, id, e))

ChangePreferences ==
    \E user \in Users, prefs \in {[day |-> 2], [day |-> 2, zone |-> "west"]} :
        Both(Memory!UpdatePreferences(memory, user, prefs),
             Db!UpdatePreferences(database, user, prefs))

ChangeItem ==
    \E item \in Items :
        \/ Both(Memory!SaveCursor(memory, item, 1), Db!SaveCursor(database, item, 1))
        \/ Both(Memory!SetStatus(memory, item, "error"), Db!SetStatus(database, item, "error"))

CacheMerchant ==
    \E entry \in Merchants :
        Both(Memory!UpsertMerchant(memory, entry), Db!UpsertMerchant(database, entry))

WriteBaseline ==
    \E user \in Users, b \in Baselines :
        Both(Memory!UpsertBaseline(memory, user, b), Db!UpsertBaseline(database, user, b))

Sent(rows, user, at) == [id |-> Len(rows) + 1, user |-> user, at |-> at, deliveredAt |-> Null]

CreateSent ==
    \E user \in Users, at \in Times :
        \/ LET d == Sent(memory.digests, user, at)
           IN Both(Memory!Create(memory, "digests", d), Db!CreateDigest(database, d))
        \/ LET a == Sent(memory.anomalies, user, at)
           IN Both(Memory!Create(memory, "anomalies", a), Db!CreateAnomaly(database, a))
        \/ LET r == Over(Sent(memory.reports, user, 1), [month |-> at])
           IN Both(Memory!Create(memory, "reports", r), Db!CreateReport(database, r))

DeliverSent ==
    \E table \in {"digests", "reports", "anomalies"}, id \in 1 .. 2 :
        Both(Memory!Deliver(memory, table, id, 2), Db!Deliver(database, table, id, 2))

ConnectMail ==
    \E user \in Users, address \in Addresses :
        LET id == Fresh(memory.accounts)
        IN Both(Memory!CreateAccount(memory, id, user, address, "t1"),
                Db!CreateAccount(database, id, user, address, "t1"))

ChangeMailAccount ==
    \E id \in 1 .. 2 :
        \/ Both(Memory!SaveToken(memory, id, "t2"), Db!SaveToken(database, id, "t2"))
        \/ \E h \in Times : Both(Memory!SaveHistoryId(memory, id, h),
                                 Db!SaveHistoryId(database, id, h))
        \/ Both(Memory!SaveWatchExpiration(memory, id, 2, 2),
                Db!SaveWatchExpiration(database, id, 2, 2))
        \/ Both(Memory!SetAccountStatus(memory, id, "expired"),
                Db!SetAccountStatus(database, id, "expired"))

SeeMessage ==
    \E a \in DOMAIN memory.accounts, gmail \in Gmails :
        LET user == memory.accounts[a].user
            id == Fresh(memory.messages)
        IN Both(Memory!UpsertSeen(memory, id, user, a, gmail),
                Db!UpsertSeen(database, id, user, a, gmail))

Updates == {[status |-> "ignored", kind |-> Null, reason |-> "sender"],
            [status |-> "parsed", kind |-> "order", reason |-> Null]}

ClassifyMessage ==
    \E user \in Users, id \in DOMAIN memory.messages, update \in Updates :
        Both(Memory!UpdateClassification(memory, user, id, update),
             Db!UpdateClassification(database, user, id, update))

DeleteMessage ==
    \E user \in Users, a \in DOMAIN memory.accounts, gmail \in Gmails :
        Both(Memory!MarkDeleted(memory, user, a, gmail), Db!MarkDeleted(database, user, a, gmail))

CreateReceipt ==
    \E m \in DOMAIN memory.messages, total \in Totals, items \in LineItems :
        LET r == [id |-> Fresh(memory.receipts), user |-> memory.messages[m].user, message |-> m,
                  total |-> total, items |-> items, extractedAt |-> 1]
        IN Both(Memory!CreateReceipt(memory, r), Db!CreateReceipt(database, r))

LinkReceipt ==
    \E t \in DOMAIN memory.txns, r \in DOMAIN memory.receipts :
        LET entry == [user |-> memory.receipts[r].user, txn |-> t, receipt |-> r]
        IN /\ memory.txns[t].user = entry.user
           /\ Both(Memory!Link(memory, entry), Db!Link(database, entry))

Call ==
    \/ UpsertTransactions \/ RemoveTransactions \/ EnrichTransaction
    \/ ChangePreferences \/ ChangeItem \/ CacheMerchant \/ WriteBaseline
    \/ CreateSent \/ DeliverSent \/ ConnectMail \/ ChangeMailAccount
    \/ SeeMessage \/ ClassifyMessage \/ DeleteMessage \/ CreateReceipt \/ LinkReceipt

CallsSpec == Opening /\ [][Call]_stores

-----------------------------------------------------------------------------
(* What the operations that read answer. *)

Ids == 1 .. 2 * MaxCalls

TransactionsAgree ==
    \A user \in Users, from, to \in Times, words \in Words :
        /\ Memory!ListInWindow(memory, user, from, to) = Db!ListInWindow(database, user, from, to)
        /\ Memory!Live(memory, user) = Db!Live(database, user)
        /\ Memory!RecentForMerchant(memory, user, words, from)
             = Db!RecentForMerchant(database, user, words, from)
        /\ \A id \in Ids :
             Memory!FindTransaction(memory, user, id) = Db!FindTransaction(database, user, id)

SettingsAgree ==
    /\ Range(memory.users) = database.users /\ Range(memory.items) = database.items
    /\ \A entry \in Merchants :
         Memory!Find(memory.merchants, entry.merchant)
           = Db!LookupMerchant(database, entry.merchant)
    /\ \A user \in Users, b \in Baselines :
         Memory!BaselinesOf(memory, user, b.period) = Db!BaselinesOf(database, user, b.period)

SentAgrees ==
    \A user \in Users, at \in Times :
        /\ \A table \in {"digests", "anomalies"} :
             Memory!Listed(memory, table, user, Limit) = Db!Listed(database, table, user, Limit)
        /\ Memory!UndeliveredInWindow(memory, user, 1, at)
             = Db!UndeliveredInWindow(database, user, 1, at)
        /\ Memory!FindReport(memory, user, at) = Db!FindReport(database, user, at)

MailAgrees ==
    /\ Memory!ActiveAccounts(memory) = Db!ActiveAccounts(database)
    /\ \A a \in Addresses : Memory!FindByAddress(memory, a) = Db!FindByAddress(database, a)
    /\ \A id \in Ids :
         /\ Memory!Find(memory.accounts, id) = Db!FindAccount(database, id)
         /\ Memory!Find(memory.tokens, id) = Db!Token(database, id)
    /\ \A user \in Users :
         /\ Memory!AccountsOf(memory, user) = Db!AccountsOf(database, user)
         /\ \A id \in Ids :
              Memory!FindMessage(memory, user, id) = Db!FindMessage(database, user, id)
         /\ \A a \in DOMAIN memory.accounts, gmail \in Gmails :
              Memory!FindByGmail(memory, user, a, gmail) = Db!FindByGmail(database, user, a, gmail)

ReceiptsAgree ==
    \A user \in Users, id \in Ids :
        /\ Memory!FindReceipt(memory, user, id) = Db!FindReceipt(database, user, id)
        /\ Memory!ReceiptsOf(memory, user, id) = Db!ReceiptsOf(database, user, id)
        /\ Memory!UnmatchedInWindow(memory, user, 1, id)
             = Db!UnmatchedInWindow(database, user, 1, id)
        /\ Memory!LinkOfTransaction(memory, user, id) = Db!LinkOfTransaction(database, user, id)
        /\ Memory!LinkOfReceipt(memory, user, id) = Db!LinkOfReceipt(database, user, id)

\* No two rows of memory have a key that is unique in schema.prisma.
KeysAreUnique ==
    /\ \A i, j \in DOMAIN memory.txns : memory.txns[i].plaid = memory.txns[j].plaid => i = j
    /\ \A i, j \in DOMAIN memory.reports :
         /\ memory.reports[i].user = memory.reports[j].user
         /\ memory.reports[i].month = memory.reports[j].month
         => i = j
    /\ \A i, j \in DOMAIN memory.receipts :
         memory.receipts[i].message = memory.receipts[j].message => i = j
    /\ \A i, j \in DOMAIN memory.accounts :
         Memory!Lower(memory.accounts[i].address) = Memory!Lower(memory.accounts[j].address)
         => i = j

\* The lists of what was sent fit their limit and were written in order of time.
ListsAreShort ==
    \A table \in {"digests", "anomalies"}, user \in Users :
        LET mine == {i \in DOMAIN memory[table] : memory[table][i].user = user}
        IN /\ Cardinality(mine) <= Limit
           /\ \A i, j \in mine : i < j => memory[table][i].at < memory[table][j].at

AddressesAreLower == \A a \in Range(memory.accounts) : ~a.address.upper

NothingIsPriced == \A r \in Range(memory.receipts) : r.items \subseteq {Null}

\* The fakes do not drift from the real repositories ("Fakes never drift",
\* docs/execution-plan.md:315): the calls of Next and what can be read after them
\* are answered alike, unless a unique key is written twice, a list outgrows its
\* limit, an address has upper case or a line item has a price: there they differ,
\* and so does findDueForDigest, which is not among the calls
\* (in-memory-repos.ts:92-505, packages/db/src/*-repo.ts).
TestsSeeTheDatabase ==
    KeysAreUnique =>
        /\ answers[1] = answers[2]
        /\ TransactionsAgree /\ SettingsAgree
        /\ ListsAreShort => SentAgrees
        /\ AddressesAreLower => MailAgrees
        /\ NothingIsPriced => ReceiptsAgree

\* The price of a line item can be shown, as the matched facts of a digest do
\* (receipt-enrichment-facts.ts:101-105): it is still a Money when it is read.
PricedItemsAreShown ==
    \A user \in Users, id \in Ids :
        LET r == Db!FindReceipt(database, user, id)
        IN r # Null => \A price \in r.items \ {Null} : price.class = "Money"

=============================================================================
