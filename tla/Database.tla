------------------------------ MODULE Database ------------------------------
(***************************************************************************)
(* The repositories of production (packages/db): tables of Postgres with    *)
(* the unique keys of schema.prisma, and what the mappers do to a record    *)
(* on its way to a row and back.  Foreign keys are left out: the callers    *)
(* name rows that exist.                                                    *)
(*                                                                          *)
(* An amount is a Money, [class, minor, currency]; a column keeps minor     *)
(* units and currency, and a column of JSON loses the class.                *)
(***************************************************************************)
EXTENDS Integers, Sequences, FiniteSets, Functions, SequencesExt, Records

CONSTANT Null

Done(db, answer) == [store |-> db, answer |-> answer]

NotFound == "not found"

MoneyOf(minor, currency) == [class |-> "Money", minor |-> minor, currency |-> currency]

Json(amount) == IF amount = Null THEN Null ELSE [amount EXCEPT !.class = "Object"]

\* findFirst and findUnique.
One(rows, Is(_), Read(_)) ==
    IF \E r \in rows : Is(r) THEN Read(CHOOSE r \in rows : Is(r)) ELSE Null

As(row) == row

\* updateMany, and update, which throws when no row has the id.
UpdateMany(db, table, Is(_), With(_)) ==
    [db EXCEPT ![table] = {IF Is(r) THEN With(r) ELSE r : r \in @}]

Update(db, table, id, With(_)) ==
    IF \E r \in db[table] : r.id = id
    THEN Done(UpdateMany(db, table, LAMBDA r : r.id = id, With), Null)
    ELSE Done(db, NotFound)

\* create, refused when a row has the same unique key.
Create(db, table, row, Same(_), refusal) ==
    IF \E r \in db[table] : Same(r) THEN Done(db, refusal)
    ELSE Done([db EXCEPT ![table] = @ \cup {row}], Null)

Upsert(db, table, row, Same(_)) ==
    [db EXCEPT ![table] = {r \in @ : ~Same(r)} \cup {row}]

Empty(users, items) ==
    [users |-> users, items |-> items, txns |-> {}, merchants |-> {}, baselines |-> {},
     digests |-> {}, reports |-> {}, anomalies |-> {}, accounts |-> {}, messages |-> {},
     receipts |-> {}, links |-> {}]

-----------------------------------------------------------------------------
(* Users and items. *)

UpdatePreferences(db, user, prefs) == Update(db, "users", user, LAMBDA u : Over(u, prefs))

SaveCursor(db, item, cursor) ==
    Update(db, "items", item, LAMBDA i : [i EXCEPT !.cursor = cursor, !.synced = TRUE])

SetStatus(db, item, status) ==
    Update(db, "items", item, LAMBDA i : [i EXCEPT !.status = status])

-----------------------------------------------------------------------------
(* Transactions.  A row that exists stays as it is. *)

TransactionCreateData(t) ==
    Over(Without(t, {"amount"}),
         [minorUnits |-> t.amount.minor, currency |-> t.amount.currency])

ToTransaction(row) ==
    Over(Without(row, {"minorUnits", "currency"}),
         [amount |-> MoneyOf(row.minorUnits, row.currency)])

UpsertOne(sofar, user, t) ==
    IF sofar.thrown \/ t.user # user THEN [sofar EXCEPT !.thrown = TRUE]
    ELSE IF \E r \in sofar.store.txns : r.plaid = t.plaid THEN sofar
    ELSE [store |-> [sofar.store EXCEPT !.txns = @ \cup {TransactionCreateData(t)}],
          new |-> Append(sofar.new, t.id), thrown |-> FALSE]

UpsertMany(db, user, txns) ==
    LET after[i \in 0 .. Len(txns)] ==
            IF i = 0 THEN [store |-> db, new |-> << >>, thrown |-> FALSE]
            ELSE UpsertOne(after[i - 1], user, txns[i])
        end == after[Len(txns)]
    IN Done(end.store, IF end.thrown THEN Null ELSE end.new)

SoftDelete(db, user, plaids) ==
    Done(UpdateMany(db, "txns", LAMBDA r : r.user = user /\ r.plaid \in plaids,
                    LAMBDA r : [r EXCEPT !.removed = TRUE]), Null)

SaveEnrichment(db, user, id, enrichment) ==
    LET mine(r) == r.id = id /\ r.user = user
    IN IF ~\E r \in db.txns : mine(r) THEN Done(db, NotFound)
       ELSE Done(UpdateMany(db, "txns", mine, LAMBDA r : Over(r, enrichment)), Null)

FindTransaction(db, user, id) ==
    One(db.txns, LAMBDA r : r.id = id /\ r.user = user, ToTransaction)

Live(db, user) == {ToTransaction(r) : r \in {x \in db.txns : x.user = user /\ ~x.removed}}

ListInWindow(db, user, start, end) == {t \in Live(db, user) : start <= t.at /\ t.at < end}

RecentForMerchant(db, user, words, since) ==
    {t \in Live(db, user) :
        since <= t.at /\ words \subseteq (IF t.name = Null THEN t.rawName ELSE t.name)}

-----------------------------------------------------------------------------
(* Merchants and baselines.  A baseline keeps the currency of its mean. *)

UpsertMerchant(db, entry) ==
    Done(Upsert(db, "merchants", entry, LAMBDA r : r.merchant = entry.merchant), Null)

LookupMerchant(db, merchant) == One(db.merchants, LAMBDA r : r.merchant = merchant, As)

BaselineUpsertData(b) ==
    Over(b, [mean |-> b.mean.minor, median |-> b.median.minor, currency |-> b.mean.currency])

ToBaseline(row) ==
    Over(Without(row, {"currency"}),
         [mean |-> MoneyOf(row.mean, row.currency), median |-> MoneyOf(row.median, row.currency)])

UpsertBaseline(db, user, b) ==
    IF b.user # user THEN Done(db, "mismatch")
    ELSE Done(Upsert(db, "baselines", BaselineUpsertData(b),
                     LAMBDA r : r.user = user /\ r.category = b.category /\ r.period = b.period),
              Null)

BaselinesOf(db, user, period) ==
    {ToBaseline(r) : r \in {b \in db.baselines : b.user = user /\ b.period = period}}

-----------------------------------------------------------------------------
(* What was sent. *)

CreateDigest(db, d) == Create(db, "digests", d, LAMBDA r : r.id = d.id, "unique")

CreateReport(db, r) ==
    Create(db, "reports", r, LAMBDA x : x.user = r.user /\ x.month = r.month, "unique")

CreateAnomaly(db, a) == Create(db, "anomalies", a, LAMBDA r : r.id = a.id, "unique")

Deliver(db, table, id, at) == Update(db, table, id, LAMBDA r : [r EXCEPT !.deliveredAt = at])

\* The oldest rows first, by the start of the week or the moment of detection.
Listed(db, table, user, limit) ==
    LET rows == CHOOSE s \in SetToSeqs({r \in db[table] : r.user = user}) :
                    \A i, j \in DOMAIN s : i < j => s[i].at <= s[j].at
    IN SubSeq(rows, 1, IF Len(rows) < limit THEN Len(rows) ELSE limit)

UndeliveredInWindow(db, user, start, end) ==
    {a \in db.anomalies : a.user = user /\ a.deliveredAt = Null /\ start <= a.at /\ a.at < end}

FindReport(db, user, month) ==
    One(db.reports, LAMBDA r : r.user = user /\ r.month = month, As)

-----------------------------------------------------------------------------
(* Mail accounts.  The lower form of the address is stored, the token encrypted. *)

Lower(address) == [address EXCEPT !.upper = FALSE]

Encrypted(token) == [sealed |-> token]

Decrypted(cipher) == cipher.sealed

ToMailAccount(row) == Without(row, {"token"})

CreateAccount(db, id, user, address, token) ==
    IF \E r \in db.accounts : r.address = Lower(address) THEN Done(db, "unique")
    ELSE Done([db EXCEPT !.accounts = @ \cup
                  {[id |-> id, user |-> user, address |-> Lower(address), status |-> "active",
                    history |-> Null, watch |-> Null, token |-> Encrypted(token)]}], id)

FindAccount(db, id) == One(db.accounts, LAMBDA r : r.id = id, ToMailAccount)

FindByAddress(db, address) ==
    One(db.accounts, LAMBDA r : r.address = Lower(address), ToMailAccount)

AccountsOf(db, user) == {ToMailAccount(r) : r \in {a \in db.accounts : a.user = user}}

ActiveAccounts(db) == {ToMailAccount(r) : r \in {a \in db.accounts : a.status = "active"}}

Token(db, id) == One(db.accounts, LAMBDA r : r.id = id, LAMBDA r : Decrypted(r.token))

SaveToken(db, id, token) ==
    Update(db, "accounts", id, LAMBDA a : [a EXCEPT !.token = Encrypted(token)])

SaveHistoryId(db, id, history) ==
    Update(db, "accounts", id, LAMBDA a : [a EXCEPT !.history = history])

SaveWatchExpiration_Resets(db, id, expires, history) ==
    Update(db, "accounts", id, LAMBDA a : [a EXCEPT !.watch = expires, !.history = history])

\* A history id that is stored is kept.
SaveWatchExpiration(db, id, expires, history) ==
    Update(db, "accounts", id,
           LAMBDA a : [a EXCEPT !.watch = expires,
                                !.history = IF @ = Null THEN history ELSE @])

SetAccountStatus(db, id, status) ==
    Update(db, "accounts", id, LAMBDA a : [a EXCEPT !.status = status])

-----------------------------------------------------------------------------
(* Messages, receipts and links. *)

Held(db, account, gmail) == {r \in db.messages : r.account = account /\ r.gmail = gmail}

Owned(db, user, account, gmail) ==
    LET held == Held(db, account, gmail)
    IN held # {} /\ (CHOOSE r \in held : TRUE).user = user

FindByGmail(db, user, account, gmail) ==
    IF Owned(db, user, account, gmail) THEN CHOOSE r \in Held(db, account, gmail) : TRUE
    ELSE Null

MailMessageCreateData(id, user, account, gmail) ==
    [id |-> id, user |-> user, account |-> account, gmail |-> gmail,
     status |-> "seen", reason |-> Null, kind |-> Null]

UpsertSeen(db, id, user, account, gmail) ==
    LET held == Held(db, account, gmail)
        message == MailMessageCreateData(id, user, account, gmail)
    IN IF held # {} THEN Done(db, CHOOSE r \in held : TRUE)
       ELSE Done([db EXCEPT !.messages = @ \cup {message}], message)

FindMessage(db, user, id) == One(db.messages, LAMBDA r : r.id = id /\ r.user = user, As)

UpdateClassification(db, user, id, update) ==
    LET mine(r) == r.id = id /\ r.user = user
    IN IF ~\E r \in db.messages : mine(r) THEN Done(db, NotFound)
       ELSE Done(UpdateMany(db, "messages", mine, LAMBDA r : Over(r, update)), Null)

MarkDeleted(db, user, account, gmail) ==
    IF ~Owned(db, user, account, gmail) THEN Done(db, Null)
    ELSE Update(db, "messages", (CHOOSE r \in Held(db, account, gmail) : TRUE).id,
                LAMBDA r : [r EXCEPT !.status = "deleted"])

\* The amounts of the line items go through JSON, the total does not.
ReceiptCreateData(receipt) ==
    LET known == receipt.total # Null
    IN Over(Without(receipt, {"total"}),
            [totalMinor |-> IF known THEN receipt.total.minor ELSE Null,
             totalCurrency |-> IF known THEN receipt.total.currency ELSE Null])

ToReceipt(row) ==
    Over(Without(row, {"totalMinor", "totalCurrency"}),
         [items |-> {Json(a) : a \in row.items},
          total |-> IF row.totalMinor = Null \/ row.totalCurrency = Null THEN Null
                    ELSE MoneyOf(row.totalMinor, row.totalCurrency)])

CreateReceipt(db, receipt) ==
    Create(db, "receipts", ReceiptCreateData(receipt),
           LAMBDA r : r.message = receipt.message, "unique")

FindReceipt(db, user, id) ==
    One(db.receipts, LAMBDA r : r.id = id /\ r.user = user, ToReceipt)

ReceiptsOf(db, user, message) ==
    {ToReceipt(r) : r \in {x \in db.receipts : x.user = user /\ x.message = message}}

UnmatchedInWindow(db, user, start, end) ==
    {ToReceipt(r) : r \in {x \in db.receipts :
        /\ x.user = user /\ start <= x.extractedAt /\ x.extractedAt < end
        /\ ~\E l \in db.links : l.receipt = x.id}}

Link(db, entry) ==
    Create(db, "links", entry, LAMBDA l : l.txn = entry.txn \/ l.receipt = entry.receipt,
           "already linked")

LinkOfTransaction(db, user, txn) ==
    One(db.links, LAMBDA l : l.user = user /\ l.txn = txn, As)

LinkOfReceipt(db, user, receipt) ==
    One(db.links, LAMBDA l : l.user = user /\ l.receipt = receipt, As)

=============================================================================
