----------------------------- MODULE MemoryStore -----------------------------
(***************************************************************************)
(* The repositories that the tests run on (in-memory-repos.ts): JavaScript  *)
(* maps, here functions that grow.  An operation takes a store and its      *)
(* arguments, and gives the store after it and what the caller gets.        *)
(***************************************************************************)
EXTENDS Integers, Sequences, FiniteSets, Functions, SequencesExt, Records

CONSTANT Null

Done(store, answer) == [store |-> store, answer |-> answer]

NotFound == "not found"

Find(map, key) == IF key \in DOMAIN map THEN map[key] ELSE Null

\* What belongs to another user is not found.
Has(map, user, id) == id \in DOMAIN map /\ map[id].user = user

Own(map, user, id) == IF Has(map, user, id) THEN map[id] ELSE Null

Update(store, table, id, With(_)) ==
    IF id \in DOMAIN store[table]
    THEN Done([store EXCEPT ![table][id] = With(@)], Null)
    ELSE Done(store, NotFound)

\* users and items are seeded, digests and anomalies kept in the order of creation.
Empty(users, items) ==
    [users |-> users, items |-> items, byPlaid |-> << >>, txns |-> << >>,
     merchants |-> << >>, baselines |-> << >>, digests |-> << >>, reports |-> << >>,
     anomalies |-> << >>, accounts |-> << >>, byAddress |-> << >>, tokens |-> << >>,
     messages |-> << >>, byGmail |-> << >>, receipts |-> << >>,
     linkOfTxn |-> << >>, linkOfReceipt |-> << >>]

-----------------------------------------------------------------------------
(* Users and items. *)

UpdatePreferences(store, user, prefs) == Update(store, "users", user, LAMBDA u : Over(u, prefs))

SaveCursor(store, item, cursor) ==
    Update(store, "items", item, LAMBDA i : [i EXCEPT !.cursor = cursor, !.synced = TRUE])

SetStatus(store, item, status) ==
    Update(store, "items", item, LAMBDA i : [i EXCEPT !.status = status])

-----------------------------------------------------------------------------
(* Transactions.  A row that is known under its Plaid id is written again.   *)
(* The answer is Null when a transaction of another user makes it throw.      *)

UpsertOne(sofar, user, t) ==
    IF sofar.thrown \/ t.user # user THEN [sofar EXCEPT !.thrown = TRUE]
    ELSE [store |-> [sofar.store EXCEPT !.byPlaid = Put(@, t.plaid, t), !.txns = Put(@, t.id, t)],
          new |-> IF t.plaid \in DOMAIN sofar.store.byPlaid THEN sofar.new
                  ELSE Append(sofar.new, t.id),
          thrown |-> FALSE]

UpsertMany(store, user, txns) ==
    LET after[i \in 0 .. Len(txns)] ==
            IF i = 0 THEN [store |-> store, new |-> << >>, thrown |-> FALSE]
            ELSE UpsertOne(after[i - 1], user, txns[i])
        end == after[Len(txns)]
    IN Done(end.store, IF end.thrown THEN Null ELSE end.new)

SoftDelete(store, user, plaids) ==
    LET gone == {t \in Range(store.byPlaid) : t.plaid \in plaids /\ t.user = user}
        removed(t) == [t EXCEPT !.removed = TRUE]
    IN Done([store EXCEPT
                !.byPlaid = [p \in DOMAIN @ |-> IF @[p] \in gone THEN removed(@[p]) ELSE @[p]],
                !.txns = Over(@, [i \in {t.id : t \in gone} |->
                                    removed(CHOOSE t \in gone : t.id = i)])],
            Null)

SaveEnrichment(store, user, id, enrichment) ==
    IF ~Has(store.txns, user, id) THEN Done(store, NotFound)
    ELSE LET updated == Over(store.txns[id], enrichment)
         IN Done([store EXCEPT !.txns[id] = updated,
                               !.byPlaid = Put(@, updated.plaid, updated)], Null)

FindTransaction(store, user, id) == Own(store.txns, user, id)

Live(store, user) == {t \in Range(store.txns) : t.user = user /\ ~t.removed}

ListInWindow(store, user, start, end) ==
    {t \in Live(store, user) : start <= t.at /\ t.at < end}

\* The words of a name, the cleaned one if there is one; "includes" a subset.
RecentForMerchant(store, user, words, since) ==
    {t \in Live(store, user) :
        since <= t.at /\ words \subseteq (IF t.name = Null THEN t.rawName ELSE t.name)}

-----------------------------------------------------------------------------
(* Merchants and baselines. *)

UpsertMerchant(store, entry) ==
    Done([store EXCEPT !.merchants = Put(@, entry.merchant, entry)], Null)

UpsertBaseline(store, user, b) ==
    IF b.user # user THEN Done(store, "mismatch")
    ELSE Done([store EXCEPT !.baselines = Put(@, <<user, b.category, b.period>>, b)], Null)

BaselinesOf(store, user, period) ==
    {b \in Range(store.baselines) : b.user = user /\ b.period = period}

-----------------------------------------------------------------------------
(* What was sent. *)

Create(store, table, row) == Done([store EXCEPT ![table] = Append(@, row)], Null)

Deliver(store, table, id, at) ==
    IF \E i \in DOMAIN store[table] : store[table][i].id = id
    THEN Done([store EXCEPT ![table] =
                  [i \in DOMAIN @ |-> IF @[i].id = id THEN [@[i] EXCEPT !.deliveredAt = at]
                                      ELSE @[i]]], Null)
    ELSE Done(store, NotFound)

\* slice(-limit) of the rows in the order of their creation: the newest.
Listed(store, table, user, limit) ==
    LET mine == {i \in DOMAIN store[table] : store[table][i].user = user}
        order == CHOOSE s \in SetToSeqs(mine) : \A i, j \in DOMAIN s : i < j => s[i] < s[j]
        rows == [i \in DOMAIN order |-> store[table][order[i]]]
    IN SubSeq(rows, IF Len(rows) > limit THEN Len(rows) - limit + 1 ELSE 1, Len(rows))

UndeliveredInWindow(store, user, start, end) ==
    {a \in Range(store.anomalies) :
        a.user = user /\ a.deliveredAt = Null /\ start <= a.at /\ a.at < end}

FindReport(store, user, month) ==
    LET found == {i \in DOMAIN store.reports :
                     store.reports[i].user = user /\ store.reports[i].month = month}
    IN IF found = {} THEN Null
       ELSE store.reports[CHOOSE i \in found : \A j \in found : i <= j]

-----------------------------------------------------------------------------
(* Mail accounts.  An address is [name, upper]; byAddress has its lower form. *)

Lower(address) == [address EXCEPT !.upper = FALSE]

CreateAccount(store, id, user, address, token) ==
    Done([store EXCEPT
            !.accounts = Put(@, id, [id |-> id, user |-> user, address |-> address,
                                     status |-> "active", history |-> Null, watch |-> Null]),
            !.tokens = Put(@, id, token),
            !.byAddress = Put(@, Lower(address), id)], id)

FindByAddress(store, address) ==
    IF Lower(address) \in DOMAIN store.byAddress
    THEN store.accounts[store.byAddress[Lower(address)]] ELSE Null

AccountsOf(store, user) == {a \in Range(store.accounts) : a.user = user}

ActiveAccounts(store) == {a \in Range(store.accounts) : a.status = "active"}

SaveToken(store, id, token) == Update(store, "tokens", id, LAMBDA old : token)

SaveHistoryId(store, id, history) ==
    Update(store, "accounts", id, LAMBDA a : [a EXCEPT !.history = history])

SaveWatchExpiration(store, id, expires, history) ==
    Update(store, "accounts", id,
           LAMBDA a : [a EXCEPT !.watch = expires,
                                !.history = IF @ = Null THEN history ELSE @])

SetAccountStatus(store, id, status) ==
    Update(store, "accounts", id, LAMBDA a : [a EXCEPT !.status = status])

-----------------------------------------------------------------------------
(* Messages, receipts and links. *)

FindByGmail(store, user, account, gmail) ==
    LET key == <<user, account, gmail>>
    IN IF key \in DOMAIN store.byGmail THEN Own(store.messages, user, store.byGmail[key])
       ELSE Null

UpsertSeen(store, id, user, account, gmail) ==
    LET key == <<user, account, gmail>>
    IN IF key \in DOMAIN store.byGmail THEN Done(store, store.messages[store.byGmail[key]])
       ELSE LET message == [id |-> id, user |-> user, account |-> account, gmail |-> gmail,
                            status |-> "seen", reason |-> Null, kind |-> Null]
            IN Done([store EXCEPT !.messages = Put(@, id, message),
                                  !.byGmail = Put(@, key, id)], message)

FindMessage(store, user, id) == Own(store.messages, user, id)

UpdateClassification(store, user, id, update) ==
    IF ~Has(store.messages, user, id) THEN Done(store, NotFound)
    ELSE Done([store EXCEPT !.messages[id] = Over(@, update)], Null)

MarkDeleted(store, user, account, gmail) ==
    LET key == <<user, account, gmail>>
    IN IF key \in DOMAIN store.byGmail /\ Has(store.messages, user, store.byGmail[key])
       THEN Done([store EXCEPT !.messages[store.byGmail[key]].status = "deleted"], Null)
       ELSE Done(store, Null)

CreateReceipt(store, receipt) ==
    Done([store EXCEPT !.receipts = Put(@, receipt.id, receipt)], Null)

FindReceipt(store, user, id) == Own(store.receipts, user, id)

ReceiptsOf(store, user, message) ==
    {r \in Range(store.receipts) : r.user = user /\ r.message = message}

UnmatchedInWindow(store, user, start, end) ==
    {r \in Range(store.receipts) :
        /\ r.user = user /\ start <= r.extractedAt /\ r.extractedAt < end
        /\ <<user, r.id>> \notin DOMAIN store.linkOfReceipt}

Link(store, entry) ==
    LET txn == <<entry.user, entry.txn>>
        receipt == <<entry.user, entry.receipt>>
    IN IF txn \in DOMAIN store.linkOfTxn \/ receipt \in DOMAIN store.linkOfReceipt
       THEN Done(store, "already linked")
       ELSE Done([store EXCEPT !.linkOfTxn = Put(@, txn, entry),
                               !.linkOfReceipt = Put(@, receipt, entry)], Null)

LinkOfTransaction(store, user, txn) == Find(store.linkOfTxn, <<user, txn>>)

LinkOfReceipt(store, user, receipt) == Find(store.linkOfReceipt, <<user, receipt>>)

=============================================================================
