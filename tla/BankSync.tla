------------------------------ MODULE BankSync ------------------------------
(***************************************************************************)
(* The txn.sync job: core/services/sync-service.ts with the repositories    *)
(* and the producer it calls, for one Plaid item. A sync reads the item's   *)
(* cursor, then walks the bank's pages; every repository or queue call is   *)
(* a commit of its own, so every call is a step of its own here, and a      *)
(* failure or a crash may fall between any two of them.                     *)
(*                                                                          *)
(* An operator named Something_Wrong, before Something, is a mistake in the  *)
(* same place of the code that the properties below are to notice.          *)
(*                                                                          *)
(* The bank is external: a feed of numbered updates. A page reports the     *)
(* updates in a window (from, to]; a transaction that was posted and        *)
(* removed inside the window may or may not be listed as added.             *)
(***************************************************************************)
EXTENDS Naturals

CONSTANTS
    Txns,         \* Plaid transaction ids
    Known,        \* those of an account that has a row (external: no code of
                  \* the repository but test fixtures writes account rows)
    Jobs,         \* txn.sync jobs of the item, from the link and from webhooks
    Serial,       \* one sync at a time: one worker process, concurrency 1
    MaxAttempts,  \* settings.maxAttempts
    MaxInterrupts, \* bound: failed or crashed attempts, over all jobs
    MaxTip        \* bound: updates in the bank's feed

ASSUME BankSyncAssumption ==
    /\ Known \subseteq Txns
    /\ Serial \in BOOLEAN
    /\ MaxAttempts \in Nat \ {0}
    /\ MaxInterrupts \in Nat
    /\ MaxTip \in Nat

VARIABLES
    \* the bank
    addedAt, modifiedAt, removedAt, tip,
    \* Postgres: plaid_items.sync_cursor and the transactions table
    cursor, stored, removed,
    revised,     \* rows whose data is from after the bank's modification
    \* Redis
    categorize,  \* txn.categorize jobs enqueued, per transaction
    pc, tries,   \* of each txn.sync job
    \* locals of a running sync
    from,        \* cursor
    page,        \* the SyncPage being worked on
    todo,        \* toUpsert, what is left of it
    missing,     \* the transaction that findUnique did not find, if any
    fresh,       \* insertedIds, what is left to enqueue
    \* history
    seen,        \* tip when the job's last attempt began
    interrupts

bankVars == <<addedAt, modifiedAt, removedAt, tip>>
rowVars == <<stored, removed, revised>>
localVars == <<from, page, todo, missing, fresh>>
vars == <<bankVars, cursor, rowVars, categorize, pc, tries, localVars, seen,
          interrupts>>

In(pos, low, high) == {t \in Txns : pos[t] > low /\ pos[t] <= high}
By(pos, n) == In(pos, 0, n)

Resting == {"absent", "waiting", "done", "dead"}
Running(j) == pc[j] \notin Resting

NoPage == [to |-> 0, removed |-> {}, revised |-> {}, more |-> FALSE]

Init ==
    /\ addedAt = [t \in Txns |-> 0]
    /\ modifiedAt = [t \in Txns |-> 0]
    /\ removedAt = [t \in Txns |-> 0]
    /\ tip = 0
    /\ cursor = 0
    /\ stored = {} /\ removed = {} /\ revised = {}
    /\ categorize = [t \in Txns |-> 0]
    /\ pc = [j \in Jobs |-> "absent"]
    /\ tries = [j \in Jobs |-> 0]
    /\ from = [j \in Jobs |-> 0]
    /\ page = [j \in Jobs |-> NoPage]
    /\ todo = [j \in Jobs |-> {}]
    /\ missing = [j \in Jobs |-> {}]
    /\ fresh = [j \in Jobs |-> {}]
    /\ seen = [j \in Jobs |-> 0]
    /\ interrupts = 0

-----------------------------------------------------------------------------
(* The bank. *)

BankAppends ==
    /\ tip < MaxTip
    /\ tip' = tip + 1
    /\ UNCHANGED <<cursor, rowVars, categorize, pc, tries, localVars, seen,
                   interrupts>>

BankPosts(t) ==
    /\ addedAt[t] = 0
    /\ addedAt' = [addedAt EXCEPT ![t] = tip + 1]
    /\ UNCHANGED <<modifiedAt, removedAt>>
    /\ BankAppends

BankModifies(t) ==
    /\ addedAt[t] > 0 /\ modifiedAt[t] = 0 /\ removedAt[t] = 0
    /\ modifiedAt' = [modifiedAt EXCEPT ![t] = tip + 1]
    /\ UNCHANGED <<addedAt, removedAt>>
    /\ BankAppends

BankRemoves(t) ==
    /\ addedAt[t] > 0 /\ removedAt[t] = 0
    /\ removedAt' = [removedAt EXCEPT ![t] = tip + 1]
    /\ UNCHANGED <<addedAt, modifiedAt>>
    /\ BankAppends

-----------------------------------------------------------------------------
(* The sync job. *)

Request(j) ==
    /\ pc[j] = "absent"
    /\ pc' = [pc EXCEPT ![j] = "waiting"]
    /\ UNCHANGED <<bankVars, cursor, rowVars, categorize, tries, localVars,
                   seen, interrupts>>

MayStart_Always(j) == pc[j] = "waiting"

MayStart(j) ==
    /\ pc[j] = "waiting"
    /\ Serial => \A i \in Jobs : ~Running(i)

\* items.findById and withAccessToken. The item exists: it is created before
\* the first job is enqueued and no code deletes it.
Start(j) ==
    /\ MayStart(j)
    /\ pc' = [pc EXCEPT ![j] = "fetch"]
    /\ from' = [from EXCEPT ![j] = cursor]
    /\ seen' = [seen EXCEPT ![j] = tip]
    /\ UNCHANGED <<bankVars, cursor, rowVars, categorize, tries, page, todo,
                   missing, fresh, interrupts>>

\* mapSyncResponse: the page of the window that ends at n.
SyncPage(j, n) ==
    [to |-> n, removed |-> In(removedAt, from[j], n),
     revised |-> By(modifiedAt, n), more |-> n < tip]

\* bank.syncTransactions, and the account lookups over added and modified.
Fetch(j) ==
    /\ pc[j] = "fetch"
    /\ \E n \in from[j]..tip :
         LET gone == By(removedAt, n)
             new == In(addedAt, from[j], n)
             changed == In(modifiedAt, from[j], n) \ gone
         IN
         /\ n = from[j] => n = tip
         /\ page' = [page EXCEPT ![j] = SyncPage(j, n)]
         /\ \E netted \in SUBSET (new \cap gone) :
              todo' = [todo EXCEPT ![j] = Known \cap ((new \ netted) \cup changed)]
    /\ pc' = [pc EXCEPT ![j] = "upsert"]
    /\ UNCHANGED <<bankVars, cursor, rowVars, categorize, tries, from,
                   missing, fresh, seen, interrupts>>

\* upsertMany: findUnique; an existing row is left as it is.
Find(j, t) ==
    /\ pc[j] = "upsert"
    /\ missing[j] = {}
    /\ t \in todo[j]
    /\ IF t \in stored
         THEN /\ todo' = [todo EXCEPT ![j] = @ \ {t}]
              /\ UNCHANGED missing
         ELSE /\ missing' = [missing EXCEPT ![j] = {t}]
              /\ UNCHANGED todo
    /\ UNCHANGED <<bankVars, cursor, rowVars, categorize, pc, tries, from, page,
                   fresh, seen, interrupts>>

\* The unique index on plaid_transaction_id.
Insertable_NoIndex(t) == t \in Txns

Insertable(t) == t \notin stored

\* upsertMany: create, which the unique index may refuse.
Create(j, t) ==
    /\ t \in missing[j]
    /\ Insertable(t)
    /\ stored' = stored \cup {t}
    /\ revised' = IF t \in page[j].revised THEN revised \cup {t} ELSE revised
    /\ fresh' = [fresh EXCEPT ![j] = @ \cup {t}]
    /\ todo' = [todo EXCEPT ![j] = @ \ {t}]
    /\ missing' = [missing EXCEPT ![j] = {}]
    /\ UNCHANGED <<bankVars, cursor, removed, categorize, pc, tries, from, page,
                   seen, interrupts>>

\* softDeleteByPlaidIds, after upsertMany has returned.
Upserted_NotAwaited(j) == pc[j] = "upsert"

Upserted(j) == pc[j] = "upsert" /\ todo[j] = {}

Marked(j) == page[j].removed \cap stored

SoftDelete(j) ==
    /\ Upserted(j)
    /\ removed' = removed \cup Marked(j)
    /\ pc' = [pc EXCEPT ![j] = "enqueue"]
    /\ UNCHANGED <<bankVars, cursor, stored, revised, categorize, tries,
                   localVars, seen, interrupts>>

EnqueueCategorize(j, t) ==
    /\ pc[j] = "enqueue"
    /\ t \in fresh[j]
    /\ categorize' = [categorize EXCEPT ![t] = @ + 1]
    /\ fresh' = [fresh EXCEPT ![j] = @ \ {t}]
    /\ UNCHANGED <<bankVars, cursor, rowVars, pc, tries, from, page, todo,
                   missing, seen, interrupts>>

\* saveCursor, and the loop's condition.
Enqueued_NotAwaited(j) == pc[j] = "enqueue"

Enqueued(j) == pc[j] = "enqueue" /\ fresh[j] = {}

HasMore_Always(j) == j \in Jobs

HasMore(j) == page[j].more

SaveCursor(j) ==
    /\ Enqueued(j)
    /\ cursor' = page[j].to
    /\ from' = [from EXCEPT ![j] = page[j].to]
    /\ page' = [page EXCEPT ![j] = NoPage]
    /\ pc' = [pc EXCEPT ![j] = IF HasMore(j) THEN "fetch" ELSE "done"]
    /\ UNCHANGED <<bankVars, rowVars, categorize, tries, todo, missing, fresh,
                   seen, interrupts>>

\* A call throws or the worker dies: the locals are gone and the job is tried
\* again, unless the attempts are used up or the error is not retryable
\* (JobQueue has the exact count).
Drop(j) ==
    /\ from' = [from EXCEPT ![j] = 0]
    /\ page' = [page EXCEPT ![j] = NoPage]
    /\ todo' = [todo EXCEPT ![j] = {}]
    /\ missing' = [missing EXCEPT ![j] = {}]
    /\ fresh' = [fresh EXCEPT ![j] = {}]
    /\ tries' = [tries EXCEPT ![j] = @ + 1]
    /\ \/ pc' = [pc EXCEPT ![j] = "dead"]
       \/ tries[j] + 1 < MaxAttempts /\ pc' = [pc EXCEPT ![j] = "waiting"]
    /\ interrupts' = interrupts + 1
    /\ UNCHANGED <<bankVars, cursor, rowVars, categorize, seen>>

Interrupt(j) ==
    /\ Running(j)
    /\ interrupts < MaxInterrupts
    /\ Drop(j)

\* The create of a row that another sync has created since findUnique.
CreateRefused(j) ==
    /\ \E t \in missing[j] : ~Insertable(t)
    /\ Drop(j)

-----------------------------------------------------------------------------
Bank == \E t \in Txns : BankPosts(t) \/ BankModifies(t) \/ BankRemoves(t)

SyncStep(j) ==
    \/ Start(j)
    \/ Fetch(j)
    \/ \E t \in Txns : Find(j, t) \/ Create(j, t) \/ EnqueueCategorize(j, t)
    \/ CreateRefused(j)
    \/ SoftDelete(j)
    \/ SaveCursor(j)

Next ==
    \/ Bank
    \/ \E j \in Jobs : Request(j) \/ SyncStep(j) \/ Interrupt(j)

Spec == Init /\ [][Next]_vars

\* The worker keeps taking jobs and every call it makes returns.
FairSpec == Spec /\ \A j \in Jobs : WF_vars(SyncStep(j))

-----------------------------------------------------------------------------
TypeOK ==
    /\ addedAt \in [Txns -> Nat]
    /\ modifiedAt \in [Txns -> Nat]
    /\ removedAt \in [Txns -> Nat]
    /\ tip \in Nat /\ cursor \in Nat
    /\ stored \subseteq Known /\ removed \subseteq stored /\ revised \subseteq stored
    /\ categorize \in [Txns -> Nat]
    /\ pc \in [Jobs -> Resting \cup {"fetch", "upsert", "enqueue"}]
    /\ tries \in [Jobs -> Nat]
    /\ from \in [Jobs -> Nat]
    /\ page \in [Jobs -> [to : Nat, removed : SUBSET Txns,
                          revised : SUBSET Txns, more : BOOLEAN]]
    /\ todo \in [Jobs -> SUBSET Known]
    /\ missing \in [Jobs -> SUBSET Known]
    /\ fresh \in [Jobs -> SUBSET Txns]
    /\ seen \in [Jobs -> Nat]
    /\ interrupts \in Nat

\* The stored cursor advances only over what is durable: a transaction the
\* cursor has passed, of a known account and not removed since, has its row,
\* however syncs overlap, fail and resume (sync-service.ts:80-108).
CursorCoversRows ==
    Known \cap (By(addedAt, cursor) \ By(removedAt, cursor)) \subseteq stored

\* A transaction whose removal the cursor has passed never counts as spending
\* again: it has no row or a row marked as removed.
RemovalsStick == By(removedAt, cursor) \cap stored \subseteq removed

\* Each row is handed to categorisation at most once, although retried and
\* overlapping syncs upsert the same page again (transaction-repo.ts:15-37).
CategorizedOnce == \A t \in Txns : categorize[t] <= 1

\* While nothing fails, whatever has a row and is behind the cursor has been
\* handed to categorisation: no page is skipped, no inserted id dropped.
QueuedUnlessInterrupted ==
    interrupts = 0 =>
      \A t \in stored \cap By(addedAt, cursor) : categorize[t] > 0

\* The stored cursor never goes back (saveCursor overwrites it blindly).
CursorNeverBack == [][cursor' >= cursor]_vars

\* Every sync that is requested comes to an end.
EverySyncEnds == \A j \in Jobs : pc[j] = "waiting" ~> pc[j] \in {"done", "dead"}

\* One sync at a time implements the promise of BankMirror.
Mirror == INSTANCE BankMirror WITH
    Txns <- Txns, Known <- Known, addedAt <- addedAt, removedAt <- removedAt, tip <- tip,
    stored <- stored, removed <- removed, cursor <- cursor
MirrorSpec == Mirror!Spec

=============================================================================
