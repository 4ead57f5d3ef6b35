# A formal model of the expense digest agent

TLA+ modules that model the job-driven core of this repository and the rules it
decides by, the TLC configurations that check them on small instances, and
theorems about them that TLAPS checks for every value of the constants. Every
definition is translated from the source; the comment above a definition, and
`map` in `PROJECT.json`, name the lines. Paths below are relative to the
repository.

## 1. The system

The program is a set of processes around two stores.

| Process | What it does to the state |
|---|---|
| `apps/api` | HTTP: sign-up, Plaid link, Gmail OAuth, preferences, webhooks of Plaid and Gmail. Writes a few rows and enqueues jobs; never calls a domain service. |
| `apps/scheduler` | every 60 s, looks for due digests, due reports and mail watches and enqueues jobs |
| `apps/workers` | takes the jobs of twelve queues and runs one domain service of `packages/core` per job |
| `apps/mcp-server`, `apps/web` | read only (the web application writes through the API) |

Postgres is reached through repositories of one statement per call (no
transaction spans two of them), Redis through BullMQ. Plaid, Gmail, Claude,
Resend and Twilio sit behind ports. There is no other coordination: what two
jobs, or a job and its own retry, may do to each other is decided by the order
in which they reach Postgres and Redis, by unique indexes, and by BullMQ's locks
and job ids. The jobs form a pipeline:

    txn.sync -> txn.categorize -> baseline.recompute
                               -> anomaly.evaluate -> delivery.send
                               -> receipt.match
    mail.sync, mail.fullSync -> receipt.parse -> receipt.match
    scheduler -> digest.generate, report.generate -> delivery.send
              -> mail.watch

### Components

The state each part keeps, its operations, and what makes it correct. The
column M names the module that has its behaviour; section 8 says what is not
modelled.

| Component | State | Operations | Correct when | M |
|---|---|---|---|---|
| Job queue (`packages/queue`) | jobs, attempts, locks, dead-letter queue | enqueue, take, retry, bury, settle | handler runs are bounded, every job is settled, nothing settled is revived, what is completed is accounted for | JobQueue |
| Queue contract | none | names, payload schemas, job ids | ids of the same work are equal | as ids in JobQueue, Scheduler |
| Bank sync (`sync-service.ts`, `transaction-repo.ts`, `item-repo.ts`) | item cursor, transaction rows | txn.sync: fetch page, upsert, soft delete, enqueue categorisation, save cursor | the cursor passes only what is durable; removals stick; each row is categorised once | BankSync |
| Plaid adapter, Plaid link, Plaid webhook | item row | page, create item, request a sync | pages as the bank reports them; a request leads to a sync | BankSync, JobQueue |
| Categorisation (`categorize-service.ts`, `category-resolvers.ts`) | merchant cache, category of a row | txn.categorize | the LLM is asked once per merchant; every job that the category calls for is enqueued | Enrichment |
| Baselines (`baseline-service.ts`, `baseline-math.ts`) | baseline per category | baseline.recompute | reflects the live rows once work is done, unless the last recomputation was buried or overlapped | Enrichment, Spending |
| LLM concurrency limiter (`concurrency.ts`) | counter, callbacks | acquire, release | a line at so many counters, no lost place | LlmLimiter |
| LLM adapter (`packages/llm`) | none | categorise, write, extract | figures of a receipt come from its mail | Enrichment, Extraction |
| Anomaly evaluation | anomaly rows | anomaly.evaluate | one row per verdict, alert for a high one, verdicts justified | Publishing, Spending |
| Digest generation | digest rows | digest.generate | one digest per week; figures true, prose without others | Publishing, Scheduler, Spending |
| Monthly report | report rows | report.generate | one report per month; figures true | Publishing, Scheduler, Spending |
| Delivery | delivered marks | delivery.send | what is marked was sent; repeated only through failures | Publishing |
| Scheduler | none but its timer and BullMQ's ids | tick | nothing due is missed, nothing doubled | Scheduler |
| Time windows (`window.ts`) | none | week and month windows | each charge in one digest and one report | Windows |
| Mail sync, full sync, ingest | historyId, message rows | mail.sync, mail.fullSync | the historyId passes only ingested mail | MailSync |
| Mail watch | watch expiry, historyId | mail.watch | never moves the historyId past mail | MailSync, Scheduler |
| Gmail adapter and routes | mail account | history, list, metadata, body, errors | 404 means expired; parts as the walk finds them | MailSync, Extraction |
| Mail classifiers | none | classify | what is blocked is never parsed; a kind is earned by its domain | Classifiers |
| Receipt parsing, receipt matching | receipts, links, status of a message | receipt.parse, receipt.match | paired one to one, no pair missed, the best pair | Receipts, Matching |
| Receipt facts of a digest | none | load, build | everything shown once, the sentence about a missing charge true or one of three known errors | Matching |
| Money and domain types | none | sums, ratios, formats | - | Spending, Extraction |
| Repositories (`packages/db`, `core/src/testing`) | the rows | every read and write | tests and production answer alike | MemoryStore, Database, Repositories |
| Preferences | digest moment | change | no week lost or doubled | Scheduler |
| Configuration, wiring, API, MCP, web | settings | plumbing | - | - |

### What is hard

- *Every step is a commit.* A service writes a row and then enqueues the job
  that handles it, or writes rows and then a cursor. Whatever fails in between
  is met by the retry of the whole job, which finds the rows of the first
  attempt. Idempotence of a step is not idempotence of the sequence.
- *Retries are not alone.* A worker that loses its lock goes on with its
  handler while BullMQ gives the job to another slot. Workers scale by starting
  more processes.
- *Identity is a job id.* "Once per week", "coalesced" and "deduplicated" all
  mean that BullMQ knows the id already, for as long as it keeps the old job.
- *Time.* A due moment is one minute of a local clock that may repeat or skip
  it, read by timers that drift.
- *The other side moves.* Gmail drops history and users delete mail while a
  sync runs; the bank removes what it has posted.
- *Check, then act.* `upsertMany`, `ingestGmailMessage`, the report job and both
  match jobs look a row up and create it in a second statement; only a unique
  index decides.
- *Two sides of one pair.* A receipt and its charge arrive in either order, and
  each side's job looks for the other.
- *Shared places.* One limiter serves categorisation, digests and reports; a
  place that is not given back after an error stops every later call.
- *Data at a boundary.* Refunds, empty baselines, changes of the clock, figures
  that are part of another figure.
- *Two worlds.* Services are tested on in-memory repositories and run on Prisma.

`hazards` in `PROJECT.json` lists forty of these at their lines, with the
properties that watch them.

## 2. The modules

| Module | What it is |
|---|---|
| `JobQueue` | one queue, its workers and its dead-letter queue |
| `BankSync` | the txn.sync job against a bank that moves |
| `BankMirror` | what a bank synchronisation promises, abstractly; `BankSync` implements it |
| `LlmLimiter` | the limiter of LLM calls |
| `ServingLine` | a line at so many counters; `LlmLimiter` implements it |
| `Enrichment` | txn.categorize and baseline.recompute, composed with an instance of `LlmLimiter` |
| `Receipts` | receipt.parse and receipt.match from both sides |
| `Pairing` | partners for good; `Receipts` implements it |
| `Publishing` | digest, report, anomaly and delivery jobs |
| `Scheduler` | ticks, ids, instances and clocks |
| `MailSync` | mail.sync, mail.fullSync and mail.watch of one account |
| `Matching`, `Spending`, `Windows`, `Classifiers`, `Extraction` | the decisions that need no waiting, as operators |
| `Rules` | asks each of them bounded questions and compares the answers with what a reader relies on |
| `Records` | what JavaScript does to maps and records: `Map.set`, the spread of an object |
| `MemoryStore`, `Database` | the repositories of the tests and those of production, as operators on a store |
| `Repositories` | the same call made to both |
| `InfrastructureProofs` (the queue and the repositories, on which every job stands), `BankSyncProofs`, `EnrichmentProofs`, `ReceiptsProofs`, `PublishingProofs`, `SchedulerProofs`, `MailSyncProofs`, `RulesProofs` | the theorems |
| `MC...` | instances for TLC |

`JobQueue` models in detail what the job modules then use: *an attempt that
fails is repeated or buried, a slot may die or lose its lock, a late result
counts for nothing.* In the job modules a failure may therefore lead to either
outcome, without the count of attempts; that count is JobQueue's subject.
`BankSync`'s `EnqueueCategorize` is `Enrichment`'s `Store`; the jobs that
`Enrichment` enqueues are `Publishing`'s `Request` of a transaction and
`Receipts`' `Categorize`; `MailSync`'s parse jobs are those that `Receipts`
begins with; `Scheduler` produces the other requests of `Publishing`.

Each module separates the environment (bank, Gmail, BullMQ, time: `external` in
the map) from the code. A call that commits is an action, because another slot
may act between any two of them. Local computation between two calls is part of
the action of the next or of the last call.

**A convention.** An operator `Something_Wrong` stands directly before
`Something` and is a mistake that one could make in the same place of the code
(a missing `await`, a dropped guard, an off-by-one). No specification uses it:
each is there to be put in the place of `Something`, and then the property
listed with it in `mutants` of `PROJECT.json` fails. So every property is known
to depend on something that the code does.

### JobQueue (`packages/queue/src`)

| State | Code |
|---|---|
| `state`, `made`, `stalls`, `owner`, `locked` | the job in Redis: its state, `attemptsMade`, stalled counter, lock |
| `job`, `pc` | the handler slots of the BullMQ workers and how far `runHandler` is in each |
| `dlq` | entries of the dead-letter queue |
| `asked`, `faults`; `starts`, `finished` | bounds; history |

| Action | Code |
|---|---|
| `Enqueue` | `producer.ts` `enqueue`: a fixed id that is known is ignored, whatever the state of the old job, since nothing is removed on completion |
| `Take` | `consumer.ts`, the worker's processor |
| `HandlerReturns`, `HandlerThrows` | `run-handler.ts`: success; retryable or not, last attempt or not |
| `Bury`, `BuryFails` | `dead-letter.ts`: the entry is written, or its write throws |
| `Complete`, `Fail`, `LateResult` | BullMQ takes the outcome, from the owner of the lock only |
| `Crash`, `LoseLock`, `StalledCheck` | the process dies; the lock is not renewed; BullMQ moves the stalled job back, or fails it |

Note the swallowed error: when a job is buried, `handleJobFailure` returns
normally, and BullMQ records the job as completed. `CompletedIsAccounted` says
that this is the only way for a completed job to have had no successful run.

### BankSync and BankMirror (`sync-service.ts`, `transaction-repo.ts`, `item-repo.ts`)

The bank is a feed of numbered updates; a page is a window of it. `addedAt`,
`modifiedAt`, `removedAt`, `tip` are the bank, `stored`, `removed`, `revised`
the rows (existing, soft-deleted, created from the modified data), `cursor` the
item's cursor, `categorize` the enqueued jobs, and `from`, `page`, `todo`,
`missing`, `fresh` the locals of a running sync. `Start`, `Fetch`, `Find`,
`Create`, `SoftDelete`, `EnqueueCategorize`, `SaveCursor` are its awaits in
their order; `Find` and `Create` are the two statements of `upsertMany`;
`CreateRefused` is the unique index; `Interrupt` is any failure or death.

`Serial` says whether syncs of the item exclude each other. The default
configuration (`txn.sync` concurrency 1) makes them with one worker process;
with two processes they overlap. `BankMirror` states the promise of the serial
case without pages, retries or locals: the rows mirror the feed up to the
checkpoint, and the checkpoint only moves over what is mirrored.

### LlmLimiter, ServingLine and Enrichment (`concurrency.ts`, `categorize-service.ts`, `category-resolvers.ts`, `baseline-service.ts`)

`running`, `waiters`, `phase` are the limiter's counter, its list of callbacks
and where each caller is. `Acquire` and `Release` are its two functions; a
release that finds a callback decrements, shifts and calls it in one turn of the
event loop, and the callback increments, so `Handed` is `running - 1 + 1`.
`ServingLine` is the promise without counter and callbacks.

`Enrichment` has `category`, `hint` and `live` of each row, the `cache` of
merchants, the `baseline` of each category as the set of transactions it counts,
the jobs (`jobs`, `recompute`, and what was enqueued: `anomaly`, `match`), the
slots (`pc`, `job`, `answer`, `view`) and an instance of the limiter, which
writers of digests share. `ResolveKnown` is the hint or the cache, `CacheMiss`,
`Answered`, `SaveToCache` the LLM resolver, `SaveEnrichment`, `EnqueueBaseline`,
`EnqueueAnomaly`, `EnqueueMatch` the rest of the job in its order; `ReadRows` and
`WriteBaseline` are baseline.recompute, whose slots are two in
`config/production.yaml`. `Fail` ends an attempt anywhere except
while it waits in line (nothing times out there), `BaselineFails` that of a
recomputation, before it has read the rows or between two statements, and `Crash`
all of the process. After each of the three the job waits again or is gone: buried
by the run handler, or failed by BullMQ at its second stall. Which of the two is
left open, so that the attempts and stalls of a job need no counting here
(`JobQueue` counts them). A recomputation that is gone has nobody to take its
place. `ranAlone` is a history variable for the one property that must know of it:
no other recomputation was at work when the last one read its rows, and none was
lost since.

### Receipts and Pairing (`receipt-parse-service.ts`, `receipt-match-service.ts`)

A message, its row and its receipt are one value. `mailbox` and `txn` are Gmail
and the bank, `status`, `receipts`, `totals`, `category`, `links` the rows,
`jobs` the three kinds of jobs, `pc`, `job`, `pick`, `stale` the slots.
`FindReceipt`, `FetchBody` or `BodyGone`, `CreateReceipt` or `CreateRefused`,
`MarkParsed`, `RequestMatch` are receipt.parse; `FindReceiptLink`, `ListTxns`,
`FindPickedLink`, `Link` or `LinkRefused`, `MarkMatched` receipt.match by
receipt; `FindTxnLink`, `ListReceipts`, `Link`, `MarkMatched` by transaction.
`NoTotalThrows` is the log line that formats a total that may be null. The
points are a constant here, so that the runs may have any, and computed in
`Matching`. `Pairing` says: one partner each, and for good.

### Publishing (`digest-`, `report-`, `anomaly-`, `delivery-service.ts`)

`gen` is the generator job of each week, month and transaction, `rows` the
digests, reports and anomalies in the order of their creation, each with the
state of its delivery job (`mail`), how often it was sent, and its delivered
mark. `pc`, `item`, `row`, `left`, `stale` are the slots. `Load`, `LoadSkips`
(a report that exists), `Reject` (the money contract), `Write`, `Detect`,
`EnqueueDelivery`, `Return` are the generators; `TakeMail`, `Find`, `NotFound`,
`Refused`, `Send`, `Mark`, `Finish` are delivery.send. Facts and figures are the
subject of `Spending`; what the detectors decide is a choice.
`Findable` keeps an odd thing of the code: delivery looks its digest or anomaly
up among the first `Limit` rows of the user.

### Scheduler (`apps/scheduler`, `scheduler-service.ts`, `digest-schedule.ts`)

Time is counted in units, two to a tick and to a minute. The calendar is a
constant function from instants to local week, minute, month and UTC day, so
that a clock may repeat or jump. `next` and `todo` are the timer and the
unfinished ticks of each instance, `waiting` and `finished` the job ids that
BullMQ knows, `digests` what the jobs made. `delays` counts the units in which
time passed although a timer, a tick or a job was due: where it is 0 nothing was
late. `next` is counted from the tick that fired, as `setInterval` does.

### MailSync (`mail-sync-`, `mail-full-sync-`, `mail-watch-service.ts`, `mail-ingest.ts`)

`history` is the sequence of changes of the mailbox, `oldest` how much of it
Gmail has dropped, `cursor` the stored historyId, `status` the rows, `parse` the
receipt.parse jobs. Both jobs of the account (`jobs`) run on the slots: `list`,
`delete`, `next` (the next candidate), `fetch`, `upsert`, `classify`, `enqueue`,
then `save`, or `checkpoint` and `save` in the full sync, or `escalate` after a
404. `mail.watch` is two steps, because `saveWatchExpiration` writes back the
historyId of the account that the job has read before its call to Gmail.
`Forget` is BullMQ or an operator dropping the record of a finished job; without
it the fixed ids would let each job run once only.

### The rules: Matching, Spending, Windows, Classifiers, Extraction

Each is the translation of functions that await nothing, and uses data as coarse
as the functions can tell apart: a name is a set of words, a domain a sequence
of labels, a subject the set of topics that the patterns find, prose the set of
figures it names, an amount an integer number of cents, a day a number of ticks,
a calendar the lengths of its days. `Matching` is `receipt-match-scorer.ts`,
`unmatch-reasons.ts`, with what each of its sentences claims (`ReasonDetail`), and
the two files of receipt facts; `Spending` is
`baseline-math.ts`, `anomaly-detectors.ts`, `digest-facts.ts`,
`monthly-report-facts.ts`, both contracts and the arithmetic of `money.ts`;
`Windows` is `window.ts`; `Classifiers` is `mail-classifiers.ts` with the end of
`ingestGmailMessage`; `Extraction` is `mime-walk.ts`,
`receipt-amount-validate.ts` and the mapping of `claude-receipt-extractor.ts`.
`Rules` has one action per question, which computes the answer; the properties
relate the two. Nothing happens after an answer. `Says` is what the sentence of an
unmatched receipt means, stated of the charges and without the code that chose it.

### Repositories (`in-memory-repos.ts` and `packages/db/src`)

`MemoryStore` keeps JavaScript maps as functions, `Database` tables as sets of
rows with their unique keys and, where it matters, what `mappers.ts` does to a
value on its way to a column and back (`Json` drops the class of an amount that
is stored inside a JSON column). An operation takes a store and gives a store
and an answer. `Repositories` has one action per writing operation, which makes
the call on both; the reading operations are compared in every state. Ids and
times are the caller's, as in the code.

## 3. The runs

Twelve runs: eleven that pass, and one that refutes a sentence of the
documentation (section 6).

| Run | Instance | Distinct states | Shows |
|---|---|---|---|
| `queue` | 2 jobs (one with a fixed id, asked for twice), 2 slots, 3 attempts, 1 stall, 2 crashes or lost locks; fairness | 311 thousand | handler runs bounded, completed means accounted for, a buried job runs again only after a stall, settled is final, every job is settled |
| `bank` | 3 transactions (one of an account without a row), 2 syncs one after the other, 3 updates of the feed, 1 failure; fairness | 552 thousand | cursor covers rows, removals stick, queued unless interrupted, every sync ends, BankMirror is implemented |
| `bank_overlap` | 2 transactions, 2 overlapping syncs, 3 updates, 1 failure | 4.5 million | categorised once, also when syncs overlap |
| `enrich` | up to 3 transactions of a merchant, 2 slots and a writer at 1 counter, 2 slots of baseline.recompute, 3 events among stored, removed, failed, buried, crashed | 1.7 million | the limiter serves in line (a refinement), no place is lost, the LLM is asked again only through races and failures, what the category calls for is enqueued, baselines catch up unless the last recomputation overlapped another or was buried |
| `receipts` | 2 receipts (one whose total may be missing), 2 competing charges, 2 slots, 1 deletion, 1 removal, 1 failure | 4.2 million | Pairing is implemented, no pair is missed, the status tells the stage |
| `publish` | 1 week, 1 month, 1 transaction with a low and a high verdict, 2 slots, 1 failure, a user who prefers SMS, a history of 1 row; fairness | 988 thousand | delivered means sent, duplicates only through failures, one report per month, exactly what is urgent is queued, buried for a reason, every delivery ends |
| `schedule` | 2 instances, 1 user, 1 account, two weeks of four minutes with a repeated minute, 1 failure, 2 late units, 1 change of the moment | 1.8 million | one digest per week whatever is late; while nothing is late, nothing due is missed and the watch is renewed daily |
| `mail` | 2 messages (1 receipt), 2 slots, 1 watch, 1 failure, history dropped once, each job forgotten once | 808 thousand | stored historyId covers the rows, no row left half-way without a failure |
| `mail_live` | the same without the watch, with deletions, 1 slot; fairness | 201 thousand | sync and full sync end |
| `rules` | the values of `config/default.yaml`; every question once | 191 thousand | the eight properties of `Rules` (below) |
| `repositories` | 2 users, up to 3 writing calls on empty and on seeded stores | 90 thousand | the two kinds of repositories answer alike, but for four named exceptions |
| `stored_line_items` | the same | violated after the first call on the seeded store | section 6 |

**Why the bounds are enough to see something.** A race needs two slots and, in
all modules, shows with two: the second is the retry of a job whose first slot
goes on. One failure gives every retry over a partial result; two are needed
where a lock is lost *and* the late slot then fails, which is why `queue` has
two. Two transactions, or two messages, are the least for a page with more than
one row and a cursor between them; three updates of the feed allow post, modify,
remove of one transaction and two pages. Two receipts and two charges are the
least in which a pair is lost to a rival, and the points of the instance make
both receipts prefer the same charge. Two slots at one counter, with a third
caller, make a line of two. Two weeks are enough for the border between weeks,
and the repeated minute lies in the second. In `repositories` the call that
makes a difference is at most the third: create, change, read; what needs more
rows begins from the seeded store. The mutants are the other measure: each
property is refuted in its own run when the line it depends on is changed.

**The questions of `rules`.** Receipts with each signal present, near or absent
against up to two charges; every table of links of two receipts and three charges
before and after a race; a charge against up to three others on the day, the day
before and the day after, refunds included; every pair of transactions of a week
with amounts below zero, small and in the thousands, against baselines of zero,
above, below and with too few samples, and prose with each way to write an
amount; senders of the bank, of promotions, of shops and of domains that
resemble them, with all topics; messages of up to two parts of three types
against answers of the model; two runs up to three weeks apart with a change of
the clock in either direction, and every hour of two months.

Deadlock is not checked: all jobs settled and all bounds used is a state in
which these instances stop. Slots are symmetric in `bank_overlap` and
`receipts` (a run with liveness must not use symmetry; the refinement of Pairing
is a safety property in which slots do not occur).

## 4. Fairness

Weak fairness of the step of each slot (`SlotStep`, `SyncStep`) and nothing of
the environment: workers poll as long as they run (`consumer.ts` starts a BullMQ
Worker for each queue), and every call that a handler awaits returns or throws.
The second is an assumption about the clients: a call that never settles would
hold its slot for ever, because a BullMQ worker renews the lock of a handler that
is pending. In `JobQueue` also of `StalledCheck`, which every
BullMQ worker runs on a timer. Crashes, lost locks, failures, expiring history,
incoming mail and posting banks have no fairness and are bounded; liveness
therefore says *every job is settled once faults stop for long enough*.
Attempts are bounded by the code in `JobQueue`; in the job modules by the
failures. `Enrichment`, `Receipts`, `Repositories` and `Rules` have no liveness
property: their jobs are straight lines, whose ending is JobQueue's matter, and
what can go wrong at their end is stated as an invariant of the states in which
nothing is left to run (`NoPairMissed`, `StatusTellsTheStage`,
`BaselinesCatchUp`, `DoneIsFannedOut`). A caller that stands in line for ever
would be seen by `ServedInLine` and `PlacesAreGivenBack`: nobody stands in line
while a counter is free, and a counter is held only during a call.

## 5. What is proved

TLAPS checks these for every value of the constants, under the assumptions that
the modules name (`...Assumption`, which TLC evaluates on each instance): disjoint
and, where something is counted, finite sets, natural bounds, a positive number of
counters, a calendar whose days and minutes are those of a clock, and for `Rules`
cases of the types that the code can meet. A theorem that needs a hypothesis of its
own has it in its row.

| Theorem | Says |
|---|---|
| `InfrastructureProofs!HandlerRunsAreBounded` | at most MaxAttempts + MaxStalls handler runs per job |
| `InfrastructureProofs!CompletedJobsAreAccounted`, `!SettledJobsStaySettled`, `!BuriedJobsRunAgainOnlyAfterStall` | as their properties |
| `BankSyncProofs!CursorAlwaysCoversRows`, `!NeverCategorizedTwice` | with any number of overlapping syncs |
| `BankSyncProofs!RemovalsAlwaysStick`, `!QueuedWhenPassed`, `!CursorOnlyAdvances`, `!ImplementsMirror` | with one sync at a time (`Serial`), the last being the refinement of BankMirror |
| `EnrichmentProofs!CallsAreServedInLine` | the limiter inside categorisation implements ServingLine, for any bound, slots and writers, whichever slots fail and whenever the process restarts |
| `EnrichmentProofs!PlacesAreAlwaysGivenBack`, `!DoneIsAlwaysFannedOut` | as their properties, with any number of slots, writers and failures |
| `EnrichmentProofs!CacheAlwaysSavesAnswers` | the LLM is asked about a merchant at most once per slot, and once more per slot for each failure |
| `EnrichmentProofs!BaselinesAlwaysCatchUp` | for any number of its slots: when nothing is left to run, if no other recomputation was at work when the last one read its rows and none was lost since; the two cases left out are real (section 6) |
| `ReceiptsProofs!PairedOnceHolds` | the refinement of Pairing, for any scores, slots and failures |
| `ReceiptsProofs!StatusAlwaysTellsTheStage`, `!NoPairIsMissed` | when nothing is left to run and nothing failed, for any scores and any order in which the two sides come |
| `PublishingProofs!DeliveredAlwaysMeansSent`, `!OneReportPerMonthHolds` | with any number of slots, failures and lost locks |
| `PublishingProofs!DuplicatesAreOnlyByFaults` | one sending per row, one digest per week and the anomalies of one evaluation per transaction, and as many more for each fault |
| `PublishingProofs!UrgentIsAlwaysQueued`, `!BuriedAlwaysForAReason` | while nothing fails, for any detectors and any limit |
| `SchedulerProofs!DigestOncePerWeekHolds` | at most one digest per user and ISO week, whatever calendar, clocks, instances and delays |
| `SchedulerProofs!DueIsNeverMissedHolds`, `!WatchAlwaysRenewedDaily` | while nothing is late, when more instances run than may fail and a tick is no longer than a minute (`OneIsLeft`) |
| `MailSyncProofs!CursorCoversMailHolds` | until a full sync is asked for, the stored historyId covers the mail, with any number of slots, faults and watches |
| `MailSyncProofs!EveryRowIsSettledHolds` | while nothing fails, no row is left half-way |
| `InfrastructureProofs!TestsSeeTheDatabaseHolds` | the repositories of the tests answer as those of production, for any users, batches, seeds, limits and any number of calls, but for the four exceptions that the property names |
| `InfrastructureProofs!StoresStayAlike` | why: the rows are what the mappers make of memory's records, table by table, and every call is answered alike |
| `InfrastructureProofs!SettingsNeverDrift` | users, items, merchants and baselines are read alike without any exception |
| `RulesProofs!MatchesAreAlwaysSound` | for any receipts, any finite sets of charges and any points that are balanced as those of `config/default.yaml` are (`PointsAreBalanced`); the sentence about a missing charge is true exactly outside the three cases of section 6 |
| `RulesProofs!EverythingIsAlwaysShownOnce` | for any links, those made while the digest reads included |
| `RulesProofs!AlertsAreAlwaysJustified` | for any history of a merchant, when the factor of an increase is above one (the default is 1.5) |
| `RulesProofs!FiguresAreAlwaysTrue` | for any finite week of transactions, any baselines and any threshold of a trend |
| `RulesProofs!GuardIsAlwaysExact` | for any facts and any prose |
| `RulesProofs!MailIsAlwaysSorted` | for any domains, topics and domain rules |
| `RulesProofs!ExtractionIsAlwaysGrounded` | for any parts of a message and any amounts of up to seven digits |
| `RulesProofs!EverySpanIsAlwaysCovered` | for any calendar of UTC or of a zone that stays behind it, whatever its clock does, and any two runs |
| `...!TypeCorrect` | of each of the seven modules with a state of their own |

**Arguments.** None of the safety properties is inductive by itself.

- *JobQueue.* `RunsCounted` is a ledger: past handler runs of a waiting job are
  its counted attempts plus its counted stalls, plus one if it is active.
  `LocksHeld` ties a live lock to the slot that is busy with the job, so that
  `Owns` means what it should; `ReturnsAccounted` says that a slot about to
  return has a reason; `SoloBeforeStall` says that before a stall no other slot
  is busy with the job, which is what makes a second burial the trace of a stall.
- *BankSync.* `CoverInv` carries the cursor's claim along each running sync: the
  start of its window is covered, and up to the window's end what is due has its
  row or is still in `todo`. `FreshInv`: an inserted id is in the `fresh` set of
  one sync only, that of the slot whose `create` succeeded, and was not enqueued
  before. `SerialInv` adds, for one sync at a time, that the sync works from the
  stored cursor and that removals are marked before the cursor passes them, which
  the refinement needs.
  `QueueInv` follows an inserted row that is not enqueued: it is in the `fresh` set
  of a sync, and that sync has yet to move the cursor over it.
- *Enrichment.* The refinement of ServingLine maps the counters to the callers in
  phase `calling`, and the line to the callbacks. It needs that the counter is
  their number (`CounterInv`), that each callback is of one waiting caller
  (`LineInv`), and that callbacks wait only while the counter is full (`FullInv`):
  without the last, a newcomer could pass the line. Every step of the composition
  is a step of the limiter or leaves it alone (`LimiterStep`). `JobInv`: an active
  job has one slot; with one process a crash takes all slots at once, and no lock
  is lost alone. `FanInv` says how far a slot's fan-out has come, so that `Finish`
  may claim all of it. `CacheInv` counts who asked: before the merchant is in the
  cache, every answer is with a slot about to save it or was lost with an attempt;
  afterwards only slots already in their call add one. `CountInv`: when no
  recomputation waits and `ranAlone`, the baseline, or what the running one has
  read, agrees with the transactions announced so far. `AloneInv` makes that one
  reading: under `ranAlone` at most one recomputation is at work, and it is the last.
- *Receipts.* The pairs of Pairing are the links without what made them. A step
  of the implementation joins a pair when `Link` does, under the unique indexes,
  and otherwise stutters; `SlotInv` is what makes the pair one of a receipt and a
  charge, whichever side's job it is. For `NoPairIsMissed`, `PairInv` says of two
  that qualify that one of them has a better or equal partner, or that a job is
  still to come, or at work, that will see both or has picked a partner as good. A
  best candidate exists because the sets are finite. `FactInv` says what a slot has
  established at each place of its job; `CleanInv` adds, while nothing fails, that a
  job has one slot and is enqueued once, so that the status tells the stage.
- *Publishing.* `MailInv`: a slot about to mark has sent, one about to finish has
  marked. `ReportInv`: two rows of one month are one row. `UrgentInv` and, while
  nothing fails, `SlotsOwn` (an item has one slot) and `RowsOwn` (an urgent row
  not yet queued belongs to the slot that is about to queue it) give
  `UrgentIsQueued`; rows are only appended, so what is older than a row, and with
  it the reason for a burial, never changes (`OlderKept`). Duplicates are counted
  with tickets: a slot holds one for each row it may still write and for each
  sending it may still make, and what was written and what may still be together
  grow with a fault only.
- *Scheduler.* `OnceInv`: a job id is waiting or finished, not both. `DigestInv`:
  a digest's job is finished. A second digest of the week would need its id to
  be waiting and finished. `ScanInv`, for what is never missed: the failed instances
  are no more than the faults, so that one is left; each of the others ticks in
  time while nothing is late, and every instant that lies before its next tick has
  had a tick within the minute after it.
- *MailSync.* `Missing[n]`, the messages among the first n changes that are in
  the mailbox and have no row, is empty for every historyId that some step may
  store: the cursor, what mail.watch has read, and, for a slot, all of it is
  among the slot's own pending messages. `LocalInv` says that a slot which saves
  has nothing pending. `EveryRowIsSettled` needs only the types.
- *Rules.* The invariant (`IInv`) is that the answer is the one of its question; the
  rest is about the operators. *Matches*: the score is a sum of seven terms, of
  which the balance of the points decides which may be missing; a finite set of
  charges can be sorted (`CanBeSorted`, by a smallest set that cannot), and the
  sorted list has all of them, in the order of the scores, so that the second of the
  list is another charge than the first; each sentence is then compared with the
  branch that chose it (`AgreeIs`, `SaysIs`). *Alerts*: what sorting puts at a place has as many
  at or below it (`Ranks`, `SmallestIsThere`), so that the rounded median is above
  half of the charges at most. *Figures*: a sum over a finite set is a function on
  its subsets that exists (`SumsAreThere`), in which any element may be taken out
  first (`SumsStep`); hence sums of disjoint sets add up, the sums of the kinds are
  the sum (`SumOfKinds`), and the roundings of n shares are off by n halves at most
  (`RoundedSum`). *Spans*: the dates of a digest are the seven up to the midnight
  before it (`DatesAre`), so that two digests differ by whole days; the month of an
  instant is the last to begin by then (`MonthIsThere`). *Mail*: the first rule
  that applies has a least position, a suffix is compared label by label. *Extraction*:
  what is found inside a printed figure is the last digits of it, so no more. In place of
  induction, which needs a predicate as a parameter, each of these proofs takes a
  smallest counterexample (`SmallestSubset`, `LeastNumber`).

- *Repositories.* `StoresAlike` (in `Alike`, the inductive invariant) relates the
  two stores table by table. Where the code has a unique key that memory does not
  enforce (the Plaid id of a transaction, the month of a report, the address of an
  account, the message of a receipt), the rows are the images of memory's records
  under the mappers *while memory holds no key twice*; before and after, the indexes of
  memory (`byPlaid`, `byAddress`, `byGmail`, the two maps of links) agree with the
  records they lead to. It has to be so: the second record of a key is kept by memory
  and refused, or ignored, by the database, and no later call separates the two
  again. Keys are never rewritten, so what is unique after a call was so before it.
  Each writing operation has its own lemma. A batch of transactions is a run of
  single upserts (`IsRun`); that both runs stay alike, and refuse at the same place, is
  shown at the least place where they would not. Reads then follow from the images:
  a mapper loses nothing of a row that is stored with the fields of its entity
  (`RowsAssumption`), which fails for the price of a line item, the fourth
  exception. For the lists of what was sent, the order by time is the order of
  creation when the times rise, and there is only one such order.

The proofs changed some things in the models. The candidates of a receipt were
sorted by a community operator that has no value where two scores are equal;
`Ranked` is now *some* list in the order of the scores, as the source has it. The
points of a pair were a fold over a set of signals; `Score` is their sum. The
cases of `Rules` are asked under assumptions that say what the code hands over
(links are only added, runs come in their order, a calendar's months are months of
its days), where before only the instance for TLC obeyed them. The lists of the
repositories are *some* list in the order they ask for, because a query with
`orderBy` promises no more; whether a row exists is asked of the table, and no
longer read off a row that is `Null`; and `RowsAssumption` says what the tests'
instance had always obeyed, that stored records have the fields of their entity
and amounts that are Money, the two of a baseline in one currency.

**Only model-checked.** Liveness (`EveryJobSettles`, `EverySyncEnds`,
`EveryDeliveryEnds`, `EveryJobEnds`), for which the prover has no fairness
reasoning. Every invariant and every action property of a passing run is a
theorem. A sum over a *sequence* (`Mean`, `Squares`) is a fold whose values no
theorem speaks of: `Unusual` is checked through the answers of `rules` only.

## 6. Where code and documentation disagree

One run has such a sentence as its property and a counterexample as result.

- `stored_line_items` - a line item has "`amount`: `Money | null`", and a digest
  shows the items of an order: the price is stored inside a JSON column and cast
  when it is read (`packages/db/src/mappers.ts:340`), so that it is no Money and
  `toDisplayString` is no function of it. The digest of a user with such a
  matched receipt throws on every attempt. The in-memory repositories keep the
  object, and no test sees it.

The models show more of the kind. They are described here and by the properties
that hold instead; no run has them as a property of its own.

*Jobs and rows.*

- "Deduped while a sync is queued or running": a *finished* job keeps its id as
  well, so that after the first sync of an account every later push with the
  fixed id is dropped (`producer.ts:33`). `MailSync` needs `Forget` because of it.
- A job whose worker dies twice is failed by BullMQ (`StalledCheck`) and has no
  dead-letter entry, against `docs/error-handling.md:154-155`.
- "Upserts added and modified transactions": `upsertMany` leaves an existing row
  as it is (`transaction-repo.ts:33`, against
  `docs/expense-digest-architecture.md:260`). `BankMirror` therefore promises
  rows, not their data.
- A crash between the creation of a row and `EnqueueCategorize` leaves a
  transaction that is never categorised (`sync-service.ts:99`), against
  `docs/expense-digest-architecture.md:263-265`. `QueuedUnlessInterrupted` is
  what holds.
- A transaction of an account without a row is skipped and passed by the cursor
  (`sync-service.ts:70`); no code but test fixtures creates account rows. The
  constant `Known` is there because of this.
- Two overlapping syncs can bring a removed transaction back: one reads its page
  before the removal and creates the row after the other applied it.
  `RemovalsStick` holds, and is proved, with `Serial` only.
- An attempt of a mail job that fails after `upsertSeen` is retried, finds the
  row and skips the message, whose receipt is never parsed
  (`mail-ingest.ts:42`); hence `EveryRowIsSettled` while nothing fails.
- The full sync ends by listing history from 1 (`mail-full-sync-service.ts:82`),
  which has expired whenever a full sync is needed: `CheckpointExpired` buries
  it. If it did not, a message that arrives between the listing and the
  checkpoint would be in neither. `CursorCoversMail` therefore ends where the
  first full sync begins.
- Every 404 counts as an expired history, also that of a message deleted
  meanwhile (`gmail/src/errors.ts:9`): `MetadataGone` asks for a full sync with
  nothing expired.
- A baseline is not recomputed when a transaction is removed, and a category that
  loses all its transactions keeps its baseline: `BaselinesCatchUp` names both.
  Two more ways leave a baseline stale with nothing left to run. With the two slots
  of `config/production.yaml` an older reading may be written last
  (`baseline-service.ts:25`); and a recomputation that fails for the last time, or
  in a way that is not retryable, is buried like any job
  (`run-handler.ts:97-110`), or lost at its second stall, and only the next
  categorisation enqueues another. `BaselinesCatchUp` is claimed only where
  `ranAlone` tells that neither happened to the last recomputation; the run has
  both slots and both losses.
- A receipt without a total is buried on the way to its match, by the log line
  that formats it (`receipt-match-service.ts:72`); only the transaction's job can
  link it. A transaction that the bank has removed can still be linked
  (`:155`).

*Digests and deliveries.*

- "A delivery failure does not lose a digest": delivery looks for its digest
  among the hundred *oldest* rows, so the hundred-and-first is never found and
  its delivery is buried (`delivery-service.ts:46`, `digest-repo.ts:27`; the
  repository of the tests returns the newest). `BuriedForAReason` says so.
- A failure after `digests.create` gives the week a second digest, against
  `docs/interfaces.md:254-255`; `DuplicatesOnlyByFaults` is what holds, and
  `DigestOncePerWeek` of Scheduler is about *jobs* that run once.
- A failure between a report's row and its delivery job: the retry skips, and the
  report is never mailed (`report-service.ts:54`).
- The alert of a user who prefers SMS is addressed to the e-mail address and
  buried (`delivery-service.ts:100`).
- Two late units let `setInterval` step over a due minute, and the digest of that
  week is not generated (`apps/scheduler/src/main.ts:21`). `DueIsNeverMissed`
  holds while nothing is late. When the clock jumps over the moment there is no
  digest that week, against "DST honored" (`digest-schedule.ts:11`).
- A window is 7 x 24 hours from the run (`window.ts:22`). Dates of charges are
  midnights UTC, so that a change of the clock by itself loses nothing
  (`EverySpanIsCovered`), but moving the digest day leaves out or repeats the
  days it is moved by, and west of UTC the charges of the first of a month are in
  the report of the month before.

*Rules.*

- Unmatched receipts are to be surfaced "honestly (with reasons ...)"
  (`docs/gmail-receipt-enrichment.md:17`). The sentence of a receipt without a charge
  is false in three cases, which `ReasonsAreHonest` names; outside them it is true.
  (1) Charges that other receipts have, and a match that is still to come, leave
  candidates above the bar: two of them near each other give "none cleared the
  confidence bar" (`unmatch-reasons.ts:38`), and a receipt read with little
  confidence "too uncertain to auto-link" (`:36`), although receipt.match never
  asks that confidence. (2) The last branch says `amount_mismatch` (`:30`, `:82`) of
  a pair whose merchant and amount agree, or whose receipt has no total to compare,
  when only its score is low or another receipt has the charge. (3) The sentences about amount and merchant speak of all
  charges, and only the nearest one is looked at (`:54`, `:70-81`).
  `date_out_of_range` is never given. Candidates are to be "below auto-link
  threshold" (`docs/gmail-receipt-enrichment.md:29`); those that another receipt has
  may be above it, and then nothing is said against them.
- The guard of the prose refuses correct negative figures, as its pattern begins
  at the dollar sign, and for the same reason accepts the figure of a positive amount
  with a minus before it; an anomaly's text has amounts without thousands separators
  which the guard does not know; the line items of receipts are not among the
  amounts of a monthly report.
- A repeated refund or income is always a `price_increase` (a negative amount is
  above 1.5 times itself). A duplicate on the same instant, which with dates at
  midnight means the same day, is never found (`anomaly-detectors.ts:57`).
- Against a baseline of zero every category is "down 100%". A weekly baseline is
  the mean per *transaction*, and a digest compares a category's *total* with it.
  An anomaly whose charge lies outside the window shows $0.00.
- An amount is looked for as a piece of text: 4.55 is found in 104.55; "$45"
  without cents and "1,204.55" without a dollar sign are not found, and a receipt
  that prints its total so is refused on every attempt.
- A domain that contains the labels of a bank's is taken for the bank's.
- One transaction in another currency makes a digest and a baseline throw, and
  its page of the bank fail on every attempt (`plaid/src/mappers.ts:39`).

*Repositories* ("Fakes never drift", `docs/execution-plan.md:315`).

- The in-memory repositories have no unique keys, keep the case of an address,
  return the newest instead of the oldest rows of a history, store again a
  transaction whose id is known, and take every user to be due.
  `TestsSeeTheDatabase` names what they have in common.
- The branches for another tenant's rows use error classes that their files do not
  import (`transaction-repo.ts:20`, `baseline-repo.ts:27`, and the check of the
  bound in `concurrency.ts:4`): they throw a ReferenceError.

## 7. What the models leave out

Within the modelled parts: more than one user, item or account in the job modules
(they share no row that these jobs write); wording and templates; logging but
where it throws; the content of errors beyond retryable or not; the paging of a
Gmail listing (one step, because a page does nothing but extend the list);
backoff times; the status of a Plaid item, which no code sets to `needs_reauth`;
a second currency. The digest moment's time zone is fixed per instance, and the
windows are those of UTC and of zones behind it (`ZoneAssumption`).
`Enrichment` has one worker process, because the limiter is one per process; lost
locks are in the other modules. The attempt that `withLlmParseRetry` repeats is
the same call. Of regular expressions the models keep which text is told from
which, not the text.

BullMQ's defaults (30 s lock, one forgiven stall, kept jobs) are taken as the
code leaves them. Plaid, Gmail, Claude, Resend and Twilio do what the adapters
expect of them, with the failures that the adapters map.

## 8. What is not modelled, and why

- *MCP server, web application*: they only read.
- *API plumbing, configuration, wiring*: no state of their own between requests.
  Cryptography and token verification are out of the model.
- *Disconnect and reconnect of a mail account*: what they change, tokens and
  their revocation, lives at Google; the first connection is `MailSync`'s Init.
- *Queue contract, entities, error classes*: values.
- *Prompts and JSON of the LLM adapter*: the model sees what comes of them.

## 9. Plan

Done, in this order: `JobQueue`, `BankSync` with `BankMirror`, `Publishing`,
`Scheduler`, `MailSync`; `Receipts` with `Pairing`; `LlmLimiter` with
`ServingLine`, composed in `Enrichment`; the rules; the repositories; proofs of
all safety properties. What is left:

1. `FiguresAreTrue` for the trend of the whole week, and `EverySpanIsCovered` for
   zones ahead of UTC, where other dates fall into the neighbouring month.
2. `JobQueue` composed with a generator, so that the attempts of a job module are
   exact instead of a choice.
3. A second account of a user, when disconnecting is more than a call to Google.
