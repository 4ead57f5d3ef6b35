----------------------------- MODULE Enrichment -----------------------------
(***************************************************************************)
(* What happens to a stored transaction: txn.categorize resolves its        *)
(* merchant (Plaid's hint, the shared cache, the LLM behind the limiter),   *)
(* saves the category and enqueues baseline.recompute, anomaly.evaluate and *)
(* receipt.match; baseline.recompute reads all rows and writes one baseline *)
(* per category.                                                            *)
(*                                                                          *)
(* One worker process and one user.  An answer of the LLM is a category     *)
(* with its signals; a baseline is the set of the transactions it counts.   *)
(* Attempts and stalls are not counted: an attempt that fails, or ends with *)
(* the process, leaves a job that waits again or one that is buried.        *)
(*                                                                          *)
(* An operator named Something_Wrong, before Something, is a mistake in the *)
(* same place of the code that the properties below are to notice.          *)
(***************************************************************************)
EXTENDS Naturals, Sequences, FiniteSets, Functions

CONSTANTS
    Txns,          \* 1, 2, ... as they are stored
    Merchants,
    MerchantOf,    \* transactions.merchant_name_raw, normalised
    Categories,
    Hints,         \* what mapPfc may make of the transactions: functions
    Recurring,     \* categories that come with the signal of a recurring charge
    Triggers,      \* categories that trigger matching
    None,
    Slots,         \* slots of txn.categorize
    Writers,       \* slots of digest.generate and report.generate
    BaselineSlots,
    MaxConcurrent, \* llm.maxConcurrency
    MaxEvents      \* bound: stored and removed transactions, failures, crashes

ASSUME DataAssumption ==
    /\ Txns \subseteq Nat /\ MaxEvents \in Nat
    /\ MerchantOf \in [Txns -> Merchants]
    /\ None \notin Categories /\ None \notin Txns
    /\ Hints \subseteq [Txns -> Categories \cup {None}]
    /\ Recurring \subseteq Categories /\ Triggers \subseteq Categories
    /\ Slots \cap Writers = {}
    /\ IsFiniteSet(Slots) /\ IsFiniteSet(BaselineSlots)
ASSUME LimitAssumption == MaxConcurrent \in Nat \ {0}

VARIABLES
    category,   \* transactions.category
    hint,       \* mapPfc(transactions.plaid_pfc)
    live,       \* transactions without removed_at
    cache,      \* merchant_categories
    baseline,   \* spend_baselines: the transactions behind each
    jobs,       \* txn.categorize of each transaction
    anomaly, match,  \* transactions whose job of that kind was enqueued
    recompute,  \* baseline.recompute jobs that wait
    pc, job,    \* of each categorising slot
    answer,     \* the enrichment that the slot has resolved
    view,       \* of each baseline slot: the baselines it has still to write
    ranAlone,   \* history: no other ran beside the last recomputation to read its
                \* rows, and none has been buried since
    asked,      \* answers that the LLM gave about each merchant
    faults,
    running, waiters, phase  \* of the limiter

LLM == INSTANCE LlmLimiter WITH Callers <- Slots \cup Writers

limiterVars == <<running, waiters, phase>>
rowVars == <<hint, category, cache, anomaly, match>>
slotVars == <<pc, job, answer>>
baselineVars == <<baseline, view, ranAlone>>
vars == <<rowVars, live, jobs, recompute, slotVars, baselineVars, asked, faults, limiterVars>>

Steps == {"idle", "resolve", "llm", "cache", "save", "baseline", "anomaly", "match",
          "return"}

NoView == [c \in Categories |-> {}]

Init ==
    /\ category = [t \in Txns |-> None]
    /\ hint \in Hints
    /\ live = {}
    /\ cache = [m \in Merchants |-> None]
    /\ baseline = NoView
    /\ jobs = [t \in Txns |-> "none"]
    /\ anomaly = {} /\ match = {} /\ recompute = 0
    /\ pc = [w \in Slots |-> "idle"]
    /\ job = [w \in Slots |-> None]
    /\ answer = [w \in Slots |-> None]
    /\ view = [b \in BaselineSlots |-> NoView]
    /\ ranAlone = TRUE
    /\ asked = [m \in Merchants |-> 0]
    /\ faults = 0
    /\ LLM!Init

Stored == {t \in Txns : jobs[t] # "none"}

MoreEvents == Cardinality(Stored) + Cardinality(Stored \ live) + faults < MaxEvents

Goto(w, step) == pc' = [pc EXCEPT ![w] = step]

Merchant(w) == MerchantOf[job[w]]

-----------------------------------------------------------------------------
\* txn.sync stores a transaction and enqueues its txn.categorize.
Store(t) ==
    /\ t \notin Stored /\ \A u \in Txns : u < t => u \in Stored
    /\ MoreEvents
    /\ live' = live \cup {t}
    /\ jobs' = [jobs EXCEPT ![t] = "waiting"]
    /\ UNCHANGED <<rowVars, recompute, slotVars, baselineVars, asked, faults, limiterVars>>

\* txn.sync soft-deletes a transaction; nothing recomputes the baselines.
Remove(t) ==
    /\ t \in live /\ MoreEvents
    /\ live' = live \ {t}
    /\ UNCHANGED <<rowVars, jobs, recompute, slotVars, baselineVars, asked, faults, limiterVars>>

-----------------------------------------------------------------------------
(* txn.categorize. *)

Take(w, t) ==
    /\ pc[w] = "idle" /\ jobs[t] = "waiting"
    /\ jobs' = [jobs EXCEPT ![t] = "active"]
    /\ job' = [job EXCEPT ![w] = t]
    /\ Goto(w, "resolve")
    /\ UNCHANGED <<rowVars, live, recompute, answer, baselineVars, asked, faults, limiterVars>>

Resolved(w, c) ==
    /\ answer' = [answer EXCEPT ![w] = c]
    /\ Goto(w, "save")
    /\ UNCHANGED <<rowVars, live, jobs, recompute, job, baselineVars, asked, faults, limiterVars>>

\* Plaid's hint comes before the cache.
Known(w) == IF hint[job[w]] # None THEN hint[job[w]] ELSE cache[Merchant(w)]

ResolveKnown(w) ==
    /\ pc[w] = "resolve" /\ Known(w) # None
    /\ Resolved(w, Known(w))

\* On a miss the slot asks the limiter for a place at once.
CacheMiss(w) ==
    /\ pc[w] = "resolve" /\ Known(w) = None
    /\ LLM!Acquire(w)
    /\ Goto(w, "llm")
    /\ UNCHANGED <<rowVars, live, jobs, recompute, job, answer, baselineVars, asked, faults>>

\* The call, with the one retry that withLlmParseRetry makes in the same place
\* when the answer breaks its schema.
Answered(w, c) ==
    /\ pc[w] = "llm" /\ phase[w] = "calling"
    /\ LLM!Release(w)
    /\ answer' = [answer EXCEPT ![w] = c]
    /\ asked' = [asked EXCEPT ![Merchant(w)] = @ + 1]
    /\ Goto(w, "cache")
    /\ UNCHANGED <<rowVars, live, jobs, recompute, job, baselineVars, faults>>

\* merchants.upsert: the last answer stays.
Cached_NotWritten(w) == cache

Cached(w) == [cache EXCEPT ![Merchant(w)] = answer[w]]

SaveToCache(w) ==
    /\ pc[w] = "cache"
    /\ cache' = Cached(w)
    /\ Goto(w, "save")
    /\ UNCHANGED <<hint, category, anomaly, match, live, jobs, recompute, job, answer, baselineVars,
                   asked, faults, limiterVars>>

SaveEnrichment(w) ==
    /\ pc[w] = "save"
    /\ category' = [category EXCEPT ![job[w]] = answer[w]]
    /\ Goto(w, "baseline")
    /\ UNCHANGED <<hint, cache, anomaly, match, live, jobs, recompute, job, answer, baselineVars,
                   asked, faults, limiterVars>>

AfterBaseline_MatchFirst(w) ==
    IF answer[w] \in Triggers THEN "match"
    ELSE IF answer[w] \in Recurring THEN "anomaly" ELSE "return"

AfterBaseline(w) ==
    IF answer[w] \in Recurring THEN "anomaly"
    ELSE IF answer[w] \in Triggers THEN "match" ELSE "return"

EnqueueBaseline(w) ==
    /\ pc[w] = "baseline"
    /\ recompute' = recompute + 1
    /\ Goto(w, AfterBaseline(w))
    /\ UNCHANGED <<rowVars, live, jobs, job, answer, baselineVars, asked, faults, limiterVars>>

EnqueueAnomaly(w) ==
    /\ pc[w] = "anomaly"
    /\ anomaly' = anomaly \cup {job[w]}
    /\ Goto(w, IF answer[w] \in Triggers THEN "match" ELSE "return")
    /\ UNCHANGED <<hint, category, cache, match, live, jobs, recompute, job, answer, baselineVars,
                   asked, faults, limiterVars>>

EnqueueMatch(w) ==
    /\ pc[w] = "match"
    /\ match' = match \cup {job[w]}
    /\ Goto(w, "return")
    /\ UNCHANGED <<hint, category, cache, anomaly, live, jobs, recompute, job, answer, baselineVars,
                   asked, faults, limiterVars>>

Finish(w) ==
    /\ pc[w] = "return"
    /\ jobs' = [jobs EXCEPT ![job[w]] = "done"]
    /\ job' = [job EXCEPT ![w] = None]
    /\ answer' = [answer EXCEPT ![w] = None]
    /\ Goto(w, "idle")
    /\ UNCHANGED <<rowVars, live, recompute, baselineVars, asked, faults, limiterVars>>

\* A call of the attempt fails; the place at the limiter is given back in finally.
GiveBack_NotOnError(w) == UNCHANGED limiterVars

GiveBack(w) ==
    IF phase[w] = "calling" THEN LLM!Release(w) ELSE UNCHANGED limiterVars

Fail(w) ==
    /\ pc[w] # "idle" /\ phase[w] # "waiting"
    /\ MoreEvents
    /\ faults' = faults + 1
    /\ \E state \in {"waiting", "dead"} : jobs' = [jobs EXCEPT ![job[w]] = state]
    /\ job' = [job EXCEPT ![w] = None]
    /\ answer' = [answer EXCEPT ![w] = None]
    /\ Goto(w, "idle")
    /\ GiveBack(w)
    /\ UNCHANGED <<rowVars, live, recompute, baselineVars, asked>>

-----------------------------------------------------------------------------
(* Digests and reports use the same limiter. *)

WriterAsks(w) ==
    /\ LLM!Acquire(w)
    /\ UNCHANGED <<rowVars, live, jobs, recompute, slotVars, baselineVars, asked, faults>>

WriterDone(w) ==
    /\ LLM!Release(w)
    /\ UNCHANGED <<rowVars, live, jobs, recompute, slotVars, baselineVars, asked, faults>>

-----------------------------------------------------------------------------
(* baseline.recompute. *)

Idle(b) == view[b] = NoView

\* listForUser, by category.
Counted(c) == {t \in live : category[t] = c}

\* The rows are read, and the job's baselines follow from them.
ReadRows(b) ==
    /\ Idle(b) /\ recompute > 0
    /\ recompute' = recompute - 1
    /\ view' = [view EXCEPT ![b] = [c \in Categories |-> Counted(c)]]
    /\ ranAlone' = \A other \in BaselineSlots \ {b} : Idle(other)
    /\ UNCHANGED <<rowVars, live, jobs, slotVars, baseline, asked, faults, limiterVars>>

\* One row of spend_baselines per statement.  A category without transactions is
\* not written, and keeps the baseline it has.
Written_OnlyNew(b, c) == IF baseline[c] = {} THEN view[b][c] ELSE baseline[c]

Written(b, c) == view[b][c]

WriteBaseline(b, c) ==
    /\ view[b][c] # {}
    /\ baseline' = [baseline EXCEPT ![c] = Written(b, c)]
    /\ view' = [view EXCEPT ![b][c] = {}]
    /\ UNCHANGED <<rowVars, live, jobs, recompute, slotVars, ranAlone, asked, faults, limiterVars>>

\* The attempt fails, before the rows are read or between two statements.  The job
\* waits again; after its last attempt, or at an error that is not retryable, it is
\* buried, and nothing enqueues another in its place.
BaselineFails(b) ==
    /\ ~Idle(b) \/ recompute > 0
    /\ MoreEvents
    /\ faults' = faults + 1
    /\ view' = [view EXCEPT ![b] = NoView]
    /\ \E buried \in BOOLEAN :
        /\ recompute' = recompute + (IF Idle(b) THEN 0 ELSE 1) - (IF buried THEN 1 ELSE 0)
        /\ ranAlone' = (ranAlone /\ ~buried)
    /\ UNCHANGED <<rowVars, live, jobs, slotVars, baseline, asked, limiterVars>>

-----------------------------------------------------------------------------
(* The process dies and its jobs stall: they wait again, or at their second    *)
(* stall BullMQ fails them.                                                    *)

Active == {t \in Txns : jobs[t] = "active"}
Busy == {b \in BaselineSlots : ~Idle(b)}

\* A slot that is not busy may still have taken a job, and not have read its rows.
Crash ==
    /\ MoreEvents
    /\ faults' = faults + 1
    /\ \E dead \in SUBSET Active :
        jobs' = [t \in Txns |-> IF t \in dead THEN "dead"
                                ELSE IF t \in Active THEN "waiting" ELSE jobs[t]]
    /\ pc' = [w \in Slots |-> "idle"]
    /\ job' = [w \in Slots |-> None]
    /\ answer' = [w \in Slots |-> None]
    /\ \E buried \in 0 .. Cardinality(BaselineSlots) :
        /\ buried <= recompute + Cardinality(Busy)
        /\ recompute' = recompute + Cardinality(Busy) - buried
        /\ ranAlone' = (ranAlone /\ buried = 0)
    /\ view' = [b \in BaselineSlots |-> NoView]
    /\ LLM!Restart
    /\ UNCHANGED <<rowVars, live, baseline, asked>>

-----------------------------------------------------------------------------
CallEnds(w) == \E c \in Categories : Answered(w, c)

CategorizeStep(w) ==
    \/ \E t \in Txns : Take(w, t)
    \/ ResolveKnown(w) \/ CacheMiss(w)
    \/ CallEnds(w) \/ SaveToCache(w) \/ SaveEnrichment(w)
    \/ EnqueueBaseline(w) \/ EnqueueAnomaly(w) \/ EnqueueMatch(w)
    \/ Finish(w)

BaselineStep(b) == ReadRows(b) \/ \E c \in Categories : WriteBaseline(b, c)

Next ==
    \/ \E w \in Slots : CategorizeStep(w) \/ Fail(w)
    \/ \E w \in Writers : WriterAsks(w) \/ WriterDone(w)
    \/ \E b \in BaselineSlots : BaselineStep(b) \/ BaselineFails(b)
    \/ \E t \in Txns : Store(t) \/ Remove(t)
    \/ Crash

Spec == Init /\ [][Next]_vars

-----------------------------------------------------------------------------
TypeOK ==
    /\ category \in [Txns -> Categories \cup {None}]
    /\ hint \in [Txns -> Categories \cup {None}]
    /\ live \subseteq Txns
    /\ cache \in [Merchants -> Categories \cup {None}]
    /\ baseline \in [Categories -> SUBSET Txns]
    /\ jobs \in [Txns -> {"none", "waiting", "active", "done", "dead"}]
    /\ anomaly \subseteq Txns /\ match \subseteq Txns /\ recompute \in Nat
    /\ pc \in [Slots -> Steps]
    /\ job \in [Slots -> Txns \cup {None}]
    /\ answer \in [Slots -> Categories \cup {None}]
    /\ view \in [BaselineSlots -> [Categories -> SUBSET Txns]] /\ ranAlone \in BOOLEAN
    /\ asked \in [Merchants -> Nat] /\ faults \in Nat
    /\ LLM!TypeOK

\* However slots fail and the process restarts, the calls to the LLM are served in
\* line (claude-llm-provider.ts:52-67, concurrency.ts:3-38).
ServedInLine == LLM!ServedInLine

\* A slot has a place at the limiter, or waits for one, exactly while it is in
\* its call, whichever attempts fail and whenever the process restarts: a place
\* that leaked would stop every later call (concurrency.ts:27-35).
PlacesAreGivenBack == \A w \in Slots : phase[w] # "out" <=> pc[w] = "llm"

\* The cache keeps the LLM from being asked about a merchant again: only slots that
\* missed it at the same time, and the attempts that a failure or a crash ended
\* before the upsert, ask more than once; and while there was one answer, every
\* transaction of the merchant has its category (category-resolvers.ts:53-90).
CacheSavesAnswers ==
    \A m \in Merchants :
        /\ asked[m] <= Cardinality(Slots) * (1 + faults)
        /\ asked[m] = 1 =>
             \A t \in Txns :
                MerchantOf[t] = m /\ hint[t] = None => category[t] \in {None, cache[m]}

\* A transaction whose job is done has had the jobs that its category calls for,
\* although its category may have come from another attempt or from the cache
\* (categorize-service.ts:67-102).
DoneIsFannedOut ==
    \A t \in Txns :
        jobs[t] = "done" =>
            /\ category[t] \in Recurring => t \in anomaly
            /\ category[t] \in Triggers => t \in match

\* Nothing is left to run.
Settled ==
    /\ recompute = 0 /\ Busy = {}
    /\ \A t \in Txns : jobs[t] \notin {"waiting", "active"}

\* Once nothing is left to run, and if the last recomputation ran beside no other
\* and none was buried after it, the baseline of a category counts each of its live
\* transactions whose job is done, also when earlier recomputations failed, were
\* buried or overlapped.  Beyond the category's transactions it counts only ones
\* removed since and ones whose job was buried; a category that has lost all its
\* transactions keeps the baseline it had.  A buried recomputation, or two at once,
\* leave the baselines stale until the next one
\* (baseline-service.ts:25-63, categorize-service.ts:76-79, run-handler.ts:97-110).
BaselinesCatchUp ==
    Settled /\ ranAlone =>
        \A c \in Categories :
            /\ \A t \in Counted(c) : jobs[t] = "done" => t \in baseline[c]
            /\ \A t \in baseline[c] \ Counted(c) :
                  \/ t \notin live \/ jobs[t] = "dead"
                  \/ \A u \in Counted(c) : jobs[u] # "done"

=============================================================================
