------------------------------ MODULE Receipts ------------------------------
(***************************************************************************)
(* From a classified message to a receipt linked to a bank transaction:     *)
(* receipt.parse reads the body and stores the receipt, receipt.match links *)
(* it, started by the receipt or by the transaction when it is categorised. *)
(* The two sides arrive in any order, and their jobs overlap.               *)
(*                                                                          *)
(* A message, its row and its receipt are one value.  The scores of         *)
(* receipt-match-scorer.ts are a constant here and the subject of module    *)
(* Matching.  Each call to Gmail, the LLM, Postgres or Redis that matters   *)
(* to another job is a step; how often a failed attempt is repeated is the  *)
(* subject of JobQueue.                                                     *)
(*                                                                          *)
(* An operator named Something_Wrong, before Something, is a mistake in the *)
(* same place of the code that the properties below are to notice.          *)
(***************************************************************************)
EXTENDS Naturals

CONSTANTS
    Messages,   \* messages that the classifiers kept, and their receipts
    Unclear,    \* those in which the extractor may find no total
    Txns,       \* bank transactions
    None,
    Score,      \* points of each receipt with each transaction, no category yet
    Bare,       \* the same for a receipt without a total
    Bonus,      \* points added once the category triggers matching
    MinScore,
    InWindow,   \* receipt-transaction pairs whose own dates are close
    Near,       \* pairs in which the receipt was extracted close to the charge
    Deletable,  \* bound: the messages that the user may delete
    Removable,  \* bound: the transactions that the bank may take back
    Slots,      \* concurrent handler slots
    MaxFaults   \* bound: failed attempts, crashes and lost locks

ASSUME DataAssumption ==
    /\ Unclear \subseteq Messages
    /\ None \notin Messages \cup Txns
    /\ Score \in [Messages -> [Txns -> Nat]] /\ Bare \in [Messages -> [Txns -> Nat]]
    /\ Bonus \in Nat
    /\ MinScore \in Nat \ {0}
    /\ InWindow \subseteq Messages \X Txns /\ Near \subseteq Messages \X Txns
ASSUME BoundsAssumption ==
    /\ Deletable \subseteq Messages /\ Removable \subseteq Txns
    /\ MaxFaults \in Nat

VARIABLES
    mailbox,   \* messages that exist, are gone, or whose deletion was synced
    status,    \* mail_messages.processing_status
    receipts,  \* the messages with a row in receipts
    totals,    \* those whose total_minor_units is not null
    txn,       \* transactions: absent, live or removed (soft-deleted)
    category,  \* transactions.category, as far as it decides about matching
    links,     \* rows of transaction_receipt_links, and which job made them
    jobs,      \* state of each receipt.parse and receipt.match job
    pc, job,   \* what each slot does, for which job
    pick,      \* the transaction or receipt that the slot has chosen
    stale,     \* has the slot lost the lock of its job
    faults

slotVars == <<pc, job, pick, stale>>
rowVars == <<status, receipts, totals, links>>
worldVars == <<mailbox, txn, category>>
vars == <<worldVars, rowVars, jobs, slotVars, faults>>

\* What the producers have enqueued: the parse of a message, the match of its
\* receipt and the match of a transaction.
ParseJobs == {"parse"} \X Messages
ReceiptJobs == {"receipt"} \X Messages
TxnJobs == {"txn"} \X Txns
Jobs == ParseJobs \cup ReceiptJobs \cup TxnJobs

JobStates == {"absent", "waiting", "active", "done", "dead"}
Steps == {"idle", "lookup", "fetch", "create", "parsed", "enqueue",
          "list", "check", "link", "mark", "return"}
Links == [receipt : Messages, txn : Txns, by : {"receipt", "txn"}]

Init ==
    /\ mailbox = [m \in Messages |-> "present"]
    /\ status = [m \in Messages |-> "classified"]
    /\ receipts = {} /\ totals = {}
    /\ txn = [t \in Txns |-> "absent"]
    /\ category = [t \in Txns |-> "none"]
    /\ links = {}
    /\ jobs = [j \in Jobs |-> IF j \in ParseJobs THEN "waiting" ELSE "absent"]
    /\ pc = [w \in Slots |-> "idle"]
    /\ job = [w \in Slots |-> None]
    /\ pick = [w \in Slots |-> None]
    /\ stale = [w \in Slots |-> FALSE]
    /\ faults = 0

-----------------------------------------------------------------------------
(* The bank, the mailbox and the other jobs. *)

TxnArrives(t) ==
    /\ txn[t] = "absent"
    /\ txn' = [txn EXCEPT ![t] = "live"]
    /\ UNCHANGED <<mailbox, category, rowVars, jobs, slotVars, faults>>

TxnRemoved(t) ==
    /\ txn[t] = "live"
    /\ txn' = [txn EXCEPT ![t] = "removed"]
    /\ UNCHANGED <<mailbox, category, rowVars, jobs, slotVars, faults>>

\* txn.categorize saves a category that triggers matching, and enqueues the match;
\* with any other category a transaction stays what it is here.
Categorize(t) ==
    /\ txn[t] # "absent" /\ category[t] = "none"
    /\ category' = [category EXCEPT ![t] = "trigger"]
    /\ jobs' = [jobs EXCEPT ![<<"txn", t>>] = "waiting"]
    /\ UNCHANGED <<mailbox, txn, rowVars, slotVars, faults>>

\* It is repeated, and the LLM answers otherwise.
Recategorize(t) ==
    /\ category[t] = "trigger"
    /\ faults < MaxFaults
    /\ faults' = faults + 1
    /\ category' = [category EXCEPT ![t] = "other"]
    /\ UNCHANGED <<mailbox, txn, rowVars, jobs, slotVars>>

MailGone(m) ==
    /\ mailbox[m] = "present"
    /\ mailbox' = [mailbox EXCEPT ![m] = "gone"]
    /\ UNCHANGED <<txn, category, rowVars, jobs, slotVars, faults>>

\* mail.sync reads of the deletion.
MarkDeleted(m) ==
    /\ mailbox[m] = "gone"
    /\ mailbox' = [mailbox EXCEPT ![m] = "synced"]
    /\ status' = [status EXCEPT ![m] = "deleted"]
    /\ UNCHANGED <<txn, category, receipts, totals, links, jobs, slotVars, faults>>

-----------------------------------------------------------------------------
(* Slots. *)

Goto(w, step) == pc' = [pc EXCEPT ![w] = step]

Kind(w) == job[w][1]
Subject(w) == job[w][2]

Take(w, j) ==
    /\ pc[w] = "idle"
    /\ jobs[j] = "waiting"
    /\ jobs' = [jobs EXCEPT ![j] = "active"]
    /\ job' = [job EXCEPT ![w] = j]
    /\ Goto(w, "lookup")
    /\ UNCHANGED <<worldVars, rowVars, pick, stale, faults>>

\* The attempt is over; Redis takes its outcome from the lock's owner only.
End(w, state) ==
    /\ jobs' = [jobs EXCEPT ![job[w]] = IF stale[w] THEN @ ELSE state]
    /\ Goto(w, "idle")
    /\ job' = [job EXCEPT ![w] = None]
    /\ pick' = [pick EXCEPT ![w] = None]
    /\ stale' = [stale EXCEPT ![w] = FALSE]
    /\ UNCHANGED <<worldVars, rowVars>>

\* A step that only reads, after which the handler returns or goes on.
ReturnIf(condition, w, step) ==
    /\ IF condition
       THEN End(w, "done")
       ELSE Goto(w, step) /\ UNCHANGED <<worldVars, rowVars, jobs, job, pick, stale>>
    /\ UNCHANGED faults

Finish(w) ==
    /\ pc[w] = "return"
    /\ End(w, "done")
    /\ UNCHANGED faults

\* A call fails or the process dies: the job waits again, or is buried.
Interrupt(w) ==
    /\ pc[w] # "idle"
    /\ faults < MaxFaults
    /\ faults' = faults + 1
    /\ \E state \in {"waiting", "dead"} : End(w, state)

\* The lock is not renewed in time: the job waits again, the slot goes on.
LoseLock(w) ==
    /\ pc[w] # "idle" /\ ~stale[w]
    /\ faults < MaxFaults
    /\ faults' = faults + 1
    /\ jobs' = [jobs EXCEPT ![job[w]] = "waiting"]
    /\ stale' = [stale EXCEPT ![w] = TRUE]
    /\ UNCHANGED <<worldVars, rowVars, pc, job, pick>>

-----------------------------------------------------------------------------
(* receipt.parse. *)

FindReceipt(w) ==
    /\ pc[w] = "lookup" /\ Kind(w) = "parse"
    /\ ReturnIf(Subject(w) \in receipts, w, "fetch")

\* The body is read from Gmail and sent to the extractor.
FetchBody(w) ==
    /\ pc[w] = "fetch" /\ mailbox[Subject(w)] = "present"
    /\ Goto(w, "create")
    /\ UNCHANGED <<worldVars, rowVars, jobs, job, pick, stale, faults>>

\* The message is gone: the 404 becomes an error that is not retried.
BodyGone(w) ==
    /\ pc[w] = "fetch" /\ mailbox[Subject(w)] # "present"
    /\ End(w, "dead")
    /\ UNCHANGED faults

CreateReceipt(w) ==
    /\ pc[w] = "create" /\ Subject(w) \notin receipts
    /\ receipts' = receipts \cup {Subject(w)}
    /\ \/ totals' = totals \cup {Subject(w)}
       \/ Subject(w) \in Unclear /\ UNCHANGED totals
    /\ Goto(w, "parsed")
    /\ UNCHANGED <<worldVars, status, links, jobs, job, pick, stale, faults>>

\* receipts.mail_message_id is unique: the other slot's receipt stays.
CreateRefused(w) ==
    /\ pc[w] = "create" /\ Subject(w) \in receipts
    /\ \E state \in {"waiting", "dead"} : End(w, state)
    /\ UNCHANGED faults

MarkParsed(w) ==
    /\ pc[w] = "parsed"
    /\ status' = [status EXCEPT ![Subject(w)] = "parsed"]
    /\ Goto(w, "enqueue")
    /\ UNCHANGED <<worldVars, receipts, totals, links, jobs, job, pick, stale, faults>>

EnqueueMatch_Never(w) == jobs

EnqueueMatch(w) == [jobs EXCEPT ![<<"receipt", Subject(w)>>] = "waiting"]

RequestMatch(w) ==
    /\ pc[w] = "enqueue"
    /\ jobs' = EnqueueMatch(w)
    /\ Goto(w, "return")
    /\ UNCHANGED <<worldVars, rowVars, job, pick, stale, faults>>

-----------------------------------------------------------------------------
(* receipt.match, by receipt and by transaction. *)

Linked(m) == \E l \in links : l.receipt = m
LinkedTxn(t) == \E l \in links : l.txn = t

Points(m, t) ==
    (IF m \in totals THEN Score[m][t] ELSE Bare[m][t])
        + (IF category[t] = "trigger" THEN Bonus ELSE 0)

\* The log line before the match formats a total that is null: a TypeError, on
\* every attempt.
NoTotalThrows(w) ==
    /\ pc[w] = "lookup" /\ Kind(w) = "receipt" /\ Subject(w) \notin totals
    /\ End(w, "dead")
    /\ UNCHANGED faults

FindReceiptLink(w) ==
    /\ pc[w] = "lookup" /\ Kind(w) = "receipt" /\ Subject(w) \in totals
    /\ ReturnIf(Linked(Subject(w)), w, "list")

\* The transaction is looked up by its id, removed or not.
FindTxnLink(w) ==
    /\ pc[w] = "lookup" /\ Kind(w) = "txn"
    /\ ReturnIf(LinkedTxn(Subject(w)) \/ category[Subject(w)] = "other", w, "list")

LiveTxns(m) == {t \in Txns : txn[t] = "live" /\ <<m, t>> \in InWindow}

\* selectBestTransactionMatch; equal scores keep the order of the database.
BestTxns(m) ==
    {t \in LiveTxns(m) :
        /\ Points(m, t) >= MinScore
        /\ \A u \in LiveTxns(m) : Points(m, u) <= Points(m, t)}

Choose(w, best, step) ==
    \/ best = {} /\ End(w, "done") /\ UNCHANGED faults
    \/ /\ \E x \in best : pick' = [pick EXCEPT ![w] = x]
       /\ Goto(w, step)
       /\ UNCHANGED <<worldVars, rowVars, jobs, job, stale, faults>>

ListTxns(w) ==
    /\ pc[w] = "list" /\ Kind(w) = "receipt"
    /\ Choose(w, BestTxns(Subject(w)), "check")

\* The second best transaction is not tried.
FindPickedLink(w) ==
    /\ pc[w] = "check"
    /\ ReturnIf(LinkedTxn(pick[w]), w, "link")

UnmatchedReceipts(t) == {m \in receipts : <<m, t>> \in Near /\ ~Linked(m)}

BestReceipts(t) ==
    {m \in UnmatchedReceipts(t) :
        /\ Points(m, t) >= MinScore
        /\ \A n \in UnmatchedReceipts(t) : Points(n, t) <= Points(m, t)}

ListReceipts(w) ==
    /\ pc[w] = "list" /\ Kind(w) = "txn"
    /\ Choose(w, BestReceipts(Subject(w)), "link")

ReceiptOf(w) == IF Kind(w) = "receipt" THEN Subject(w) ELSE pick[w]

TxnOf(w) == IF Kind(w) = "receipt" THEN pick[w] ELSE Subject(w)

Free_ReceiptOnly(w) == ~Linked(ReceiptOf(w))

\* The unique indexes of transaction_receipt_links.
Free(w) == ~Linked(ReceiptOf(w)) /\ ~LinkedTxn(TxnOf(w))

Link(w) ==
    /\ pc[w] = "link" /\ Free(w)
    /\ links' = links \cup {[receipt |-> ReceiptOf(w), txn |-> TxnOf(w), by |-> Kind(w)]}
    /\ Goto(w, "mark")
    /\ UNCHANGED <<worldVars, status, receipts, totals, jobs, job, pick, stale, faults>>

\* InvariantError is not retried.
LinkRefused(w) ==
    /\ pc[w] = "link" /\ ~Free(w)
    /\ End(w, "dead")
    /\ UNCHANGED faults

MatchedStatus_Unlinked(w) == "parsed"

MatchedStatus(w) == "matched"

MarkMatched(w) ==
    /\ pc[w] = "mark"
    /\ status' = [status EXCEPT ![ReceiptOf(w)] = MatchedStatus(w)]
    /\ Goto(w, "return")
    /\ UNCHANGED <<worldVars, receipts, totals, links, jobs, job, pick, stale, faults>>

-----------------------------------------------------------------------------
SlotStep(w) ==
    \/ \E j \in Jobs : Take(w, j)
    \/ FindReceipt(w) \/ FetchBody(w) \/ BodyGone(w)
    \/ CreateReceipt(w) \/ CreateRefused(w) \/ MarkParsed(w) \/ RequestMatch(w)
    \/ NoTotalThrows(w) \/ FindReceiptLink(w) \/ ListTxns(w) \/ FindPickedLink(w)
    \/ FindTxnLink(w) \/ ListReceipts(w)
    \/ Link(w) \/ LinkRefused(w) \/ MarkMatched(w)
    \/ Finish(w)

World ==
    \/ \E t \in Txns : TxnArrives(t) \/ Categorize(t) \/ Recategorize(t)
    \/ \E t \in Removable : TxnRemoved(t)
    \/ \E m \in Deletable : MailGone(m) \/ MarkDeleted(m)

Next ==
    \/ World
    \/ \E w \in Slots : SlotStep(w) \/ Interrupt(w) \/ LoseLock(w)

Spec == Init /\ [][Next]_vars

-----------------------------------------------------------------------------
TypeOK ==
    /\ mailbox \in [Messages -> {"present", "gone", "synced"}]
    /\ status \in [Messages -> {"classified", "parsed", "matched", "deleted"}]
    /\ receipts \in SUBSET Messages /\ totals \in SUBSET receipts
    /\ txn \in [Txns -> {"absent", "live", "removed"}]
    /\ category \in [Txns -> {"none", "trigger", "other"}]
    /\ links \in SUBSET Links
    /\ jobs \in [Jobs -> JobStates]
    /\ pc \in [Slots -> Steps]
    /\ job \in [Slots -> Jobs \cup {None}]
    /\ pick \in [Slots -> Messages \cup Txns \cup {None}]
    /\ stale \in [Slots -> BOOLEAN]
    /\ faults \in Nat

Pairs == {<<l.receipt, l.txn>> : l \in links}

Pairing == INSTANCE Pairing WITH
    Receipts <- Messages, Transactions <- Txns, pairs <- Pairs

\* However the jobs of receipts and transactions race, a receipt and a
\* transaction are paired once, with each other, and for good: the check before
\* the insert is not enough, the unique indexes are
\* (receipt-match-service.ts:123-138, transaction-receipt-link-repo.ts:14-29).
PairedOnce == Pairing!Spec

Quiet == faults = 0 /\ \A j \in Jobs : jobs[j] \notin {"waiting", "active"}

\* t is at least as good a partner of m as u is.
AsGood(m, t, u) == Points(m, t) >= Points(m, u)

\* Once every job has run and none has failed by chance, a receipt and a charge
\* that qualify are left apart only when one of them has lost to a rival that is
\* linked: whichever of the two came first, one of the two jobs has seen both
\* (receipt-match-service.ts:96-129 and :186-232).
NoPairMissed ==
    Quiet =>
        \A m \in totals, t \in Txns :
            /\ txn[t] = "live" /\ category[t] = "trigger"
            /\ <<m, t>> \in Near \cap InWindow
            /\ Points(m, t) >= MinScore
            /\ ~Linked(m) /\ ~LinkedTxn(t)
            => \/ \E u \in Txns : LinkedTxn(u) /\ AsGood(m, u, t)
               \/ \E n \in Messages : Linked(n) /\ Points(n, t) >= Points(m, t)

\* Once every job has run, the status of a message tells how far its receipt has
\* come, though five writers set it without looking: matched means linked, and a
\* linked receipt shows as parsed only when the transaction's job linked it
\* before its parse wrote, as deleted only when the deletion was synced; a synced
\* deletion is overwritten only when the receipt had been read before
\* (receipt-parse-service.ts:94-118, receipt-match-service.ts:140 and :251,
\* mail-message-repo.ts:45-71).
StatusTellsTheStage ==
    Quiet =>
        \A m \in Messages :
            /\ status[m] = "classified" => m \notin receipts
            /\ status[m] = "parsed" =>
                 /\ m \in receipts
                 /\ \A l \in links : l.receipt = m => l.by = "txn"
            /\ status[m] = "matched" => Linked(m)
            /\ status[m] = "deleted" => mailbox[m] = "synced"
            /\ mailbox[m] = "synced" /\ m \notin receipts => status[m] = "deleted"

=============================================================================
