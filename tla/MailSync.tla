------------------------------ MODULE MailSync ------------------------------
(***************************************************************************)
(* The mailbox of one account on its way into mail_messages: mail.sync      *)
(* reads Gmail's history from the stored historyId on, mail.fullSync lists  *)
(* the recent messages once Gmail has dropped that history, both ingest a   *)
(* message the same way, and mail.watch renews the push subscription.       *)
(*                                                                          *)
(* A historyId is the number of changes of the mailbox so far; the ones up  *)
(* to `oldest' are dropped.  Each call to Gmail, Postgres or Redis is a     *)
(* step.  Whether a failed attempt is repeated or buried is the subject of  *)
(* module JobQueue; here both may follow every failure.                     *)
(*                                                                          *)
(* An operator named Something_Wrong, before Something, is a mistake in the *)
(* same place of the code that the properties below are to notice.          *)
(***************************************************************************)
EXTENDS Naturals, Sequences

CONSTANTS
    Msgs,        \* Gmail messages
    Receipts,    \* those that the classifiers keep
    Backfill,    \* those that the query of the full sync finds
    NoMsg,
    Slots,       \* concurrent handler slots
    Deletions,   \* can the user delete messages for good
    MaxExpiries, \* bound: how often Gmail drops old history
    MaxForgets,  \* bound: how often Redis loses the record of each finished job
    MaxWatches,  \* bound: runs of mail.watch
    MaxFaults    \* bound: failed attempts, crashes and lost locks

ASSUME MsgsAssumption ==
    /\ Receipts \subseteq Msgs
    /\ Backfill \subseteq Msgs
    /\ NoMsg \notin Msgs
ASSUME BoundsAssumption ==
    /\ Deletions \in BOOLEAN
    /\ MaxExpiries \in Nat /\ MaxForgets \in Nat
    /\ MaxWatches \in Nat /\ MaxFaults \in Nat

VARIABLES
    history,  \* Gmail: the changes of the mailbox
    oldest,   \* Gmail: the last change that history.list no longer knows
    cursor,   \* mail_accounts.history_id
    status,   \* mail_messages.processing_status of each message
    parse,    \* messages with a receipt.parse job, whose id is fixed
    jobs,     \* the mail.sync and the mail.fullSync job of the account
    pc, job, msg, \* what each slot does, for which job and message
    dels, adds,   \* deleted and candidate ids that the slot has to handle
    upto,     \* startHistoryId of the slot, then its nextHistoryId
    stale,    \* has the slot lost the lock of its job
    watch,    \* the historyId that mail.watch read, and its step
    expiries, forgets, watches, faults

slotVars == <<pc, job, msg, dels, adds, upto, stale>>
boundVars == <<expiries, forgets, watches, faults>>
gmailVars == <<history, oldest>>
vars == <<gmailVars, cursor, status, parse, jobs, slotVars, watch, boundVars>>

JobNames == {"sync", "full"}
JobStates == {"absent", "waiting", "active", "done", "dead"}
Statuses == {"none", "seen", "ignored", "classified", "deleted"}
Steps == {"idle", "list", "delete", "next", "fetch", "upsert", "classify",
          "enqueue", "checkpoint", "save", "escalate", "return"}

\* The account has just been connected: its cursor is the historyId of the
\* watch, and the first mail.sync is queued.
Init ==
    /\ history = <<>>
    /\ oldest = 0
    /\ cursor = 0
    /\ status = [m \in Msgs |-> "none"]
    /\ parse = {}
    /\ jobs = [sync |-> "waiting", full |-> "absent"]
    /\ pc = [w \in Slots |-> "idle"]
    /\ job = [w \in Slots |-> "none"]
    /\ msg = [w \in Slots |-> NoMsg]
    /\ dels = [w \in Slots |-> {}]
    /\ adds = [w \in Slots |-> {}]
    /\ upto = [w \in Slots |-> 0]
    /\ stale = [w \in Slots |-> FALSE]
    /\ watch = [step |-> "idle", read |-> 0]
    /\ expiries = 0 /\ watches = 0 /\ faults = 0
    /\ forgets = [name \in JobNames |-> 0]

-----------------------------------------------------------------------------
(* Gmail.  A label gained makes a message a candidate as its arrival does. *)

Change(kind, m) == [kind |-> kind, msg |-> m]

Happened(kind, m) == \E n \in DOMAIN history : history[n] = Change(kind, m)

InMailbox(m) == Happened("added", m) /\ ~Happened("deleted", m)

MailArrives(m) ==
    /\ ~Happened("added", m)
    /\ history' = Append(history, Change("added", m))
    /\ UNCHANGED <<oldest, cursor, status, parse, jobs, slotVars, watch, boundVars>>

MailDeleted(m) ==
    /\ Deletions
    /\ InMailbox(m)
    /\ history' = Append(history, Change("deleted", m))
    /\ UNCHANGED <<oldest, cursor, status, parse, jobs, slotVars, watch, boundVars>>

HistoryExpires ==
    /\ expiries < MaxExpiries
    /\ expiries' = expiries + 1
    /\ oldest' \in oldest + 1 .. Len(history)
    /\ UNCHANGED <<history, cursor, status, parse, jobs, slotVars, watch,
                   forgets, watches, faults>>

Changed(kind, from) ==
    {m \in Msgs : \E n \in from + 1 .. Len(history) : history[n] = Change(kind, m)}

-----------------------------------------------------------------------------
(* Jobs. *)

Added(name) == [jobs EXCEPT ![name] = IF @ = "absent" THEN "waiting" ELSE @]

\* The Gmail webhook: the push carries no data, and its job id is fixed.
Push ==
    /\ jobs.sync = "absent"
    /\ jobs' = Added("sync")
    /\ UNCHANGED <<gmailVars, cursor, status, parse, slotVars, watch, boundVars>>

\* BullMQ keeps finished jobs, and with them their ids, until they are removed.
Forget(name) ==
    /\ forgets[name] < MaxForgets
    /\ forgets' = [forgets EXCEPT ![name] = @ + 1]
    /\ jobs[name] \in {"done", "dead"}
    /\ jobs' = [jobs EXCEPT ![name] = "absent"]
    /\ UNCHANGED <<gmailVars, cursor, status, parse, slotVars, watch,
                   expiries, watches, faults>>

Goto(w, step) == pc' = [pc EXCEPT ![w] = step]

\* A slot takes the job and loads the account with its historyId.
Take(w, name) ==
    /\ pc[w] = "idle"
    /\ jobs[name] = "waiting"
    /\ jobs' = [jobs EXCEPT ![name] = "active"]
    /\ job' = [job EXCEPT ![w] = name]
    /\ upto' = [upto EXCEPT ![w] = IF name = "sync" THEN cursor ELSE 0]
    /\ Goto(w, "list")
    /\ UNCHANGED <<gmailVars, cursor, status, parse, msg, dels, adds, stale,
                   watch, boundVars>>

\* The attempt is over; Redis takes its outcome from the lock's owner only.
End(w, state) ==
    /\ jobs' = [jobs EXCEPT ![job[w]] = IF stale[w] THEN @ ELSE state]
    /\ Goto(w, "idle")
    /\ job' = [job EXCEPT ![w] = "none"]
    /\ msg' = [msg EXCEPT ![w] = NoMsg]
    /\ dels' = [dels EXCEPT ![w] = {}]
    /\ adds' = [adds EXCEPT ![w] = {}]
    /\ upto' = [upto EXCEPT ![w] = 0]
    /\ stale' = [stale EXCEPT ![w] = FALSE]
    /\ UNCHANGED <<gmailVars, cursor, status, parse, watch>>

-----------------------------------------------------------------------------
(* mail.sync: the changes since the stored historyId. *)

Expired(from) == from < oldest

ListChanges(w) ==
    /\ pc[w] = "list" /\ job[w] = "sync"
    /\ IF Expired(upto[w])
       THEN Goto(w, "escalate") /\ UNCHANGED <<dels, adds, upto>>
       ELSE /\ dels' = [dels EXCEPT ![w] = Changed("deleted", upto[w])]
            /\ adds' = [adds EXCEPT ![w] = Changed("added", upto[w])]
            /\ upto' = [upto EXCEPT ![w] = Len(history)]
            /\ Goto(w, "delete")
    /\ UNCHANGED <<gmailVars, cursor, status, parse, jobs, job, msg, stale,
                   watch, boundVars>>

\* markDeleted: a message that was never seen has no row to mark.
MarkDeleted(w, m) ==
    /\ pc[w] = "delete" /\ m \in dels[w]
    /\ dels' = [dels EXCEPT ![w] = @ \ {m}]
    /\ status' = [status EXCEPT ![m] = IF @ = "none" THEN @ ELSE "deleted"]
    /\ UNCHANGED <<gmailVars, cursor, parse, jobs, pc, job, msg, adds, upto,
                   stale, watch, boundVars>>

DeletionsDone(w) ==
    /\ pc[w] = "delete" /\ dels[w] = {}
    /\ Goto(w, "next")
    /\ UNCHANGED <<gmailVars, cursor, status, parse, jobs, job, msg, dels, adds,
                   upto, stale, watch, boundVars>>

-----------------------------------------------------------------------------
(* mail.fullSync: the messages that the backfill query finds, on one page. *)

ListRecent(w) ==
    /\ pc[w] = "list" /\ job[w] = "full"
    /\ adds' = [adds EXCEPT ![w] = {m \in Backfill : InMailbox(m)}]
    /\ Goto(w, "next")
    /\ UNCHANGED <<gmailVars, cursor, status, parse, jobs, job, msg, dels, upto,
                   stale, watch, boundVars>>

\* The new cursor is the end of a history listed from its very beginning.
Checkpoint(w) ==
    /\ pc[w] = "checkpoint"
    /\ ~Expired(0)
    /\ upto' = [upto EXCEPT ![w] = Len(history)]
    /\ Goto(w, "save")
    /\ UNCHANGED <<gmailVars, cursor, status, parse, jobs, job, msg, dels, adds,
                   stale, watch, boundVars>>

\* MailHistoryExpiredError is not retryable, and is caught by mail.sync only.
CheckpointExpired(w) ==
    /\ pc[w] = "checkpoint"
    /\ Expired(0)
    /\ End(w, "dead")
    /\ UNCHANGED boundVars

-----------------------------------------------------------------------------
(* ingestGmailMessage. *)

FindExisting(w, m) ==
    /\ pc[w] = "next" /\ m \in adds[w]
    /\ adds' = [adds EXCEPT ![w] = @ \ {m}]
    /\ IF status[m] # "none"
       THEN UNCHANGED <<pc, msg>>
       ELSE Goto(w, "fetch") /\ msg' = [msg EXCEPT ![w] = m]
    /\ UNCHANGED <<gmailVars, cursor, status, parse, jobs, job, dels, upto,
                   stale, watch, boundVars>>

AfterIngest_SamePage(name) == IF name = "sync" THEN "save" ELSE "list"

AfterIngest(name) == IF name = "sync" THEN "save" ELSE "checkpoint"

AllIngested(w) ==
    /\ pc[w] = "next" /\ adds[w] = {}
    /\ Goto(w, AfterIngest(job[w]))
    /\ UNCHANGED <<gmailVars, cursor, status, parse, jobs, job, msg, dels, adds,
                   upto, stale, watch, boundVars>>

FetchMetadata(w) ==
    /\ pc[w] = "fetch" /\ InMailbox(msg[w])
    /\ Goto(w, "upsert")
    /\ UNCHANGED <<gmailVars, cursor, status, parse, jobs, job, msg, dels, adds,
                   upto, stale, watch, boundVars>>

\* The message is gone: mapGmailHttpError makes a MailHistoryExpiredError of
\* every 404.
MetadataGone(w) ==
    /\ pc[w] = "fetch" /\ ~InMailbox(msg[w])
    /\ IF job[w] = "sync"
       THEN /\ Goto(w, "escalate")
            /\ UNCHANGED <<gmailVars, cursor, status, parse, jobs, job, msg, dels,
                           adds, upto, stale, watch, boundVars>>
       ELSE End(w, "dead") /\ UNCHANGED boundVars

\* upsertSeen returns the row that another slot has created meanwhile ...
UpsertSeen(w) ==
    /\ pc[w] = "upsert"
    /\ status' = [status EXCEPT ![msg[w]] = IF @ = "none" THEN "seen" ELSE @]
    /\ Goto(w, "classify")
    /\ UNCHANGED <<gmailVars, cursor, parse, jobs, job, msg, dels, adds, upto,
                   stale, watch, boundVars>>

\* ... or runs into the unique index when that happened after its own look-up.
UpsertRefused(w) ==
    /\ pc[w] = "upsert" /\ status[msg[w]] # "none"
    /\ \E state \in {"waiting", "dead"} : End(w, state)
    /\ UNCHANGED boundVars

AfterClassify_Next(m) == "next"

AfterClassify(m) == IF m \in Receipts THEN "enqueue" ELSE "next"

Classify(w) ==
    /\ pc[w] = "classify"
    /\ status' = [status EXCEPT ![msg[w]] =
                    IF msg[w] \in Receipts THEN "classified" ELSE "ignored"]
    /\ Goto(w, AfterClassify(msg[w]))
    /\ UNCHANGED <<gmailVars, cursor, parse, jobs, job, msg, dels, adds, upto,
                   stale, watch, boundVars>>

EnqueueParse(w) ==
    /\ pc[w] = "enqueue"
    /\ parse' = parse \cup {msg[w]}
    /\ Goto(w, "next")
    /\ UNCHANGED <<gmailVars, cursor, status, jobs, job, msg, dels, adds, upto,
                   stale, watch, boundVars>>

-----------------------------------------------------------------------------
(* The end of an attempt. *)

SaveHistoryId(w) ==
    /\ pc[w] = "save"
    /\ cursor' = upto[w]
    /\ Goto(w, "return")
    /\ UNCHANGED <<gmailVars, status, parse, jobs, job, msg, dels, adds, upto,
                   stale, watch, boundVars>>

\* mail.sync enqueues the full sync, whose job id is fixed, and returns.
Escalate(w) ==
    /\ pc[w] = "escalate"
    /\ jobs' = Added("full")
    /\ Goto(w, "return")
    /\ UNCHANGED <<gmailVars, cursor, status, parse, job, msg, dels, adds, upto,
                   stale, watch, boundVars>>

Finish(w) ==
    /\ pc[w] = "return"
    /\ End(w, "done")
    /\ UNCHANGED boundVars

\* A call fails or the process dies: the job waits again, or is buried.
Interrupt(w) ==
    /\ pc[w] # "idle"
    /\ faults < MaxFaults
    /\ faults' = faults + 1
    /\ \E state \in {"waiting", "dead"} : End(w, state)
    /\ UNCHANGED <<expiries, forgets, watches>>

\* The lock is not renewed in time: the job waits again, the slot goes on.
LoseLock(w) ==
    /\ pc[w] # "idle" /\ ~stale[w]
    /\ faults < MaxFaults
    /\ faults' = faults + 1
    /\ jobs' = [jobs EXCEPT ![job[w]] = "waiting"]
    /\ stale' = [stale EXCEPT ![w] = TRUE]
    /\ UNCHANGED <<gmailVars, cursor, status, parse, pc, job, msg, dels, adds,
                   upto, watch, expiries, forgets, watches>>

-----------------------------------------------------------------------------
(* mail.watch: saveWatchExpiration writes back the historyId it has read. *)

WatchReads ==
    /\ watch.step = "idle"
    /\ watches < MaxWatches
    /\ watches' = watches + 1
    /\ watch' = [step |-> "write", read |-> cursor]
    /\ UNCHANGED <<gmailVars, cursor, status, parse, jobs, slotVars, expiries,
                   forgets, faults>>

Kept_FromWatch == Len(history)

Kept == watch.read

WatchWrites ==
    /\ watch.step = "write"
    /\ cursor' = Kept
    /\ watch' = [step |-> "idle", read |-> 0]
    /\ UNCHANGED <<gmailVars, status, parse, jobs, slotVars, boundVars>>

-----------------------------------------------------------------------------
SlotStep(w) ==
    \/ \E name \in JobNames : Take(w, name)
    \/ ListChanges(w) \/ ListRecent(w)
    \/ \E m \in Msgs : MarkDeleted(w, m) \/ FindExisting(w, m)
    \/ DeletionsDone(w) \/ AllIngested(w)
    \/ FetchMetadata(w) \/ MetadataGone(w) \/ UpsertSeen(w) \/ UpsertRefused(w)
    \/ Classify(w) \/ EnqueueParse(w)
    \/ Checkpoint(w) \/ CheckpointExpired(w)
    \/ SaveHistoryId(w) \/ Escalate(w) \/ Finish(w)

Gmail ==
    \/ \E m \in Msgs : MailArrives(m) \/ MailDeleted(m)
    \/ HistoryExpires

Next ==
    \/ Gmail
    \/ Push
    \/ \E name \in JobNames : Forget(name)
    \/ \E w \in Slots : SlotStep(w) \/ Interrupt(w) \/ LoseLock(w)
    \/ WatchReads \/ WatchWrites

\* Workers keep polling and every call they await ends.
Fairness == \A w \in Slots : WF_vars(SlotStep(w))

Spec == Init /\ [][Next]_vars

FairSpec == Spec /\ Fairness

-----------------------------------------------------------------------------
TypeOK ==
    /\ history \in Seq([kind : {"added", "deleted"}, msg : Msgs])
    /\ oldest \in 0 .. Len(history)
    /\ cursor \in 0 .. Len(history)
    /\ status \in [Msgs -> Statuses]
    /\ parse \in SUBSET Receipts
    /\ jobs \in [JobNames -> JobStates]
    /\ pc \in [Slots -> Steps]
    /\ job \in [Slots -> JobNames \cup {"none"}]
    /\ \A w \in Slots : pc[w] = "idle" <=> job[w] = "none"
    /\ msg \in [Slots -> Msgs \cup {NoMsg}]
    /\ dels \in [Slots -> SUBSET Msgs]
    /\ adds \in [Slots -> SUBSET Msgs]
    /\ upto \in [Slots -> 0 .. Len(history)]
    /\ stale \in [Slots -> BOOLEAN]
    /\ watch \in [step : {"idle", "write"}, read : 0 .. Len(history)]
    /\ expiries \in Nat /\ watches \in Nat /\ faults \in Nat
    /\ forgets \in [JobNames -> Nat]

Covered(until) ==
    \A n \in 1 .. until :
        InMailbox(history[n].msg) => status[history[n].msg] # "none"

NoFullSyncYet == jobs.full = "absent" /\ forgets.full = 0

\* As long as no full sync was needed, every message before the stored historyId
\* that is still in the mailbox has its row, whichever syncs failed or overlapped
\* and although mail.watch may set the historyId back: the cursor is saved
\* after the last ingest, and a stale one is only ever an older one
\* (mail-sync-service.ts:64-78, mail-account-repo.ts:81-91).
CursorCoversMail == NoFullSyncYet => Covered(cursor)

\* Without failures no message is stuck half-way: a row that was seen is being
\* classified, and a receipt has its parse job or is getting it, also when a
\* full sync and a sync work on the same messages (mail-ingest.ts:72-114).
EveryRowIsSettled ==
    faults = 0 =>
        \A m \in Msgs :
            /\ status[m] = "seen" =>
                 \E w \in Slots : msg[w] = m /\ pc[w] = "classify"
            /\ status[m] = "classified" =>
                 m \in parse \/ \E w \in Slots : msg[w] = m /\ pc[w] = "enqueue"

\* Every sync and every full sync that is queued ends, completed or buried.
EveryJobEnds ==
    \A name \in JobNames : jobs[name] = "waiting" ~> jobs[name] \in {"done", "dead"}

=============================================================================
