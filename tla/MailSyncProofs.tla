--------------------------- MODULE MailSyncProofs ---------------------------
(***************************************************************************)
(* Proofs about MailSync, for all messages, slots and bounds: its types,    *)
(* and that the stored historyId covers the rows of the mailbox however     *)
(* syncs, crashes, lost locks and watch renewals overlap, until a full sync *)
(* is asked for.                                                            *)
(***************************************************************************)
EXTENDS MailSync, SequenceTheorems, TLAPS

\* A slot with a full sync is there only after a full sync was asked for.
AskedInv == \A w \in Slots : job[w] = "full" => ~NoFullSyncYet

\* Only a receipt gets as far as to the enqueue of its parse.
ReceiptInv == \A w \in Slots : pc[w] = "enqueue" => msg[w] \in Receipts

\* Candidates are listed after the attempt began, and all handled at its end.
PendingInv ==
    \A w \in Slots : pc[w] \in {"idle", "list", "checkpoint", "save"} => adds[w] = {}

\* Only a full sync takes a checkpoint.
CheckpointInv == \A w \in Slots : pc[w] = "checkpoint" => job[w] = "full"

LocalInv == ReceiptInv /\ PendingInv /\ CheckpointInv

\* The candidates of a slot that have no row yet.
Pending(w) == adds[w] \cup (IF pc[w] \in {"fetch", "upsert"} THEN {msg[w]} ELSE {})

\* The messages among the first n changes that are in the mailbox without a row.
Missing ==
    [n \in 0 .. Len(history) |->
        {history[i].msg : i \in {k \in 1 .. n : InMailbox(history[k].msg)
                                               /\ status[history[k].msg] = "none"}}]

Working == {"list", "delete", "next", "fetch", "upsert", "classify", "enqueue", "save"}

\* Each historyId that some step may store leaves no message behind, or only
\* messages that the slot still has before it.
CoverInv ==
    NoFullSyncYet =>
        /\ Missing[cursor] = {}
        /\ Missing[watch.read] = {}
        /\ \A w \in Slots : pc[w] \in Working => Missing[upto[w]] \subseteq Pending(w)

IInv == TypeOK /\ LocalInv /\ AskedInv /\ CoverInv

-----------------------------------------------------------------------------
\* A full sync that was asked for stays in the record of the jobs.
LEMMA AskedStays ==
  ASSUME TypeOK, [Next]_vars, NoFullSyncYet'
  PROVE  NoFullSyncYet
<1>. USE DEF TypeOK, NoFullSyncYet, JobNames, JobStates
<1>1. ASSUME NEW name \in JobNames, Forget(name)
      PROVE  NoFullSyncYet
  BY <1>1 DEF Forget
<1>2. CASE UNCHANGED <<jobs, forgets>>
  BY <1>2
<1>3. ASSUME NEW w \in Slots, NEW state \in {"waiting", "dead", "done"},
             End(w, state), UNCHANGED forgets
      PROVE  NoFullSyncYet
  BY <1>3 DEF End
<1>4. ASSUME NEW w \in Slots, NEW name \in JobNames, Take(w, name)
      PROVE  NoFullSyncYet
  BY <1>4 DEF Take, boundVars
<1>5. ASSUME NEW w \in Slots, LoseLock(w)
      PROVE  NoFullSyncYet
  BY <1>5 DEF LoseLock
<1>6. ASSUME NEW w \in Slots, Escalate(w)
      PROVE  NoFullSyncYet
  BY <1>6 DEF Escalate, Added, boundVars
<1>7. CASE Push
  BY <1>7 DEF Push, Added, boundVars
<1>8. ASSUME NEW w \in Slots,
             CheckpointExpired(w) \/ MetadataGone(w) \/ UpsertRefused(w)
               \/ Finish(w) \/ Interrupt(w)
      PROVE  NoFullSyncYet
  BY <1>8, <1>2, <1>3 DEF CheckpointExpired, MetadataGone, UpsertRefused, Finish,
                          Interrupt, boundVars
<1>9. ASSUME NEW w \in Slots,
             \/ ListChanges(w) \/ ListRecent(w) \/ DeletionsDone(w) \/ AllIngested(w)
             \/ \E m \in Msgs : MarkDeleted(w, m) \/ FindExisting(w, m)
             \/ FetchMetadata(w) \/ UpsertSeen(w) \/ Classify(w) \/ EnqueueParse(w)
             \/ Checkpoint(w) \/ SaveHistoryId(w)
      PROVE  UNCHANGED <<jobs, forgets>>
  BY <1>9 DEF ListChanges, ListRecent, DeletionsDone, AllIngested, MarkDeleted,
              FindExisting, FetchMetadata, UpsertSeen, Classify, EnqueueParse,
              Checkpoint, SaveHistoryId, boundVars
<1>10. CASE Gmail \/ WatchReads \/ WatchWrites \/ UNCHANGED vars
  BY <1>10, <1>2 DEF Gmail, MailArrives, MailDeleted, HistoryExpires, WatchReads,
                     WatchWrites, boundVars, vars
<1>. QED
  BY <1>1, <1>2, <1>4, <1>5, <1>6, <1>7, <1>8, <1>9, <1>10 DEF Next, SlotStep

\* An attempt that ends leaves the types as they are.
LEMMA EndTypes ==
  ASSUME TypeOK, NEW w \in Slots, NEW state \in {"waiting", "dead", "done"},
         End(w, state), expiries' \in Nat, watches' \in Nat, faults' \in Nat,
         UNCHANGED forgets
  PROVE  TypeOK'
<1>. USE DEF TypeOK
<1>1. jobs' \in [JobNames -> JobStates]
  BY DEF End, JobNames, JobStates
<1>2. /\ pc' \in [Slots -> Steps]
      /\ job' \in [Slots -> JobNames \cup {"none"}]
      /\ \A v \in Slots : pc'[v] = "idle" <=> job'[v] = "none"
  BY DEF End, Goto, Steps
<1>3. /\ msg' \in [Slots -> Msgs \cup {NoMsg}]
      /\ dels' \in [Slots -> SUBSET Msgs] /\ adds' \in [Slots -> SUBSET Msgs]
      /\ upto' \in [Slots -> 0 .. Len(history)] /\ stale' \in [Slots -> BOOLEAN]
  BY DEF End
<1>. QED
  BY <1>1, <1>2, <1>3 DEF End, gmailVars

\* What Gmail appends leaves what was before.
LEMMA Appending ==
  ASSUME TypeOK, NEW m \in Msgs, NEW kind \in {"added", "deleted"},
         history' = Append(history, Change(kind, m))
  PROVE  /\ history' \in Seq([kind : {"added", "deleted"}, msg : Msgs])
         /\ Len(history') = Len(history) + 1
         /\ Len(history) \in Nat
         /\ \A n \in 1 .. Len(history) : history'[n] = history[n]
         /\ \A from \in 0 .. Len(history) : from \in 0 .. Len(history')
<1>1. Change(kind, m) \in [kind : {"added", "deleted"}, msg : Msgs]
  BY DEF Change
<1>. QED
  BY <1>1 DEF TypeOK

\* Every step keeps the types.
LEMMA TypeStep ==
  ASSUME TypeOK, ReceiptInv, [Next]_vars
  PROVE  TypeOK'
<1>1. ASSUME NEW m \in Msgs, MailArrives(m) \/ MailDeleted(m)
      PROVE  TypeOK'
  <2>1. PICK kind \in {"added", "deleted"} : history' = Append(history, Change(kind, m))
    BY <1>1 DEF MailArrives, MailDeleted
  <2>2. UNCHANGED <<oldest, cursor, status, parse, jobs, slotVars, watch, boundVars>>
    BY <1>1 DEF MailArrives, MailDeleted
  <2>3. \A from \in 0 .. Len(history) : from \in 0 .. Len(history')
    BY <2>1, Appending
  <2>4. upto' \in [Slots -> 0 .. Len(history')]
    BY <2>2, <2>3 DEF TypeOK, slotVars
  <2>5. watch' \in [step : {"idle", "write"}, read : 0 .. Len(history')]
    BY <2>2, <2>3 DEF TypeOK
  <2>6. history' \in Seq([kind : {"added", "deleted"}, msg : Msgs])
    BY <2>1, Appending
  <2>. QED
    BY <2>2, <2>3, <2>4, <2>5, <2>6 DEF TypeOK, slotVars, boundVars
<1>2. CASE HistoryExpires
  <2>1. oldest' \in 0 .. Len(history)
    BY <1>2 DEF HistoryExpires, TypeOK
  <2>. QED
    BY <1>2, <2>1 DEF HistoryExpires, TypeOK, slotVars
<1>. USE DEF TypeOK, slotVars, boundVars, gmailVars
<1>3. CASE Push
  BY <1>3 DEF Push, Added, JobNames, JobStates
<1>4. ASSUME NEW name \in JobNames, Forget(name)
      PROVE  TypeOK'
  BY <1>4 DEF Forget, JobNames, JobStates
<1>5. ASSUME NEW w \in Slots, NEW name \in JobNames, Take(w, name)
      PROVE  TypeOK'
  BY <1>5 DEF Take, Goto, JobNames, JobStates, Steps
<1>6. ASSUME NEW w \in Slots, ListChanges(w)
      PROVE  TypeOK'
  <2>1. \A kind \in {"added", "deleted"} : Changed(kind, upto[w]) \subseteq Msgs
    BY DEF Changed
  <2>2. Len(history) \in 0 .. Len(history)
    OBVIOUS
  <2>3. /\ dels' \in [Slots -> SUBSET Msgs] /\ adds' \in [Slots -> SUBSET Msgs]
        /\ upto' \in [Slots -> 0 .. Len(history)]
    <3>1. CASE Expired(upto[w])
      BY <1>6, <3>1 DEF ListChanges
    <3>2. CASE ~Expired(upto[w])
      <4>1. /\ dels' = [dels EXCEPT ![w] = Changed("deleted", upto[w])]
            /\ adds' = [adds EXCEPT ![w] = Changed("added", upto[w])]
            /\ upto' = [upto EXCEPT ![w] = Len(history)]
        BY <1>6, <3>2 DEF ListChanges
      <4>2. /\ dels \in [Slots -> SUBSET Msgs] /\ adds \in [Slots -> SUBSET Msgs]
            /\ upto \in [Slots -> 0 .. Len(history)]
        OBVIOUS
      <4>. QED
        BY ONLY <2>1, <2>2, <4>1, <4>2
    <3>. QED
      BY <3>1, <3>2
  <2>4. pc' \in [Slots -> Steps] /\ \A v \in Slots : pc'[v] = "idle" <=> pc[v] = "idle"
    BY <1>6 DEF ListChanges, Goto, Steps
  <2>. QED
    BY <1>6, <2>3, <2>4 DEF ListChanges
<1>7. ASSUME NEW w \in Slots, NEW m \in Msgs, MarkDeleted(w, m)
      PROVE  TypeOK'
  BY <1>7 DEF MarkDeleted, Statuses
<1>8. ASSUME NEW w \in Slots, DeletionsDone(w)
      PROVE  TypeOK'
  BY <1>8 DEF DeletionsDone, Goto, Steps
<1>9. ASSUME NEW w \in Slots, ListRecent(w)
      PROVE  TypeOK'
  BY <1>9, MsgsAssumption DEF ListRecent, Goto, Steps
<1>10. ASSUME NEW w \in Slots, Checkpoint(w)
       PROVE  TypeOK'
  <2>1. Len(history) \in 0 .. Len(history)
    OBVIOUS
  <2>2. upto' \in [Slots -> 0 .. Len(history)]
    <3>1. upto' = [upto EXCEPT ![w] = Len(history)] /\ upto \in [Slots -> 0 .. Len(history)]
      BY <1>10 DEF Checkpoint
    <3>. QED
      BY ONLY <2>1, <3>1
  <2>3. /\ pc' \in [Slots -> Steps]
        /\ \A v \in Slots : pc'[v] = "idle" <=> pc[v] = "idle"
        /\ UNCHANGED <<history, oldest, cursor, status, parse, jobs, job, msg, dels,
                       adds, stale, watch, boundVars>>
    BY <1>10 DEF Checkpoint, Goto, Steps
  <2>. QED
    BY ONLY TypeOK, <2>2, <2>3 DEF TypeOK, boundVars
<1>11. ASSUME NEW w \in Slots, NEW m \in Msgs, FindExisting(w, m)
       PROVE  TypeOK'
  <2>1. CASE status[m] # "none"
    BY <1>11, <2>1 DEF FindExisting
  <2>2. CASE status[m] = "none"
    <3>1. /\ pc' = [pc EXCEPT ![w] = "fetch"] /\ msg' = [msg EXCEPT ![w] = m]
          /\ adds' = [adds EXCEPT ![w] = @ \ {m}] /\ pc[w] = "next"
          /\ UNCHANGED <<history, oldest, cursor, status, parse, jobs, job, dels,
                         upto, stale, watch, expiries, forgets, watches, faults>>
      BY <1>11, <2>2 DEF FindExisting, Goto
    <3>2. /\ pc' \in [Slots -> Steps] /\ msg' \in [Slots -> Msgs \cup {NoMsg}]
          /\ adds' \in [Slots -> SUBSET Msgs]
      BY <3>1 DEF Steps
    <3>3. \A v \in Slots : pc'[v] = "idle" <=> job'[v] = "none"
      BY <3>1
    <3>. QED
      BY <3>1, <3>2, <3>3
  <2>. QED
    BY <2>1, <2>2
<1>12. ASSUME NEW w \in Slots, AllIngested(w)
       PROVE  TypeOK'
  BY <1>12 DEF AllIngested, AfterIngest, Goto, Steps
<1>13. ASSUME NEW w \in Slots, FetchMetadata(w)
       PROVE  TypeOK'
  BY <1>13 DEF FetchMetadata, Goto, Steps
<1>14. ASSUME NEW w \in Slots, UpsertSeen(w)
       PROVE  TypeOK'
  BY <1>14 DEF UpsertSeen, Goto, Steps, Statuses
<1>15. ASSUME NEW w \in Slots, Classify(w)
       PROVE  TypeOK'
  BY <1>15 DEF Classify, AfterClassify, Goto, Steps, Statuses
<1>16. ASSUME NEW w \in Slots, EnqueueParse(w)
       PROVE  TypeOK'
  BY <1>16 DEF EnqueueParse, ReceiptInv, Goto, Steps
<1>17. ASSUME NEW w \in Slots, SaveHistoryId(w)
       PROVE  TypeOK'
  BY <1>17 DEF SaveHistoryId, Goto, Steps
<1>18. ASSUME NEW w \in Slots, Escalate(w)
       PROVE  TypeOK'
  BY <1>18 DEF Escalate, Added, Goto, Steps, JobNames, JobStates
<1>19. ASSUME NEW w \in Slots,
              CheckpointExpired(w) \/ UpsertRefused(w) \/ Finish(w) \/ Interrupt(w)
       PROVE  TypeOK'
  <2>1. PICK state \in {"waiting", "dead", "done"} : End(w, state)
    BY <1>19 DEF CheckpointExpired, UpsertRefused, Finish, Interrupt
  <2>2. /\ expiries' \in Nat /\ watches' \in Nat /\ faults' \in Nat
        /\ UNCHANGED forgets
    BY <1>19 DEF CheckpointExpired, UpsertRefused, Finish, Interrupt
  <2>. QED
    BY ONLY TypeOK, <2>1, <2>2, EndTypes
<1>20. ASSUME NEW w \in Slots, MetadataGone(w)
       PROVE  TypeOK'
  BY <1>20, EndTypes DEF MetadataGone, Goto, Steps
<1>21. ASSUME NEW w \in Slots, LoseLock(w)
       PROVE  TypeOK'
  BY <1>21 DEF LoseLock, JobStates
<1>22. CASE WatchReads \/ WatchWrites
  BY <1>22 DEF WatchReads, WatchWrites, Kept
<1>23. CASE UNCHANGED vars
  BY <1>23 DEF vars
<1>. QED
  BY <1>1, <1>2, <1>3, <1>4, <1>5, <1>6, <1>7, <1>8, <1>9, <1>10, <1>11, <1>12, <1>13,
     <1>14, <1>15, <1>16, <1>17, <1>18, <1>19, <1>20, <1>21, <1>22, <1>23
  DEF Next, Gmail, SlotStep

\* An attempt that ends leaves nothing in its slot.
LEMMA Emptied ==
  ASSUME TypeOK, NEW w \in Slots, NEW state \in {"waiting", "dead", "done"}, End(w, state)
  PROVE  /\ pc'[w] = "idle" /\ job'[w] = "none" /\ adds'[w] = {} /\ upto'[w] = 0
         /\ \A v \in Slots \ {w} : /\ pc'[v] = pc[v] /\ job'[v] = job[v]
                                   /\ msg'[v] = msg[v] /\ adds'[v] = adds[v]
                                   /\ upto'[v] = upto[v]
         /\ UNCHANGED <<history, cursor, status, watch>>
BY DEF End, Goto, TypeOK, gmailVars

\* The attempts that end in a step.
LEMMA Endings ==
  ASSUME NEW w \in Slots,
         \/ CheckpointExpired(w) \/ UpsertRefused(w) \/ Finish(w) \/ Interrupt(w)
         \/ MetadataGone(w) /\ job[w] # "sync"
  PROVE  \E state \in {"waiting", "dead", "done"} : End(w, state)
BY DEF CheckpointExpired, UpsertRefused, Finish, Interrupt, MetadataGone

\* Every step keeps what a slot knows about its own work.
LEMMA LocalStep ==
  ASSUME TypeOK, LocalInv, [Next]_vars
  PROVE  LocalInv'
<1>. USE DEF TypeOK, LocalInv, ReceiptInv, PendingInv, CheckpointInv
<1>1. CASE \/ Gmail \/ Push \/ (\E name \in JobNames : Forget(name))
           \/ WatchReads \/ WatchWrites \/ UNCHANGED vars
  BY <1>1 DEF Gmail, MailArrives, MailDeleted, HistoryExpires, Push, Forget,
              WatchReads, WatchWrites, slotVars, vars
<1>2. ASSUME NEW w \in Slots, NEW name \in JobNames, Take(w, name)
      PROVE  LocalInv'
  BY <1>2 DEF Take, Goto
<1>3. ASSUME NEW w \in Slots, ListChanges(w) \/ ListRecent(w)
      PROVE  LocalInv'
  <2>1. \A v \in Slots \ {w} : /\ pc'[v] = pc[v] /\ msg'[v] = msg[v]
                              /\ adds'[v] = adds[v] /\ job'[v] = job[v]
    BY <1>3 DEF ListChanges, ListRecent, Goto
  <2>2. pc'[w] \in {"escalate", "delete", "next"}
    BY <1>3 DEF ListChanges, ListRecent, Goto
  <2>. QED
    BY <2>1, <2>2
<1>4. ASSUME NEW w \in Slots, NEW m \in Msgs, MarkDeleted(w, m)
      PROVE  LocalInv'
  BY <1>4 DEF MarkDeleted
<1>5. ASSUME NEW w \in Slots, NEW m \in Msgs, FindExisting(w, m)
      PROVE  LocalInv'
  <2>1. \A v \in Slots \ {w} : /\ pc'[v] = pc[v] /\ msg'[v] = msg[v]
                              /\ adds'[v] = adds[v] /\ job'[v] = job[v]
    BY <1>5 DEF FindExisting, Goto
  <2>2. pc'[w] \in {"next", "fetch"}
    BY <1>5 DEF FindExisting, Goto
  <2>. QED
    BY <2>1, <2>2
<1>6. ASSUME NEW w \in Slots, AllIngested(w)
      PROVE  LocalInv'
  BY <1>6 DEF AllIngested, AfterIngest, Goto, JobNames
<1>7. ASSUME NEW w \in Slots,
             \/ DeletionsDone(w) \/ FetchMetadata(w) \/ UpsertSeen(w) \/ EnqueueParse(w)
             \/ Escalate(w) \/ LoseLock(w)
             \/ MetadataGone(w) /\ job[w] = "sync"
      PROVE  LocalInv'
  BY <1>7 DEF DeletionsDone, FetchMetadata, UpsertSeen, EnqueueParse, Escalate,
              LoseLock, MetadataGone, Goto
<1>8. ASSUME NEW w \in Slots, Classify(w)
      PROVE  LocalInv'
  BY <1>8 DEF Classify, AfterClassify, Goto
<1>9. ASSUME NEW w \in Slots, Checkpoint(w) \/ SaveHistoryId(w)
      PROVE  LocalInv'
  BY <1>9 DEF Checkpoint, SaveHistoryId, Goto
<1>10. ASSUME NEW w \in Slots,
              \/ CheckpointExpired(w) \/ UpsertRefused(w) \/ Finish(w) \/ Interrupt(w)
              \/ MetadataGone(w) /\ job[w] # "sync"
       PROVE  LocalInv'
  <2>1. PICK state \in {"waiting", "dead", "done"} : End(w, state)
    BY <1>10, Endings
  <2>2. /\ pc'[w] = "idle" /\ adds'[w] = {}
        /\ \A v \in Slots \ {w} : /\ pc'[v] = pc[v] /\ msg'[v] = msg[v]
                                  /\ adds'[v] = adds[v] /\ job'[v] = job[v]
    BY <2>1, Emptied
  <2>. QED
    BY ONLY LocalInv, <2>2 DEF LocalInv, ReceiptInv, PendingInv, CheckpointInv
<1>11. ASSUME NEW w \in Slots, SlotStep(w) \/ Interrupt(w) \/ LoseLock(w)
       PROVE  LocalInv'
  <2>. HIDE DEF TypeOK, LocalInv, ReceiptInv, PendingInv, CheckpointInv
  <2>1. CASE MetadataGone(w)
    BY <1>7, <1>10, <2>1
  <2>2. CASE ~MetadataGone(w)
    BY <1>2, <1>3, <1>4, <1>5, <1>6, <1>7, <1>8, <1>9, <1>10, <1>11, <2>2 DEF SlotStep
  <2>. QED
    BY <2>1, <2>2
<1>. HIDE DEF TypeOK, LocalInv, ReceiptInv, PendingInv, CheckpointInv
<1>. QED
  BY <1>1, <1>11 DEF Next

\* Every step keeps that a slot has a full sync only after one was asked for.
LEMMA AskedStep ==
  ASSUME TypeOK, AskedInv, [Next]_vars
  PROVE  AskedInv'
<1>. SUFFICES ASSUME NEW v \in Slots, job'[v] = "full", NoFullSyncYet'
              PROVE  FALSE
  BY DEF AskedInv
<1>1. NoFullSyncYet
  BY AskedStays
<1>2. job[v] # "full"
  BY <1>1 DEF AskedInv
<1>3. job'[v] = job[v] \/ job'[v] = "none" \/ Take(v, "full")
  <2>. USE DEF TypeOK
  <2>1. ASSUME NEW w \in Slots, NEW state \in {"waiting", "dead", "done"}, End(w, state)
        PROVE  job'[v] = job[v] \/ job'[v] = "none"
    BY <2>1 DEF End
  <2>2. ASSUME NEW w \in Slots, NEW name \in JobNames, Take(w, name)
        PROVE  job'[v] = job[v] \/ Take(v, "full")
    BY <2>2 DEF Take
  <2>3. ASSUME NEW w \in Slots, MetadataGone(w)
        PROVE  job'[v] = job[v] \/ job'[v] = "none"
    BY <2>1, <2>3 DEF MetadataGone
  <2>4. ASSUME NEW w \in Slots,
               CheckpointExpired(w) \/ UpsertRefused(w) \/ Finish(w) \/ Interrupt(w)
        PROVE  job'[v] = job[v] \/ job'[v] = "none"
    BY <2>1, <2>4, Endings
  <2>. HIDE DEF TypeOK
  <2>5. \/ \E w \in Slots :
             \/ \E name \in JobNames : Take(w, name)
             \/ MetadataGone(w) \/ CheckpointExpired(w) \/ UpsertRefused(w)
             \/ Finish(w) \/ Interrupt(w)
        \/ job' = job
    BY DEF Next, Gmail, MailArrives, MailDeleted, HistoryExpires, Push, Forget,
           SlotStep, ListChanges, ListRecent, MarkDeleted, FindExisting,
           DeletionsDone, AllIngested, FetchMetadata, UpsertSeen, Classify,
           EnqueueParse, Checkpoint, SaveHistoryId, Escalate, LoseLock,
           WatchReads, WatchWrites, slotVars, vars
  <2>. QED
    BY <2>2, <2>3, <2>4, <2>5
<1>4. ~Take(v, "full")
  BY <1>1 DEF Take, NoFullSyncYet
<1>. QED
  BY <1>2, <1>3, <1>4

-----------------------------------------------------------------------------
\* A message that was in the history and is in the mailbox was there before.
LEMMA MailboxBefore ==
  ASSUME TypeOK, NEW k \in Msgs, NEW kind \in {"added", "deleted"},
         history' = Append(history, Change(kind, k)),
         NEW n \in 1 .. Len(history), InMailbox(history[n].msg)'
  PROVE  InMailbox(history[n].msg)
<1>1. /\ \A i \in 1 .. Len(history) : history'[i] = history[i]
      /\ DOMAIN history = 1 .. Len(history) /\ DOMAIN history' = 1 .. Len(history')
      /\ Len(history') = Len(history) + 1 /\ Len(history) \in Nat
  BY Appending DEF TypeOK
<1>2. /\ history[n].kind \in {"added", "deleted"}
      /\ history[n] = [kind |-> history[n].kind, msg |-> history[n].msg]
  <2>1. history[n] \in [kind : {"added", "deleted"}, msg : Msgs]
    BY ElementOfSeq DEF TypeOK
  <2>. QED
    BY ONLY <2>1
<1>3. \A i \in DOMAIN history : i \in DOMAIN history' /\ history'[i] = history[i]
  BY <1>1
<1>4. ~ \E i \in DOMAIN history : history[i] = Change("deleted", history[n].msg)
  BY <1>1, <1>3 DEF InMailbox, Happened, Change
<1>5. history[n] = Change("added", history[n].msg)
  BY <1>1, <1>2, <1>4 DEF Change
<1>. QED
  BY <1>1, <1>4, <1>5 DEF InMailbox, Happened

\* A change of the mailbox names a message.
LEMMA ChangeOfMessage ==
  ASSUME TypeOK, NEW n \in 1 .. Len(history)
  PROVE  history[n].msg \in Msgs
<1>1. history[n] \in [kind : {"added", "deleted"}, msg : Msgs]
  BY ElementOfSeq DEF TypeOK
<1>. QED
  BY ONLY <1>1

\* A message missing among the first n changes was missing before the step.
LEMMA ShrinkArrival ==
  ASSUME TypeOK, NEW k \in Msgs, NEW kind \in {"added", "deleted"},
         history' = Append(history, Change(kind, k)), status' = status
  PROVE  \A n \in 0 .. Len(history) : Missing'[n] \subseteq Missing[n]
<1>. SUFFICES ASSUME NEW n \in 0 .. Len(history), NEW m \in Missing'[n]
              PROVE  m \in Missing[n]
  OBVIOUS
<1>1. /\ n \in 0 .. Len(history') /\ Len(history) \in Nat
      /\ \A i \in 1 .. n : i \in 1 .. Len(history) /\ history'[i] = history[i]
  BY Appending
<1>2. PICK i \in 1 .. n : /\ m = history'[i].msg
                         /\ InMailbox(history[i].msg)'
                         /\ status'[history'[i].msg] = "none"
  BY <1>1 DEF Missing
<1>3. InMailbox(history[i].msg)
  BY <1>1, <1>2, MailboxBefore
<1>. QED
  BY <1>1, <1>2, <1>3 DEF Missing

LEMMA ShrinkRows ==
  ASSUME TypeOK, history' = history,
         \A m \in Msgs : status'[m] = "none" => status[m] = "none"
  PROVE  \A n \in 0 .. Len(history) :
             /\ Missing'[n] \subseteq Missing[n]
             /\ \A m \in Missing'[n] : status'[m] = "none"
<1>. SUFFICES ASSUME NEW n \in 0 .. Len(history), NEW m \in Missing'[n]
              PROVE  m \in Missing[n] /\ status'[m] = "none"
  OBVIOUS
<1>1. PICK i \in 1 .. n : /\ m = history[i].msg
                         /\ InMailbox(history[i].msg)'
                         /\ status'[history[i].msg] = "none"
  BY DEF Missing
<1>2. i \in 1 .. Len(history) /\ Len(history) \in Nat
  BY DEF TypeOK
<1>3. history[i].msg \in Msgs
  BY <1>2, ChangeOfMessage
<1>4. InMailbox(history[i].msg)
  BY <1>1 DEF InMailbox, Happened, Change
<1>. QED
  BY <1>1, <1>3, <1>4 DEF Missing

\* No step loses a row.
LEMMA RowsStay ==
  ASSUME TypeOK, [Next]_vars, NEW m \in Msgs, status'[m] = "none"
  PROVE  status[m] = "none"
<1>. USE DEF TypeOK
<1>1. ASSUME NEW w \in Slots, Classify(w)
      PROVE  status[m] = "none"
  BY <1>1 DEF Classify
<1>2. ASSUME NEW w \in Slots, UpsertSeen(w)
      PROVE  status[m] = "none"
  BY <1>2 DEF UpsertSeen
<1>3. ASSUME NEW w \in Slots, NEW k \in Msgs, MarkDeleted(w, k)
      PROVE  status[m] = "none"
  BY <1>3 DEF MarkDeleted
<1>. HIDE DEF TypeOK
<1>4. \/ status' = status
      \/ \E w \in Slots : \/ Classify(w) \/ UpsertSeen(w)
                          \/ \E k \in Msgs : MarkDeleted(w, k)
  BY DEF Next, Gmail, MailArrives, MailDeleted, HistoryExpires, Push, Forget,
         SlotStep, Take, ListChanges, ListRecent, FindExisting, DeletionsDone,
         AllIngested, FetchMetadata, MetadataGone, UpsertRefused, EnqueueParse,
         Checkpoint, CheckpointExpired, SaveHistoryId, Escalate, Finish,
         Interrupt, LoseLock, End, WatchReads, WatchWrites, vars
<1>. QED
  BY <1>1, <1>2, <1>3, <1>4

\* The history changes by what Gmail appends.
LEMMA HistoryStep ==
  ASSUME [Next]_vars
  PROVE  \/ history' = history
         \/ /\ \E k \in Msgs, kind \in {"added", "deleted"} :
                  history' = Append(history, Change(kind, k))
            /\ UNCHANGED <<status, cursor, jobs, slotVars, watch, boundVars>>
BY SMTT(60) DEF Next, Gmail, MailArrives, MailDeleted, HistoryExpires, Push, Forget, SlotStep,
       Take, ListChanges, ListRecent, MarkDeleted, FindExisting, DeletionsDone,
       AllIngested, FetchMetadata, MetadataGone, UpsertSeen, UpsertRefused, Classify,
       EnqueueParse, Checkpoint, CheckpointExpired, SaveHistoryId, Escalate, Finish,
       Interrupt, LoseLock, End, WatchReads, WatchWrites, gmailVars, vars

\* No step makes a message missing among changes that there were before.
LEMMA Shrink ==
  ASSUME TypeOK, [Next]_vars
  PROVE  \A n \in 0 .. Len(history) : Missing'[n] \subseteq Missing[n]
<1>1. CASE history' = history
  BY <1>1, RowsStay, ShrinkRows
<1>2. ASSUME NEW k \in Msgs, NEW kind \in {"added", "deleted"},
             history' = Append(history, Change(kind, k)), status' = status
      PROVE  \A n \in 0 .. Len(history) : Missing'[n] \subseteq Missing[n]
  BY <1>2, ShrinkArrival
<1>. QED
  BY <1>1, <1>2, HistoryStep

\* What history.list returns is what may be missing beyond its start.
LEMMA ListedIsMissing ==
  ASSUME TypeOK, NEW from \in 0 .. Len(history)
  PROVE  Missing[Len(history)] \subseteq Missing[from] \cup Changed("added", from)
<1>. SUFFICES ASSUME NEW m \in Missing[Len(history)], m \notin Missing[from]
              PROVE  m \in Changed("added", from)
  OBVIOUS
<1>1. Len(history) \in Nat /\ Len(history) \in 0 .. Len(history)
  BY DEF TypeOK
<1>2. PICK i \in 1 .. Len(history) :
         m = history[i].msg /\ InMailbox(m) /\ status[m] = "none"
  BY <1>1 DEF Missing
<1>3. i \in from + 1 .. Len(history)
  BY <1>1, <1>2 DEF Missing
<1>4. DOMAIN history = 1 .. Len(history)
  BY DEF TypeOK
<1>5. history[i] = Change("added", m)
  <2>1. history[i] \in [kind : {"added", "deleted"}, msg : Msgs]
    BY ElementOfSeq DEF TypeOK
  <2>2. history[i] # Change("deleted", m)
    BY <1>2, <1>4 DEF InMailbox, Happened
  <2>. QED
    BY ONLY <1>2, <2>1, <2>2 DEF Change
<1>6. m \in Msgs
  BY <1>2, ChangeOfMessage
<1>. QED
  BY <1>3, <1>5, <1>6 DEF Changed

\* A slot changes by its own steps only.
LEMMA OwnSteps ==
  ASSUME TypeOK, [Next]_vars, NEW v \in Slots
  PROVE  \/ /\ pc'[v] = pc[v] /\ msg'[v] = msg[v]
            /\ adds'[v] = adds[v] /\ upto'[v] = upto[v]
         \/ SlotStep(v)
         \/ Interrupt(v)
<1>. DEFINE Rests == /\ pc'[v] = pc[v] /\ msg'[v] = msg[v]
                     /\ adds'[v] = adds[v] /\ upto'[v] = upto[v]
<1>1. ASSUME NEW w \in Slots \ {v}, SlotStep(w) \/ Interrupt(w)
      PROVE  Rests
  <2>1. ASSUME NEW state, End(w, state)
        PROVE  Rests
    BY <2>1 DEF End, Goto, TypeOK
  <2>2. CASE \/ CheckpointExpired(w) \/ UpsertRefused(w) \/ Finish(w) \/ Interrupt(w)
             \/ MetadataGone(w) /\ job[w] # "sync"
    BY <2>1, <2>2, Endings
  <2>3. CASE \/ ListChanges(w) \/ ListRecent(w) \/ \E name \in JobNames : Take(w, name)
             \/ \E m \in Msgs : MarkDeleted(w, m) \/ FindExisting(w, m)
    BY <2>3 DEF ListChanges, ListRecent, Take, MarkDeleted, FindExisting, Goto, TypeOK
  <2>4. CASE \/ DeletionsDone(w) \/ AllIngested(w) \/ FetchMetadata(w) \/ UpsertSeen(w)
             \/ Classify(w) \/ EnqueueParse(w) \/ Checkpoint(w) \/ SaveHistoryId(w)
             \/ Escalate(w)
             \/ MetadataGone(w) /\ job[w] = "sync"
    BY <2>4 DEF DeletionsDone, AllIngested, FetchMetadata, UpsertSeen, Classify,
                EnqueueParse, Checkpoint, SaveHistoryId, Escalate, MetadataGone,
                Goto, TypeOK
  <2>. HIDE DEF Rests
  <2>. QED
    BY <1>1, <2>2, <2>3, <2>4 DEF SlotStep
<1>2. ASSUME NEW w \in Slots, LoseLock(w)
      PROVE  Rests
  BY <1>2 DEF LoseLock
<1>3. CASE \/ Gmail \/ Push \/ (\E name \in JobNames : Forget(name))
           \/ WatchReads \/ WatchWrites \/ UNCHANGED vars
  BY <1>3 DEF Gmail, MailArrives, MailDeleted, HistoryExpires, Push, Forget,
              WatchReads, WatchWrites, slotVars, vars
<1>4. ASSUME NEW w \in Slots, SlotStep(w) \/ Interrupt(w) \/ LoseLock(w)
      PROVE  Rests \/ SlotStep(v) \/ Interrupt(v)
  <2>1. CASE w = v
    BY <1>2, <1>4, <2>1
  <2>2. CASE w # v
    BY <1>1, <1>2, <1>4, <2>2
  <2>. QED
    BY <2>1, <2>2
<1>5. Rests \/ SlotStep(v) \/ Interrupt(v)
  BY <1>3, <1>4 DEF Next
<1>. QED
  BY <1>5

\* A slot that works covers the historyId it is to store.
LEMMA SlotCovers ==
  ASSUME IInv, [Next]_vars, NoFullSyncYet', NEW v \in Slots, pc'[v] \in Working
  PROVE  Missing'[upto'[v]] \subseteq Pending(v)'
<1>1. /\ TypeOK /\ LocalInv /\ NoFullSyncYet
      /\ Missing[cursor] = {}
      /\ pc[v] \in Working => Missing[upto[v]] \subseteq Pending(v)
  BY AskedStays DEF IInv, CoverInv
<1>2. /\ upto[v] \in 0 .. Len(history) /\ cursor \in 0 .. Len(history)
      /\ Len(history) \in 0 .. Len(history)
  BY <1>1 DEF TypeOK
<1>3. \A n \in 0 .. Len(history) : Missing'[n] \subseteq Missing[n]
  BY <1>1, Shrink
<1>4. CASE /\ pc'[v] = pc[v] /\ msg'[v] = msg[v]
           /\ adds'[v] = adds[v] /\ upto'[v] = upto[v]
  BY <1>1, <1>2, <1>3, <1>4 DEF Pending
<1>5. job[v] # "full"
  BY <1>1 DEF IInv, AskedInv
<1>6. ASSUME NEW name \in JobNames, Take(v, name)
      PROVE  Missing'[upto'[v]] = {}
  <2>1. name = "sync"
    BY <1>1, <1>6 DEF Take, NoFullSyncYet, JobNames
  <2>2. upto'[v] = cursor
    BY <1>1, <1>6, <2>1 DEF Take, TypeOK
  <2>. QED
    BY <1>1, <1>2, <1>3, <2>2
<1>7. CASE ListChanges(v)
  <2>1. /\ adds[v] = {} /\ Missing[upto[v]] = {}
    BY <1>1, <1>7 DEF ListChanges, LocalInv, PendingInv, Working, Pending
  <2>2. ~Expired(upto[v])
    BY <1>1, <1>7 DEF ListChanges, Goto, Working, TypeOK
  <2>3. /\ adds'[v] = Changed("added", upto[v]) /\ upto'[v] = Len(history)
    BY <1>1, <1>7, <2>2 DEF ListChanges, TypeOK
  <2>4. Missing[Len(history)] \subseteq Changed("added", upto[v])
    BY <1>1, <1>2, <2>1, ListedIsMissing
  <2>. QED
    BY <1>2, <1>3, <2>3, <2>4 DEF Pending
<1>8. ASSUME NEW m \in Msgs, FindExisting(v, m)
      PROVE  Missing'[upto'[v]] \subseteq Pending(v)'
  <2>1. /\ Missing[upto[v]] \subseteq adds[v]
        /\ upto'[v] = upto[v] /\ adds'[v] = adds[v] \ {m}
        /\ history' = history /\ status' = status
    BY <1>1, <1>8 DEF FindExisting, Working, Pending, gmailVars, TypeOK
  <2>2. Missing'[upto[v]] \subseteq adds[v]
    BY <1>2, <1>3, <2>1
  <2>3. CASE status[m] # "none"
    <3>1. m \notin Missing'[upto[v]]
      BY <1>1, <1>2, <2>1, <2>3, ShrinkRows
    <3>. QED
      BY <2>1, <2>2, <3>1 DEF Pending
  <2>4. CASE status[m] = "none"
    <3>1. pc'[v] = "fetch" /\ msg'[v] = m
      BY <1>1, <1>8, <2>4 DEF FindExisting, Goto, TypeOK
    <3>. QED
      BY <2>1, <2>2, <3>1 DEF Pending
  <2>. QED
    BY <2>3, <2>4
<1>9. CASE UpsertSeen(v)
  <2>1. /\ Missing[upto[v]] \subseteq adds[v] \cup {msg[v]}
        /\ upto'[v] = upto[v] /\ adds'[v] = adds[v] /\ history' = history
        /\ \A m \in Msgs : status'[m] = "none" => status[m] = "none"
        /\ msg[v] \in Msgs => status'[msg[v]] # "none"
    BY <1>1, <1>9 DEF UpsertSeen, Working, Pending, gmailVars, TypeOK
  <2>2. Missing'[upto[v]] \subseteq adds[v]
    <3>1. Missing'[upto[v]] \subseteq Msgs
      BY <1>1, <1>2, <2>1, ChangeOfMessage DEF Missing, TypeOK
    <3>. QED
      BY <1>1, <1>2, <1>3, <2>1, <3>1, ShrinkRows
  <2>. QED
    BY <2>1, <2>2 DEF Pending
<1>10. CASE \/ DeletionsDone(v) \/ AllIngested(v) \/ FetchMetadata(v)
            \/ Classify(v) \/ EnqueueParse(v)
            \/ \E m \in Msgs : MarkDeleted(v, m)
  <2>1. /\ Missing[upto[v]] \subseteq Pending(v)
        /\ upto'[v] = upto[v] /\ adds'[v] = adds[v] /\ msg'[v] = msg[v]
    BY <1>1, <1>10 DEF DeletionsDone, AllIngested, FetchMetadata, Classify,
                       EnqueueParse, MarkDeleted, Working
  <2>2. pc[v] \in {"fetch", "upsert"} => pc'[v] \in {"fetch", "upsert"}
    BY <1>1, <1>10 DEF DeletionsDone, AllIngested, FetchMetadata, Classify,
                       EnqueueParse, MarkDeleted, Goto, TypeOK
  <2>. QED
    BY <1>2, <1>3, <2>1, <2>2 DEF Pending
<1>11. ASSUME \/ ListRecent(v) \/ Checkpoint(v) \/ SaveHistoryId(v) \/ Escalate(v)
              \/ CheckpointExpired(v) \/ UpsertRefused(v) \/ Finish(v) \/ Interrupt(v)
              \/ MetadataGone(v)
       PROVE  FALSE
  <2>1. ~ListRecent(v)
    BY <1>5 DEF ListRecent
  <2>2. ~(Checkpoint(v) \/ CheckpointExpired(v))
    BY <1>1, <1>5 DEF Checkpoint, CheckpointExpired, LocalInv, CheckpointInv
  <2>3. ASSUME NEW state \in {"waiting", "dead", "done"}, End(v, state)
        PROVE  FALSE
    BY <1>1, <2>3, Emptied DEF Working
  <2>4. ~ \/ UpsertRefused(v) \/ Finish(v) \/ Interrupt(v)
          \/ MetadataGone(v) /\ job[v] # "sync"
    BY <2>3, Endings
  <2>5. ~ \/ SaveHistoryId(v) \/ Escalate(v)
          \/ MetadataGone(v) /\ job[v] = "sync"
    BY <1>1 DEF SaveHistoryId, Escalate, MetadataGone, Goto, Working, TypeOK
  <2>. QED
    BY <1>11, <2>1, <2>2, <2>4, <2>5
<1>. QED
  BY <1>4, <1>6, <1>7, <1>8, <1>9, <1>10, <1>11, OwnSteps, <1>1 DEF SlotStep

\* Every step keeps that no historyId skips a message.
LEMMA CoverStep ==
  ASSUME IInv, [Next]_vars
  PROVE  CoverInv'
<1>. SUFFICES ASSUME NoFullSyncYet'
              PROVE  /\ Missing'[cursor'] = {}
                     /\ Missing'[watch'.read] = {}
                     /\ \A w \in Slots :
                          pc'[w] \in Working => Missing'[upto'[w]] \subseteq Pending(w)'
  BY DEF CoverInv
<1>1. /\ TypeOK /\ LocalInv /\ NoFullSyncYet
      /\ Missing[cursor] = {} /\ Missing[watch.read] = {}
  BY AskedStays DEF IInv, CoverInv
<1>2. /\ cursor \in 0 .. Len(history) /\ watch.read \in 0 .. Len(history)
      /\ Len(history) \in Nat /\ 0 \in 0 .. Len(history)
  BY <1>1 DEF TypeOK
<1>3. \A n \in 0 .. Len(history) : Missing'[n] \subseteq Missing[n]
  BY <1>1, Shrink
<1>4. \/ cursor' = cursor
      \/ cursor' = watch.read
      \/ \E w \in Slots : SaveHistoryId(w)
  BY SMTT(60) DEF Next, Gmail, MailArrives, MailDeleted, HistoryExpires, Push, Forget, SlotStep,
         Take, ListChanges, ListRecent, MarkDeleted, FindExisting, DeletionsDone,
         AllIngested, FetchMetadata, MetadataGone, UpsertSeen, UpsertRefused, Classify,
         EnqueueParse, Checkpoint, CheckpointExpired, Escalate, Finish, Interrupt,
         LoseLock, End, WatchReads, WatchWrites, Kept, vars
<1>5. ASSUME NEW w \in Slots, SaveHistoryId(w)
      PROVE  Missing'[cursor'] = {}
  <2>1. /\ cursor' = upto[w] /\ pc[w] = "save"
    BY <1>5 DEF SaveHistoryId
  <2>2. Missing[upto[w]] \subseteq Pending(w) /\ Pending(w) = {}
    BY <1>1, <2>1 DEF IInv, CoverInv, LocalInv, PendingInv, Pending, Working
  <2>3. upto[w] \in 0 .. Len(history)
    BY <1>1 DEF TypeOK
  <2>. QED
    BY <1>3, <2>1, <2>2, <2>3
<1>6. Missing'[cursor'] = {}
  BY <1>1, <1>2, <1>3, <1>4, <1>5
<1>7. watch'.read = watch.read \/ watch'.read = 0 \/ watch'.read = cursor
  BY SMTT(60) DEF Next, Gmail, MailArrives, MailDeleted, HistoryExpires, Push, Forget, SlotStep,
         Take, ListChanges, ListRecent, MarkDeleted, FindExisting, DeletionsDone,
         AllIngested, FetchMetadata, MetadataGone, UpsertSeen, UpsertRefused, Classify,
         EnqueueParse, Checkpoint, CheckpointExpired, SaveHistoryId, Escalate, Finish,
         Interrupt, LoseLock, End, WatchReads, WatchWrites, vars
<1>8. Missing[0] = {}
  BY <1>2 DEF Missing
<1>9. Missing'[watch'.read] = {}
  BY <1>1, <1>2, <1>3, <1>7, <1>8
<1>. QED
  BY <1>6, <1>9, SlotCovers

\* While nothing fails, every step keeps that a row is settled.
LEMMA SettledStep ==
  ASSUME TypeOK, EveryRowIsSettled, [Next]_vars
  PROVE  EveryRowIsSettled'
<1>. SUFFICES ASSUME faults' = 0, NEW m \in Msgs
              PROVE  /\ status'[m] = "seen" =>
                          \E w \in Slots : msg'[w] = m /\ pc'[w] = "classify"
                     /\ status'[m] = "classified" =>
                          m \in parse' \/ \E w \in Slots : msg'[w] = m /\ pc'[w] = "enqueue"
  BY DEF EveryRowIsSettled
<1>1. ~ \E w \in Slots : Interrupt(w) \/ LoseLock(w)
  BY DEF Interrupt, LoseLock, TypeOK
<1>2. faults = 0
  BY <1>1 DEF Next, Gmail, MailArrives, MailDeleted, HistoryExpires, Push, Forget,
     SlotStep, Take, ListChanges, ListRecent, MarkDeleted, FindExisting,
     DeletionsDone, AllIngested, FetchMetadata, MetadataGone, UpsertSeen,
     UpsertRefused, Classify, EnqueueParse, Checkpoint, CheckpointExpired,
     SaveHistoryId, Escalate, Finish, WatchReads, WatchWrites, boundVars, vars
<1>3. /\ status[m] = "seen" =>
           \E w \in Slots : msg[w] = m /\ pc[w] = "classify"
      /\ status[m] = "classified" =>
           m \in parse \/ \E w \in Slots : msg[w] = m /\ pc[w] = "enqueue"
  BY <1>2 DEF EveryRowIsSettled
<1>4. ASSUME NEW w \in Slots, pc[w] = "classify"
      PROVE  (pc'[w] = pc[w] /\ msg'[w] = msg[w]) \/ Classify(w)
  <2>1. SlotStep(w) => Classify(w)
    BY <1>4 DEF SlotStep, Take, ListChanges, ListRecent, MarkDeleted, FindExisting,
       DeletionsDone, AllIngested, FetchMetadata, MetadataGone, UpsertSeen,
       UpsertRefused, EnqueueParse, Checkpoint, CheckpointExpired, SaveHistoryId,
       Escalate, Finish
  <2>. QED
    BY <1>1, <2>1, OwnSteps
<1>5. ASSUME NEW w \in Slots, pc[w] = "enqueue"
      PROVE  (pc'[w] = pc[w] /\ msg'[w] = msg[w]) \/ EnqueueParse(w)
  <2>1. SlotStep(w) => EnqueueParse(w)
    BY <1>5 DEF SlotStep, Take, ListChanges, ListRecent, MarkDeleted, FindExisting,
       DeletionsDone, AllIngested, FetchMetadata, MetadataGone, UpsertSeen,
       UpsertRefused, Classify, Checkpoint, CheckpointExpired, SaveHistoryId,
       Escalate, Finish
  <2>. QED
    BY <1>1, <2>1, OwnSteps
<1>6. parse \subseteq parse'
  BY SMTT(60) DEF Next, Gmail, MailArrives, MailDeleted, HistoryExpires, Push, Forget, SlotStep,
     Take, ListChanges, ListRecent, MarkDeleted, FindExisting, DeletionsDone,
     AllIngested, FetchMetadata, MetadataGone, UpsertSeen, UpsertRefused, Classify,
     EnqueueParse, Checkpoint, CheckpointExpired, SaveHistoryId, Escalate, Finish,
     Interrupt, LoseLock, End, WatchReads, WatchWrites, vars
<1>7. CASE \E w \in Slots : Classify(w) /\ msg[w] = m
  <2>1. PICK w \in Slots : Classify(w) /\ msg[w] = m
    BY <1>7
  <2>2. /\ status'[m] = IF m \in Receipts THEN "classified" ELSE "ignored"
        /\ m \in Receipts => pc'[w] = "enqueue"
        /\ msg'[w] = m
    BY <2>1 DEF Classify, AfterClassify, Goto, TypeOK
  <2>. QED
    BY <2>2
<1>8. CASE ~ \E w \in Slots : Classify(w) /\ msg[w] = m
  <2>1. \/ status'[m] = status[m]
        \/ status'[m] = "deleted"
        \/ \E w \in Slots : UpsertSeen(w) /\ msg[w] = m /\ status'[m] # status[m]
    <3>. USE DEF TypeOK
    <3>1. ASSUME NEW w \in Slots, NEW k \in Msgs, MarkDeleted(w, k)
          PROVE  status'[m] = status[m] \/ status'[m] = "deleted"
      BY <3>1 DEF MarkDeleted
    <3>2. ASSUME NEW w \in Slots, Classify(w)
          PROVE  status'[m] = status[m]
      BY <1>8, <3>2 DEF Classify
    <3>3. ASSUME NEW w \in Slots, UpsertSeen(w)
          PROVE  status'[m] = status[m] \/ msg[w] = m
      BY <3>3 DEF UpsertSeen
    <3>. HIDE DEF TypeOK
    <3>4. \/ status' = status
          \/ \E w \in Slots : \/ Classify(w) \/ UpsertSeen(w)
                              \/ \E k \in Msgs : MarkDeleted(w, k)
      BY SMTT(60) DEF Next, Gmail, MailArrives, MailDeleted, HistoryExpires, Push, Forget,
             SlotStep, Take, ListChanges, ListRecent, FindExisting, DeletionsDone,
             AllIngested, FetchMetadata, MetadataGone, UpsertRefused, EnqueueParse,
             Checkpoint, CheckpointExpired, SaveHistoryId, Escalate, Finish,
             Interrupt, LoseLock, End, WatchReads, WatchWrites, vars
    <3>. QED
      BY <3>1, <3>2, <3>3, <3>4
  <2>2. CASE status'[m] = status[m]
    <3>1. CASE status[m] = "seen"
      BY <1>3, <1>4, <1>8, <2>2, <3>1
    <3>2. CASE status[m] = "classified"
      <4>1. ASSUME NEW w \in Slots, EnqueueParse(w), msg[w] = m
            PROVE  m \in parse'
        BY <4>1 DEF EnqueueParse
      <4>. QED
        BY <1>3, <1>5, <1>6, <2>2, <3>2, <4>1
    <3>. QED
      BY <2>2, <3>1, <3>2
  <2>3. ASSUME NEW w \in Slots, UpsertSeen(w), msg[w] = m, status'[m] # status[m]
        PROVE  status'[m] = "seen" /\ msg'[w] = m /\ pc'[w] = "classify"
    BY <2>3 DEF UpsertSeen, Goto, TypeOK
  <2>. QED
    BY <2>1, <2>2, <2>3
<1>. QED
  BY <1>7, <1>8

LEMMA Inductive == Spec => []IInv
<1>1. Init => IInv
  <2>. SUFFICES ASSUME Init
                PROVE  IInv
    OBVIOUS
  <2>1. TypeOK
    BY DEF Init, TypeOK, JobNames, JobStates, Statuses, Steps
  <2>2. LocalInv /\ AskedInv
    BY DEF Init, LocalInv, ReceiptInv, PendingInv, CheckpointInv, AskedInv
  <2>3. Missing[0] = {}
    BY DEF Init, Missing
  <2>4. CoverInv
    BY <2>3 DEF Init, CoverInv, Working
  <2>. QED
    BY <2>1, <2>2, <2>4 DEF IInv
<1>2. IInv /\ [Next]_vars => IInv'
  BY TypeStep, LocalStep, AskedStep, CoverStep DEF IInv, LocalInv
<1>. QED
  BY <1>1, <1>2, PTL DEF Spec

\* The variables of the mail jobs keep their types in every behaviour.
THEOREM TypeCorrect == Spec => []TypeOK
<1>1. IInv => TypeOK
  BY DEF IInv
<1>. QED
  BY <1>1, Inductive, PTL

\* Until a full sync is asked for, a message of the mailbox that is before the
\* stored historyId has its row, whatever overlaps, fails or is repeated.
THEOREM CursorCoversMailHolds == Spec => []CursorCoversMail
<1>1. IInv => CursorCoversMail
  <2>. SUFFICES ASSUME IInv, NoFullSyncYet, NEW n \in 1 .. cursor,
                       InMailbox(history[n].msg), status[history[n].msg] = "none"
                PROVE  FALSE
    BY DEF CursorCoversMail, Covered
  <2>1. cursor \in 0 .. Len(history) /\ Missing[cursor] = {}
    BY DEF IInv, TypeOK, CoverInv
  <2>. QED
    BY <2>1 DEF Missing
<1>. QED
  BY <1>1, Inductive, PTL

\* Without failures no row is left half-way and no receipt without its parse
\* job, with any number of syncs and full sync attempts on the same messages.
THEOREM EveryRowIsSettledHolds == Spec => []EveryRowIsSettled
<1>1. Init => EveryRowIsSettled
  BY DEF Init, EveryRowIsSettled
<1>2. TypeOK /\ EveryRowIsSettled /\ [Next]_vars => EveryRowIsSettled'
  BY SettledStep
<1>. QED
  BY <1>1, <1>2, TypeCorrect, PTL DEF Spec
=============================================================================
