--------------------------- MODULE ReceiptsProofs ---------------------------
(***************************************************************************)
(* Proofs about Receipts, for all messages, transactions, scores, slots and *)
(* bounds: the types; that the status of a message tells the stage of its   *)
(* receipt; that no pair is missed; that the jobs implement Pairing.        *)
(***************************************************************************)
EXTENDS Receipts, FiniteSetTheorems, TLAPS

\* A slot at work has a job, of the kind its step belongs to; before a link it has
\* picked a partner of the other kind.
SlotInv ==
    \A w \in Slots :
        /\ pc[w] # "idle" => job[w] \in Jobs
        /\ pc[w] \in {"fetch", "create", "parsed", "enqueue"} => job[w] \in ParseJobs
        /\ pc[w] = "list" => job[w] \in ReceiptJobs \cup TxnJobs
        /\ pc[w] = "check" => job[w] \in ReceiptJobs
        /\ pc[w] \in {"check", "link", "mark"} =>
             \/ job[w] \in ReceiptJobs /\ pick[w] \in Txns
             \/ job[w] \in TxnJobs /\ pick[w] \in Messages

IInv == TypeOK /\ SlotInv

\* At any time finitely many receipts and charges are known, and only a charge that
\* is known has a category.
KnownInv ==
    /\ IsFiniteSet(receipts)
    /\ IsFiniteSet({t \in Txns : txn[t] # "absent"})
    /\ \A t \in Txns : txn[t] = "absent" => category[t] = "none"

\* A slot that is past the receipt's insert, or has picked it, or has linked it.
SlotFact(w) ==
    /\ pc[w] \in {"parsed", "enqueue"} => Subject(w) \in receipts
    /\ pc[w] = "list" /\ job[w] \in ReceiptJobs => Subject(w) \in receipts
    /\ pc[w] \in {"check", "link", "mark"} => ReceiptOf(w) \in receipts
    /\ pc[w] = "mark" => Linked(ReceiptOf(w))

\* What a status says whichever jobs failed or overlapped.
RowInv ==
    /\ \A l \in links : l.receipt \in receipts
    /\ \A m \in Messages :
        /\ status[m] = "parsed" => m \in receipts
        /\ status[m] = "matched" => Linked(m)
        /\ status[m] = "deleted" => mailbox[m] = "synced"
        /\ mailbox[m] = "synced" /\ m \notin receipts => status[m] = "deleted"

FactInv == KnownInv /\ RowInv /\ \A w \in Slots : SlotFact(w)

\* While nothing fails, a job has one slot ...
SlotsOwn ==
    \A w \in Slots :
        /\ ~stale[w]
        /\ pc[w] # "idle" =>
             /\ jobs[job[w]] = "active"
             /\ \A v \in Slots : pc[v] # "idle" /\ job[v] = job[w] => v = w

\* ... and is enqueued once: the match of a receipt by its parse after the insert,
\* the match of a charge with its category.
Stages ==
    /\ \A m \in Messages :
        /\ m \notin receipts => jobs[<<"receipt", m>>] = "absent"
        /\ jobs[<<"parse", m>>] = "waiting" => m \notin receipts
    /\ \A w \in Slots :
        /\ job[w] \in ParseJobs /\ pc[w] \in {"lookup", "fetch", "create"} =>
             Subject(w) \notin receipts
        /\ pc[w] \in {"parsed", "enqueue"} => jobs[<<"receipt", Subject(w)>>] = "absent"
    /\ \A t \in Txns : category[t] = "none" => jobs[<<"txn", t>>] = "absent"

\* A status lags behind its receipt or its link while the slot that is to write it
\* is on the way.
StatusInv ==
    /\ \A m \in receipts : status[m] = "classified" =>
         \E w \in Slots : pc[w] = "parsed" /\ Subject(w) = m
    /\ \A l \in links : l.by = "receipt" =>
         /\ jobs[<<"receipt", l.receipt>>] # "absent"
         /\ status[l.receipt] = "parsed" =>
              \E w \in Slots : pc[w] = "mark" /\ ReceiptOf(w) = l.receipt

\* A pair that qualifies and is apart has lost to a rival, or the job of one of the
\* two is still to see both or has picked a partner that is as good.
Qualify(m, t) ==
    /\ txn[t] = "live" /\ category[t] = "trigger"
    /\ <<m, t>> \in Near \cap InWindow
    /\ Points(m, t) >= MinScore
    /\ ~Linked(m) /\ ~LinkedTxn(t)

Outdone(m, t) ==
    \/ \E u \in Txns : LinkedTxn(u) /\ AsGood(m, u, t)
    \/ \E n \in Messages : Linked(n) /\ Points(n, t) >= Points(m, t)

TxnWill(m, t) ==
    \/ jobs[<<"txn", t>>] = "waiting"
    \/ \E w \in Slots :
         /\ job[w] = <<"txn", t>>
         /\ \/ pc[w] \in {"lookup", "list"}
            \/ pc[w] = "link" /\ Points(pick[w], t) >= Points(m, t)

ReceiptWill(m, t) ==
    \/ jobs[<<"receipt", m>>] = "waiting"
    \/ \E w \in Slots : pc[w] \in {"parsed", "enqueue"} /\ Subject(w) = m
    \/ \E w \in Slots :
         /\ job[w] = <<"receipt", m>>
         /\ \/ pc[w] \in {"lookup", "list"}
            \/ pc[w] \in {"check", "link"} /\ AsGood(m, pick[w], t)

PairInv ==
    \A m \in totals, t \in Txns :
        Qualify(m, t) => Outdone(m, t) \/ TxnWill(m, t) \/ ReceiptWill(m, t)

CleanInv == faults = 0 => SlotsOwn /\ Stages /\ StatusInv /\ PairInv

-----------------------------------------------------------------------------
\* What a job is about.
LEMMA JobParts ==
  ASSUME NEW w \in Slots
  PROVE  /\ job[w] \in ParseJobs => Kind(w) = "parse" /\ Subject(w) \in Messages
         /\ job[w] \in ReceiptJobs => Kind(w) = "receipt" /\ Subject(w) \in Messages
         /\ job[w] \in TxnJobs => Kind(w) = "txn" /\ Subject(w) \in Txns
  BY DEF ParseJobs, ReceiptJobs, TxnJobs, Kind, Subject

LEMMA JobKind ==
  ASSUME NEW w \in Slots, job[w] \in Jobs
  PROVE  /\ Kind(w) = "parse" => job[w] \in ParseJobs
         /\ Kind(w) = "receipt" => job[w] \in ReceiptJobs
         /\ Kind(w) = "txn" => job[w] \in TxnJobs
  BY JobParts DEF Jobs

\* The two sides of a link.
LEMMA LinkParts ==
  ASSUME SlotInv, NEW w \in Slots, pc[w] \in {"link", "mark"}
  PROVE  ReceiptOf(w) \in Messages /\ TxnOf(w) \in Txns /\ Kind(w) \in {"receipt", "txn"}
  BY JobParts DEF SlotInv, ReceiptOf, TxnOf

LEMMA EndStep ==
  ASSUME IInv, NEW w \in Slots, NEW state \in JobStates, End(w, state), faults' \in Nat
  PROVE  IInv'
<1>1. TypeOK'
  BY DEF IInv, TypeOK, End, Goto, Steps, worldVars, rowVars
<1>2. SlotInv'
  BY DEF IInv, TypeOK, SlotInv, End, Goto
<1>. QED
  BY <1>1, <1>2 DEF IInv

\* A step of a slot that changes its step only.
LEMMA GotoStep ==
  ASSUME IInv, NEW w \in Slots, NEW step \in Steps, Goto(w, step),
         UNCHANGED <<worldVars, rowVars, jobs, job, stale, faults>>,
         pick' \in [Slots -> Messages \cup Txns \cup {None}],
         \A v \in Slots : v # w => pick'[v] = pick[v],
         step # "idle" => job[w] \in Jobs,
         step \in {"fetch", "create", "parsed", "enqueue"} => job[w] \in ParseJobs,
         step = "list" => job[w] \in ReceiptJobs \cup TxnJobs,
         step = "check" => job[w] \in ReceiptJobs,
         step \in {"check", "link", "mark"} =>
             \/ job[w] \in ReceiptJobs /\ pick'[w] \in Txns
             \/ job[w] \in TxnJobs /\ pick'[w] \in Messages
  PROVE  IInv'
<1>1. TypeOK'
  BY DEF IInv, TypeOK, Goto, worldVars, rowVars
<1>2. pc' = [pc EXCEPT ![w] = step] /\ pc \in [Slots -> Steps] /\ job' = job
  BY DEF IInv, TypeOK, Goto
<1>3. SlotInv'
  BY <1>2 DEF IInv, SlotInv
<1>. QED
  BY <1>1, <1>3 DEF IInv

LEMMA WorldStep ==
  ASSUME IInv, World
  PROVE  IInv'
<1>. USE DEF IInv, TypeOK, SlotInv, rowVars, slotVars
<1>1. ASSUME NEW t \in Txns, TxnArrives(t) \/ TxnRemoved(t)
      PROVE  IInv'
  BY <1>1 DEF TxnArrives, TxnRemoved
<1>2. ASSUME NEW t \in Txns, Categorize(t)
      PROVE  IInv'
  <2>1. jobs' \in [Jobs -> JobStates]
    BY <1>2 DEF Categorize, JobStates
  <2>. QED
    BY <1>2, <2>1 DEF Categorize
<1>3. ASSUME NEW t \in Txns, Recategorize(t)
      PROVE  IInv'
  BY <1>3 DEF Recategorize
<1>4. ASSUME NEW m \in Messages, MailGone(m) \/ MarkDeleted(m)
      PROVE  IInv'
  BY <1>4 DEF MailGone, MarkDeleted
<1>. QED
  BY <1>1, <1>2, <1>3, <1>4, BoundsAssumption DEF World

LEMMA SlotsStep ==
  ASSUME IInv, NEW w \in Slots, SlotStep(w) \/ Interrupt(w) \/ LoseLock(w)
  PROVE  IInv'
<1>. DEFINE Same == UNCHANGED <<worldVars, rowVars, jobs, job, pick, stale, faults>>
<1>0. faults \in Nat /\ pick \in [Slots -> Messages \cup Txns \cup {None}]
  BY DEF IInv, TypeOK
<1>1. ASSUME NEW j \in Jobs, Take(w, j)
      PROVE  IInv'
  <2>1. TypeOK'
    BY <1>1 DEF Take, Goto, IInv, TypeOK, Steps, JobStates, worldVars, rowVars
  <2>2. SlotInv'
    BY <1>1 DEF Take, Goto, IInv, TypeOK, SlotInv
  <2>. QED
    BY <2>1, <2>2 DEF IInv
<1>2. CASE FindReceipt(w)
  <2>1. job[w] \in ParseJobs /\ job[w] \in Jobs
    BY <1>2, JobKind DEF FindReceipt, IInv, SlotInv
  <2>2. CASE Subject(w) \in receipts
    BY <1>0, <1>2, <2>2, EndStep DEF FindReceipt, ReturnIf, JobStates
  <2>3. CASE Subject(w) \notin receipts
    BY <1>0, <1>2, <2>1, <2>3, GotoStep DEF FindReceipt, ReturnIf, Steps
  <2>. QED
    BY <2>2, <2>3
<1>3. CASE FetchBody(w)
  <2>1. job[w] \in ParseJobs /\ job[w] \in Jobs
    BY <1>3 DEF FetchBody, IInv, SlotInv
  <2>. QED
    BY <1>0, <1>3, <2>1, GotoStep DEF FetchBody, Steps
<1>4. CASE BodyGone(w) \/ CreateRefused(w) \/ NoTotalThrows(w) \/ LinkRefused(w) \/ Finish(w)
  <2>1. faults' = faults /\ \E state \in JobStates : End(w, state)
    BY <1>4 DEF BodyGone, CreateRefused, NoTotalThrows, LinkRefused, Finish, JobStates
  <2>. QED
    BY <1>0, <2>1, EndStep
<1>5. CASE CreateReceipt(w)
  <2>1. job[w] \in ParseJobs /\ Subject(w) \in Messages
    BY <1>5, JobParts DEF CreateReceipt, IInv, SlotInv
  <2>2. TypeOK'
    BY <1>5, <2>1 DEF CreateReceipt, Goto, IInv, TypeOK, Steps, worldVars
  <2>3. SlotInv'
    BY <1>5, <2>1 DEF CreateReceipt, Goto, IInv, TypeOK, SlotInv
  <2>. QED
    BY <2>2, <2>3 DEF IInv
<1>6. CASE MarkParsed(w)
  <2>1. job[w] \in ParseJobs /\ Subject(w) \in Messages
    BY <1>6, JobParts DEF MarkParsed, IInv, SlotInv
  <2>2. TypeOK'
    BY <1>6, <2>1 DEF MarkParsed, Goto, IInv, TypeOK, Steps, worldVars
  <2>3. SlotInv'
    BY <1>6, <2>1 DEF MarkParsed, Goto, IInv, TypeOK, SlotInv
  <2>. QED
    BY <2>2, <2>3 DEF IInv
<1>7. CASE RequestMatch(w)
  <2>1. TypeOK'
    BY <1>7 DEF RequestMatch, EnqueueMatch, Goto, IInv, TypeOK, Steps, JobStates, worldVars, rowVars
  <2>2. SlotInv'
    BY <1>7 DEF RequestMatch, Goto, IInv, TypeOK, SlotInv
  <2>. QED
    BY <2>1, <2>2 DEF IInv
<1>8. CASE FindReceiptLink(w)
  <2>1. job[w] \in ReceiptJobs /\ job[w] \in Jobs
    BY <1>8, JobKind DEF FindReceiptLink, IInv, SlotInv
  <2>2. CASE Linked(Subject(w))
    BY <1>0, <1>8, <2>2, EndStep DEF FindReceiptLink, ReturnIf, JobStates
  <2>3. CASE ~Linked(Subject(w))
    BY <1>0, <1>8, <2>1, <2>3, GotoStep DEF FindReceiptLink, ReturnIf, Steps
  <2>. QED
    BY <2>2, <2>3
<1>9. CASE FindTxnLink(w)
  <2>1. job[w] \in TxnJobs /\ job[w] \in Jobs
    BY <1>9, JobKind DEF FindTxnLink, IInv, SlotInv
  <2>. DEFINE over == LinkedTxn(Subject(w)) \/ category[Subject(w)] = "other"
  <2>2. CASE over
    BY <1>0, <1>9, <2>2, EndStep DEF FindTxnLink, ReturnIf, JobStates
  <2>3. CASE ~over
    BY <1>0, <1>9, <2>1, <2>3, GotoStep DEF FindTxnLink, ReturnIf, Steps
  <2>. QED
    BY <2>2, <2>3
<1>10. ASSUME NEW best, NEW step \in {"check", "link"}, Choose(w, best, step), job[w] \in Jobs,
              \/ job[w] \in ReceiptJobs /\ best \subseteq Txns
              \/ job[w] \in TxnJobs /\ best \subseteq Messages /\ step = "link"
       PROVE  IInv'
  <2>1. CASE End(w, "done") /\ UNCHANGED faults
    BY <1>0, <2>1, EndStep DEF JobStates
  <2>2. ASSUME NEW x \in best, pick' = [pick EXCEPT ![w] = x], Goto(w, step),
               UNCHANGED <<worldVars, rowVars, jobs, job, stale, faults>>
        PROVE  IInv'
    <3>1. /\ pick' \in [Slots -> Messages \cup Txns \cup {None}] /\ pick'[w] = x
          /\ \A v \in Slots : v # w => pick'[v] = pick[v]
      BY <1>0, <1>10, <2>2
    <3>2. step \in Steps
      BY DEF Steps
    <3>. QED
      BY <1>10, <2>2, <3>1, <3>2, GotoStep
  <2>. QED
    BY <1>10, <2>1, <2>2 DEF Choose
<1>11. CASE ListTxns(w)
  <2>1. job[w] \in ReceiptJobs /\ job[w] \in Jobs
    BY <1>11, JobKind DEF ListTxns, IInv, SlotInv
  <2>2. BestTxns(Subject(w)) \subseteq Txns
    BY DEF BestTxns, LiveTxns
  <2>. QED
    BY <1>10, <1>11, <2>1, <2>2 DEF ListTxns
<1>12. CASE FindPickedLink(w)
  <2>1. /\ job[w] \in Jobs
        /\ \/ job[w] \in ReceiptJobs /\ pick[w] \in Txns
           \/ job[w] \in TxnJobs /\ pick[w] \in Messages
    BY <1>12 DEF FindPickedLink, IInv, SlotInv
  <2>2. CASE LinkedTxn(pick[w])
    BY <1>0, <1>12, <2>2, EndStep DEF FindPickedLink, ReturnIf, JobStates
  <2>3. CASE ~LinkedTxn(pick[w])
    BY <1>0, <1>12, <2>1, <2>3, GotoStep DEF FindPickedLink, ReturnIf, Steps
  <2>. QED
    BY <2>2, <2>3
<1>13. CASE ListReceipts(w)
  <2>1. job[w] \in TxnJobs /\ job[w] \in Jobs
    BY <1>13, JobKind DEF ListReceipts, IInv, SlotInv
  <2>2. BestReceipts(Subject(w)) \subseteq Messages
    BY DEF BestReceipts, UnmatchedReceipts, IInv, TypeOK
  <2>. QED
    BY <1>10, <1>13, <2>1, <2>2 DEF ListReceipts
<1>14. CASE Link(w)
  <2>1. ReceiptOf(w) \in Messages /\ TxnOf(w) \in Txns /\ Kind(w) \in {"receipt", "txn"}
    BY <1>14, LinkParts DEF Link, IInv
  <2>2. links' \in SUBSET Links
    BY <1>14, <2>1 DEF Link, Links, IInv, TypeOK
  <2>3. TypeOK'
    BY <1>14, <2>2 DEF Link, Goto, IInv, TypeOK, Steps, worldVars
  <2>4. SlotInv'
    BY <1>14 DEF Link, Goto, IInv, TypeOK, SlotInv
  <2>. QED
    BY <2>3, <2>4 DEF IInv
<1>15. CASE MarkMatched(w)
  <2>1. ReceiptOf(w) \in Messages
    BY <1>15, LinkParts DEF MarkMatched, IInv
  <2>2. TypeOK'
    BY <1>15, <2>1 DEF MarkMatched, MatchedStatus, Goto, IInv, TypeOK, Steps, worldVars
  <2>3. SlotInv'
    BY <1>15 DEF MarkMatched, Goto, IInv, TypeOK, SlotInv
  <2>. QED
    BY <2>2, <2>3 DEF IInv
<1>16. CASE Interrupt(w)
  BY <1>0, <1>16, EndStep DEF Interrupt, JobStates
<1>17. CASE LoseLock(w)
  BY <1>17 DEF LoseLock, IInv, TypeOK, SlotInv, JobStates, worldVars, rowVars
<1>. QED
  BY <1>1, <1>2, <1>3, <1>4, <1>5, <1>6, <1>7, <1>8, <1>9, <1>11, <1>12, <1>13, <1>14, <1>15,
     <1>16, <1>17 DEF SlotStep

LEMMA Inductive == Spec => []IInv
<1>1. Init => IInv
  <2>. SUFFICES ASSUME Init
                PROVE  IInv
    OBVIOUS
  <2>1. TypeOK
    BY DEF Init, TypeOK, JobStates, Steps
  <2>. QED
    BY <2>1 DEF Init, IInv, SlotInv
<1>2. IInv /\ [Next]_vars => IInv'
  <2>1. IInv /\ UNCHANGED vars => IInv'
    BY DEF vars, worldVars, rowVars, slotVars, IInv, TypeOK, SlotInv
  <2>. QED
    BY <2>1, WorldStep, SlotsStep DEF Next
<1>. QED
  BY <1>1, <1>2, PTL DEF Spec

-----------------------------------------------------------------------------
\* A slot leaves the other slots and the world alone.
Others(w) ==
    \A v \in Slots : v # w =>
        pc'[v] = pc[v] /\ job'[v] = job[v] /\ pick'[v] = pick[v] /\ stale'[v] = stale[v]

LEMMA Frame ==
  ASSUME IInv, NEW w \in Slots, SlotStep(w) \/ Interrupt(w) \/ LoseLock(w)
  PROVE  Others(w) /\ UNCHANGED worldVars
<1>. USE DEF IInv, TypeOK, Others, Goto
<1>1. ASSUME NEW state, End(w, state)
      PROVE  Others(w) /\ UNCHANGED worldVars
  BY <1>1 DEF End
<1>2. ASSUME NEW step, Goto(w, step), UNCHANGED <<worldVars, job, pick, stale>>
      PROVE  Others(w) /\ UNCHANGED worldVars
  BY <1>2
<1>3. ASSUME NEW best, NEW step, Choose(w, best, step)
      PROVE  Others(w) /\ UNCHANGED worldVars
  BY <1>1, <1>3 DEF Choose
<1>4. ASSUME NEW j \in Jobs, Take(w, j)
      PROVE  Others(w) /\ UNCHANGED worldVars
  BY <1>4 DEF Take
<1>5. ASSUME NEW condition, NEW step, ReturnIf(condition, w, step)
      PROVE  Others(w) /\ UNCHANGED worldVars
  BY <1>1, <1>2, <1>5 DEF ReturnIf
<1>6. CASE \/ FetchBody(w) \/ CreateReceipt(w) \/ MarkParsed(w) \/ RequestMatch(w)
           \/ Link(w) \/ MarkMatched(w)
  BY <1>2, <1>6 DEF FetchBody, CreateReceipt, MarkParsed, RequestMatch, Link, MarkMatched
<1>7. CASE LoseLock(w)
  BY <1>7 DEF LoseLock
<1>. QED
  BY <1>1, <1>3, <1>4, <1>5, <1>6, <1>7
    DEF SlotStep, Interrupt, FindReceipt, BodyGone, CreateRefused, NoTotalThrows,
        FindReceiptLink, ListTxns, FindPickedLink, FindTxnLink, ListReceipts, LinkRefused, Finish

\* Four steps write rows.
LEMMA RowsWritten ==
  ASSUME IInv, NEW w \in Slots, SlotStep(w) \/ Interrupt(w) \/ LoseLock(w),
         ~CreateReceipt(w), ~MarkParsed(w), ~Link(w), ~MarkMatched(w)
  PROVE  UNCHANGED rowVars
<1>1. ASSUME NEW state, End(w, state)
      PROVE  UNCHANGED rowVars
  BY <1>1 DEF End
<1>. QED
  BY <1>1 DEF SlotStep, Interrupt, LoseLock, Take, FindReceipt, FetchBody, BodyGone,
        CreateRefused, RequestMatch, NoTotalThrows, FindReceiptLink, ListTxns, FindPickedLink,
        FindTxnLink, ListReceipts, LinkRefused, Finish, ReturnIf, Choose

\* Receipts and links are never deleted, and a receipt keeps its total.
LEMMA RowsGrow ==
  ASSUME IInv, [Next]_vars
  PROVE  /\ receipts \subseteq receipts' /\ links \subseteq links'
         /\ \A m \in receipts : m \in totals' <=> m \in totals
         /\ \A m : Linked(m) => Linked(m)'
         /\ \A t : LinkedTxn(t) => LinkedTxn(t)'
<1>1. ASSUME UNCHANGED <<receipts, totals, links>>
      PROVE  /\ receipts \subseteq receipts' /\ links \subseteq links'
             /\ \A m \in receipts : m \in totals' <=> m \in totals
  BY <1>1
<1>2. ASSUME World
      PROVE  UNCHANGED <<receipts, totals, links>>
  BY <1>2 DEF World, TxnArrives, TxnRemoved, Categorize, Recategorize, MailGone, MarkDeleted,
        rowVars
<1>3. ASSUME NEW w \in Slots, CreateReceipt(w) \/ MarkParsed(w) \/ Link(w) \/ MarkMatched(w)
      PROVE  /\ receipts \subseteq receipts' /\ links \subseteq links'
             /\ \A m \in receipts : m \in totals' <=> m \in totals
  BY <1>3 DEF CreateReceipt, MarkParsed, Link, MarkMatched
<1>4. /\ receipts \subseteq receipts' /\ links \subseteq links'
      /\ \A m \in receipts : m \in totals' <=> m \in totals
  BY <1>1, <1>2, <1>3, RowsWritten DEF Next, vars, rowVars
<1>. QED
  BY <1>4 DEF Linked, LinkedTxn

\* A slot that is not at work on a receipt claims nothing about one.
LEMMA SlotFactStep ==
  ASSUME IInv, FactInv, [Next]_vars, NEW v \in Slots
  PROVE  SlotFact(v)'
<1>0. pc \in [Slots -> Steps] /\ pick \in [Slots -> Messages \cup Txns \cup {None}]
      /\ job \in [Slots -> Jobs \cup {None}] /\ stale \in [Slots -> BOOLEAN] /\ SlotFact(v)
  BY DEF IInv, TypeOK, FactInv
<1>1. ASSUME pc'[v] = pc[v], job'[v] = job[v], pick'[v] = pick[v]
      PROVE  SlotFact(v)'
  <2>1. Subject(v)' = Subject(v) /\ ReceiptOf(v)' = ReceiptOf(v)
    BY <1>1 DEF Subject, ReceiptOf, Kind
  <2>. QED
    BY <1>0, <1>1, <2>1, RowsGrow DEF SlotFact
<1>2. ASSUME World \/ UNCHANGED vars
      PROVE  SlotFact(v)'
  BY <1>1, <1>2 DEF World, TxnArrives, TxnRemoved, Categorize, Recategorize, MailGone,
        MarkDeleted, vars, slotVars
<1>3. ASSUME NEW w \in Slots, w # v, SlotStep(w) \/ Interrupt(w) \/ LoseLock(w)
      PROVE  SlotFact(v)'
  BY <1>1, <1>3, Frame DEF Others
<1>4. ASSUME pc'[v] \in {"idle", "lookup", "fetch", "create", "return"}
      PROVE  SlotFact(v)'
  BY <1>4 DEF SlotFact
<1>5. ASSUME NEW state, End(v, state)
      PROVE  SlotFact(v)'
  <2>1. pc'[v] = "idle"
    BY <1>0, <1>5 DEF End, Goto
  <2>. QED
    BY <1>4, <2>1
<1>6. ASSUME pc'[v] = "list", job' = job,
             job[v] \in ReceiptJobs => Subject(v) \in receipts
      PROVE  SlotFact(v)'
  <2>1. Subject(v)' = Subject(v)
    BY <1>6 DEF Subject
  <2>. QED
    BY <1>6, <2>1, RowsGrow DEF SlotFact
<1>7. ASSUME pc'[v] \in {"check", "link"}, job' = job,
             IF Kind(v) = "receipt" THEN Subject(v) \in receipts ELSE pick'[v] \in receipts
      PROVE  SlotFact(v)'
  <2>1. ReceiptOf(v)' \in receipts
    BY <1>7 DEF ReceiptOf, Kind, Subject
  <2>. QED
    BY <1>7, <2>1, RowsGrow DEF SlotFact
<1>8. CASE \E j \in Jobs : Take(v, j)
  BY <1>0, <1>4, <1>8 DEF Take, Goto
<1>9. CASE FindReceipt(v) \/ FetchBody(v) \/ RequestMatch(v) \/ MarkMatched(v)
  BY <1>0, <1>4, <1>5, <1>9 DEF FindReceipt, FetchBody, RequestMatch, MarkMatched, ReturnIf, Goto
<1>10. CASE CreateReceipt(v)
  <2>1. /\ pc'[v] = "parsed" /\ Subject(v)' = Subject(v)
        /\ receipts' = receipts \cup {Subject(v)}
    BY <1>0, <1>10 DEF CreateReceipt, Goto, Subject
  <2>. QED
    BY <2>1 DEF SlotFact
<1>11. CASE MarkParsed(v)
  <2>1. /\ pc[v] = "parsed" /\ pc'[v] = "enqueue" /\ Subject(v)' = Subject(v)
        /\ receipts' = receipts
    BY <1>0, <1>11 DEF MarkParsed, Goto, Subject
  <2>. QED
    BY <1>0, <2>1 DEF SlotFact
<1>12. CASE FindReceiptLink(v)
  <2>1. CASE Linked(Subject(v))
    BY <1>5, <1>12, <2>1 DEF FindReceiptLink, ReturnIf
  <2>2. CASE ~Linked(Subject(v))
    <3>1. pc'[v] = "list" /\ job' = job /\ Subject(v) \in receipts
      BY <1>0, <1>12, <2>2 DEF FindReceiptLink, ReturnIf, Goto, IInv, TypeOK
    <3>. QED
      BY <1>6, <3>1
  <2>. QED
    BY <2>1, <2>2
<1>13. CASE FindTxnLink(v)
  <2>1. job[v] \notin ReceiptJobs
    BY <1>13, JobParts DEF FindTxnLink
  <2>2. (\E state : End(v, state)) \/ (pc'[v] = "list" /\ job' = job)
    BY <1>0, <1>13 DEF FindTxnLink, ReturnIf, Goto
  <2>. QED
    BY <1>5, <1>6, <2>1, <2>2
<1>14. CASE ListTxns(v)
  <2>1. Kind(v) = "receipt" /\ Subject(v) \in receipts
    BY <1>0, <1>14, JobKind DEF ListTxns, IInv, SlotInv, SlotFact
  <2>2. (\E state : End(v, state)) \/ (pc'[v] = "check" /\ job' = job)
    BY <1>0, <1>14 DEF ListTxns, Choose, Goto
  <2>. QED
    BY <1>5, <1>7, <2>1, <2>2
<1>15. CASE FindPickedLink(v)
  <2>1. ReceiptOf(v) \in receipts
    BY <1>0, <1>15 DEF FindPickedLink, SlotFact
  <2>2. (\E state : End(v, state)) \/ (pc'[v] = "link" /\ job' = job /\ pick' = pick)
    BY <1>0, <1>15 DEF FindPickedLink, ReturnIf, Goto
  <2>. QED
    BY <1>5, <1>7, <2>1, <2>2 DEF ReceiptOf
<1>16. CASE ListReceipts(v)
  <2>1. CASE End(v, "done")
    BY <1>5, <2>1
  <2>2. ASSUME NEW x \in BestReceipts(Subject(v)), pick' = [pick EXCEPT ![v] = x],
               Goto(v, "link"), job' = job
        PROVE  SlotFact(v)'
    <3>1. pick'[v] \in receipts
      BY <1>0, <2>2 DEF BestReceipts, UnmatchedReceipts
    <3>2. pc'[v] = "link" /\ Kind(v) # "receipt"
      BY <1>0, <1>16, <2>2 DEF Goto, ListReceipts
    <3>. QED
      BY <1>7, <2>2, <3>1, <3>2
  <2>. QED
    BY <1>16, <2>1, <2>2 DEF ListReceipts, Choose
<1>17. CASE Link(v)
  <2>1. /\ pc[v] = "link" /\ pc'[v] = "mark" /\ ReceiptOf(v)' = ReceiptOf(v)
        /\ receipts' = receipts
    BY <1>0, <1>17 DEF Link, Goto, ReceiptOf, Kind, Subject
  <2>2. \E l \in links' : l.receipt = ReceiptOf(v)
    <3>. DEFINE l == [receipt |-> ReceiptOf(v), txn |-> TxnOf(v), by |-> Kind(v)]
    <3>1. l \in links' /\ l.receipt = ReceiptOf(v)
      BY <1>17 DEF Link
    <3>. QED
      BY <3>1
  <2>3. Linked(ReceiptOf(v))'
    BY <2>1, <2>2 DEF Linked
  <2>. QED
    BY <1>0, <2>1, <2>3 DEF SlotFact
<1>18. CASE \E state : End(v, state)
  BY <1>5, <1>18
<1>19. CASE LoseLock(v)
  BY <1>1, <1>19 DEF LoseLock
<1>. QED
  BY <1>2, <1>3, <1>8, <1>9, <1>10, <1>11, <1>12, <1>13, <1>14, <1>15, <1>16, <1>17, <1>18, <1>19
    DEF Next, SlotStep, Interrupt, BodyGone, CreateRefused, NoTotalThrows, LinkRefused, Finish

LEMMA RowStep ==
  ASSUME IInv, FactInv, [Next]_vars
  PROVE  RowInv'
<1>0. status \in [Messages -> {"classified", "parsed", "matched", "deleted"}]
      /\ mailbox \in [Messages -> {"present", "gone", "synced"}]
  BY DEF IInv, TypeOK
<1>1. ASSUME UNCHANGED rowVars, mailbox' = mailbox
      PROVE  RowInv'
  BY <1>1 DEF rowVars, FactInv, RowInv, Linked
<1>2. ASSUME NEW m \in Messages, MailGone(m) \/ MarkDeleted(m)
      PROVE  RowInv'
  BY <1>0, <1>2 DEF MailGone, MarkDeleted, rowVars, FactInv, RowInv, Linked
<1>3. ASSUME World
      PROVE  RowInv'
  BY <1>1, <1>2, <1>3, BoundsAssumption DEF World, TxnArrives, TxnRemoved, Categorize,
        Recategorize
<1>4. ASSUME NEW w \in Slots, CreateReceipt(w)
      PROVE  RowInv'
  BY <1>4 DEF CreateReceipt, worldVars, FactInv, RowInv, Linked
<1>5. ASSUME NEW w \in Slots, MarkParsed(w)
      PROVE  RowInv'
  <2>1. Subject(w) \in receipts
    BY <1>5 DEF MarkParsed, FactInv, SlotFact
  <2>. QED
    BY <1>0, <1>5, <2>1 DEF MarkParsed, worldVars, FactInv, RowInv, Linked
<1>6. ASSUME NEW w \in Slots, Link(w)
      PROVE  RowInv'
  <2>1. ReceiptOf(w) \in receipts
    BY <1>6 DEF Link, FactInv, SlotFact
  <2>2. \A l \in links' : l \in links \/ l.receipt = ReceiptOf(w)
    BY <1>6 DEF Link
  <2>3. UNCHANGED <<status, receipts, mailbox>> /\ links \subseteq links'
    BY <1>6 DEF Link, worldVars
  <2>. QED
    BY <2>1, <2>2, <2>3 DEF FactInv, RowInv, Linked
<1>7. ASSUME NEW w \in Slots, MarkMatched(w)
      PROVE  RowInv'
  <2>1. ReceiptOf(w) \in receipts /\ Linked(ReceiptOf(w))
    BY <1>7 DEF MarkMatched, FactInv, SlotFact
  <2>. QED
    BY <1>0, <1>7, <2>1 DEF MarkMatched, MatchedStatus, worldVars, FactInv, RowInv, Linked
<1>. QED
  BY <1>1, <1>3, <1>4, <1>5, <1>6, <1>7, Frame, RowsWritten DEF Next, vars, worldVars

LEMMA KnownStep ==
  ASSUME IInv, FactInv, [Next]_vars
  PROVE  KnownInv'
<1>0. txn \in [Txns -> {"absent", "live", "removed"}]
      /\ category \in [Txns -> {"none", "trigger", "other"}]
  BY DEF IInv, TypeOK
<1>1. IsFiniteSet(receipts')
  <2>1. CASE receipts' = receipts
    BY <2>1 DEF FactInv, KnownInv
  <2>2. ASSUME NEW w \in Slots, CreateReceipt(w)
        PROVE  IsFiniteSet(receipts')
    BY <2>2, FS_AddElement DEF CreateReceipt, FactInv, KnownInv
  <2>3. World => receipts' = receipts
    BY DEF World, TxnArrives, TxnRemoved, Categorize, Recategorize, MailGone, MarkDeleted, rowVars
  <2>4. ASSUME NEW w \in Slots, MarkParsed(w) \/ Link(w) \/ MarkMatched(w)
        PROVE  receipts' = receipts
    BY <2>4 DEF MarkParsed, Link, MarkMatched
  <2>. QED
    BY <2>1, <2>2, <2>3, <2>4, RowsWritten DEF Next, vars, rowVars
<1>. DEFINE known == {t \in Txns : txn[t] # "absent"}
<1>2. ASSUME UNCHANGED <<txn, category>>
      PROVE  KnownInv'
  BY <1>1, <1>2 DEF FactInv, KnownInv
<1>3. ASSUME NEW t \in Txns, TxnArrives(t)
      PROVE  KnownInv'
  <2>1. known' = known \cup {t} /\ category' = category
    BY <1>0, <1>3 DEF TxnArrives
  <2>2. IsFiniteSet(known)
    BY DEF FactInv, KnownInv
  <2>3. IsFiniteSet(known')
    BY <2>1, <2>2, FS_AddElement
  <2>4. \A u \in Txns : txn'[u] = "absent" => category'[u] = "none"
    BY <1>0, <1>3 DEF TxnArrives, FactInv, KnownInv
  <2>. QED
    BY <1>1, <2>3, <2>4 DEF KnownInv
<1>4. ASSUME NEW t \in Txns, TxnRemoved(t) \/ Categorize(t) \/ Recategorize(t)
      PROVE  KnownInv'
  <2>1. known' = known
    BY <1>0, <1>4 DEF TxnRemoved, Categorize, Recategorize
  <2>2. \A u \in Txns : txn'[u] = "absent" => category'[u] = "none"
    BY <1>0, <1>4 DEF TxnRemoved, Categorize, Recategorize, FactInv, KnownInv
  <2>. QED
    BY <1>1, <2>1, <2>2 DEF FactInv, KnownInv
<1>5. ASSUME NEW m \in Messages, MailGone(m) \/ MarkDeleted(m)
      PROVE  KnownInv'
  BY <1>2, <1>5 DEF MailGone, MarkDeleted
<1>. QED
  BY <1>2, <1>3, <1>4, <1>5, BoundsAssumption, Frame DEF Next, World, vars, worldVars

LEMMA FactStep ==
  ASSUME IInv, FactInv, [Next]_vars
  PROVE  FactInv'
  BY SlotFactStep, RowStep, KnownStep DEF FactInv

-----------------------------------------------------------------------------
\* What a slot works for.
LEMMA JobIs ==
  ASSUME NEW w \in Slots
  PROVE  /\ job[w] \in ParseJobs => job[w] = <<"parse", Subject(w)>>
         /\ job[w] \in ReceiptJobs => job[w] = <<"receipt", Subject(w)>>
         /\ job[w] \in TxnJobs => job[w] = <<"txn", Subject(w)>>
  BY DEF ParseJobs, ReceiptJobs, TxnJobs, Subject

LEMMA NoFault ==
  ASSUME IInv, [Next]_vars, faults' = 0
  PROVE  /\ faults = 0
         /\ \A w \in Slots : ~Interrupt(w) /\ ~LoseLock(w)
         /\ \A t \in Txns : ~Recategorize(t)
<1>. faults \in Nat
  BY DEF IInv, TypeOK
<1>1. \A w \in Slots : ~Interrupt(w) /\ ~LoseLock(w)
  BY DEF Interrupt, LoseLock
<1>2. \A t \in Txns : ~Recategorize(t)
  BY DEF Recategorize
<1>3. World => faults' = faults
  BY <1>2, BoundsAssumption DEF World, TxnArrives, TxnRemoved, Categorize, MailGone, MarkDeleted
<1>4. ASSUME NEW w \in Slots, SlotStep(w)
      PROVE  faults' = faults
  BY <1>4 DEF SlotStep, Take, FindReceipt, FetchBody, BodyGone, CreateReceipt, CreateRefused,
        MarkParsed, RequestMatch, NoTotalThrows, FindReceiptLink, ListTxns, FindPickedLink,
        FindTxnLink, ListReceipts, Link, LinkRefused, MarkMatched, Finish, ReturnIf, Choose
<1>. QED
  BY <1>1, <1>2, <1>3, <1>4 DEF Next, vars

\* The attempt of a slot ends well or is buried, or goes on; the job is taken and
\* enqueued once.
Takes(w) == \E j \in Jobs : Take(w, j)
Ends(w) ==
    /\ pc[w] \notin {"idle", "parsed", "enqueue", "mark"} /\ pc'[w] = "idle"
    /\ UNCHANGED rowVars
    /\ \E state \in {"done", "dead"} : jobs' = [jobs EXCEPT ![job[w]] = state]
GoesOn(w) ==
    /\ pc[w] # "idle" /\ pc'[w] # "idle" /\ job' = job /\ jobs' = jobs

LEMMA CleanStep ==
  ASSUME IInv, SlotsOwn, Stages, NEW w \in Slots, SlotStep(w)
  PROVE  /\ stale'[w] = stale[w]
         /\ Takes(w) \/ Ends(w) \/ GoesOn(w) \/ RequestMatch(w)
<1>0. pc \in [Slots -> Steps] /\ stale \in [Slots -> BOOLEAN] /\ ~stale[w]
  BY DEF IInv, TypeOK, SlotsOwn
<1>1. ASSUME NEW state \in {"done", "dead"}, End(w, state),
             pc[w] \notin {"idle", "parsed", "enqueue", "mark"}
      PROVE  stale'[w] = stale[w] /\ Ends(w)
  BY <1>0, <1>1 DEF End, Ends, Goto
<1>2. ASSUME NEW step \in Steps, step # "idle", Goto(w, step), UNCHANGED <<jobs, job, stale>>,
             pc[w] # "idle"
      PROVE  stale'[w] = stale[w] /\ GoesOn(w)
  BY <1>0, <1>2 DEF GoesOn, Goto
<1>3. CASE \E j \in Jobs : Take(w, j)
  BY <1>3 DEF Take, Takes
<1>4. CASE CreateRefused(w)
  BY <1>4 DEF CreateRefused, Stages, IInv, SlotInv
<1>5. CASE RequestMatch(w)
  BY <1>5 DEF RequestMatch
<1>6. CASE \/ BodyGone(w) \/ NoTotalThrows(w) \/ LinkRefused(w) \/ Finish(w)
  <2>1. /\ pc[w] \notin {"idle", "parsed", "enqueue", "mark"}
        /\ \E state \in {"done", "dead"} : End(w, state)
    BY <1>6 DEF BodyGone, NoTotalThrows, LinkRefused, Finish
  <2>. QED
    BY <1>1, <2>1
<1>7. CASE \/ FetchBody(w) \/ CreateReceipt(w) \/ MarkParsed(w) \/ Link(w) \/ MarkMatched(w)
  <2>1. /\ pc[w] # "idle" /\ UNCHANGED <<jobs, job, stale>>
        /\ \E step \in Steps \ {"idle"} : Goto(w, step)
    BY <1>7 DEF FetchBody, CreateReceipt, MarkParsed, Link, MarkMatched, Steps
  <2>. QED
    BY <1>2, <2>1
<1>9. CASE FindReceipt(w) \/ FindReceiptLink(w) \/ FindTxnLink(w) \/ FindPickedLink(w)
  <2>1. pc[w] \notin {"idle", "parsed", "enqueue", "mark"}
    BY <1>9 DEF FindReceipt, FindReceiptLink, FindTxnLink, FindPickedLink
  <2>2. End(w, "done")
        \/ \E step \in Steps \ {"idle"} : Goto(w, step) /\ UNCHANGED <<jobs, job, stale>>
    BY <1>9 DEF FindReceipt, FindReceiptLink, FindTxnLink, FindPickedLink, Steps, ReturnIf
  <2>. QED
    BY <1>1, <1>2, <2>1, <2>2
<1>10. CASE ListTxns(w) \/ ListReceipts(w)
  <2>1. /\ pc[w] = "list"
        /\ \E best : \E step \in Steps \ {"idle"} : Choose(w, best, step)
    BY <1>10 DEF ListTxns, ListReceipts, Steps
  <2>2. End(w, "done")
        \/ \E step \in Steps \ {"idle"} : Goto(w, step) /\ UNCHANGED <<jobs, job, stale>>
    BY <2>1 DEF Choose
  <2>. QED
    BY <1>1, <1>2, <2>1, <2>2
<1>. QED
  BY <1>3, <1>4, <1>5, <1>6, <1>7, <1>9, <1>10 DEF SlotStep

LEMMA SlotsOwnStep ==
  ASSUME IInv, SlotsOwn, Stages, [Next]_vars, faults' = 0
  PROVE  SlotsOwn'
<1>0. /\ pc \in [Slots -> Steps] /\ job \in [Slots -> Jobs \cup {None}]
      /\ jobs \in [Jobs -> JobStates]
      /\ \A w \in Slots : pc[w] # "idle" => job[w] \in Jobs
  BY DEF IInv, TypeOK, SlotInv
<1>1. ASSUME UNCHANGED slotVars, jobs' = jobs
      PROVE  SlotsOwn'
  BY <1>1 DEF slotVars, SlotsOwn
<1>2. ASSUME NEW t \in Txns, Categorize(t)
      PROVE  SlotsOwn'
  <2>1. /\ UNCHANGED slotVars /\ jobs[<<"txn", t>>] = "absent"
        /\ jobs' = [jobs EXCEPT ![<<"txn", t>>] = "waiting"]
    BY <1>2 DEF Categorize, Stages
  <2>2. \A w \in Slots : pc[w] # "idle" => jobs'[job[w]] = jobs[job[w]]
    BY <1>0, <2>1 DEF SlotsOwn
  <2>. QED
    BY <2>1, <2>2 DEF slotVars, SlotsOwn
<1>3. ASSUME World
      PROVE  SlotsOwn'
  BY <1>1, <1>2, <1>3, NoFault, BoundsAssumption
    DEF World, TxnArrives, TxnRemoved, MailGone, MarkDeleted
<1>4. ASSUME NEW w \in Slots, SlotStep(w)
      PROVE  SlotsOwn'
  <2>1. Others(w) /\ stale'[w] = stale[w] /\ (Takes(w) \/ Ends(w) \/ GoesOn(w) \/ RequestMatch(w))
    BY <1>4, Frame, CleanStep
  <2>2. \A v \in Slots : ~stale'[v]
    BY <2>1 DEF Others, SlotsOwn
  <2>3. CASE Takes(w)
    <3>1. PICK j \in Jobs : Take(w, j)
      BY <2>3 DEF Takes
    <3>2. /\ pc[w] = "idle" /\ jobs[j] = "waiting" /\ jobs' = [jobs EXCEPT ![j] = "active"]
          /\ job'[w] = j
      BY <1>0, <3>1 DEF Take
    <3>3. \A v \in Slots : v # w /\ pc'[v] # "idle" => job'[v] # j /\ jobs'[job'[v]] = "active"
      BY <1>0, <2>1, <3>2 DEF Others, SlotsOwn
    <3>4. jobs'[j] = "active"
      BY <1>0, <3>2
    <3>. QED
      BY <2>1, <2>2, <3>2, <3>3, <3>4 DEF Others, SlotsOwn
  <2>4. CASE Ends(w)
    <3>1. \A v \in Slots : pc'[v] # "idle" => v # w /\ job[v] # job[w]
      BY <2>1, <2>4 DEF Ends, Others, SlotsOwn
    <3>2. \A v \in Slots : pc'[v] # "idle" => jobs'[job'[v]] = "active"
      BY <1>0, <2>1, <2>4, <3>1 DEF Ends, Others, SlotsOwn
    <3>. QED
      BY <2>1, <2>2, <3>1, <3>2 DEF Others, SlotsOwn
  <2>5. CASE GoesOn(w)
    BY <2>1, <2>2, <2>5 DEF GoesOn, Others, SlotsOwn
  <2>6. CASE RequestMatch(w)
    <3>1. /\ pc[w] = "enqueue" /\ jobs[<<"receipt", Subject(w)>>] = "absent" /\ job' = job
          /\ jobs' = [jobs EXCEPT ![<<"receipt", Subject(w)>>] = "waiting"]
      BY <2>6 DEF RequestMatch, EnqueueMatch, Stages
    <3>2. \A v \in Slots : pc[v] # "idle" => jobs'[job[v]] = jobs[job[v]]
      BY <1>0, <3>1 DEF SlotsOwn
    <3>. QED
      BY <2>1, <2>2, <3>1, <3>2 DEF Others, SlotsOwn
  <2>. QED
    BY <2>1, <2>3, <2>4, <2>5, <2>6
<1>. QED
  BY <1>1, <1>3, <1>4, NoFault DEF Next, vars

\* The steps after which a job is neither enqueued nor back in its queue.
LEMMA JobsStep ==
  ASSUME IInv, SlotsOwn, Stages, NEW w \in Slots, SlotStep(w)
  PROVE  /\ \A j \in Jobs : jobs'[j] = "absent" =>
              jobs[j] = "absent" /\ ~(RequestMatch(w) /\ j = <<"receipt", Subject(w)>>)
         /\ \A j \in Jobs : jobs'[j] = "waiting" => jobs[j] = "waiting" \/ RequestMatch(w)
         /\ \A j \in Jobs \ ReceiptJobs : jobs'[j] = "waiting" => jobs[j] = "waiting"
         /\ \A j \in Jobs : jobs[j] = "absent" /\ ~RequestMatch(w) => jobs'[j] = "absent"
         /\ \A j \in Jobs : RequestMatch(w) /\ j # <<"receipt", Subject(w)>> =>
              jobs'[j] = jobs[j]
         /\ \A j \in Jobs : jobs[j] = "waiting" =>
              jobs'[j] = "waiting" \/ (pc'[w] = "lookup" /\ job'[w] = j)
<1>0. /\ pc \in [Slots -> Steps] /\ job \in [Slots -> Jobs \cup {None}]
      /\ jobs \in [Jobs -> JobStates]
      /\ pc[w] # "idle" => job[w] \in Jobs /\ jobs[job[w]] = "active"
  BY DEF IInv, TypeOK, SlotInv, SlotsOwn
<1>1. Takes(w) \/ Ends(w) \/ GoesOn(w) \/ RequestMatch(w)
  BY CleanStep
<1>2. ASSUME NEW j \in Jobs, Take(w, j)
      PROVE  /\ pc'[w] = "lookup" /\ job'[w] = j /\ ~RequestMatch(w)
             /\ jobs[j] = "waiting" /\ jobs' = [jobs EXCEPT ![j] = "active"]
  BY <1>0, <1>2 DEF Take, Goto, RequestMatch
<1>3. CASE Takes(w)
  BY <1>0, <1>2, <1>3 DEF Takes
<1>4. CASE Ends(w)
  <2>1. ~RequestMatch(w) /\ jobs[job[w]] = "active"
    BY <1>0, <1>4 DEF Ends, RequestMatch
  <2>. QED
    BY <1>0, <1>4, <2>1 DEF Ends
<1>5. CASE GoesOn(w) /\ ~RequestMatch(w)
  BY <1>5 DEF GoesOn
<1>6. CASE RequestMatch(w)
  <2>1. /\ jobs' = [jobs EXCEPT ![<<"receipt", Subject(w)>>] = "waiting"]
        /\ job[w] \in ParseJobs
    BY <1>6 DEF RequestMatch, EnqueueMatch, IInv, SlotInv
  <2>2. <<"receipt", Subject(w)>> \in ReceiptJobs /\ <<"receipt", Subject(w)>> \in Jobs
    BY <2>1, JobParts DEF ReceiptJobs, Jobs
  <2>. QED
    BY <1>0, <1>6, <2>1, <2>2
<1>. QED
  BY <1>1, <1>3, <1>4, <1>5, <1>6

\* The parse of a message runs before its receipt exists, and its hand-over before the
\* match is known.
LEMMA StagesStep ==
  ASSUME IInv, FactInv, SlotsOwn, Stages, [Next]_vars, faults' = 0
  PROVE  Stages'
<1>0. /\ pc \in [Slots -> Steps] /\ job \in [Slots -> Jobs \cup {None}]
      /\ jobs \in [Jobs -> JobStates] /\ category \in [Txns -> {"none", "trigger", "other"}]
  BY DEF IInv, TypeOK
<1>00. \A m \in Messages :
          /\ <<"parse", m>> \in Jobs \ ReceiptJobs /\ <<"receipt", m>> \in Jobs \ TxnJobs
  BY DEF Jobs, ParseJobs, ReceiptJobs, TxnJobs
<1>01. \A t \in Txns : <<"txn", t>> \in Jobs \ ReceiptJobs
  BY DEF Jobs, ReceiptJobs, TxnJobs
<1>1. ASSUME UNCHANGED slotVars, receipts' = receipts, category' = category, jobs' = jobs
      PROVE  Stages'
  BY <1>1 DEF slotVars, Stages, Subject
<1>2. ASSUME NEW t \in Txns, Categorize(t)
      PROVE  Stages'
  <2>1. /\ UNCHANGED <<pc, job, receipts>>
        /\ category' = [category EXCEPT ![t] = "trigger"]
        /\ jobs' = [jobs EXCEPT ![<<"txn", t>>] = "waiting"]
    BY <1>2 DEF Categorize, slotVars, rowVars
  <2>2. \A m \in Messages : /\ jobs'[<<"parse", m>>] = jobs[<<"parse", m>>]
                            /\ jobs'[<<"receipt", m>>] = jobs[<<"receipt", m>>]
    BY <1>0, <1>00, <2>1
  <2>3. \A u \in Txns : category'[u] = "none" =>
          category[u] = "none" /\ jobs'[<<"txn", u>>] = jobs[<<"txn", u>>]
    BY <1>0, <1>01, <2>1
  <2>4. \A w \in Slots : pc[w] \in {"parsed", "enqueue"} => Subject(w) \in Messages
    BY JobParts DEF IInv, SlotInv
  <2>. QED
    BY <2>1, <2>2, <2>3, <2>4 DEF Stages, Subject
<1>3. ASSUME World
      PROVE  Stages'
  BY <1>1, <1>2, <1>3, NoFault, BoundsAssumption
    DEF World, TxnArrives, TxnRemoved, MailGone, MarkDeleted, rowVars
<1>4. ASSUME NEW w \in Slots, SlotStep(w)
      PROVE  Stages'
  <2>1. Others(w) /\ UNCHANGED worldVars
    BY <1>4, Frame
  <2>2. receipts' = receipts \/ (CreateReceipt(w) /\ receipts' = receipts \cup {Subject(w)})
    BY <1>4, RowsWritten DEF CreateReceipt, MarkParsed, Link, MarkMatched, rowVars
  <2>3. ASSUME CreateReceipt(w)
        PROVE  /\ job[w] = <<"parse", Subject(w)>> /\ jobs[<<"parse", Subject(w)>>] = "active"
               /\ Subject(w) \in Messages /\ pc[w] = "create" /\ jobs' = jobs /\ job' = job
               /\ pc'[w] = "parsed"
    BY <1>0, <2>3, JobIs, JobParts DEF CreateReceipt, Goto, IInv, SlotInv, SlotsOwn
  <2>4. ASSUME NEW m \in Messages, m \notin receipts'
        PROVE  jobs'[<<"receipt", m>>] = "absent"
    <3>. DEFINE j == <<"receipt", m>>
    <3>1. jobs[<<"receipt", m>>] = "absent"
      BY <2>2, <2>4 DEF Stages
    <3>2. ASSUME RequestMatch(w)
          PROVE  Subject(w) # m
      <4>1. Subject(w) \in receipts
        BY <3>2 DEF RequestMatch, FactInv, SlotFact
      <4>. QED
        BY <2>2, <2>4, <4>1
    <3>3. RequestMatch(w) => <<"receipt", m>> # <<"receipt", Subject(w)>>
      BY <3>2
    <3>4. j \in Jobs /\ jobs[j] = "absent" /\ (RequestMatch(w) => j # <<"receipt", Subject(w)>>)
      BY <1>00, <3>1, <3>3
    <3>5. CASE RequestMatch(w)
      <4>1. jobs'[j] = jobs[j]
        BY <1>4, <3>4, <3>5, JobsStep
      <4>. QED
        BY <3>4, <4>1
    <3>6. CASE ~RequestMatch(w)
      <4>1. jobs'[j] = "absent"
        BY <1>4, <3>4, <3>6, JobsStep
      <4>. QED
        BY <4>1
    <3>. QED
      BY <3>5, <3>6
  <2>5. ASSUME NEW m \in Messages, jobs'[<<"parse", m>>] = "waiting"
        PROVE  m \notin receipts'
    <3>1. jobs[<<"parse", m>>] = "waiting"
      BY <1>00, <1>4, <2>5, JobsStep
    <3>2. CreateReceipt(w) => Subject(w) # m
      BY <2>3, <3>1
    <3>. QED
      BY <2>2, <3>1, <3>2 DEF Stages
  <2>6. ASSUME NEW v \in Slots, v # w, job[v] \in ParseJobs, pc[v] \in {"lookup", "fetch", "create"}
        PROVE  Subject(v) \notin receipts'
    <3>1. Subject(v) \notin receipts /\ job[v] = <<"parse", Subject(v)>>
      BY <2>6, JobIs DEF Stages
    <3>2. CreateReceipt(w) => job[v] # job[w]
      BY <2>3, <2>6 DEF SlotsOwn
    <3>. QED
      BY <2>2, <2>3, <3>1, <3>2
  <2>7. ASSUME NEW v \in Slots, v # w, pc[v] \in {"parsed", "enqueue"}
        PROVE  jobs'[<<"receipt", Subject(v)>>] = "absent"
    <3>1. /\ jobs[<<"receipt", Subject(v)>>] = "absent" /\ job[v] = <<"parse", Subject(v)>>
          /\ Subject(v) \in Messages
      BY <2>7, JobIs, JobParts DEF Stages, IInv, SlotInv
    <3>2. RequestMatch(w) => Subject(v) # Subject(w)
      <4>. SUFFICES ASSUME RequestMatch(w)
                    PROVE  Subject(v) # Subject(w)
        OBVIOUS
      <4>1. job[w] = <<"parse", Subject(w)>> /\ pc[w] = "enqueue"
        BY JobIs DEF RequestMatch, IInv, SlotInv
      <4>. QED
        BY <2>7, <3>1, <4>1 DEF SlotsOwn
    <3>. QED
      BY <1>00, <1>4, <3>1, <3>2, JobsStep
  <2>8. ASSUME job'[w] \in ParseJobs, pc'[w] \in {"lookup", "fetch", "create"}
        PROVE  Subject(w)' \notin receipts'
    <3>1. receipts' = receipts
      BY <2>2, <2>3, <2>8
    <3>2. CASE Takes(w)
      <4>1. jobs[job'[w]] = "waiting"
        BY <1>0, <3>2 DEF Takes, Take
      <4>2. PICK m \in Messages : job'[w] = <<"parse", m>>
        BY <2>8 DEF ParseJobs
      <4>3. Subject(w)' = m /\ jobs[<<"parse", m>>] = "waiting"
        BY <4>1, <4>2 DEF Subject
      <4>. QED
        BY <3>1, <4>3 DEF Stages
    <3>3. CASE ~Takes(w)
      <4>1. job' = job /\ pc[w] \in {"lookup", "fetch", "create"}
            /\ (pc[w] = "lookup" => FindReceipt(w))
        <5>1. ~Ends(w)
          BY <2>8 DEF Ends
        <5>2. /\ ~RequestMatch(w)
          BY <1>0, <2>8 DEF RequestMatch, Goto
        <5>3. job' = job
          BY <1>4, <3>3, <5>1, <5>2, CleanStep DEF GoesOn
        <5>4. FindReceipt(w) \/ FetchBody(w)
          BY <1>0, <1>4, <2>8, <3>3, <5>1 DEF SlotStep, Takes, BodyGone, CreateReceipt,
             CreateRefused, MarkParsed, RequestMatch, NoTotalThrows, FindReceiptLink, ListTxns,
             FindPickedLink, FindTxnLink, ListReceipts, Link, LinkRefused, MarkMatched, Finish,
             ReturnIf, Choose, End, Goto
        <5>. QED
          BY <5>3, <5>4 DEF FindReceipt, FetchBody
      <4>2. job[w] \in ParseJobs /\ Subject(w)' = Subject(w)
        BY <2>8, <4>1 DEF Subject
      <4>. QED
        BY <3>1, <4>1, <4>2 DEF Stages
    <3>. QED
      BY <3>2, <3>3
  <2>9. ASSUME pc'[w] \in {"parsed", "enqueue"}
        PROVE  jobs'[<<"receipt", Subject(w)'>>] = "absent"
    <3>1. CreateReceipt(w) \/ MarkParsed(w)
      BY <1>0, <1>4, <2>9 DEF SlotStep, Take, FindReceipt, FetchBody, BodyGone,
         CreateRefused, RequestMatch, NoTotalThrows, FindReceiptLink, ListTxns,
         FindPickedLink, FindTxnLink, ListReceipts, Link, LinkRefused, MarkMatched, Finish,
         ReturnIf, Choose, End, Goto
    <3>2. UNCHANGED <<jobs, job>> /\ Subject(w)' = Subject(w)
      BY <3>1 DEF CreateReceipt, MarkParsed, Subject
    <3>3. CASE CreateReceipt(w)
      <4>1. Subject(w) \in Messages /\ Subject(w) \notin receipts
        BY <2>3, <3>3 DEF CreateReceipt
      <4>. QED
        BY <3>2, <4>1 DEF Stages
    <3>4. CASE MarkParsed(w)
      BY <3>2, <3>4 DEF MarkParsed, Stages
    <3>. QED
      BY <3>1, <3>3, <3>4
  <2>10. ASSUME NEW t \in Txns, category'[t] = "none"
         PROVE  jobs'[<<"txn", t>>] = "absent"
    <3>1. jobs[<<"txn", t>>] = "absent"
      BY <2>1, <2>10 DEF worldVars, Stages
    <3>. QED
      BY <1>01, <1>4, <3>1, JobsStep
  <2>11. \A v \in Slots : v # w => pc'[v] = pc[v] /\ job'[v] = job[v] /\ Subject(v)' = Subject(v)
    BY <2>1 DEF Others, Subject
  <2>. QED
    BY <2>4, <2>5, <2>6, <2>7, <2>8, <2>9, <2>10, <2>11 DEF Stages
<1>. QED
  BY <1>1, <1>3, <1>4, NoFault DEF Next, vars, worldVars, rowVars

\* The slot that inserts a receipt, or links it for its own job, writes the status next.
LEMMA StatusStep ==
  ASSUME IInv, FactInv, SlotsOwn, Stages, StatusInv, [Next]_vars, faults' = 0
  PROVE  StatusInv'
<1>0. /\ pc \in [Slots -> Steps] /\ jobs \in [Jobs -> JobStates] /\ links \subseteq Links
      /\ status \in [Messages -> {"classified", "parsed", "matched", "deleted"}]
  BY DEF IInv, TypeOK
<1>00. \A m \in Messages : <<"receipt", m>> \in Jobs \ TxnJobs
  BY DEF Jobs, ReceiptJobs, TxnJobs
<1>1. ASSUME UNCHANGED slotVars, UNCHANGED <<receipts, links>>,
             \A m \in Messages : status'[m] \in {status[m], "deleted"},
             \A m \in Messages : jobs'[<<"receipt", m>>] = jobs[<<"receipt", m>>]
      PROVE  StatusInv'
  <2>1. \A l \in links : l.receipt \in Messages
    BY <1>0 DEF Links
  <2>2. \A w \in Slots : Subject(w)' = Subject(w) /\ ReceiptOf(w)' = ReceiptOf(w)
                           /\ pc'[w] = pc[w]
    BY <1>1 DEF slotVars, Subject, ReceiptOf, Kind
  <2>3. \A m \in receipts : m \in Messages
    BY DEF IInv, TypeOK
  <2>. QED
    BY <1>1, <2>1, <2>2, <2>3 DEF StatusInv
<1>2. ASSUME World
      PROVE  StatusInv'
  <2>1. UNCHANGED slotVars /\ UNCHANGED <<receipts, links>>
    BY <1>2 DEF World, TxnArrives, TxnRemoved, Categorize, Recategorize, MailGone, MarkDeleted,
          rowVars
  <2>2. \A m \in Messages : status'[m] \in {status[m], "deleted"}
    BY <1>0, <1>2 DEF World, TxnArrives, TxnRemoved, Categorize, Recategorize, MailGone,
          MarkDeleted, rowVars
  <2>3. \A m \in Messages : jobs'[<<"receipt", m>>] = jobs[<<"receipt", m>>]
    BY <1>0, <1>00, <1>2 DEF World, TxnArrives, TxnRemoved, Categorize, Recategorize, MailGone,
          MarkDeleted, TxnJobs
  <2>. QED
    BY <1>1, <2>1, <2>2, <2>3
<1>3. ASSUME NEW w \in Slots, SlotStep(w)
      PROVE  StatusInv'
  <2>1. \A v \in Slots : v # w =>
           pc'[v] = pc[v] /\ Subject(v)' = Subject(v) /\ ReceiptOf(v)' = ReceiptOf(v)
    BY <1>3, Frame DEF Others, Subject, ReceiptOf, Kind
  <2>2. \A l \in links : l.receipt \in Messages /\ <<"receipt", l.receipt>> \in Jobs
    BY <1>0, <1>00 DEF Links
  <2>3. \A l \in links : l.by = "receipt" => jobs'[<<"receipt", l.receipt>>] # "absent"
    BY <1>3, <2>2, JobsStep DEF StatusInv
  <2>4. CASE CreateReceipt(w)
    <3>1. /\ receipts' = receipts \cup {Subject(w)} /\ UNCHANGED <<links, status>>
          /\ pc'[w] = "parsed" /\ Subject(w)' = Subject(w) /\ pc[w] = "create"
      BY <1>0, <2>4 DEF CreateReceipt, Goto, Subject
    <3>2. \A m \in receipts' : status'[m] = "classified" =>
             \E v \in Slots : pc'[v] = "parsed" /\ Subject(v)' = m
      BY <2>1, <3>1 DEF StatusInv
    <3>3. \A l \in links' : l.by = "receipt" /\ status'[l.receipt] = "parsed" =>
             \E v \in Slots : pc'[v] = "mark" /\ ReceiptOf(v)' = l.receipt
      BY <2>1, <3>1 DEF StatusInv
    <3>. QED
      BY <2>3, <3>1, <3>2, <3>3 DEF StatusInv
  <2>5. CASE MarkParsed(w)
    <3>1. /\ UNCHANGED <<receipts, links>> /\ pc[w] = "parsed"
          /\ status' = [status EXCEPT ![Subject(w)] = "parsed"]
          /\ jobs[<<"receipt", Subject(w)>>] = "absent"
      BY <2>5 DEF MarkParsed, Stages
    <3>2. Subject(w) \in Messages /\ receipts \subseteq Messages
      BY <2>5, JobParts DEF MarkParsed, IInv, SlotInv, TypeOK
    <3>3. \A m \in receipts' : status'[m] = "classified" =>
             \E v \in Slots : pc'[v] = "parsed" /\ Subject(v)' = m
      BY <1>0, <2>1, <3>1, <3>2 DEF StatusInv
    <3>4. \A l \in links' : l.by = "receipt" /\ status'[l.receipt] = "parsed" =>
             \E v \in Slots : pc'[v] = "mark" /\ ReceiptOf(v)' = l.receipt
      <4>. SUFFICES ASSUME NEW l \in links, l.by = "receipt", status'[l.receipt] = "parsed"
                    PROVE  \E v \in Slots : pc'[v] = "mark" /\ ReceiptOf(v)' = l.receipt
        BY <3>1
      <4>1. l.receipt # Subject(w)
        BY <3>1 DEF StatusInv
      <4>2. status[l.receipt] = "parsed"
        BY <1>0, <2>2, <3>1, <4>1
      <4>3. PICK v \in Slots : pc[v] = "mark" /\ ReceiptOf(v) = l.receipt
        BY <4>2 DEF StatusInv
      <4>4. v # w
        BY <3>1, <4>3
      <4>. QED
        BY <2>1, <4>3, <4>4
    <3>. QED
      BY <2>3, <3>1, <3>3, <3>4 DEF StatusInv
  <2>6. CASE Link(w)
    <3>1. /\ UNCHANGED <<receipts, status>> /\ pc[w] = "link" /\ pc'[w] = "mark"
          /\ ReceiptOf(w)' = ReceiptOf(w) /\ jobs' = jobs
      BY <1>0, <2>6 DEF Link, Goto, ReceiptOf, Subject, Kind
    <3>2. \A l \in links' : l \in links \/ (l.receipt = ReceiptOf(w) /\ l.by = Kind(w))
      BY <2>6 DEF Link
    <3>3. \A m \in receipts' : status'[m] = "classified" =>
             \E v \in Slots : pc'[v] = "parsed" /\ Subject(v)' = m
      <4>1. \A v \in Slots : pc[v] = "parsed" => v # w
        BY <3>1
      <4>. QED
        BY <2>1, <3>1, <4>1 DEF StatusInv
    <3>4. \A l \in links' : l.by = "receipt" /\ status'[l.receipt] = "parsed" =>
             \E v \in Slots : pc'[v] = "mark" /\ ReceiptOf(v)' = l.receipt
      <4>1. \A v \in Slots : pc[v] = "mark" => v # w
        BY <3>1
      <4>. QED
        BY <2>1, <3>1, <3>2, <4>1 DEF StatusInv
    <3>5. Kind(w) = "receipt" => jobs[<<"receipt", ReceiptOf(w)>>] # "absent"
      <4>. SUFFICES ASSUME Kind(w) = "receipt"
                    PROVE  jobs[<<"receipt", ReceiptOf(w)>>] # "absent"
        OBVIOUS
      <4>1. job[w] = <<"receipt", Subject(w)>> /\ ReceiptOf(w) = Subject(w)
        BY <3>1, JobKind, JobIs DEF IInv, SlotInv, ReceiptOf
      <4>. QED
        BY <3>1, <4>1 DEF SlotsOwn
    <3>6. \A l \in links' : l.by = "receipt" => jobs'[<<"receipt", l.receipt>>] # "absent"
      BY <2>3, <3>1, <3>2, <3>5
    <3>. QED
      BY <3>3, <3>4, <3>6 DEF StatusInv
  <2>7. CASE MarkMatched(w)
    <3>1. /\ UNCHANGED <<receipts, links>> /\ pc[w] = "mark"
          /\ status' = [status EXCEPT ![ReceiptOf(w)] = "matched"]
          /\ ReceiptOf(w) \in Messages /\ receipts \subseteq Messages
      BY <2>7, LinkParts DEF MarkMatched, MatchedStatus, IInv, TypeOK
    <3>2. \A m \in receipts' : status'[m] = "classified" =>
             \E v \in Slots : pc'[v] = "parsed" /\ Subject(v)' = m
      <4>1. \A v \in Slots : pc[v] = "parsed" => v # w
        BY <3>1
      <4>2. \A m \in receipts : status'[m] = "classified" => status[m] = "classified"
        BY <1>0, <3>1
      <4>. QED
        BY <2>1, <3>1, <4>1, <4>2 DEF StatusInv
    <3>3. \A l \in links' : l.by = "receipt" /\ status'[l.receipt] = "parsed" =>
             \E v \in Slots : pc'[v] = "mark" /\ ReceiptOf(v)' = l.receipt
      <4>. SUFFICES ASSUME NEW l \in links, l.by = "receipt", status'[l.receipt] = "parsed"
                    PROVE  \E v \in Slots : pc'[v] = "mark" /\ ReceiptOf(v)' = l.receipt
        BY <3>1
      <4>1. l.receipt # ReceiptOf(w) /\ status[l.receipt] = "parsed"
        BY <1>0, <2>2, <3>1
      <4>2. PICK v \in Slots : pc[v] = "mark" /\ ReceiptOf(v) = l.receipt
        BY <4>1 DEF StatusInv
      <4>. QED
        BY <2>1, <4>1, <4>2
    <3>. QED
      BY <2>3, <3>1, <3>2, <3>3 DEF StatusInv
  <2>8. CASE ~CreateReceipt(w) /\ ~MarkParsed(w) /\ ~Link(w) /\ ~MarkMatched(w)
    <3>1. UNCHANGED <<receipts, links, status>>
      BY <1>3, <2>8, RowsWritten DEF rowVars
    <3>2. pc[w] \notin {"parsed", "mark"}
      BY <1>3, <2>8 DEF SlotStep, Take, FindReceipt, FetchBody, BodyGone,
         CreateRefused, RequestMatch, NoTotalThrows, FindReceiptLink, ListTxns,
         FindPickedLink, FindTxnLink, ListReceipts, LinkRefused, Finish
    <3>3. \A v \in Slots : pc[v] \in {"parsed", "mark"} => v # w
      BY <3>2
    <3>4. \A m \in receipts' : status'[m] = "classified" =>
             \E v \in Slots : pc'[v] = "parsed" /\ Subject(v)' = m
      BY <2>1, <3>1, <3>3 DEF StatusInv
    <3>5. \A l \in links' : l.by = "receipt" /\ status'[l.receipt] = "parsed" =>
             \E v \in Slots : pc'[v] = "mark" /\ ReceiptOf(v)' = l.receipt
      BY <2>1, <3>1, <3>3 DEF StatusInv
    <3>. QED
      BY <2>3, <3>1, <3>4, <3>5 DEF StatusInv
  <2>. QED
    BY <2>4, <2>5, <2>6, <2>7, <2>8
<1>4. CASE UNCHANGED vars
  <2>1. UNCHANGED slotVars /\ UNCHANGED <<receipts, links, status, jobs>>
    BY <1>4 DEF vars, rowVars
  <2>. QED
    BY <1>1, <2>1
<1>. QED
  BY <1>2, <1>3, <1>4, NoFault DEF Next

-----------------------------------------------------------------------------
\* A finite set has an element with the most points: a set without one would have a
\* smallest subset without one.
LEMMA MostPoints ==
  ASSUME NEW S, IsFiniteSet(S), S # {}, NEW f \in [S -> Nat]
  PROVE  \E x \in S : \A y \in S : f[y] <= f[x]
<1>. DEFINE Most(T) == \E x \in T : \A y \in T : f[y] <= f[x]
            Without == {T \in SUBSET S : T # {} /\ ~Most(T)}
<1>. SUFFICES ASSUME Without # {}
              PROVE  FALSE
  OBVIOUS
<1>1. IsWellFoundedOn(StrictSubsetOrdering(S), SUBSET S)
  BY FS_FiniteSubsetsOfFinite, FS_StrictSubsetOrderingWellFounded
<1>2. PICK T \in Without : \A U \in Without : <<U, T>> \notin StrictSubsetOrdering(S)
  <2>1. Without \subseteq SUBSET S
    OBVIOUS
  <2>. HIDE DEF Without
  <2>. QED
    BY <1>1, <2>1, WFMin
<1>3. PICK x \in T : TRUE
  OBVIOUS
<1>4. T \ {x} \notin Without
  <2>1. <<T \ {x}, T>> \in StrictSubsetOrdering(S)
    BY <1>3 DEF StrictSubsetOrdering
  <2>. QED
    BY <1>2, <2>1
<1>5. f[x] \in Nat /\ \A y \in T : f[y] \in Nat
  BY <1>3
<1>6. CASE T \ {x} = {}
  <2>1. \A y \in T : f[y] <= f[x]
    BY <1>5, <1>6
  <2>. QED
    BY <1>3, <2>1
<1>7. ASSUME NEW z \in T \ {x}, \A y \in T \ {x} : f[y] <= f[z]
      PROVE  FALSE
  <2>1. CASE f[x] <= f[z]
    <3>1. \A y \in T : f[y] <= f[z]
      BY <1>7, <2>1
    <3>. QED
      BY <3>1
  <2>2. CASE f[z] <= f[x]
    <3>1. \A y \in T : f[y] <= f[x]
      BY <1>5, <1>7, <2>2
    <3>. QED
      BY <1>3, <3>1
  <2>. QED
    BY <1>5, <2>1, <2>2
<1>. QED
  BY <1>4, <1>6, <1>7

LEMMA PointsType ==
  ASSUME NEW m \in Messages, NEW t \in Txns
  PROVE  Points(m, t) \in Nat
<1>1. /\ Score[m] \in [Txns -> Nat] /\ Bare[m] \in [Txns -> Nat] /\ Bonus \in Nat
      /\ Score[m][t] \in Nat /\ Bare[m][t] \in Nat
  BY DataAssumption
<1>. QED
  BY <1>1 DEF Points

\* Where one partner qualifies, a best one is picked.
LEMMA TxnPicked ==
  ASSUME IInv, FactInv, NEW m \in Messages, NEW t \in LiveTxns(m), Points(m, t) >= MinScore
  PROVE  /\ BestTxns(m) # {}
         /\ \A u \in BestTxns(m) : u \in Txns /\ AsGood(m, u, t)
<1>1. LiveTxns(m) \subseteq {u \in Txns : txn[u] # "absent"}
  BY DEF LiveTxns
<1>2. IsFiniteSet(LiveTxns(m))
  BY <1>1, FS_Subset DEF FactInv, KnownInv
<1>. DEFINE f == [u \in LiveTxns(m) |-> Points(m, u)]
<1>3. f \in [LiveTxns(m) -> Nat]
  BY PointsType DEF LiveTxns
<1>4. PICK x \in LiveTxns(m) : \A u \in LiveTxns(m) : f[u] <= f[x]
  <2>. HIDE DEF f
  <2>. QED
    BY <1>2, <1>3, MostPoints
<1>5. \A u \in LiveTxns(m) : Points(m, u) <= Points(m, x)
  BY <1>4
<1>6. Points(m, x) \in Nat /\ Points(m, t) \in Nat /\ MinScore \in Nat
  BY PointsType, DataAssumption DEF LiveTxns
<1>7. Points(m, x) >= MinScore
  BY <1>5, <1>6
<1>8. x \in BestTxns(m)
  BY <1>5, <1>7 DEF BestTxns, LiveTxns
<1>9. ASSUME NEW u \in BestTxns(m)
      PROVE  u \in Txns /\ AsGood(m, u, t)
  <2>1. u \in Txns /\ Points(m, t) <= Points(m, u)
    BY <1>9 DEF BestTxns, LiveTxns
  <2>2. Points(m, u) \in Nat
    BY <2>1, PointsType
  <2>. QED
    BY <1>6, <2>1, <2>2 DEF AsGood
<1>. QED
  BY <1>8, <1>9

LEMMA ReceiptPicked ==
  ASSUME IInv, FactInv, NEW t \in Txns, NEW m \in UnmatchedReceipts(t), Points(m, t) >= MinScore
  PROVE  /\ BestReceipts(t) # {}
         /\ \A n \in BestReceipts(t) : n \in receipts /\ Points(n, t) >= Points(m, t)
<1>1. UnmatchedReceipts(t) \subseteq receipts /\ receipts \subseteq Messages
  BY DEF UnmatchedReceipts, IInv, TypeOK
<1>2. IsFiniteSet(UnmatchedReceipts(t))
  BY <1>1, FS_Subset DEF FactInv, KnownInv
<1>. DEFINE f == [n \in UnmatchedReceipts(t) |-> Points(n, t)]
<1>3. f \in [UnmatchedReceipts(t) -> Nat]
  BY <1>1, PointsType
<1>4. PICK x \in UnmatchedReceipts(t) : \A n \in UnmatchedReceipts(t) : f[n] <= f[x]
  <2>. HIDE DEF f
  <2>. QED
    BY <1>2, <1>3, MostPoints
<1>5. \A n \in UnmatchedReceipts(t) : Points(n, t) <= Points(x, t)
  BY <1>4
<1>6. Points(x, t) \in Nat /\ Points(m, t) \in Nat /\ MinScore \in Nat
  BY <1>1, PointsType, DataAssumption
<1>7. Points(x, t) >= MinScore
  BY <1>5, <1>6
<1>8. x \in BestReceipts(t)
  BY <1>5, <1>7 DEF BestReceipts
<1>9. ASSUME NEW n \in BestReceipts(t)
      PROVE  n \in receipts /\ Points(n, t) >= Points(m, t)
  <2>1. n \in receipts /\ Points(m, t) <= Points(n, t)
    BY <1>1, <1>9 DEF BestReceipts
  <2>2. Points(n, t) \in Nat
    BY <1>1, <2>1, PointsType
  <2>. QED
    BY <1>6, <2>1, <2>2
<1>. QED
  BY <1>8, <1>9

\* While nothing fails, the points of a stored receipt change only when a charge gets
\* its category, and then they grow.
LEMMA PointsKept ==
  ASSUME IInv, FactInv, [Next]_vars, faults' = 0, NEW m \in receipts, NEW t \in Txns
  PROVE  /\ Points(m, t)' >= Points(m, t)
         /\ category[t] = "trigger" => Points(m, t)' = Points(m, t)
<1>1. category' = category \/ \E u \in Txns : Categorize(u)
  BY NoFault, Frame, BoundsAssumption
    DEF Next, World, TxnArrives, TxnRemoved, MailGone, MarkDeleted, vars, worldVars
<1>2. ASSUME NEW u \in Txns, Categorize(u)
      PROVE  category'[t] = category[t] \/ (category[t] = "none" /\ category'[t] = "trigger")
  BY <1>2 DEF Categorize, IInv, TypeOK
<1>3. category'[t] = category[t] \/ (category[t] = "none" /\ category'[t] = "trigger")
  BY <1>1, <1>2
<1>4. m \in totals' <=> m \in totals
  BY RowsGrow
<1>5. Points(m, t) \in Nat /\ Bonus \in Nat
  BY PointsType, DataAssumption DEF IInv, TypeOK
<1>. DEFINE score == IF m \in totals THEN Score[m][t] ELSE Bare[m][t]
<1>6. score \in Nat
  BY DataAssumption DEF IInv, TypeOK
<1>7. /\ Points(m, t) = score + (IF category[t] = "trigger" THEN Bonus ELSE 0)
      /\ Points(m, t)' = score + (IF category'[t] = "trigger" THEN Bonus ELSE 0)
  BY <1>4 DEF Points
<1>. HIDE DEF score
<1>. QED
  BY <1>3, <1>5, <1>6, <1>7

\* The step that a slot at work takes next.
LEMMA NextStep ==
  ASSUME NEW w \in Slots, SlotStep(w)
  PROVE  /\ pc[w] = "lookup" /\ Kind(w) = "txn" => FindTxnLink(w)
         /\ pc[w] = "lookup" /\ Kind(w) = "receipt" /\ Subject(w) \in totals => FindReceiptLink(w)
         /\ pc[w] = "list" /\ Kind(w) = "txn" => ListReceipts(w)
         /\ pc[w] = "list" /\ Kind(w) = "receipt" => ListTxns(w)
         /\ pc[w] = "check" => FindPickedLink(w)
         /\ pc[w] = "link" => Link(w) \/ LinkRefused(w)
         /\ pc[w] = "parsed" => MarkParsed(w)
         /\ pc[w] = "enqueue" => RequestMatch(w)
  BY DEF SlotStep, Take, FindReceipt, FetchBody, BodyGone, CreateReceipt, CreateRefused,
     MarkParsed, RequestMatch, NoTotalThrows, FindReceiptLink, ListTxns, FindPickedLink,
     FindTxnLink, ListReceipts, Link, LinkRefused, MarkMatched, Finish

\* What the slot's link leaves behind.
LEMMA LinkedNow ==
  ASSUME NEW w \in Slots, Link(w)
  PROVE  \E l \in links' : l.receipt = ReceiptOf(w) /\ l.txn = TxnOf(w)
<1>. DEFINE l == [receipt |-> ReceiptOf(w), txn |-> TxnOf(w), by |-> Kind(w)]
<1>1. l \in links' /\ l.receipt = ReceiptOf(w) /\ l.txn = TxnOf(w)
  BY DEF Link
<1>. QED
  BY <1>1

\* A pair that still qualifies did so before, unless its receipt or its category is new.
LEMMA QualifiedBefore ==
  ASSUME IInv, FactInv, [Next]_vars, faults' = 0, NEW m \in totals, NEW t \in Txns,
         Qualify(m, t)', ~Categorize(t)
  PROVE  Qualify(m, t) /\ Points(m, t)' = Points(m, t)
<1>0. m \in receipts
  BY DEF IInv, TypeOK
<1>1. category[t] = "trigger" /\ txn[t] # "absent"
  <2>1. category'[t] = category[t]
    <3>1. ASSUME NEW u \in Txns, Categorize(u)
          PROVE  category'[t] = category[t]
      BY <3>1 DEF Categorize, IInv, TypeOK
    <3>. QED
      BY <3>1, NoFault, Frame, BoundsAssumption
        DEF Next, World, TxnArrives, TxnRemoved, MailGone, MarkDeleted, vars, worldVars
  <2>2. category[t] = "trigger"
    BY <2>1 DEF Qualify
  <2>. QED
    BY <2>2 DEF FactInv, KnownInv
<1>2. txn[t] = "live"
  <2>1. txn' = txn \/ \E u \in Txns : TxnArrives(u) \/ TxnRemoved(u)
    BY NoFault, Frame, BoundsAssumption
      DEF Next, World, Categorize, MailGone, MarkDeleted, vars, worldVars
  <2>2. ASSUME NEW u \in Txns, TxnArrives(u) \/ TxnRemoved(u)
        PROVE  txn[t] = "live"
    BY <1>1, <2>2 DEF TxnArrives, TxnRemoved, Qualify, IInv, TypeOK
  <2>. QED
    BY <2>1, <2>2 DEF Qualify
<1>3. Points(m, t)' = Points(m, t)
  BY <1>0, <1>1, PointsKept
<1>. QED
  BY <1>1, <1>2, <1>3, RowsGrow DEF Qualify

\* A rival that is linked stays one.
LEMMA OutdoneKept ==
  ASSUME IInv, FactInv, [Next]_vars, faults' = 0, NEW m \in totals, NEW t \in Txns,
         Qualify(m, t), Points(m, t)' = Points(m, t), Outdone(m, t)
  PROVE  Outdone(m, t)'
<1>0. m \in receipts /\ receipts \subseteq Messages /\ links \subseteq Links
  BY DEF IInv, TypeOK
<1>1. ASSUME NEW u \in Txns, LinkedTxn(u), AsGood(m, u, t)
      PROVE  Outdone(m, t)'
  <2>1. Points(m, u)' >= Points(m, u) /\ Points(m, u) \in Nat /\ Points(m, t) \in Nat
    BY <1>0, PointsKept, PointsType
  <2>2. Points(m, u)' \in Nat
    <3>1. Bonus \in Nat /\ Score[m][u] \in Nat /\ Bare[m][u] \in Nat
      BY <1>0, DataAssumption
    <3>. QED
      BY <3>1 DEF Points
  <2>3. Points(m, u)' >= Points(m, t)'
    BY <1>1, <2>1, <2>2 DEF AsGood
  <2>4. LinkedTxn(u)'
    BY <1>1, RowsGrow
  <2>. QED
    BY <2>3, <2>4 DEF Outdone, AsGood
<1>2. ASSUME NEW n \in Messages, Linked(n), Points(n, t) >= Points(m, t)
      PROVE  Outdone(m, t)'
  <2>1. n \in receipts
    BY <1>2 DEF Linked, FactInv, RowInv
  <2>2. Points(n, t)' = Points(n, t)
    BY <2>1, PointsKept DEF Qualify
  <2>3. Linked(n)'
    BY <1>2, RowsGrow
  <2>. QED
    BY <1>2, <2>2, <2>3 DEF Outdone
<1>. QED
  BY <1>1, <1>2 DEF Outdone

\* The job of the transaction runs its course: it links the best receipt that it
\* sees, unless that one is linked meanwhile.
LEMMA TxnWillStep ==
  ASSUME IInv, FactInv, SlotsOwn, Stages, [Next]_vars, faults' = 0,
         NEW w \in Slots, SlotStep(w), NEW m \in totals, NEW t \in Txns,
         Qualify(m, t), Qualify(m, t)', Points(m, t)' = Points(m, t), TxnWill(m, t)
  PROVE  Outdone(m, t)' \/ TxnWill(m, t)'
<1>0. /\ m \in receipts /\ m \in Messages /\ receipts \subseteq Messages
      /\ pc \in [Slots -> Steps] /\ <<"txn", t>> \in Jobs /\ <<"txn", t>> \in TxnJobs
      /\ pick \in [Slots -> Messages \cup Txns \cup {None}]
  BY DEF IInv, TypeOK, Jobs, TxnJobs
<1>1. \A n \in receipts : Points(n, t)' = Points(n, t)
  BY PointsKept DEF Qualify
<1>2. CASE jobs[<<"txn", t>>] = "waiting"
  BY <1>0, <1>2, JobsStep DEF TxnWill
<1>3. ASSUME NEW v \in Slots, job[v] = <<"txn", t>>
      PROVE  /\ Kind(v) = "txn" /\ Subject(v) = t /\ TxnOf(v) = t /\ ReceiptOf(v) = pick[v]
             /\ pc[v] = "link" => pick[v] \in receipts
  <2>1. Kind(v) = "txn" /\ Subject(v) = t
    BY <1>3 DEF Kind, Subject
  <2>. QED
    BY <2>1 DEF TxnOf, ReceiptOf, FactInv, SlotFact
<1>4. ASSUME NEW v \in Slots, v # w, job[v] = <<"txn", t>>,
             \/ pc[v] \in {"lookup", "list"}
             \/ pc[v] = "link" /\ Points(pick[v], t) >= Points(m, t)
      PROVE  TxnWill(m, t)'
  <2>1. pc'[v] = pc[v] /\ job'[v] = job[v] /\ pick'[v] = pick[v]
    BY <1>4, Frame DEF Others
  <2>2. pc[v] = "link" => Points(pick[v], t)' = Points(pick[v], t)
    <3>. SUFFICES ASSUME pc[v] = "link"
                  PROVE  Points(pick[v], t)' = Points(pick[v], t)
      OBVIOUS
    <3>1. PICK n \in receipts : pick[v] = n
      BY <1>3, <1>4
    <3>2. Points(pick[v], t)' = Points(n, t)'
      BY <2>1, <3>1 DEF Points
    <3>. QED
      BY <1>1, <3>1, <3>2
  <2>. QED
    BY <1>4, <2>1, <2>2 DEF TxnWill
<1>5. CASE job[w] = <<"txn", t>> /\ pc[w] = "lookup"
  <2>1. FindTxnLink(w)
    BY <1>3, <1>5, NextStep
  <2>2. Goto(w, "list") /\ job' = job
    BY <1>3, <1>5, <2>1 DEF FindTxnLink, ReturnIf, Qualify
  <2>3. pc'[w] = "list"
    BY <1>0, <2>2 DEF Goto
  <2>. QED
    BY <1>5, <2>2, <2>3 DEF TxnWill
<1>6. CASE job[w] = <<"txn", t>> /\ pc[w] = "list"
  <2>1. ListReceipts(w)
    BY <1>3, <1>6, NextStep
  <2>2. m \in UnmatchedReceipts(t)
    BY <1>0 DEF UnmatchedReceipts, Qualify
  <2>3. /\ BestReceipts(t) # {}
        /\ \A n \in BestReceipts(t) : n \in receipts /\ Points(n, t) >= Points(m, t)
    BY <2>2, ReceiptPicked DEF Qualify
  <2>4. PICK x \in BestReceipts(t) :
          pick' = [pick EXCEPT ![w] = x] /\ Goto(w, "link") /\ job' = job
    BY <1>3, <1>6, <2>1, <2>3 DEF ListReceipts, Choose
  <2>5. pick'[w] = x /\ pc'[w] = "link" /\ job'[w] = <<"txn", t>>
    BY <1>0, <1>6, <2>4 DEF Goto
  <2>6. Points(x, t)' >= Points(m, t)'
    BY <1>1, <2>3
  <2>7. Points(pick[w], t)' = Points(x, t)'
    BY <2>5 DEF Points
  <2>. QED
    BY <2>5, <2>6, <2>7 DEF TxnWill
<1>7. CASE job[w] = <<"txn", t>> /\ pc[w] = "link" /\ Points(pick[w], t) >= Points(m, t)
  <2>1. ~Link(w)
    BY <1>3, <1>7, LinkedNow DEF Qualify, LinkedTxn
  <2>2. LinkRefused(w)
    BY <1>7, <2>1, NextStep
  <2>3. Linked(pick[w]) /\ pick[w] \in Messages
    BY <1>0, <1>3, <1>7, <2>2 DEF LinkRefused, Free, Qualify
  <2>4. Outdone(m, t)
    BY <1>7, <2>3 DEF Outdone
  <2>. QED
    BY <2>4, OutdoneKept
<1>. QED
  BY <1>2, <1>4, <1>5, <1>6, <1>7 DEF TxnWill

\* So does the job of the receipt: the one transaction that it picks is linked by it,
\* or was linked before.
LEMMA ReceiptWillStep ==
  ASSUME IInv, FactInv, SlotsOwn, Stages, [Next]_vars, faults' = 0,
         NEW w \in Slots, SlotStep(w), NEW m \in totals, NEW t \in Txns,
         Qualify(m, t), Qualify(m, t)', Points(m, t)' = Points(m, t), ReceiptWill(m, t)
  PROVE  Outdone(m, t)' \/ ReceiptWill(m, t)'
<1>0. /\ m \in receipts /\ m \in Messages /\ jobs \in [Jobs -> JobStates]
      /\ pc \in [Slots -> Steps] /\ <<"receipt", m>> \in Jobs
      /\ <<"receipt", m>> \in ReceiptJobs /\ <<"receipt", m>> \notin TxnJobs
      /\ pick \in [Slots -> Messages \cup Txns \cup {None}]
  BY DEF IInv, TypeOK, Jobs, ReceiptJobs, TxnJobs
<1>1. ASSUME NEW u \in Txns, AsGood(m, u, t)
      PROVE  AsGood(m, u, t)'
  <2>1. Points(m, u)' >= Points(m, u) /\ Points(m, u) \in Nat /\ Points(m, t) \in Nat
    BY <1>0, PointsKept, PointsType
  <2>2. Points(m, u)' \in Nat
    <3>1. Bonus \in Nat /\ Score[m][u] \in Nat /\ Bare[m][u] \in Nat
      BY <1>0, DataAssumption
    <3>. QED
      BY <3>1 DEF Points
  <2>3. Points(m, u) >= Points(m, t)
    BY <1>1 DEF AsGood
  <2>4. Points(m, u)' >= Points(m, t)'
    BY <2>1, <2>2, <2>3
  <2>. QED
    BY <2>4 DEF AsGood
<1>2. CASE jobs[<<"receipt", m>>] = "waiting"
  BY <1>0, <1>2, JobsStep DEF ReceiptWill
<1>3. ASSUME NEW v \in Slots, job[v] = <<"receipt", m>>
      PROVE  /\ Kind(v) = "receipt" /\ Subject(v) = m /\ TxnOf(v) = pick[v] /\ ReceiptOf(v) = m
             /\ pc[v] \in {"check", "link"} => pick[v] \in Txns
  <2>1. Kind(v) = "receipt" /\ Subject(v) = m
    BY <1>3 DEF Kind, Subject
  <2>. QED
    BY <1>0, <1>3, <2>1 DEF TxnOf, ReceiptOf, IInv, SlotInv
<1>4. ASSUME NEW v \in Slots, v # w, pc[v] \in {"parsed", "enqueue"}, Subject(v) = m
      PROVE  ReceiptWill(m, t)'
  <2>1. pc'[v] = pc[v] /\ Subject(v)' = m
    BY <1>4, Frame DEF Others, Subject
  <2>. QED
    BY <1>4, <2>1 DEF ReceiptWill
<1>5. CASE pc[w] = "parsed" /\ Subject(w) = m
  <2>1. MarkParsed(w)
    BY <1>5, NextStep
  <2>2. pc'[w] = "enqueue" /\ Subject(w)' = m
    BY <1>0, <1>5, <2>1 DEF MarkParsed, Goto, Subject
  <2>. QED
    BY <2>2 DEF ReceiptWill
<1>6. CASE pc[w] = "enqueue" /\ Subject(w) = m
  <2>1. RequestMatch(w)
    BY <1>6, NextStep
  <2>2. jobs'[<<"receipt", m>>] = "waiting"
    BY <1>0, <1>6, <2>1 DEF RequestMatch, EnqueueMatch
  <2>. QED
    BY <2>2 DEF ReceiptWill
<1>7. ASSUME NEW v \in Slots, v # w, job[v] = <<"receipt", m>>,
             \/ pc[v] \in {"lookup", "list"}
             \/ pc[v] \in {"check", "link"} /\ AsGood(m, pick[v], t)
      PROVE  ReceiptWill(m, t)'
  <2>1. pc'[v] = pc[v] /\ job'[v] = job[v] /\ pick'[v] = pick[v]
    BY <1>7, Frame DEF Others
  <2>2. pc[v] \in {"check", "link"} => AsGood(m, pick[v], t)'
    <3>. SUFFICES ASSUME pc[v] \in {"check", "link"}
                  PROVE  AsGood(m, pick[v], t)'
      OBVIOUS
    <3>1. PICK u \in Txns : pick[v] = u
      BY <1>3, <1>7
    <3>2. AsGood(m, u, t)'
      BY <1>1, <1>7, <3>1
    <3>. QED
      BY <2>1, <3>1, <3>2 DEF AsGood, Points
  <2>. QED
    BY <1>7, <2>1, <2>2 DEF ReceiptWill
<1>8. CASE job[w] = <<"receipt", m>> /\ pc[w] = "lookup"
  <2>1. FindReceiptLink(w)
    BY <1>3, <1>8, NextStep
  <2>2. Goto(w, "list") /\ job' = job
    BY <1>3, <1>8, <2>1 DEF FindReceiptLink, ReturnIf, Qualify
  <2>3. pc'[w] = "list"
    BY <1>0, <2>2 DEF Goto
  <2>. QED
    BY <1>8, <2>2, <2>3 DEF ReceiptWill
<1>9. CASE job[w] = <<"receipt", m>> /\ pc[w] = "list"
  <2>1. ListTxns(w)
    BY <1>3, <1>9, NextStep
  <2>2. t \in LiveTxns(m)
    BY DEF LiveTxns, Qualify
  <2>3. BestTxns(m) # {} /\ \A u \in BestTxns(m) : u \in Txns /\ AsGood(m, u, t)
    BY <1>0, <2>2, TxnPicked DEF Qualify
  <2>4. PICK x \in BestTxns(m) :
          pick' = [pick EXCEPT ![w] = x] /\ Goto(w, "check") /\ job' = job
    BY <1>3, <1>9, <2>1, <2>3 DEF ListTxns, Choose
  <2>5. pick'[w] = x /\ pc'[w] = "check" /\ job'[w] = <<"receipt", m>>
    BY <1>0, <1>9, <2>4 DEF Goto
  <2>6. AsGood(m, x, t)'
    BY <1>1, <2>3
  <2>7. AsGood(m, pick[w], t)'
    BY <2>5, <2>6 DEF AsGood, Points
  <2>. QED
    BY <2>5, <2>7 DEF ReceiptWill
<1>10. ASSUME job[w] = <<"receipt", m>>, pc[w] \in {"check", "link"}, AsGood(m, pick[w], t),
              LinkedTxn(pick[w])
       PROVE  Outdone(m, t)'
  <2>1. Outdone(m, t)
    BY <1>3, <1>10 DEF Outdone
  <2>. QED
    BY <2>1, OutdoneKept
<1>11. CASE job[w] = <<"receipt", m>> /\ pc[w] = "check" /\ AsGood(m, pick[w], t)
  <2>1. FindPickedLink(w)
    BY <1>11, NextStep
  <2>2. CASE ~LinkedTxn(pick[w])
    <3>1. Goto(w, "link") /\ job' = job /\ pick' = pick
      BY <2>1, <2>2 DEF FindPickedLink, ReturnIf
    <3>2. pc'[w] = "link"
      BY <1>0, <3>1 DEF Goto
    <3>3. PICK u \in Txns : pick[w] = u
      BY <1>3, <1>11
    <3>4. AsGood(m, u, t)'
      BY <1>1, <1>11, <3>3
    <3>5. AsGood(m, pick[w], t)'
      BY <3>1, <3>3, <3>4 DEF AsGood, Points
    <3>. QED
      BY <1>11, <3>1, <3>2, <3>5 DEF ReceiptWill
  <2>. QED
    BY <1>10, <1>11, <2>2
<1>12. CASE job[w] = <<"receipt", m>> /\ pc[w] = "link" /\ AsGood(m, pick[w], t)
  <2>1. ~Link(w)
    BY <1>3, <1>12, LinkedNow DEF Qualify, Linked
  <2>2. LinkRefused(w)
    BY <1>12, <2>1, NextStep
  <2>3. LinkedTxn(pick[w])
    BY <1>3, <1>12, <2>2 DEF LinkRefused, Free, Qualify
  <2>. QED
    BY <1>10, <1>12, <2>3
<1>. QED
  BY <1>2, <1>4, <1>5, <1>6, <1>7, <1>8, <1>9, <1>11, <1>12 DEF ReceiptWill

LEMMA PairStep ==
  ASSUME IInv, FactInv, SlotsOwn, Stages, PairInv, [Next]_vars, faults' = 0
  PROVE  PairInv'
<1>. SUFFICES ASSUME NEW m \in totals', NEW t \in Txns, Qualify(m, t)'
              PROVE  Outdone(m, t)' \/ TxnWill(m, t)' \/ ReceiptWill(m, t)'
  BY DEF PairInv
<1>0. jobs \in [Jobs -> JobStates] /\ pc \in [Slots -> Steps] /\ <<"txn", t>> \in Jobs
  BY DEF IInv, TypeOK, Jobs, TxnJobs
<1>1. CASE m \notin totals
  <2>1. World => totals' = totals
    BY DEF World, TxnArrives, TxnRemoved, Categorize, Recategorize, MailGone, MarkDeleted, rowVars
  <2>2. PICK w \in Slots : CreateReceipt(w)
    BY <1>1, <2>1, RowsWritten, NoFault
      DEF Next, MarkParsed, Link, MarkMatched, rowVars, vars
  <2>3. Subject(w)' = m /\ pc'[w] = "parsed"
    BY <1>0, <1>1, <2>2 DEF CreateReceipt, Goto, Subject
  <2>. QED
    BY <2>3 DEF ReceiptWill
<1>2. CASE Categorize(t)
  <2>1. jobs'[<<"txn", t>>] = "waiting"
    BY <1>0, <1>2 DEF Categorize
  <2>. QED
    BY <2>1 DEF TxnWill
<1>3. CASE m \in totals /\ ~Categorize(t)
  <2>0. m \in receipts
    BY <1>3 DEF IInv, TypeOK
  <2>1. Qualify(m, t) /\ Points(m, t)' = Points(m, t)
    BY <1>3, QualifiedBefore
  <2>2. Outdone(m, t) \/ TxnWill(m, t) \/ ReceiptWill(m, t)
    BY <1>3, <2>1 DEF PairInv
  <2>3. CASE Outdone(m, t)
    BY <1>3, <2>1, <2>3, OutdoneKept
  <2>4. ASSUME NEW w \in Slots, SlotStep(w)
        PROVE  Outdone(m, t)' \/ TxnWill(m, t)' \/ ReceiptWill(m, t)'
    BY <1>3, <2>1, <2>2, <2>3, <2>4, TxnWillStep, ReceiptWillStep
  <2>5. ASSUME UNCHANGED slotVars, UNCHANGED <<receipts, totals>>,
               \A j \in Jobs : jobs[j] = "waiting" => jobs'[j] = "waiting",
               TxnWill(m, t) \/ ReceiptWill(m, t)
        PROVE  TxnWill(m, t)' \/ ReceiptWill(m, t)'
    <3>1. <<"receipt", m>> \in Jobs /\ receipts \subseteq Messages
      BY <2>0 DEF IInv, TypeOK, Jobs, ReceiptJobs
    <3>2. ASSUME NEW v \in Slots, job[v] = <<"txn", t>>, pc[v] = "link",
                 Points(pick[v], t) >= Points(m, t)
          PROVE  Points(pick[v], t)' >= Points(m, t)'
      <4>1. Kind(v) = "txn"
        BY <3>2 DEF Kind
      <4>2. PICK n \in receipts : pick[v] = n
        BY <3>2, <4>1 DEF FactInv, SlotFact, ReceiptOf
      <4>3. Points(n, t)' = Points(n, t)
        BY <2>1, PointsKept DEF Qualify
      <4>. QED
        BY <2>1, <2>5, <3>2, <4>2, <4>3 DEF Points, slotVars
    <3>3. ASSUME NEW v \in Slots, job[v] = <<"receipt", m>>, pc[v] \in {"check", "link"},
                 AsGood(m, pick[v], t)
          PROVE  AsGood(m, pick[v], t)'
      <4>1. job[v] \in ReceiptJobs /\ job[v] \notin TxnJobs
        BY <2>0, <3>1, <3>3 DEF ReceiptJobs, TxnJobs
      <4>2. PICK u \in Txns : pick[v] = u
        BY <3>3, <4>1 DEF IInv, SlotInv
      <4>3. Points(m, u)' >= Points(m, u) /\ Points(m, u) \in Nat /\ Points(m, t) \in Nat
        BY <2>0, <3>1, PointsKept, PointsType
      <4>4. Points(m, u)' \in Nat
        <5>1. Bonus \in Nat /\ Score[m][u] \in Nat /\ Bare[m][u] \in Nat
          BY <2>0, <3>1, DataAssumption
        <5>. QED
          BY <5>1 DEF Points
      <4>5. Points(m, u) >= Points(m, t)
        BY <3>3, <4>2 DEF AsGood
      <4>6. Points(m, u)' >= Points(m, t)'
        BY <2>1, <4>3, <4>4, <4>5
      <4>. QED
        BY <2>5, <4>2, <4>6 DEF AsGood, Points, slotVars
    <3>4. CASE TxnWill(m, t)
      BY <1>0, <2>5, <3>2, <3>4 DEF TxnWill, slotVars
    <3>5. CASE ReceiptWill(m, t)
      BY <2>5, <3>1, <3>3, <3>5 DEF ReceiptWill, slotVars, Subject
    <3>. QED
      BY <2>5, <3>4, <3>5
  <2>6. CASE World
    <3>1. UNCHANGED slotVars /\ UNCHANGED <<receipts, totals>>
      BY <2>6 DEF World, TxnArrives, TxnRemoved, Categorize, Recategorize, MailGone, MarkDeleted,
            rowVars
    <3>2. \A j \in Jobs : jobs[j] = "waiting" => jobs'[j] = "waiting"
      BY <1>0, <2>6 DEF World, TxnArrives, TxnRemoved, Categorize, Recategorize, MailGone,
            MarkDeleted, rowVars
    <3>. QED
      BY <2>2, <2>3, <2>5, <3>1, <3>2
  <2>7. CASE UNCHANGED vars
    BY <2>2, <2>3, <2>5, <2>7 DEF vars, rowVars
  <2>. QED
    BY <2>4, <2>6, <2>7, NoFault DEF Next
<1>. QED
  BY <1>1, <1>2, <1>3

LEMMA CleanInductive == Spec => [](FactInv /\ CleanInv)
<1>1. Init => FactInv /\ CleanInv
  <2>. SUFFICES ASSUME Init
                PROVE  FactInv /\ CleanInv
    OBVIOUS
  <2>1. FactInv
    <3>1. {t \in Txns : txn[t] # "absent"} = {}
      BY DEF Init
    <3>2. KnownInv
      BY <3>1, FS_EmptySet DEF Init, KnownInv
    <3>. QED
      BY <3>2 DEF Init, FactInv, RowInv, SlotFact
  <2>2. \A m \in Messages : <<"receipt", m>> \in Jobs \ ParseJobs
    BY DEF Jobs, ParseJobs, ReceiptJobs
  <2>3. \A t \in Txns : <<"txn", t>> \in Jobs \ ParseJobs
    BY DEF Jobs, ParseJobs, TxnJobs
  <2>4. Stages
    BY <2>2, <2>3 DEF Init, Stages
  <2>. QED
    BY <2>1, <2>4 DEF Init, CleanInv, SlotsOwn, StatusInv, PairInv
<1>2. IInv /\ FactInv /\ CleanInv /\ [Next]_vars => (FactInv /\ CleanInv)'
  <2>. SUFFICES ASSUME IInv, FactInv, CleanInv, [Next]_vars
                PROVE  FactInv' /\ CleanInv'
    OBVIOUS
  <2>1. CleanInv'
    <3>. SUFFICES ASSUME faults' = 0
                  PROVE  SlotsOwn' /\ Stages' /\ StatusInv' /\ PairInv'
      BY DEF CleanInv
    <3>1. SlotsOwn /\ Stages /\ StatusInv /\ PairInv
      BY NoFault DEF CleanInv
    <3>. QED
      BY <3>1, SlotsOwnStep, StagesStep, StatusStep, PairStep
  <2>. QED
    BY <2>1, FactStep
<1>. QED
  BY <1>1, <1>2, Inductive, PTL DEF Spec

-----------------------------------------------------------------------------
\* The messages, receipts, links and slots keep their types: a link joins a receipt
\* and a transaction (receipt-match-service.ts:123-140, :232-251).
THEOREM TypeCorrect == Spec => []TypeOK
  BY Inductive, PTL DEF IInv

\* When every job has run, no slot is at work.
LEMMA QuietSlots ==
  ASSUME IInv, CleanInv, Quiet
  PROVE  \A w \in Slots : pc[w] = "idle"
  BY DEF IInv, SlotInv, CleanInv, SlotsOwn, Quiet

\* For any messages, charges, scores and slots: once every job has run and none has
\* failed by chance, the status of a message tells how far its receipt has come
\* (receipt-parse-service.ts:94-118, receipt-match-service.ts:140 and :251,
\* mail-message-repo.ts:45-71).
THEOREM StatusAlwaysTellsTheStage == Spec => []StatusTellsTheStage
<1>1. IInv /\ FactInv /\ CleanInv => StatusTellsTheStage
  <2>. SUFFICES ASSUME IInv, FactInv, CleanInv, Quiet, NEW m \in Messages
                PROVE  /\ status[m] = "classified" => m \notin receipts
                       /\ status[m] = "parsed" =>
                            /\ m \in receipts
                            /\ \A l \in links : l.receipt = m => l.by = "txn"
                       /\ status[m] = "matched" => Linked(m)
                       /\ status[m] = "deleted" => mailbox[m] = "synced"
                       /\ mailbox[m] = "synced" /\ m \notin receipts => status[m] = "deleted"
    BY DEF StatusTellsTheStage
  <2>1. \A w \in Slots : pc[w] = "idle"
    BY QuietSlots
  <2>2. RowInv /\ StatusInv
    BY DEF FactInv, CleanInv, Quiet
  <2>3. \A l \in links : l.by \in {"receipt", "txn"}
    BY DEF IInv, TypeOK, Links
  <2>. QED
    BY <2>1, <2>2, <2>3 DEF RowInv, StatusInv
<1>. QED
  BY <1>1, Inductive, CleanInductive, PTL

\* For any messages, charges, scores and slots, and whichever side comes first: a
\* receipt and a charge that qualify are left apart only when one of them has lost to
\* a rival that is linked (receipt-match-service.ts:96-129 and :186-232).
THEOREM NoPairIsMissed == Spec => []NoPairMissed
<1>1. IInv /\ FactInv /\ CleanInv => NoPairMissed
  <2>. SUFFICES ASSUME IInv, CleanInv, Quiet, NEW m \in totals, NEW t \in Txns, Qualify(m, t)
                PROVE  Outdone(m, t)
    BY DEF NoPairMissed, Qualify, Outdone
  <2>1. \A w \in Slots : pc[w] = "idle"
    BY QuietSlots
  <2>2. <<"txn", t>> \in Jobs /\ <<"receipt", m>> \in Jobs
    BY DEF IInv, TypeOK, Jobs, ReceiptJobs, TxnJobs
  <2>3. ~TxnWill(m, t) /\ ~ReceiptWill(m, t)
    BY <2>1, <2>2 DEF TxnWill, ReceiptWill, Quiet
  <2>. QED
    BY <2>3 DEF CleanInv, PairInv, Quiet
<1>. QED
  BY <1>1, Inductive, CleanInductive, PTL

\* Every link is a step of Join and nothing else touches the links.
LEMMA LinksStep ==
  ASSUME IInv, [Next]_vars
  PROVE  links' = links \/ \E w \in Slots : Link(w)
<1>1. ASSUME World
      PROVE  links' = links
  BY <1>1 DEF World, TxnArrives, TxnRemoved, Categorize, Recategorize, MailGone, MarkDeleted,
        rowVars
<1>2. ASSUME NEW w \in Slots, NEW state, End(w, state)
      PROVE  links' = links
  BY <1>2 DEF End, rowVars
<1>3. ASSUME NEW w \in Slots, SlotStep(w), ~Link(w)
      PROVE  links' = links
  BY <1>2, <1>3 DEF SlotStep, Take, FindReceipt, FetchBody, BodyGone, CreateReceipt,
        CreateRefused, MarkParsed, RequestMatch, NoTotalThrows, FindReceiptLink, ListTxns,
        FindPickedLink, FindTxnLink, ListReceipts, LinkRefused, MarkMatched, Finish, ReturnIf,
        Choose, rowVars
<1>4. ASSUME NEW w \in Slots, Interrupt(w) \/ LoseLock(w)
      PROVE  links' = links
  BY <1>2, <1>4 DEF Interrupt, LoseLock, rowVars
<1>. QED
  BY <1>1, <1>3, <1>4 DEF Next, vars, rowVars

\* For any scores, any number of slots, failures and lost locks, the two kinds of
\* receipt.match jobs implement Pairing: a receipt and a transaction are paired
\* once, and for good (receipt-match-service.ts:123-138,
\* transaction-receipt-link-repo.ts:14-29).
THEOREM PairedOnceHolds == Spec => PairedOnce
<1>1. Init => Pairing!Init
  BY DEF Init, Pairing!Init, Pairs
<1>2. IInv /\ [Next]_vars => [Pairing!Next]_Pairs
  <2>. SUFFICES ASSUME IInv, [Next]_vars
                PROVE  [Pairing!Next]_Pairs
    OBVIOUS
  <2>1. CASE links' = links
    BY <2>1 DEF Pairs
  <2>2. ASSUME NEW w \in Slots, Link(w)
        PROVE  Pairing!Join(ReceiptOf(w), TxnOf(w))
    <3>. DEFINE l == [receipt |-> ReceiptOf(w), txn |-> TxnOf(w), by |-> Kind(w)]
    <3>1. links' = links \cup {l} /\ ~Linked(ReceiptOf(w)) /\ ~LinkedTxn(TxnOf(w))
      BY <2>2 DEF Link, Free
    <3>. l.receipt = ReceiptOf(w) /\ l.txn = TxnOf(w)
      OBVIOUS
    <3>2. Pairs' = Pairs \cup {<<ReceiptOf(w), TxnOf(w)>>}
      <4>. HIDE DEF l
      <4>. QED
        BY <3>1 DEF Pairs
    <3>3. Pairing!Unpaired(ReceiptOf(w), TxnOf(w))
      BY <3>1 DEF Pairing!Unpaired, Pairs, Linked, LinkedTxn
    <3>. QED
      BY <3>2, <3>3 DEF Pairing!Join
  <2>3. ASSUME NEW w \in Slots, Link(w)
        PROVE  ReceiptOf(w) \in Messages /\ TxnOf(w) \in Txns
    BY <2>3, LinkParts DEF Link, IInv
  <2>. QED
    BY <2>1, <2>2, <2>3, LinksStep DEF Pairing!Next
<1>. QED
  BY <1>1, <1>2, Inductive, PTL DEF Spec, PairedOnce, Pairing!Spec
=============================================================================
