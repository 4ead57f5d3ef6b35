--------------------------- MODULE BankSyncProofs ---------------------------
(***************************************************************************)
(* Proofs about BankSync, for all transactions, accounts, jobs and bounds.  *)
(* With any number of overlapping syncs: the stored cursor covers the rows, *)
(* and no row is handed to categorisation twice. With one sync at a time:   *)
(* removals stick, the cursor never goes back, nothing is left unqueued     *)
(* behind it, and the job implements BankMirror.                            *)
(***************************************************************************)
EXTENDS BankSync, TLAPS

\* The feed: nothing lies beyond its tip, and a transaction is posted before
\* it is modified or removed, and modified only while it is there.
FeedInv ==
    \A t \in Txns :
      /\ addedAt[t] <= tip /\ modifiedAt[t] <= tip /\ removedAt[t] <= tip
      /\ removedAt[t] > 0 => addedAt[t] > 0 /\ addedAt[t] < removedAt[t]
      /\ modifiedAt[t] > 0 => addedAt[t] > 0
      /\ modifiedAt[t] > 0 /\ removedAt[t] > 0 => modifiedAt[t] < removedAt[t]

\* Where the locals of a sync point to.
LocalInv ==
    /\ cursor <= tip
    /\ \A j \in Jobs :
         /\ from[j] <= tip
         /\ pc[j] # "upsert" => todo[j] = {}
         /\ missing[j] \subseteq todo[j]
         /\ todo[j] \subseteq By(addedAt, tip)
         /\ todo[j] \cap By(removedAt, from[j]) = {}
         /\ pc[j] \in {"upsert", "enqueue"} =>
              /\ from[j] <= page[j].to /\ page[j].to <= tip
              /\ page[j].removed = In(removedAt, from[j], page[j].to)

\* The postings up to n that are to have a row.
Due(n) == Known \cap (By(addedAt, n) \ By(removedAt, n))

\* What is covered at each stage of a page.
CoverInv ==
    /\ Due(cursor) \subseteq stored
    /\ \A j \in Jobs :
         /\ Running(j) => Due(from[j]) \subseteq stored
         /\ pc[j] = "upsert" => Due(page[j].to) \subseteq stored \cup todo[j]
         /\ pc[j] = "enqueue" => Due(page[j].to) \subseteq stored

\* An inserted id belongs to one sync and has not been enqueued yet.
FreshInv ==
    /\ \A t \in Txns : t \notin stored => categorize[t] = 0
    /\ \A t \in Txns : categorize[t] <= 1
    /\ \A j \in Jobs : \A t \in fresh[j] : t \in stored /\ categorize[t] = 0
    /\ \A i, j \in Jobs : i # j => fresh[i] \cap fresh[j] = {}

IInv == TypeOK /\ FeedInv /\ LocalInv /\ CoverInv /\ FreshInv

\* What one sync at a time adds: the running sync works from the stored
\* cursor, and removals are applied before the cursor passes them.
SerialInv ==
    /\ \A i, j \in Jobs : Running(i) /\ Running(j) => i = j
    /\ \A j \in Jobs : Running(j) => from[j] = cursor
    /\ By(removedAt, cursor) \cap stored \subseteq removed
    /\ \A j \in Jobs : pc[j] = "enqueue" =>
         By(removedAt, page[j].to) \cap stored \subseteq removed

\* What has a row has been enqueued or will be by the sync that inserted it, and
\* until then the cursor has not passed it.
QueueInv ==
    /\ \A j \in Jobs : pc[j] \notin {"upsert", "enqueue"} => fresh[j] = {}
    /\ interrupts = 0 =>
         /\ \A t \in stored : categorize[t] > 0 \/ \E j \in Jobs : t \in fresh[j]
         /\ \A j \in Jobs : \A t \in missing[j] \cup fresh[j] : addedAt[t] > cursor

\* Every step keeps the types.
LEMMA TypeStep ==
  ASSUME TypeOK, [Next]_vars
  PROVE  TypeOK'
<1>. USE BankSyncAssumption DEF TypeOK, Resting, In, By, bankVars, rowVars, localVars
<1>1. ASSUME NEW t \in Txns, BankPosts(t)
      PROVE  TypeOK'
  BY <1>1 DEF BankPosts, BankAppends
<1>2. ASSUME NEW t \in Txns, BankModifies(t)
      PROVE  TypeOK'
  BY <1>2 DEF BankModifies, BankAppends
<1>3. ASSUME NEW t \in Txns, BankRemoves(t)
      PROVE  TypeOK'
  BY <1>3 DEF BankRemoves, BankAppends
<1>4. ASSUME NEW j \in Jobs, Request(j)
      PROVE  TypeOK'
  BY <1>4 DEF Request
<1>5. ASSUME NEW j \in Jobs, Start(j)
      PROVE  TypeOK'
  BY <1>5 DEF Start, MayStart
<1>6. ASSUME NEW j \in Jobs, Fetch(j)
      PROVE  TypeOK'
  BY <1>6 DEF Fetch, SyncPage
<1>7. ASSUME NEW j \in Jobs, NEW t \in Txns, Find(j, t)
      PROVE  TypeOK'
  BY <1>7, SMTT(60) DEF Find
<1>8. ASSUME NEW j \in Jobs, NEW t \in Txns, Create(j, t)
      PROVE  TypeOK'
  BY <1>8 DEF Create, Insertable
<1>9. ASSUME NEW j \in Jobs, SoftDelete(j)
      PROVE  TypeOK'
  BY <1>9 DEF SoftDelete, Upserted, Marked
<1>10. ASSUME NEW j \in Jobs, NEW t \in Txns, EnqueueCategorize(j, t)
      PROVE  TypeOK'
  BY <1>10 DEF EnqueueCategorize
<1>11. ASSUME NEW j \in Jobs, SaveCursor(j)
      PROVE  TypeOK'
  BY <1>11 DEF SaveCursor, Enqueued, HasMore, NoPage
<1>12. ASSUME NEW j \in Jobs, Drop(j)
      PROVE  TypeOK'
  <2>1. pc' \in [Jobs -> Resting \cup {"fetch", "upsert", "enqueue"}]
    BY <1>12 DEF Drop
  <2>2. page' \in [Jobs -> [to : Nat, removed : SUBSET Txns,
                           revised : SUBSET Txns, more : BOOLEAN]]
    BY <1>12 DEF Drop, NoPage
  <2>3. /\ tries' \in [Jobs -> Nat] /\ from' \in [Jobs -> Nat]
        /\ todo' \in [Jobs -> SUBSET Known] /\ missing' \in [Jobs -> SUBSET Known]
        /\ fresh' \in [Jobs -> SUBSET Txns] /\ interrupts' \in Nat
    BY <1>12 DEF Drop
  <2>. QED
    BY <1>12, <2>1, <2>2, <2>3 DEF Drop
<1>13. CASE UNCHANGED vars
  BY <1>13 DEF vars
<1>. QED
  BY <1>1, <1>2, <1>3, <1>4, <1>5, <1>6, <1>7, <1>8, <1>9, <1>10, <1>11, <1>12, <1>13
  DEF Next, Bank, SyncStep, Interrupt, CreateRefused

\* Every step keeps the order of the feed.
LEMMA FeedStep ==
  ASSUME TypeOK, FeedInv, [Next]_vars
  PROVE  FeedInv'
<1>. USE BankSyncAssumption DEF TypeOK, FeedInv, bankVars, rowVars, localVars
<1>1. ASSUME NEW t \in Txns, BankPosts(t)
      PROVE  FeedInv'
  BY <1>1 DEF BankPosts, BankAppends
<1>2. ASSUME NEW t \in Txns, BankModifies(t)
      PROVE  FeedInv'
  BY <1>2 DEF BankModifies, BankAppends
<1>3. ASSUME NEW t \in Txns, BankRemoves(t)
      PROVE  FeedInv'
  BY <1>3 DEF BankRemoves, BankAppends
<1>4. ASSUME NEW j \in Jobs, Request(j)
      PROVE  FeedInv'
  BY <1>4 DEF Request
<1>5. ASSUME NEW j \in Jobs, Start(j)
      PROVE  FeedInv'
  BY <1>5 DEF Start, MayStart
<1>6. ASSUME NEW j \in Jobs, Fetch(j)
      PROVE  FeedInv'
  BY <1>6 DEF Fetch, SyncPage
<1>7. ASSUME NEW j \in Jobs, NEW t \in Txns, Find(j, t)
      PROVE  FeedInv'
  BY <1>7 DEF Find
<1>8. ASSUME NEW j \in Jobs, NEW t \in Txns, Create(j, t)
      PROVE  FeedInv'
  BY <1>8 DEF Create, Insertable
<1>9. ASSUME NEW j \in Jobs, SoftDelete(j)
      PROVE  FeedInv'
  BY <1>9 DEF SoftDelete, Upserted, Marked
<1>10. ASSUME NEW j \in Jobs, NEW t \in Txns, EnqueueCategorize(j, t)
      PROVE  FeedInv'
  BY <1>10 DEF EnqueueCategorize
<1>11. ASSUME NEW j \in Jobs, SaveCursor(j)
      PROVE  FeedInv'
  BY <1>11 DEF SaveCursor, Enqueued, HasMore, NoPage
<1>12. ASSUME NEW j \in Jobs, Drop(j)
      PROVE  FeedInv'
  BY <1>12 DEF Drop, NoPage
<1>13. CASE UNCHANGED vars
  BY <1>13 DEF vars
<1>. QED
  BY <1>1, <1>2, <1>3, <1>4, <1>5, <1>6, <1>7, <1>8, <1>9, <1>10, <1>11, <1>12, <1>13
  DEF Next, Bank, SyncStep, Interrupt, CreateRefused

\* Every step keeps the locals inside the feed.
LEMMA LocalStep ==
  ASSUME TypeOK, FeedInv, LocalInv, [Next]_vars
  PROVE  LocalInv'
<1>. USE BankSyncAssumption DEF TypeOK, FeedInv, LocalInv, In, By, Resting, bankVars, rowVars, localVars
<1>1. ASSUME NEW t \in Txns, BankPosts(t)
      PROVE  LocalInv'
  BY <1>1 DEF BankPosts, BankAppends
<1>2. ASSUME NEW t \in Txns, BankModifies(t)
      PROVE  LocalInv'
  BY <1>2 DEF BankModifies, BankAppends
<1>3. ASSUME NEW t \in Txns, BankRemoves(t)
      PROVE  LocalInv'
  BY <1>3 DEF BankRemoves, BankAppends
<1>4. ASSUME NEW j \in Jobs, Request(j)
      PROVE  LocalInv'
  BY <1>4 DEF Request
<1>5. ASSUME NEW j \in Jobs, Start(j)
      PROVE  LocalInv'
  BY <1>5 DEF Start, MayStart
<1>6. ASSUME NEW j \in Jobs, Fetch(j)
      PROVE  LocalInv'
  BY <1>6 DEF Fetch, SyncPage
<1>7. ASSUME NEW j \in Jobs, NEW t \in Txns, Find(j, t)
      PROVE  LocalInv'
  <2>1. /\ UNCHANGED <<addedAt, modifiedAt, removedAt, tip, cursor, pc, from, page>>
        /\ pc[j] = "upsert" /\ t \in todo[j]
    BY <1>7 DEF Find
  <2>2. \A i \in Jobs : todo'[i] \subseteq todo[i]
    BY <1>7 DEF Find
  <2>3. \A i \in Jobs : missing'[i] \subseteq todo'[i]
    <3>1. CASE t \in stored
      <4>1. missing[j] = {} /\ missing' = missing
        BY <1>7, <3>1 DEF Find
      <4>. QED
        BY <1>7, <3>1, <4>1 DEF Find
    <3>2. CASE t \notin stored
      <4>1. /\ missing' = [missing EXCEPT ![j] = {t}]
            /\ todo' = todo
        BY <1>7, <3>2 DEF Find
      <4>. QED
        BY <2>1, <4>1
    <3>. QED
      BY <3>1, <3>2
  <2>. QED
    BY <2>1, <2>2, <2>3
<1>8. ASSUME NEW j \in Jobs, NEW t \in Txns, Create(j, t)
      PROVE  LocalInv'
  BY <1>8 DEF Create, Insertable
<1>9. ASSUME NEW j \in Jobs, SoftDelete(j)
      PROVE  LocalInv'
  BY <1>9 DEF SoftDelete, Upserted, Marked
<1>10. ASSUME NEW j \in Jobs, NEW t \in Txns, EnqueueCategorize(j, t)
      PROVE  LocalInv'
  BY <1>10 DEF EnqueueCategorize
<1>11. ASSUME NEW j \in Jobs, SaveCursor(j)
      PROVE  LocalInv'
  BY <1>11 DEF SaveCursor, Enqueued, HasMore, NoPage
<1>12. ASSUME NEW j \in Jobs, Drop(j)
      PROVE  LocalInv'
  BY <1>12 DEF Drop, NoPage
<1>13. CASE UNCHANGED vars
  BY <1>13 DEF vars
<1>. QED
  BY <1>1, <1>2, <1>3, <1>4, <1>5, <1>6, <1>7, <1>8, <1>9, <1>10, <1>11, <1>12, <1>13
  DEF Next, Bank, SyncStep, Interrupt, CreateRefused

\* Every step keeps what the stages of a page cover.
LEMMA CoverStep ==
  ASSUME TypeOK, FeedInv, LocalInv, CoverInv, [Next]_vars
  PROVE  CoverInv'
<1>. USE BankSyncAssumption DEF TypeOK, FeedInv, LocalInv, CoverInv, Due, In, By, Resting, Running, bankVars, rowVars, localVars
<1>1. ASSUME NEW t \in Txns, BankPosts(t)
      PROVE  CoverInv'
  BY <1>1 DEF BankPosts, BankAppends
<1>2. ASSUME NEW t \in Txns, BankModifies(t)
      PROVE  CoverInv'
  BY <1>2 DEF BankModifies, BankAppends
<1>3. ASSUME NEW t \in Txns, BankRemoves(t)
      PROVE  CoverInv'
  BY <1>3 DEF BankRemoves, BankAppends
<1>4. ASSUME NEW j \in Jobs, Request(j)
      PROVE  CoverInv'
  BY <1>4 DEF Request
<1>5. ASSUME NEW j \in Jobs, Start(j)
      PROVE  CoverInv'
  BY <1>5 DEF Start, MayStart
<1>6. ASSUME NEW j \in Jobs, Fetch(j)
      PROVE  CoverInv'
  BY <1>6 DEF Fetch, SyncPage
<1>7. ASSUME NEW j \in Jobs, NEW t \in Txns, Find(j, t)
      PROVE  CoverInv'
  <2>1. UNCHANGED <<addedAt, removedAt, cursor, stored, pc, from, page>>
    BY <1>7 DEF Find
  <2>2. \A i \in Jobs : todo[i] \subseteq todo'[i] \cup stored
    <3>1. CASE t \in stored
      <4>1. todo' = [todo EXCEPT ![j] = @ \ {t}]
        BY <1>7, <3>1 DEF Find
      <4>. QED
        BY <3>1, <4>1
    <3>2. CASE t \notin stored
      <4>1. todo' = todo
        BY <1>7, <3>2 DEF Find
      <4>. QED
        BY <4>1
    <3>. QED
      BY <3>1, <3>2
  <2>. QED
    BY <2>1, <2>2
<1>8. ASSUME NEW j \in Jobs, NEW t \in Txns, Create(j, t)
      PROVE  CoverInv'
  BY <1>8 DEF Create, Insertable
<1>9. ASSUME NEW j \in Jobs, SoftDelete(j)
      PROVE  CoverInv'
  BY <1>9 DEF SoftDelete, Upserted, Marked
<1>10. ASSUME NEW j \in Jobs, NEW t \in Txns, EnqueueCategorize(j, t)
      PROVE  CoverInv'
  BY <1>10 DEF EnqueueCategorize
<1>11. ASSUME NEW j \in Jobs, SaveCursor(j)
      PROVE  CoverInv'
  BY <1>11 DEF SaveCursor, Enqueued, HasMore, NoPage
<1>12. ASSUME NEW j \in Jobs, Drop(j)
      PROVE  CoverInv'
  BY <1>12 DEF Drop, NoPage
<1>13. CASE UNCHANGED vars
  BY <1>13 DEF vars
<1>. QED
  BY <1>1, <1>2, <1>3, <1>4, <1>5, <1>6, <1>7, <1>8, <1>9, <1>10, <1>11, <1>12, <1>13
  DEF Next, Bank, SyncStep, Interrupt, CreateRefused

\* Every step keeps the inserted ids apart.
LEMMA FreshStep ==
  ASSUME TypeOK, LocalInv, FreshInv, [Next]_vars
  PROVE  FreshInv'
<1>. USE BankSyncAssumption DEF TypeOK, LocalInv, FreshInv, bankVars, rowVars, localVars
<1>1. ASSUME NEW t \in Txns, BankPosts(t)
      PROVE  FreshInv'
  BY <1>1 DEF BankPosts, BankAppends
<1>2. ASSUME NEW t \in Txns, BankModifies(t)
      PROVE  FreshInv'
  BY <1>2 DEF BankModifies, BankAppends
<1>3. ASSUME NEW t \in Txns, BankRemoves(t)
      PROVE  FreshInv'
  BY <1>3 DEF BankRemoves, BankAppends
<1>4. ASSUME NEW j \in Jobs, Request(j)
      PROVE  FreshInv'
  BY <1>4 DEF Request
<1>5. ASSUME NEW j \in Jobs, Start(j)
      PROVE  FreshInv'
  BY <1>5 DEF Start, MayStart
<1>6. ASSUME NEW j \in Jobs, Fetch(j)
      PROVE  FreshInv'
  BY <1>6 DEF Fetch, SyncPage
<1>7. ASSUME NEW j \in Jobs, NEW t \in Txns, Find(j, t)
      PROVE  FreshInv'
  BY <1>7 DEF Find
<1>8. ASSUME NEW j \in Jobs, NEW t \in Txns, Create(j, t)
      PROVE  FreshInv'
  BY <1>8 DEF Create, Insertable
<1>9. ASSUME NEW j \in Jobs, SoftDelete(j)
      PROVE  FreshInv'
  BY <1>9 DEF SoftDelete, Upserted, Marked
<1>10. ASSUME NEW j \in Jobs, NEW t \in Txns, EnqueueCategorize(j, t)
      PROVE  FreshInv'
  BY <1>10 DEF EnqueueCategorize
<1>11. ASSUME NEW j \in Jobs, SaveCursor(j)
      PROVE  FreshInv'
  BY <1>11 DEF SaveCursor, Enqueued, HasMore, NoPage
<1>12. ASSUME NEW j \in Jobs, Drop(j)
      PROVE  FreshInv'
  BY <1>12 DEF Drop, NoPage
<1>13. CASE UNCHANGED vars
  BY <1>13 DEF vars
<1>. QED
  BY <1>1, <1>2, <1>3, <1>4, <1>5, <1>6, <1>7, <1>8, <1>9, <1>10, <1>11, <1>12, <1>13
  DEF Next, Bank, SyncStep, Interrupt, CreateRefused

\* Every step keeps what one sync at a time ensures.
LEMMA SerialStep ==
  ASSUME Serial, TypeOK, FeedInv, LocalInv, SerialInv, [Next]_vars
  PROVE  SerialInv'
<1>. USE BankSyncAssumption DEF TypeOK, FeedInv, LocalInv, SerialInv, In, By, Resting, Running, bankVars, rowVars, localVars
<1>1. ASSUME NEW t \in Txns, BankPosts(t)
      PROVE  SerialInv'
  BY <1>1 DEF BankPosts, BankAppends
<1>2. ASSUME NEW t \in Txns, BankModifies(t)
      PROVE  SerialInv'
  BY <1>2 DEF BankModifies, BankAppends
<1>3. ASSUME NEW t \in Txns, BankRemoves(t)
      PROVE  SerialInv'
  BY <1>3 DEF BankRemoves, BankAppends
<1>4. ASSUME NEW j \in Jobs, Request(j)
      PROVE  SerialInv'
  BY <1>4 DEF Request
<1>5. ASSUME NEW j \in Jobs, Start(j)
      PROVE  SerialInv'
  BY <1>5 DEF Start, MayStart
<1>6. ASSUME NEW j \in Jobs, Fetch(j)
      PROVE  SerialInv'
  BY <1>6 DEF Fetch, SyncPage
<1>7. ASSUME NEW j \in Jobs, NEW t \in Txns, Find(j, t)
      PROVE  SerialInv'
  BY <1>7 DEF Find
<1>8. ASSUME NEW j \in Jobs, NEW t \in Txns, Create(j, t)
      PROVE  SerialInv'
  <2>1. pc[j] = "upsert" /\ t \in todo[j]
    BY <1>8 DEF Create, Insertable
  <2>2. t \notin By(removedAt, cursor)
    BY <2>1, SMTT(60)
  <2>3. \A i \in Jobs : pc[i] # "enqueue"
    <3>1. Running(j)
      BY <2>1
    <3>2. \A i \in Jobs : pc[i] = "enqueue" => Running(i)
      OBVIOUS
    <3>. QED
      BY <2>1, <3>1, <3>2
  <2>. QED
    BY <1>8, <2>2, <2>3 DEF Create, Insertable
<1>9. ASSUME NEW j \in Jobs, SoftDelete(j)
      PROVE  SerialInv'
  <2>1. /\ pc[j] = "upsert" /\ pc' = [pc EXCEPT ![j] = "enqueue"]
        /\ removed' = removed \cup (page[j].removed \cap stored)
        /\ UNCHANGED <<stored, cursor, page, removedAt, from>>
    BY <1>9 DEF SoftDelete, Upserted, Marked
  <2>2. By(removedAt, page[j].to) \subseteq
          By(removedAt, cursor) \cup page[j].removed
    <3>1. from[j] = cursor /\ page[j].removed = In(removedAt, from[j], page[j].to)
      BY <2>1
    <3>2. removedAt \in [Txns -> Nat] /\ cursor \in Nat /\ page[j].to \in Nat
      OBVIOUS
    <3>. QED
      BY <3>1, <3>2
  <2>3. \A i \in Jobs : pc[i] # "enqueue"
    <3>1. Running(j)
      BY <2>1
    <3>2. \A i \in Jobs : pc[i] = "enqueue" => Running(i)
      OBVIOUS
    <3>. QED
      BY <2>1, <3>1, <3>2
  <2>4. \A i \in Jobs : pc'[i] = "enqueue" =>
          By(removedAt, page[i].to) \cap stored \subseteq removed'
    BY <2>1, <2>2, <2>3
  <2>5. \A i \in Jobs : Running(i)' <=> Running(i)
    BY <2>1
  <2>. QED
    BY <2>1, <2>4, <2>5
<1>10. ASSUME NEW j \in Jobs, NEW t \in Txns, EnqueueCategorize(j, t)
      PROVE  SerialInv'
  BY <1>10 DEF EnqueueCategorize
<1>11. ASSUME NEW j \in Jobs, SaveCursor(j)
      PROVE  SerialInv'
  BY <1>11 DEF SaveCursor, Enqueued, HasMore, NoPage
<1>12. ASSUME NEW j \in Jobs, Drop(j)
      PROVE  SerialInv'
  <2>1. /\ \A i \in Jobs : i # j => pc'[i] = pc[i] /\ from'[i] = from[i]
                               /\ page'[i] = page[i]
        /\ pc'[j] \in Resting
        /\ UNCHANGED <<stored, removed, cursor, removedAt>>
    BY <1>12 DEF Drop
  <2>. QED
    BY <2>1
<1>13. CASE UNCHANGED vars
  BY <1>13 DEF vars
<1>. QED
  BY <1>1, <1>2, <1>3, <1>4, <1>5, <1>6, <1>7, <1>8, <1>9, <1>10, <1>11, <1>12, <1>13
  DEF Next, Bank, SyncStep, Interrupt, CreateRefused

-----------------------------------------------------------------------------
\* IInv is inductive, with any number of overlapping syncs.
THEOREM Inductive == Spec => []IInv
<1>1. Init => IInv
  BY BankSyncAssumption
  DEF Init, IInv, TypeOK, FeedInv, LocalInv, CoverInv, FreshInv, Due, In, By,
      Resting, Running, NoPage
<1>2. IInv /\ [Next]_vars => IInv'
  BY TypeStep, FeedStep, LocalStep, CoverStep, FreshStep DEF IInv
<1>. QED
  BY <1>1, <1>2, PTL DEF Spec

\* The sync's variables keep their types.
THEOREM TypeCorrect == Spec => []TypeOK
<1>1. IInv => TypeOK
  BY DEF IInv
<1>. QED
  BY <1>1, Inductive, PTL

\* However many syncs of the item overlap, fail and resume, the stored cursor
\* has passed only transactions that have their row.
THEOREM CursorAlwaysCoversRows == Spec => []CursorCoversRows
<1>1. IInv => CursorCoversRows
  BY DEF IInv, CoverInv, Due, CursorCoversRows
<1>. QED
  BY <1>1, Inductive, PTL

\* However many syncs overlap, no row is enqueued for categorisation twice.
THEOREM NeverCategorizedTwice == Spec => []CategorizedOnce
<1>1. IInv => CategorizedOnce
  BY DEF IInv, FreshInv, CategorizedOnce
<1>. QED
  BY <1>1, Inductive, PTL

\* SerialInv is inductive on top of IInv when syncs run one at a time.
THEOREM SerialInductive ==
  ASSUME Serial
  PROVE  Spec => [](IInv /\ SerialInv)
<1>1. Init => SerialInv
  BY DEF Init, SerialInv, In, By, Resting, Running
<1>2. IInv /\ SerialInv /\ [Next]_vars => SerialInv'
  BY SerialStep, Serial DEF IInv
<1>. QED
  BY <1>1, <1>2, Inductive, PTL DEF Spec

\* With one sync at a time, no removed transaction behind the cursor is left
\* or put back among the live rows.
THEOREM RemovalsAlwaysStick ==
  ASSUME Serial
  PROVE  Spec => []RemovalsStick
<1>1. SerialInv => RemovalsStick
  BY DEF SerialInv, RemovalsStick
<1>. QED
  BY <1>1, SerialInductive, Serial, PTL

\* With one sync at a time, the stored cursor never goes back.
THEOREM CursorOnlyAdvances ==
  ASSUME Serial
  PROVE  Spec => CursorNeverBack
<1>1. IInv /\ SerialInv /\ [Next]_vars => [cursor' >= cursor]_vars
  <2>. SUFFICES ASSUME IInv, SerialInv, Next
                PROVE  cursor' >= cursor
    BY DEF vars
  <2>1. cursor \in Nat
    BY DEF IInv, TypeOK
  <2>2. ASSUME NEW j \in Jobs, SaveCursor(j)
        PROVE  cursor' >= cursor
    BY <2>2 DEF SaveCursor, Enqueued, IInv, LocalInv, SerialInv, Running, Resting
  <2>3. CASE UNCHANGED cursor
    BY <2>1, <2>3
  <2>. QED
    BY <2>2, <2>3
    DEF Next, Bank, SyncStep, BankPosts, BankModifies, BankRemoves,
        BankAppends, Request, Start, Fetch, Find, Create, SoftDelete,
        EnqueueCategorize, CreateRefused, Interrupt, Drop
<1>. QED
  BY <1>1, SerialInductive, Serial, PTL DEF Spec, CursorNeverBack

-----------------------------------------------------------------------------
\* With one sync at a time, every step keeps what awaits categorisation ahead of
\* the cursor.
LEMMA QueueStep ==
  ASSUME IInv, SerialInv, QueueInv, [Next]_vars
  PROVE  QueueInv'
<1>. USE BankSyncAssumption DEF QueueInv, TypeOK, Resting, bankVars, rowVars, localVars
<1>. TypeOK /\ LocalInv
  BY DEF IInv
<1>1. ASSUME NEW t \in Txns, BankPosts(t)
      PROVE  QueueInv'
  <2>1. \A j \in Jobs : t \notin missing[j] \cup fresh[j] \/ addedAt'[t] > cursor
    BY <1>1 DEF BankPosts, BankAppends, LocalInv
  <2>. QED
    BY <1>1, <2>1 DEF BankPosts, BankAppends
<1>2. ASSUME NEW t \in Txns, BankModifies(t) \/ BankRemoves(t)
      PROVE  QueueInv'
  BY <1>2 DEF BankModifies, BankRemoves, BankAppends
<1>3. ASSUME NEW j \in Jobs, Request(j)
      PROVE  QueueInv'
  BY <1>3 DEF Request
<1>4. ASSUME NEW j \in Jobs, Start(j)
      PROVE  QueueInv'
  BY <1>4 DEF Start, MayStart
<1>5. ASSUME NEW j \in Jobs, Fetch(j)
      PROVE  QueueInv'
  BY <1>5 DEF Fetch
<1>6. ASSUME NEW j \in Jobs, NEW t \in Txns, Find(j, t)
      PROVE  QueueInv'
  <2>1. CASE t \in stored
    BY <1>6, <2>1 DEF Find
  <2>2. CASE t \notin stored
    <3>1. t \in Known /\ t \in todo[j] /\ pc[j] = "upsert"
      BY <1>6 DEF Find
    <3>2. from[j] = cursor
      BY <3>1 DEF SerialInv, Running
    <3>3. t \notin By(removedAt, cursor) /\ addedAt[t] > 0
      BY <3>1, <3>2 DEF LocalInv, By, In
    <3>4. addedAt[t] > cursor
      BY <2>2, <3>1, <3>3 DEF IInv, CoverInv, Due, By, In
    <3>. QED
      BY <1>6, <2>2, <3>4 DEF Find
  <2>. QED
    BY <2>1, <2>2
<1>7. ASSUME NEW j \in Jobs, NEW t \in Txns, Create(j, t)
      PROVE  QueueInv'
  <2>1. pc[j] = "upsert"
    BY <1>7 DEF Create, LocalInv
  <2>. QED
    BY <1>7, <2>1 DEF Create
<1>8. ASSUME NEW j \in Jobs, SoftDelete(j)
      PROVE  QueueInv'
  BY <1>8 DEF SoftDelete, Upserted
<1>9. ASSUME NEW j \in Jobs, NEW t \in Txns, EnqueueCategorize(j, t)
      PROVE  QueueInv'
  BY <1>9 DEF EnqueueCategorize
<1>10. ASSUME NEW j \in Jobs, SaveCursor(j)
      PROVE  QueueInv'
  <2>1. \A i \in Jobs : missing[i] = {} /\ fresh[i] = {}
    <3>1. pc[j] = "enqueue" /\ fresh[j] = {}
      BY <1>10 DEF SaveCursor, Enqueued
    <3>2. \A i \in Jobs : i # j => pc[i] \in Resting
      BY <3>1 DEF SerialInv, Running
    <3>. QED
      BY <3>1, <3>2 DEF LocalInv
  <2>. QED
    BY <1>10, <2>1 DEF SaveCursor
<1>11. ASSUME NEW j \in Jobs, Drop(j)
      PROVE  QueueInv'
  <2>1. interrupts' # 0 /\ fresh' = [fresh EXCEPT ![j] = {}]
    BY <1>11 DEF Drop
  <2>2. \A i \in Jobs : i # j => pc'[i] = pc[i]
    BY <1>11 DEF Drop
  <2>. QED
    BY <2>1, <2>2
<1>12. CASE UNCHANGED vars
  BY <1>12 DEF vars
<1>. QED
  BY <1>1, <1>2, <1>3, <1>4, <1>5, <1>6, <1>7, <1>8, <1>9, <1>10, <1>11, <1>12
  DEF Next, Bank, SyncStep, Interrupt, CreateRefused

\* With one sync at a time, and while nothing fails, whatever has a row and is
\* behind the cursor has been handed to categorisation, however many pages the
\* feed has and whatever the bank nets, modifies and removes meanwhile.
THEOREM QueuedWhenPassed ==
  ASSUME Serial
  PROVE  Spec => []QueuedUnlessInterrupted
<1>1. Init => QueueInv
  BY DEF Init, QueueInv
<1>2. IInv /\ SerialInv /\ QueueInv /\ [Next]_vars => QueueInv'
  BY QueueStep
<1>3. IInv /\ QueueInv => QueuedUnlessInterrupted
  <2>. SUFFICES ASSUME IInv, QueueInv, interrupts = 0,
                       NEW t \in stored \cap By(addedAt, cursor)
                PROVE  categorize[t] > 0
    BY DEF QueuedUnlessInterrupted
  <2>1. addedAt[t] \in Nat /\ cursor \in Nat /\ addedAt[t] <= cursor
    BY DEF IInv, TypeOK, By, In
  <2>2. \A j \in Jobs : t \notin fresh[j]
    BY <2>1 DEF QueueInv
  <2>. QED
    BY <2>2 DEF QueueInv
<1>. QED
  BY <1>1, <1>2, <1>3, SerialInductive, Serial, PTL DEF Spec

-----------------------------------------------------------------------------
\* A step of the sync is a step of the mirror, or changes nothing it shows.
LEMMA MirrorStep ==
  ASSUME IInv, SerialInv, SerialInv', [Next]_vars
  PROVE  [Mirror!Next]_(Mirror!vars)
<1>. USE BankSyncAssumption DEF IInv, TypeOK, Mirror!AddedBy, Mirror!RemovedBy
<1>. DEFINE Shown == <<addedAt, removedAt, tip, stored, removed, cursor>>
<1>1. ASSUME NEW t \in Txns, BankPosts(t)
      PROVE  Mirror!Publish
  BY <1>1 DEF BankPosts, BankAppends, rowVars, Mirror!Publish
<1>2. ASSUME NEW t \in Txns, BankModifies(t)
      PROVE  Mirror!Publish
  BY <1>2 DEF BankModifies, BankAppends, rowVars, Mirror!Publish
<1>3. ASSUME NEW t \in Txns, BankRemoves(t)
      PROVE  Mirror!Publish
  <2>1. t \in Mirror!AddedBy(tip)
    BY <1>3 DEF BankRemoves, FeedInv
  <2>. QED
    BY <1>3, <2>1 DEF BankRemoves, BankAppends, rowVars, Mirror!Publish
<1>4. ASSUME NEW j \in Jobs, NEW t \in Txns, Create(j, t)
      PROVE  Mirror!Store
  <2>1. t \in Known \cap Mirror!AddedBy(tip)
    BY <1>4 DEF Create, LocalInv, In, By
  <2>. QED
    BY <1>4, <2>1 DEF Create, bankVars, Mirror!Store
<1>5. ASSUME NEW j \in Jobs, SoftDelete(j)
      PROVE  Mirror!MarkRemoved
  <2>1. page[j].removed \subseteq Mirror!RemovedBy(tip)
    BY <1>5 DEF SoftDelete, Upserted, LocalInv, In, By
  <2>. QED
    BY <1>5, <2>1 DEF SoftDelete, Marked, bankVars, Mirror!MarkRemoved
<1>6. ASSUME NEW j \in Jobs, SaveCursor(j)
      PROVE  Mirror!Checkpoint
  <2>1. page[j].to \in cursor..tip
    <3>1. pc[j] = "enqueue" /\ Running(j)
      BY <1>6 DEF SaveCursor, Enqueued, Running, Resting
    <3>2. from[j] = cursor
      BY <3>1 DEF SerialInv
    <3>3. from[j] <= page[j].to /\ page[j].to <= tip
      BY <3>1 DEF LocalInv
    <3>4. cursor \in Nat /\ tip \in Nat /\ page[j].to \in Nat
      OBVIOUS
    <3>. QED
      BY <3>2, <3>3, <3>4
  <2>2. Mirror!MirroredUpTo(page[j].to)
    BY <1>6 DEF SaveCursor, Enqueued, CoverInv, SerialInv, Due, In, By,
                Mirror!MirroredUpTo
  <2>. QED
    BY <1>6, <2>1, <2>2 DEF SaveCursor, Enqueued, bankVars, rowVars, Mirror!Checkpoint
<1>7. CASE UNCHANGED Shown
  BY <1>7 DEF Mirror!vars
<1>8. \/ \E t \in Txns : BankPosts(t) \/ BankModifies(t) \/ BankRemoves(t)
      \/ \E j \in Jobs, t \in Txns : Create(j, t)
      \/ \E j \in Jobs : SoftDelete(j) \/ SaveCursor(j)
      \/ UNCHANGED Shown
  BY DEF Next, Bank, SyncStep, Request, Start, Fetch, Find, EnqueueCategorize,
         CreateRefused, Interrupt, Drop, bankVars, rowVars, vars
<1>. QED
  BY <1>1, <1>2, <1>3, <1>4, <1>5, <1>6, <1>7, <1>8 DEF Mirror!Next

\* With one sync at a time, the job implements the mirror that BankMirror
\* specifies: rows only of published transactions, removals only of removed
\* ones, and a cursor that moves forward over what is mirrored.
THEOREM ImplementsMirror ==
  ASSUME Serial
  PROVE  Spec => MirrorSpec
<1>1. Init => Mirror!Init
  BY DEF Init, Mirror!Init
<1>2. /\ IInv /\ SerialInv /\ [Next]_vars /\ (IInv /\ SerialInv)'
      => [Mirror!Next]_(Mirror!vars)
  BY MirrorStep
<1>. QED
  BY <1>1, <1>2, SerialInductive, Serial, PTL DEF Spec, MirrorSpec, Mirror!Spec
=============================================================================
