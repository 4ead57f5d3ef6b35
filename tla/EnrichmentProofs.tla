-------------------------- MODULE EnrichmentProofs --------------------------
(***************************************************************************)
(* Proofs about Enrichment, for all transactions, merchants, slots and      *)
(* bounds.  First the limiter in it: the counter is the number of calls,    *)
(* whoever waits is in the line once, and nobody waits at a free place, so  *)
(* that it is a line at MaxConcurrent counters.  Then the jobs: the types,  *)
(* that places are given back, and that a done job has enqueued what its    *)
(* category calls for.  At last how often the LLM is asked, and that the    *)
(* baselines count what is categorised.                                     *)
(***************************************************************************)
EXTENDS Enrichment, FiniteSetTheorems, SequenceTheorems, TLAPS

Callers == Slots \cup Writers

\* The counter counts the calls.
CounterInv == IsFiniteSet(LLM!Calling) /\ running = Cardinality(LLM!Calling)

\* The line has each waiting caller, once.
LineInv ==
    /\ \A i \in 1 .. Len(waiters) : phase[waiters[i]] = "waiting"
    /\ \A c \in Callers : phase[c] = "waiting" => \E i \in 1 .. Len(waiters) : waiters[i] = c
    /\ \A i, j \in 1 .. Len(waiters) : waiters[i] = waiters[j] => i = j

\* Nobody waits at a free place.
FullInv == waiters # <<>> => running = MaxConcurrent

LimiterInv == LLM!TypeOK /\ CounterInv /\ LineInv /\ FullInv

RowTypes ==
    /\ category \in [Txns -> Categories \cup {None}]
    /\ hint \in [Txns -> Categories \cup {None}]
    /\ live \subseteq Txns
    /\ cache \in [Merchants -> Categories \cup {None}]
    /\ baseline \in [Categories -> SUBSET Txns]
    /\ anomaly \subseteq Txns /\ match \subseteq Txns
    /\ asked \in [Merchants -> Nat]

SlotTypes ==
    /\ jobs \in [Txns -> {"none", "waiting", "active", "done", "dead"}]
    /\ recompute \in Nat /\ faults \in Nat
    /\ pc \in [Slots -> Steps]
    /\ job \in [Slots -> Txns \cup {None}]
    /\ answer \in [Slots -> Categories \cup {None}]
    /\ view \in [BaselineSlots -> [Categories -> SUBSET Txns]] /\ ranAlone \in BOOLEAN

\* A slot at work has a job of its own, and an answer once it has resolved one.
JobInv ==
    \A w \in Slots :
        /\ pc[w] # "idle" => job[w] \in Txns /\ jobs[job[w]] = "active"
        /\ pc[w] \notin {"idle", "resolve", "llm"} => answer[w] \in Categories
        /\ \A v \in Slots : pc[w] # "idle" /\ pc[v] # "idle" /\ job[v] = job[w] => v = w

\* How far the fan-out of the slot's job has come.
FanInv ==
    \A w \in Slots :
        /\ pc[w] \in {"baseline", "anomaly", "match", "return"} => category[job[w]] = answer[w]
        /\ pc[w] \in {"match", "return"} /\ answer[w] \in Recurring => job[w] \in anomaly
        /\ pc[w] = "return" /\ answer[w] \in Triggers => job[w] \in match

IInv == RowTypes /\ SlotTypes /\ PlacesAreGivenBack /\ JobInv /\ FanInv /\ DoneIsFannedOut

\* The slots at a step for a transaction of the merchant.
At(step, m) == {w \in Slots : pc[w] = step /\ Merchant(w) = m}

\* Before the first upsert every answer is on its way to the cache or was lost with
\* its attempt; after it, only the slots in their call are still to add one.
AskedOf(m) ==
    /\ cache[m] = None =>
         asked[m] <= Cardinality(Slots) * faults + Cardinality(At("cache", m))
    /\ cache[m] # None =>
         asked[m] + Cardinality(At("llm", m)) <= Cardinality(Slots) * (1 + faults)

\* The slot has the LLM's answer about the merchant, directly or from the cache.
Holds(w, m) ==
    /\ pc[w] \notin {"idle", "resolve", "llm"}
    /\ hint[job[w]] = None /\ Merchant(w) = m

\* The merchant's transactions about which Plaid has no hint.
Unknown(m) == {t \in Txns : MerchantOf[t] = m /\ hint[t] = None}

\* A single answer is with one slot before it is in the cache, and everywhere the
\* cache's afterwards.
OneAnswer(m) ==
    /\ asked[m] = 0 => cache[m] = None
    /\ asked[m] \in {0, 1} /\ cache[m] = None =>
         /\ \A t \in Unknown(m) : category[t] = None
         /\ \A w \in Slots : Holds(w, m) =>
              /\ asked[m] = 1 /\ pc[w] = "cache"
              /\ \A v \in Slots : Holds(v, m) => v = w
    /\ asked[m] = 1 /\ cache[m] # None =>
         /\ \A t \in Unknown(m) : category[t] \in {None, cache[m]}
         /\ \A w \in Slots : Holds(w, m) => pc[w] # "cache" /\ answer[w] = cache[m]

\* Only what Plaid does not know is asked.
Unhinted == \A w \in Slots : pc[w] \in {"llm", "cache"} => hint[job[w]] = None

CacheInv == Unhinted /\ \A m \in Merchants : AskedOf(m) /\ OneAnswer(m)

\* A recomputation was enqueued after the category of the transaction was saved.
Announced(t) ==
    \/ jobs[t] = "done"
    \/ \E w \in Slots : pc[w] \in {"anomaly", "match", "return"} /\ job[w] = t

\* The baseline of the category once the recomputation that runs has written it.
Ahead(c) == UNION {view[b][c] : b \in BaselineSlots}
Target(c) == IF Ahead(c) # {} THEN Ahead(c) ELSE baseline[c]

\* The recomputation that ran alone is the only one that runs.
AloneInv == ranAlone => \A a, b \in Busy : a = b

\* When no recomputation waits and the last one ran alone, the baselines agree with
\* the announced transactions.
CountInv ==
    /\ live \subseteq Stored
    /\ AloneInv
    /\ recompute = 0 /\ ranAlone =>
         \A c \in Categories, t \in Txns : Announced(t) =>
            /\ t \in Counted(c) => t \in Target(c)
            /\ t \in Target(c) /\ t \in live /\ category[t] # c =>
                 \A u \in Counted(c) : ~Announced(u)

-----------------------------------------------------------------------------
(* The limiter. *)

\* What the first of a line and the others are.
LEMMA FirstInLine ==
  ASSUME LimiterInv, waiters # <<>>
  PROVE  /\ Len(waiters) \in Nat \ {0}
         /\ Head(waiters) = waiters[1] /\ waiters[1] \in Callers
         /\ phase[Head(waiters)] = "waiting"
         /\ Tail(waiters) \in Seq(Callers)
         /\ Len(Tail(waiters)) = Len(waiters) - 1
         /\ \A i \in 1 .. Len(Tail(waiters)) : Tail(waiters)[i] = waiters[i + 1]
<1>. waiters \in Seq(Callers)
  BY DEF LimiterInv, LLM!TypeOK, Callers
<1>1. Len(waiters) \in Nat \ {0}
  BY EmptySeq, LenProperties
<1>. QED
  BY <1>1 DEF LimiterInv, LineInv

LEMMA AcquireStep ==
  ASSUME LimiterInv, NEW c \in Callers, LLM!Acquire(c)
  PROVE  LimiterInv'
<1>. USE LimitAssumption DEF LimiterInv, LLM!TypeOK, Callers
<1>1. CASE LLM!Admits
  <2>1. /\ running' = running + 1 /\ waiters' = waiters
        /\ phase' = [phase EXCEPT ![c] = "calling"] /\ phase[c] = "out"
    BY <1>1 DEF LLM!Acquire
  <2>2. LLM!Calling' = LLM!Calling \cup {c} /\ c \notin LLM!Calling
    BY <2>1 DEF LLM!Calling
  <2>3. CounterInv'
    BY <2>1, <2>2, FS_AddElement DEF CounterInv
  <2>4. LineInv'
    BY <2>1 DEF LineInv
  <2>5. FullInv'
    BY <1>1, <2>1 DEF FullInv, LLM!Admits
  <2>. QED
    BY <1>1, <2>1, <2>3, <2>4, <2>5 DEF LLM!Admits
<1>2. CASE ~LLM!Admits
  <2>1. /\ running' = running /\ waiters' = Append(waiters, c)
        /\ phase' = [phase EXCEPT ![c] = "waiting"] /\ phase[c] = "out"
    BY <1>2 DEF LLM!Acquire
  <2>2. /\ waiters' \in Seq(Callers) /\ Len(waiters) \in Nat
        /\ Len(waiters') = Len(waiters) + 1 /\ waiters'[Len(waiters) + 1] = c
        /\ \A i \in 1 .. Len(waiters) : waiters'[i] = waiters[i] /\ waiters[i] \in Callers
    BY <2>1
  <2>3. CounterInv'
    <3>. LLM!Calling' = LLM!Calling
      BY <2>1 DEF LLM!Calling
    <3>. QED
      BY <2>1 DEF CounterInv
  <2>4. LineInv'
    BY <2>1, <2>2 DEF LineInv
  <2>5. FullInv'
    BY <1>2, <2>1 DEF FullInv, LLM!Admits
  <2>. QED
    BY <2>1, <2>2, <2>3, <2>4, <2>5
<1>. QED
  BY <1>1, <1>2

LEMMA ReleaseStep ==
  ASSUME LimiterInv, NEW c \in Callers, LLM!Release(c)
  PROVE  LimiterInv'
<1>. USE LimitAssumption DEF LimiterInv, LLM!TypeOK, Callers
<1>0. phase[c] = "calling" /\ c \in LLM!Calling /\ running \in Nat \ {0}
  <2>1. phase[c] = "calling" /\ c \in LLM!Calling
    BY DEF LLM!Release, LLM!Calling
  <2>2. Cardinality(LLM!Calling) # 0
    BY <2>1, FS_EmptySet DEF CounterInv
  <2>. QED
    BY <2>1, <2>2 DEF CounterInv
<1>1. CASE waiters = <<>>
  <2>1. /\ running' = running - 1 /\ waiters' = waiters
        /\ phase' = [phase EXCEPT ![c] = "out"]
    BY <1>1 DEF LLM!Release
  <2>2. LLM!Calling' = LLM!Calling \ {c}
    BY <2>1 DEF LLM!Calling
  <2>3. CounterInv'
    BY <1>0, <2>1, <2>2, FS_RemoveElement DEF CounterInv
  <2>4. LineInv' /\ FullInv'
    BY <1>0, <1>1, <2>1 DEF LineInv, FullInv
  <2>. QED
    BY <1>0, <2>1, <2>3, <2>4
<1>2. CASE waiters # <<>>
  <2>1. /\ running' = running /\ waiters' = Tail(waiters)
        /\ phase' = [phase EXCEPT ![c] = "out", ![Head(waiters)] = "calling"]
    BY <1>2 DEF LLM!Release, LLM!Handed
  <2>2. Head(waiters) \in Callers /\ Head(waiters) # c /\ Head(waiters) \notin LLM!Calling
    BY <1>0, <1>2, FirstInLine DEF LLM!Calling
  <2>3. LLM!Calling' = (LLM!Calling \ {c}) \cup {Head(waiters)}
    BY <2>1, <2>2 DEF LLM!Calling
  <2>4. CounterInv'
    <3>. DEFINE Left == LLM!Calling \ {c}
    <3>1. IsFiniteSet(Left) /\ Cardinality(Left) = running - 1
      BY <1>0, FS_RemoveElement DEF CounterInv
    <3>2. Head(waiters) \notin Left
      BY <2>2
    <3>. HIDE DEF Left
    <3>3. /\ IsFiniteSet(Left \cup {Head(waiters)})
          /\ Cardinality(Left \cup {Head(waiters)}) = running - 1 + 1
      BY <3>1, <3>2, FS_AddElement
    <3>4. LLM!Calling' = Left \cup {Head(waiters)}
      BY <2>3 DEF Left
    <3>. QED
      BY <1>0, <2>1, <3>3, <3>4 DEF CounterInv
  <2>5. LineInv'
    <3>1. /\ Len(waiters) \in Nat \ {0} /\ Head(waiters) = waiters[1]
          /\ Len(waiters') = Len(waiters) - 1
          /\ \A i \in 1 .. Len(waiters') : waiters'[i] = waiters[i + 1]
      BY <1>2, <2>1, FirstInLine
    <3>2. \A i \in 1 .. Len(waiters) : waiters[i] \in Callers
      OBVIOUS
    <3>3. \A i \in 1 .. Len(waiters') :
            /\ i + 1 \in 1 .. Len(waiters) /\ waiters'[i] \in Callers
            /\ waiters'[i] # Head(waiters) /\ phase[waiters'[i]] = "waiting"
      <4>. SUFFICES ASSUME NEW i \in 1 .. Len(waiters')
                    PROVE  /\ i + 1 \in 1 .. Len(waiters) /\ waiters'[i] \in Callers
                           /\ waiters'[i] # Head(waiters) /\ phase[waiters'[i]] = "waiting"
        OBVIOUS
      <4>1. i + 1 \in 1 .. Len(waiters) /\ 1 \in 1 .. Len(waiters) /\ i + 1 # 1
        BY <3>1
      <4>2. waiters'[i] = waiters[i + 1]
        BY <3>1
      <4>3. waiters[i + 1] # waiters[1] /\ phase[waiters[i + 1]] = "waiting"
        BY <4>1 DEF LineInv
      <4>. QED
        BY <3>1, <3>2, <4>1, <4>2, <4>3
    <3>4. \A i \in 1 .. Len(waiters') : phase'[waiters'[i]] = "waiting"
      BY <1>0, <2>1, <2>2, <3>3
    <3>5. ASSUME NEW d \in Callers, phase'[d] = "waiting"
          PROVE  \E i \in 1 .. Len(waiters') : waiters'[i] = d
      <4>1. phase[d] = "waiting" /\ d # Head(waiters)
        BY <2>1, <2>2, <3>5
      <4>2. PICK i \in 1 .. Len(waiters) : waiters[i] = d
        BY <4>1 DEF LineInv
      <4>3. i - 1 \in 1 .. Len(waiters') /\ waiters'[i - 1] = d
        BY <3>1, <4>1, <4>2
      <4>. QED
        BY <4>3
    <3>6. \A i, j \in 1 .. Len(waiters') : waiters'[i] = waiters'[j] => i = j
      BY <3>1, <3>3 DEF LineInv
    <3>. QED
      BY <3>4, <3>5, <3>6 DEF LineInv
  <2>6. FullInv'
    BY <1>2, <2>1 DEF FullInv
  <2>7. waiters' \in Seq(Callers)
    BY <1>2, <2>1, FirstInLine
  <2>. QED
    BY <2>1, <2>2, <2>4, <2>5, <2>6, <2>7
<1>. QED
  BY <1>1, <1>2

LEMMA LimiterStep ==
  ASSUME LimiterInv, [LLM!Next]_limiterVars
  PROVE  LimiterInv'
<1>. USE DEF Callers
<1>1. CASE LLM!Restart
  <2>1. running' = 0 /\ waiters' = <<>> /\ phase' = [c \in Callers |-> "out"]
    BY <1>1 DEF LLM!Restart
  <2>2. LLM!Calling' = {}
    BY <2>1 DEF LLM!Calling
  <2>3. CounterInv'
    BY <2>1, <2>2, FS_EmptySet DEF CounterInv
  <2>. QED
    BY <2>1, <2>3, LimitAssumption DEF LimiterInv, LLM!TypeOK, LineInv, FullInv
<1>2. CASE UNCHANGED limiterVars
  BY <1>2 DEF limiterVars, LimiterInv, LLM!TypeOK, CounterInv, LineInv, FullInv, LLM!Calling
<1>. QED
  BY <1>1, <1>2, AcquireStep, ReleaseStep DEF LLM!Next

\* Every step of Enrichment is one of the limiter, or leaves it alone.
LEMMA StepOfLimiter ==
  ASSUME [Next]_vars
  PROVE  [LLM!Next]_limiterVars
<1>1. CASE UNCHANGED limiterVars
  BY <1>1
<1>2. ASSUME NEW c \in Callers, LLM!Acquire(c) \/ LLM!Release(c)
      PROVE  LLM!Next
  BY <1>2 DEF LLM!Next, Callers
<1>4. ASSUME LLM!Restart
      PROVE  LLM!Next
  BY <1>4 DEF LLM!Next
<1>5. ASSUME NEW w \in Slots, CategorizeStep(w) \/ Fail(w)
      PROVE  UNCHANGED limiterVars \/ (w \in Callers /\ (LLM!Acquire(w) \/ LLM!Release(w)))
  BY <1>5 DEF Callers, CategorizeStep, Take, ResolveKnown, Resolved, CacheMiss, CallEnds, Answered,
        SaveToCache, SaveEnrichment, EnqueueBaseline, EnqueueAnomaly, EnqueueMatch, Finish,
        Fail, GiveBack
<1>6. ASSUME NEW w \in Writers, WriterAsks(w) \/ WriterDone(w)
      PROVE  w \in Callers /\ (LLM!Acquire(w) \/ LLM!Release(w))
  BY <1>6 DEF Callers, WriterAsks, WriterDone
<1>7. ASSUME NEW b \in BaselineSlots, BaselineStep(b) \/ BaselineFails(b)
      PROVE  UNCHANGED limiterVars
  BY <1>7 DEF BaselineStep, ReadRows, WriteBaseline, BaselineFails
<1>8. ASSUME NEW t \in Txns, Store(t) \/ Remove(t)
      PROVE  UNCHANGED limiterVars
  BY <1>8 DEF Store, Remove
<1>9. CASE Crash
  BY <1>9, <1>4 DEF Crash
<1>10. CASE UNCHANGED vars
  BY <1>10, <1>1 DEF vars
<1>. QED
  BY <1>1, <1>2, <1>5, <1>6, <1>7, <1>8, <1>9, <1>10 DEF Next

LEMMA LimiterInvariant == Spec => []LimiterInv
<1>1. Init => LimiterInv
  <2>. SUFFICES ASSUME LLM!Init
                PROVE  LimiterInv
    BY DEF Init
  <2>1. running = 0 /\ waiters = <<>> /\ phase = [c \in Slots \cup Writers |-> "out"]
    BY DEF LLM!Init
  <2>2. LLM!Calling = {}
    BY <2>1 DEF LLM!Calling
  <2>3. CounterInv
    BY <2>1, <2>2, FS_EmptySet DEF CounterInv
  <2>. QED
    BY <2>1, <2>3, LimitAssumption DEF Callers, LimiterInv, LLM!TypeOK, LineInv, FullInv
<1>2. LimiterInv /\ [Next]_vars => LimiterInv'
  BY StepOfLimiter, LimiterStep
<1>. QED
  BY <1>1, <1>2, PTL DEF Spec

-----------------------------------------------------------------------------
\* What a call to the limiter does to the phases.
LEMMA AcquirePhase ==
  ASSUME NEW w \in Slots \cup Writers, LimiterInv, LLM!Acquire(w)
  PROVE  /\ phase[w] = "out" /\ phase'[w] # "out"
         /\ \A v \in Slots \cup Writers : v # w => phase'[v] = phase[v]
  BY DEF LLM!Acquire, LimiterInv, LLM!TypeOK

LEMMA ReleasePhase ==
  ASSUME NEW w \in Slots \cup Writers, LimiterInv, LLM!Release(w)
  PROVE  /\ phase[w] = "calling" /\ phase'[w] = "out"
         /\ \A v \in Slots \cup Writers :
              v # w => (phase'[v] = "out" <=> phase[v] = "out")
<1>. phase \in [Slots \cup Writers -> {"out", "waiting", "calling"}] /\ phase[w] = "calling"
     /\ waiters \in Seq(Slots \cup Writers)
  BY DEF LLM!Release, LimiterInv, LLM!TypeOK
<1>1. CASE waiters = <<>>
  BY <1>1 DEF LLM!Release
<1>2. CASE waiters # <<>>
  <2>1. Head(waiters) \in Slots \cup Writers /\ phase[Head(waiters)] = "waiting"
    BY <1>2, FirstInLine
  <2>. QED
    BY <1>2, <2>1 DEF LLM!Release
<1>. QED
  BY <1>1, <1>2

\* A slot changes its own place only, and that with its step.
LEMMA PlacesStep ==
  ASSUME IInv, LimiterInv, [Next]_vars
  PROVE  PlacesAreGivenBack'
<1>. USE DEF IInv, SlotTypes, Goto
<1>. SUFFICES ASSUME NEW v \in Slots
              PROVE  phase'[v] # "out" <=> pc'[v] = "llm"
  BY DEF PlacesAreGivenBack
<1>. phase[v] # "out" <=> pc[v] = "llm"
  BY DEF PlacesAreGivenBack
<1>1. ASSUME NEW w \in Slots, CategorizeStep(w)
      PROVE  phase'[v] # "out" <=> pc'[v] = "llm"
  <2>. phase[w] # "out" <=> pc[w] = "llm"
    BY DEF PlacesAreGivenBack
  <2>1. CASE CacheMiss(w)
    BY <2>1, AcquirePhase DEF CacheMiss
  <2>2. CASE CallEnds(w)
    BY <2>2, ReleasePhase DEF CallEnds, Answered
  <2>3. CASE \E t \in Txns : Take(w, t)
    BY <2>3 DEF Take, limiterVars
  <2>4. CASE ResolveKnown(w) \/ SaveToCache(w) \/ SaveEnrichment(w) \/ Finish(w)
    BY <2>4 DEF ResolveKnown, Resolved, SaveToCache, SaveEnrichment, Finish, limiterVars
  <2>5. CASE EnqueueBaseline(w) \/ EnqueueAnomaly(w) \/ EnqueueMatch(w)
    BY <2>5 DEF EnqueueBaseline, EnqueueAnomaly, EnqueueMatch, AfterBaseline, limiterVars
  <2>. QED
    BY <1>1, <2>1, <2>2, <2>3, <2>4, <2>5 DEF CategorizeStep
<1>2. ASSUME NEW w \in Slots, Fail(w)
      PROVE  phase'[v] # "out" <=> pc'[v] = "llm"
  <2>. phase[w] # "out" <=> pc[w] = "llm"
    BY DEF PlacesAreGivenBack
  <2>1. pc' = [pc EXCEPT ![w] = "idle"] /\ phase[w] # "waiting"
    BY <1>2 DEF Fail
  <2>2. CASE phase[w] = "calling"
    BY <1>2, <2>1, <2>2, ReleasePhase DEF Fail, GiveBack
  <2>3. CASE phase[w] # "calling"
    <3>1. phase[w] = "out"
      BY <2>1, <2>3 DEF LimiterInv, LLM!TypeOK
    <3>. QED
      BY <1>2, <2>1, <2>3, <3>1 DEF Fail, GiveBack, limiterVars
  <2>. QED
    BY <2>2, <2>3
<1>3. ASSUME NEW w \in Writers, WriterAsks(w) \/ WriterDone(w)
      PROVE  phase'[v] # "out" <=> pc'[v] = "llm"
  <2>1. pc' = pc /\ v # w
    BY <1>3, DataAssumption DEF WriterAsks, WriterDone, slotVars
  <2>. QED
    BY <1>3, <2>1, AcquirePhase, ReleasePhase DEF WriterAsks, WriterDone
<1>4. ASSUME NEW b \in BaselineSlots, BaselineStep(b) \/ BaselineFails(b)
      PROVE  phase'[v] # "out" <=> pc'[v] = "llm"
  BY <1>4 DEF BaselineStep, ReadRows, WriteBaseline, BaselineFails, limiterVars, slotVars
<1>5. ASSUME NEW t \in Txns, Store(t) \/ Remove(t)
      PROVE  phase'[v] # "out" <=> pc'[v] = "llm"
  BY <1>5 DEF Store, Remove, limiterVars, slotVars
<1>6. CASE Crash
  BY <1>6 DEF Crash, LLM!Restart
<1>7. CASE UNCHANGED vars
  BY <1>7 DEF vars, limiterVars, slotVars
<1>. QED
  BY <1>1, <1>2, <1>3, <1>4, <1>5, <1>6, <1>7 DEF Next

-----------------------------------------------------------------------------
\* What the rows, the cache and the answers may hold.
LEMMA KnownType ==
  ASSUME IInv, NEW w \in Slots, pc[w] = "resolve"
  PROVE  Known(w) \in Categories \cup {None}
  BY DataAssumption DEF IInv, JobInv, RowTypes, Known, Merchant

LEMMA TypesStep ==
  ASSUME IInv, [Next]_vars
  PROVE  RowTypes' /\ SlotTypes'
<1>. USE DEF IInv, RowTypes, SlotTypes, Goto, Steps
<1>1. ASSUME NEW w \in Slots, CategorizeStep(w)
      PROVE  RowTypes' /\ SlotTypes'
  <2>1. CASE \E t \in Txns : Take(w, t)
    BY <2>1 DEF Take, rowVars, baselineVars
  <2>2. CASE ResolveKnown(w)
    BY <2>2, KnownType DEF ResolveKnown, Resolved, rowVars, baselineVars
  <2>3. CASE CacheMiss(w)
    BY <2>3 DEF CacheMiss, rowVars, baselineVars
  <2>4. CASE CallEnds(w)
    <3>1. PICK c \in Categories :
             /\ pc[w] = "llm" /\ answer' = [answer EXCEPT ![w] = c]
             /\ asked' = [asked EXCEPT ![Merchant(w)] = @ + 1]
             /\ pc' = [pc EXCEPT ![w] = "cache"]
             /\ UNCHANGED <<rowVars, live, jobs, recompute, job, baselineVars, faults>>
      BY <2>4 DEF CallEnds, Answered
    <3>2. Merchant(w) \in Merchants
      BY <3>1, DataAssumption DEF Merchant, JobInv
    <3>. QED
      BY <3>1, <3>2 DEF rowVars, baselineVars
  <2>5. CASE SaveToCache(w)
    <3>1. Merchant(w) \in Merchants /\ answer[w] \in Categories
      BY <2>5, DataAssumption DEF SaveToCache, Merchant, JobInv
    <3>2. cache' \in [Merchants -> Categories \cup {None}]
      BY <2>5, <3>1 DEF SaveToCache, Cached
    <3>. QED
      BY <2>5, <3>2 DEF SaveToCache, baselineVars
  <2>6. CASE SaveEnrichment(w)
    BY <2>6 DEF SaveEnrichment, JobInv, baselineVars
  <2>7. CASE EnqueueBaseline(w)
    BY <2>7 DEF EnqueueBaseline, AfterBaseline, rowVars, baselineVars
  <2>8. CASE EnqueueAnomaly(w)
    BY <2>8 DEF EnqueueAnomaly, JobInv, baselineVars
  <2>9. CASE EnqueueMatch(w)
    BY <2>9 DEF EnqueueMatch, JobInv, baselineVars
  <2>10. CASE Finish(w)
    BY <2>10 DEF Finish, rowVars, baselineVars
  <2>. QED
    BY <1>1, <2>1, <2>2, <2>3, <2>4, <2>5, <2>6, <2>7, <2>8, <2>9, <2>10 DEF CategorizeStep
<1>2. ASSUME NEW w \in Slots, Fail(w)
      PROVE  RowTypes' /\ SlotTypes'
  <2>1. PICK state \in {"waiting", "dead"} : jobs' = [jobs EXCEPT ![job[w]] = state]
    BY <1>2 DEF Fail
  <2>2. /\ faults' = faults + 1 /\ pc' = [pc EXCEPT ![w] = "idle"]
        /\ job' = [job EXCEPT ![w] = None] /\ answer' = [answer EXCEPT ![w] = None]
        /\ UNCHANGED <<rowVars, live, recompute, baselineVars, asked>>
    BY <1>2 DEF Fail
  <2>3. jobs' \in [Txns -> {"none", "waiting", "active", "done", "dead"}]
    BY <2>1
  <2>. QED
    BY <2>2, <2>3 DEF rowVars, baselineVars
<1>3. ASSUME NEW w \in Writers, WriterAsks(w) \/ WriterDone(w)
      PROVE  RowTypes' /\ SlotTypes'
  BY <1>3 DEF WriterAsks, WriterDone, rowVars, slotVars, baselineVars
<1>4. ASSUME NEW b \in BaselineSlots, BaselineStep(b) \/ BaselineFails(b)
      PROVE  RowTypes' /\ SlotTypes'
  <2>1. CASE ReadRows(b)
    BY <2>1 DEF ReadRows, Counted, rowVars, slotVars
  <2>2. ASSUME NEW c \in Categories, WriteBaseline(b, c)
        PROVE  RowTypes' /\ SlotTypes'
    BY <2>2 DEF WriteBaseline, Written, rowVars, slotVars
  <2>3. CASE BaselineFails(b)
    BY <2>3 DEF BaselineFails, NoView, rowVars, slotVars
  <2>. QED
    BY <1>4, <2>1, <2>2, <2>3 DEF BaselineStep
<1>5. ASSUME NEW t \in Txns, Store(t) \/ Remove(t)
      PROVE  RowTypes' /\ SlotTypes'
  BY <1>5 DEF Store, Remove, rowVars, slotVars, baselineVars
<1>6. CASE Crash
  <2>1. Cardinality(Busy) \in Nat
    BY DataAssumption, FS_Subset, FS_CardinalityType DEF Busy
  <2>2. recompute' \in Nat /\ ranAlone' \in BOOLEAN
    <3>1. PICK buried \in 0 .. Cardinality(BaselineSlots) :
            /\ buried <= recompute + Cardinality(Busy)
            /\ recompute' = recompute + Cardinality(Busy) - buried
            /\ ranAlone' = (ranAlone /\ buried = 0)
      BY <1>6 DEF Crash
    <3>. QED
      BY <2>1, <3>1
  <2>3. jobs' \in [Txns -> {"none", "waiting", "active", "done", "dead"}]
    BY <1>6 DEF Crash
  <2>. QED
    BY <1>6, <2>2, <2>3 DEF Crash, NoView, rowVars
<1>7. CASE UNCHANGED vars
  BY <1>7 DEF vars, rowVars, slotVars, baselineVars
<1>. QED
  BY <1>1, <1>2, <1>3, <1>4, <1>5, <1>6, <1>7 DEF Next

\* A waiting job is no slot's; the slot that takes it makes it its own.
LEMMA JobStep ==
  ASSUME IInv, [Next]_vars
  PROVE  JobInv'
<1>. USE DEF IInv, JobInv, SlotTypes, Goto, Steps
<1>1. ASSUME NEW w \in Slots, CategorizeStep(w)
      PROVE  JobInv'
  <2>1. CASE \E t \in Txns : Take(w, t)
    BY <2>1 DEF Take
  <2>2. CASE ResolveKnown(w)
    BY <2>2, KnownType DEF ResolveKnown, Resolved
  <2>3. CASE CacheMiss(w)
    BY <2>3 DEF CacheMiss
  <2>4. CASE CallEnds(w)
    BY <2>4 DEF CallEnds, Answered
  <2>5. CASE SaveToCache(w) \/ SaveEnrichment(w)
    BY <2>5 DEF SaveToCache, SaveEnrichment
  <2>6. CASE EnqueueBaseline(w) \/ EnqueueAnomaly(w) \/ EnqueueMatch(w)
    BY <2>6 DEF EnqueueBaseline, EnqueueAnomaly, EnqueueMatch, AfterBaseline
  <2>7. CASE Finish(w)
    BY <2>7 DEF Finish
  <2>. QED
    BY <1>1, <2>1, <2>2, <2>3, <2>4, <2>5, <2>6, <2>7 DEF CategorizeStep
<1>2. ASSUME NEW w \in Slots, Fail(w)
      PROVE  JobInv'
  BY <1>2 DEF Fail
<1>3. ASSUME NEW w \in Writers, WriterAsks(w) \/ WriterDone(w)
      PROVE  JobInv'
  BY <1>3 DEF WriterAsks, WriterDone, slotVars
<1>4. ASSUME NEW b \in BaselineSlots, BaselineStep(b) \/ BaselineFails(b)
      PROVE  JobInv'
  <2>1. UNCHANGED <<jobs, slotVars>>
    BY <1>4 DEF BaselineStep, ReadRows, WriteBaseline, BaselineFails
  <2>. QED
    BY <2>1 DEF slotVars
<1>5. ASSUME NEW t \in Txns, Store(t) \/ Remove(t)
      PROVE  JobInv'
  BY <1>5 DEF Store, Remove, Stored, slotVars
<1>6. CASE Crash
  BY <1>6 DEF Crash
<1>7. CASE UNCHANGED vars
  BY <1>7 DEF vars, slotVars
<1>. QED
  BY <1>1, <1>2, <1>3, <1>4, <1>5, <1>6, <1>7 DEF Next

\* The category of a transaction is written by the one slot that has its job; a
\* job is done when its slot has enqueued what that category calls for.
LEMMA FanStep ==
  ASSUME IInv, [Next]_vars
  PROVE  FanInv' /\ DoneIsFannedOut'
<1>. USE DEF IInv, JobInv, FanInv, DoneIsFannedOut, RowTypes, SlotTypes, Goto, Steps
<1>1. ASSUME NEW w \in Slots, CategorizeStep(w)
      PROVE  FanInv' /\ DoneIsFannedOut'
  <2>1. CASE \E t \in Txns : Take(w, t)
    BY <2>1 DEF Take, rowVars
  <2>2. CASE ResolveKnown(w)
    BY <2>2 DEF ResolveKnown, Resolved, rowVars
  <2>3. CASE CacheMiss(w)
    BY <2>3 DEF CacheMiss, rowVars
  <2>4. CASE CallEnds(w)
    BY <2>4 DEF CallEnds, Answered, rowVars
  <2>5. CASE SaveToCache(w)
    BY <2>5 DEF SaveToCache
  <2>6. CASE SaveEnrichment(w)
    BY <2>6 DEF SaveEnrichment
  <2>7. CASE EnqueueBaseline(w)
    BY <2>7 DEF EnqueueBaseline, AfterBaseline, rowVars
  <2>8. CASE EnqueueAnomaly(w)
    BY <2>8 DEF EnqueueAnomaly
  <2>9. CASE EnqueueMatch(w)
    BY <2>9 DEF EnqueueMatch
  <2>10. CASE Finish(w)
    BY <2>10 DEF Finish, rowVars
  <2>. QED
    BY <1>1, <2>1, <2>2, <2>3, <2>4, <2>5, <2>6, <2>7, <2>8, <2>9, <2>10 DEF CategorizeStep
<1>2. ASSUME NEW w \in Slots, Fail(w)
      PROVE  FanInv' /\ DoneIsFannedOut'
  BY <1>2 DEF Fail, rowVars
<1>3. ASSUME NEW w \in Writers, WriterAsks(w) \/ WriterDone(w)
      PROVE  FanInv' /\ DoneIsFannedOut'
  BY <1>3 DEF WriterAsks, WriterDone, slotVars, rowVars
<1>4. ASSUME NEW b \in BaselineSlots, BaselineStep(b) \/ BaselineFails(b)
      PROVE  FanInv' /\ DoneIsFannedOut'
  BY <1>4 DEF BaselineStep, ReadRows, WriteBaseline, BaselineFails, slotVars, rowVars
<1>5. ASSUME NEW t \in Txns, Store(t) \/ Remove(t)
      PROVE  FanInv' /\ DoneIsFannedOut'
  BY <1>5 DEF Store, Remove, slotVars, rowVars
<1>6. CASE Crash
  BY <1>6 DEF Crash, rowVars
<1>7. CASE UNCHANGED vars
  BY <1>7 DEF vars, slotVars, rowVars
<1>. QED
  BY <1>1, <1>2, <1>3, <1>4, <1>5, <1>6, <1>7 DEF Next

LEMMA Inductive == Spec => []IInv
<1>1. Init => IInv
  BY DataAssumption DEF Init, IInv, RowTypes, SlotTypes, PlacesAreGivenBack, JobInv, FanInv,
        DoneIsFannedOut, NoView, Steps, LLM!Init
<1>2. IInv /\ LimiterInv /\ [Next]_vars => IInv'
  BY TypesStep, PlacesStep, JobStep, FanStep DEF IInv
<1>. QED
  BY <1>1, <1>2, LimiterInvariant, PTL DEF Spec

-----------------------------------------------------------------------------
(* How often the LLM is asked about a merchant. *)

\* There are no more slots at a step than slots.
LEMMA AtMostSlots ==
  ASSUME NEW step, NEW m
  PROVE  /\ IsFiniteSet(At(step, m))
         /\ Cardinality(At(step, m)) \in Nat /\ Cardinality(Slots) \in Nat
         /\ Cardinality(At(step, m)) <= Cardinality(Slots)
  BY DataAssumption, FS_Subset, FS_CardinalityType DEF At

LEMMA AtMostSlotsNext ==
  ASSUME NEW step, NEW m
  PROVE  /\ IsFiniteSet(At(step, m)')
         /\ Cardinality(At(step, m)') \in Nat
         /\ Cardinality(At(step, m)') <= Cardinality(Slots)
  BY DataAssumption, FS_Subset, FS_CardinalityType DEF At

LEMMA OneFaultMore ==
  ASSUME NEW n \in Nat, NEW f \in Nat
  PROVE  n * f \in Nat /\ n * (1 + f) = n * f + n /\ n * (f + 1) = n * f + n
  OBVIOUS

\* A step that adds no answer and lets nobody ask whom the cache could answer.
LEMMA AskedKept ==
  ASSUME IInv, NEW m \in Merchants, AskedOf(m),
         asked'[m] = asked[m], cache'[m] = cache[m], faults' = faults,
         cache[m] = None => At("cache", m) \subseteq At("cache", m)',
         cache[m] # None => At("llm", m)' \subseteq At("llm", m)
  PROVE  AskedOf(m)'
<1>. asked[m] \in Nat /\ faults \in Nat
  BY DEF IInv, RowTypes, SlotTypes
<1>. Cardinality(Slots) * faults \in Nat /\ Cardinality(Slots) * (1 + faults) \in Nat
  BY AtMostSlots, OneFaultMore
<1>1. CASE cache[m] = None
  <2>1. Cardinality(At("cache", m)) <= Cardinality(At("cache", m)')
    BY <1>1, AtMostSlotsNext, FS_Subset
  <2>. QED
    BY <1>1, <2>1, AtMostSlots, AtMostSlotsNext DEF AskedOf
<1>2. CASE cache[m] # None
  <2>1. Cardinality(At("llm", m)') <= Cardinality(At("llm", m))
    BY <1>2, AtMostSlots, FS_Subset
  <2>. QED
    BY <1>2, <2>1, AtMostSlots, AtMostSlotsNext DEF AskedOf
<1>. QED
  BY <1>1, <1>2

\* A failure or a crash loses no more answers than there are slots.
LEMMA AskedAfterFault ==
  ASSUME IInv, NEW m \in Merchants, AskedOf(m),
         asked'[m] = asked[m], cache'[m] = cache[m], faults' = faults + 1,
         At("llm", m)' \subseteq At("llm", m)
  PROVE  AskedOf(m)'
<1>. DEFINE n == Cardinality(Slots)
<1>. asked[m] \in Nat /\ faults \in Nat
  BY DEF IInv, RowTypes, SlotTypes
<1>1. /\ n \in Nat /\ n * faults \in Nat
      /\ n * (1 + faults) = n * faults + n
      /\ n * (1 + faults') = n * faults + n + n
      /\ n * faults' = n * faults + n
  <2>1. n \in Nat
    BY AtMostSlots
  <2>2. n * (1 + (faults + 1)) = n * (faults + 1) + n
    BY <2>1, OneFaultMore
  <2>. QED
    BY <2>1, <2>2, OneFaultMore
<1>2. Cardinality(At("llm", m)') <= Cardinality(At("llm", m))
  BY AtMostSlots, FS_Subset
<1>. QED
  BY <1>1, <1>2, AtMostSlots, AtMostSlotsNext DEF AskedOf

LEMMA AskedStep ==
  ASSUME IInv, NEW m \in Merchants, AskedOf(m), [Next]_vars
  PROVE  AskedOf(m)'
<1>. USE DEF SlotTypes, RowTypes, Goto
<1>. pc \in [Slots -> Steps] /\ job \in [Slots -> Txns \cup {None}]
  BY DEF IInv
<1>. cache \in [Merchants -> Categories \cup {None}] /\ asked \in [Merchants -> Nat]
  BY DEF IInv
<1>1. CASE UNCHANGED <<slotVars, cache, asked, faults>>
  <2>1. At("cache", m)' = At("cache", m) /\ At("llm", m)' = At("llm", m)
    BY <1>1 DEF At, Merchant, slotVars
  <2>. QED
    BY <1>1, <2>1, AskedKept
<1>2. ASSUME NEW w \in Slots, CategorizeStep(w)
      PROVE  AskedOf(m)'
  <2>1. CASE \/ \E t \in Txns : Take(w, t)
             \/ ResolveKnown(w) \/ SaveEnrichment(w) \/ Finish(w)
    <3>1. /\ pc[w] \notin {"llm", "cache"} /\ pc'[w] \notin {"llm", "cache"}
          /\ \A v \in Slots \ {w} : pc'[v] = pc[v] /\ job'[v] = job[v]
          /\ UNCHANGED <<cache, asked, faults>>
      BY <2>1 DEF Take, ResolveKnown, Resolved, SaveEnrichment, Finish, rowVars
    <3>2. At("cache", m)' = At("cache", m) /\ At("llm", m)' = At("llm", m)
      BY <3>1 DEF At, Merchant
    <3>. QED
      BY <3>1, <3>2, AskedKept
  <2>2. CASE EnqueueBaseline(w) \/ EnqueueAnomaly(w) \/ EnqueueMatch(w)
    <3>1. /\ pc[w] \notin {"llm", "cache"} /\ pc'[w] \notin {"llm", "cache"}
          /\ \A v \in Slots \ {w} : pc'[v] = pc[v] /\ job'[v] = job[v]
          /\ UNCHANGED <<cache, asked, faults>>
      BY <2>2 DEF EnqueueBaseline, EnqueueAnomaly, EnqueueMatch, AfterBaseline, rowVars
    <3>2. At("cache", m)' = At("cache", m) /\ At("llm", m)' = At("llm", m)
      BY <3>1 DEF At, Merchant
    <3>. QED
      BY <3>1, <3>2, AskedKept
  <2>3. CASE CacheMiss(w)
    <3>1. /\ pc[w] = "resolve" /\ pc'[w] = "llm" /\ Known(w) = None
          /\ \A v \in Slots \ {w} : pc'[v] = pc[v]
          /\ UNCHANGED <<job, cache, asked, faults>>
      BY <2>3 DEF CacheMiss, rowVars
    <3>2. cache[Merchant(w)] = None
      BY <3>1 DEF Known
    <3>3. At("cache", m)' = At("cache", m)
      BY <3>1 DEF At, Merchant
    <3>4. cache[m] # None => At("llm", m)' = At("llm", m)
      BY <3>1, <3>2 DEF At, Merchant
    <3>. QED
      BY <3>1, <3>3, <3>4, AskedKept
  <2>4. CASE CallEnds(w)
    <3>1. /\ pc[w] = "llm" /\ pc'[w] = "cache"
          /\ \A v \in Slots \ {w} : pc'[v] = pc[v]
          /\ asked' = [asked EXCEPT ![Merchant(w)] = @ + 1]
          /\ UNCHANGED <<job, cache, faults>>
      BY <2>4 DEF CallEnds, Answered, rowVars
    <3>2. CASE m # Merchant(w)
      <4>1. At("cache", m)' = At("cache", m) /\ At("llm", m)' = At("llm", m)
        BY <3>1, <3>2 DEF At, Merchant
      <4>. QED
        BY <3>1, <3>2, <4>1, AskedKept
    <3>3. CASE m = Merchant(w)
      <4>1. asked'[m] = asked[m] + 1
        BY <3>1, <3>3
      <4>2. At("cache", m)' = At("cache", m) \cup {w} /\ w \notin At("cache", m)
        BY <3>1, <3>3 DEF At, Merchant
      <4>3. At("llm", m)' = At("llm", m) \ {w} /\ w \in At("llm", m)
        BY <3>1, <3>3 DEF At, Merchant
      <4>4. Cardinality(At("cache", m)') = Cardinality(At("cache", m)) + 1
        BY <4>2, AtMostSlots, FS_AddElement
      <4>5. Cardinality(At("llm", m)') = Cardinality(At("llm", m)) - 1
        BY <4>3, AtMostSlots, FS_RemoveElement
      <4>6. /\ Cardinality(Slots) \in Nat /\ Cardinality(Slots) * faults \in Nat
            /\ Cardinality(Slots) * (1 + faults) = Cardinality(Slots) * faults + Cardinality(Slots)
        BY AtMostSlots, OneFaultMore DEF IInv
      <4>. QED
        BY <3>1, <4>1, <4>4, <4>5, <4>6, AtMostSlots DEF AskedOf
    <3>. QED
      BY <3>2, <3>3
  <2>5. CASE SaveToCache(w)
    <3>1. /\ pc[w] = "cache" /\ pc'[w] = "save"
          /\ \A v \in Slots \ {w} : pc'[v] = pc[v]
          /\ cache' = [cache EXCEPT ![Merchant(w)] = answer[w]]
          /\ UNCHANGED <<job, asked, faults>>
      BY <2>5 DEF SaveToCache, Cached
    <3>2. At("llm", m)' = At("llm", m)
      BY <3>1 DEF At, Merchant
    <3>3. CASE m # Merchant(w)
      <4>1. At("cache", m)' = At("cache", m)
        BY <3>1, <3>3 DEF At, Merchant
      <4>. QED
        BY <3>1, <3>2, <3>3, <4>1, AskedKept
    <3>4. CASE m = Merchant(w)
      <4>1. answer[w] \in Categories /\ cache'[m] = answer[w]
        BY <3>1, <3>4 DEF IInv, JobInv
      <4>2. cache'[m] # None
        BY <4>1, DataAssumption
      <4>3. /\ Cardinality(Slots) \in Nat /\ Cardinality(Slots) * faults \in Nat
            /\ Cardinality(Slots) * (1 + faults) = Cardinality(Slots) * faults + Cardinality(Slots)
        BY AtMostSlots, OneFaultMore DEF IInv
      <4>4. Cardinality(At("cache", m)) + Cardinality(At("llm", m)) <= Cardinality(Slots)
        <5>1. At("cache", m) \cap At("llm", m) = {}
              /\ At("cache", m) \cup At("llm", m) \subseteq Slots
          BY DEF At
        <5>2. Cardinality(At("cache", m) \cap At("llm", m)) = 0
          BY <5>1, FS_EmptySet
        <5>3. Cardinality(At("cache", m) \cup At("llm", m))
                = Cardinality(At("cache", m)) + Cardinality(At("llm", m))
                    - Cardinality(At("cache", m) \cap At("llm", m))
          BY AtMostSlots, FS_Union
        <5>4. Cardinality(At("cache", m) \cup At("llm", m)) <= Cardinality(Slots)
          BY <5>1, DataAssumption, FS_Subset
        <5>. QED
          BY <5>2, <5>3, <5>4, AtMostSlots
      <4>. QED
        BY <3>1, <3>2, <4>2, <4>3, <4>4, AtMostSlots DEF AskedOf
    <3>. QED
      BY <3>3, <3>4
  <2>. QED
    BY <1>2, <2>1, <2>2, <2>3, <2>4, <2>5 DEF CategorizeStep
<1>3. ASSUME NEW w \in Slots, Fail(w)
      PROVE  AskedOf(m)'
  <2>1. /\ \A v \in Slots : pc'[v] # "idle" => pc'[v] = pc[v] /\ job'[v] = job[v]
        /\ UNCHANGED <<cache, asked>> /\ faults' = faults + 1
    BY <1>3 DEF Fail, rowVars
  <2>2. At("llm", m)' \subseteq At("llm", m)
    BY <2>1 DEF At, Merchant
  <2>. QED
    BY <2>1, <2>2, AskedAfterFault
<1>4. CASE Crash
  <2>1. At("llm", m)' \subseteq At("llm", m)
    BY <1>4 DEF Crash, At
  <2>. QED
    BY <1>4, <2>1, AskedAfterFault DEF Crash, rowVars
<1>5. ASSUME NEW w \in Writers, WriterAsks(w) \/ WriterDone(w)
      PROVE  UNCHANGED <<slotVars, cache, asked, faults>>
  BY <1>5 DEF WriterAsks, WriterDone, rowVars
<1>6. ASSUME NEW b \in BaselineSlots, BaselineStep(b)
      PROVE  UNCHANGED <<slotVars, cache, asked, faults>>
  BY <1>6 DEF BaselineStep, ReadRows, WriteBaseline, rowVars
<1>7. ASSUME NEW b \in BaselineSlots, BaselineFails(b)
      PROVE  AskedOf(m)'
  <2>1. At("llm", m)' = At("llm", m)
    BY <1>7 DEF BaselineFails, At, Merchant, slotVars
  <2>. QED
    BY <1>7, <2>1, AskedAfterFault DEF BaselineFails, rowVars
<1>8. ASSUME NEW t \in Txns, Store(t) \/ Remove(t)
      PROVE  UNCHANGED <<slotVars, cache, asked, faults>>
  BY <1>8 DEF Store, Remove, rowVars
<1>9. CASE UNCHANGED vars
  BY <1>9, <1>1 DEF vars, rowVars
<1>. QED
  BY <1>1, <1>2, <1>3, <1>4, <1>5, <1>6, <1>7, <1>8, <1>9 DEF Next

\* A known answer comes from the hint or the cache.
LEMMA KnownFrom ==
  ASSUME IInv, NEW w \in Slots, pc[w] = "resolve"
  PROVE  /\ Known(w) = None => hint[job[w]] = None /\ cache[Merchant(w)] = None
         /\ Known(w) # None /\ hint[job[w]] = None => Known(w) = cache[Merchant(w)]
  BY DEF Known

LEMMA UnhintedStep ==
  ASSUME IInv, Unhinted, [Next]_vars
  PROVE  Unhinted'
<1>. USE DEF Unhinted, SlotTypes, Goto
<1>. pc \in [Slots -> Steps] /\ job \in [Slots -> Txns \cup {None}]
  BY DEF IInv
<1>1. ASSUME NEW w \in Slots, CategorizeStep(w)
      PROVE  Unhinted'
  <2>1. CASE \/ \E t \in Txns : Take(w, t)
             \/ ResolveKnown(w) \/ CallEnds(w) \/ SaveToCache(w) \/ SaveEnrichment(w) \/ Finish(w)
    BY <2>1 DEF Take, ResolveKnown, Resolved, CallEnds, Answered, SaveToCache, SaveEnrichment,
          Finish, rowVars
  <2>2. CASE CacheMiss(w)
    BY <2>2, KnownFrom DEF CacheMiss, rowVars
  <2>3. CASE EnqueueBaseline(w) \/ EnqueueAnomaly(w) \/ EnqueueMatch(w)
    BY <2>3 DEF EnqueueBaseline, EnqueueAnomaly, EnqueueMatch, AfterBaseline, rowVars
  <2>. QED
    BY <1>1, <2>1, <2>2, <2>3 DEF CategorizeStep
<1>2. ASSUME NEW w \in Slots, Fail(w)
      PROVE  Unhinted'
  BY <1>2 DEF Fail, rowVars
<1>3. ASSUME NEW w \in Writers, WriterAsks(w) \/ WriterDone(w)
      PROVE  Unhinted'
  BY <1>3 DEF WriterAsks, WriterDone, rowVars, slotVars
<1>4. ASSUME NEW b \in BaselineSlots, BaselineStep(b) \/ BaselineFails(b)
      PROVE  Unhinted'
  BY <1>4 DEF BaselineStep, ReadRows, WriteBaseline, BaselineFails, rowVars, slotVars
<1>5. ASSUME NEW t \in Txns, Store(t) \/ Remove(t)
      PROVE  Unhinted'
  BY <1>5 DEF Store, Remove, rowVars, slotVars
<1>6. CASE Crash
  BY <1>6 DEF Crash
<1>7. CASE UNCHANGED vars
  BY <1>7 DEF vars, rowVars, slotVars
<1>. QED
  BY <1>1, <1>2, <1>3, <1>4, <1>5, <1>6, <1>7 DEF Next

\* A step that hands the merchant's answer to no further slot or row.
LEMMA AnswerKept ==
  ASSUME NEW m \in Merchants, OneAnswer(m), hint' = hint,
         asked'[m] = asked[m], cache'[m] = cache[m],
         \A t \in Unknown(m) : category'[t] = category[t],
         \A w \in Slots : Holds(w, m)' =>
            Holds(w, m) /\ answer'[w] = answer[w] /\ (pc'[w] = "cache" <=> pc[w] = "cache")
  PROVE  OneAnswer(m)'
<1>. Unknown(m)' = Unknown(m)
  BY DEF Unknown
<1>. QED
  BY DEF OneAnswer

LEMMA AnswerStep ==
  ASSUME IInv, Unhinted, NEW m \in Merchants, OneAnswer(m), [Next]_vars
  PROVE  OneAnswer(m)'
<1>. USE DEF SlotTypes, RowTypes, Goto
<1>. /\ pc \in [Slots -> Steps] /\ job \in [Slots -> Txns \cup {None}]
     /\ answer \in [Slots -> Categories \cup {None}]
     /\ cache \in [Merchants -> Categories \cup {None}] /\ asked \in [Merchants -> Nat]
     /\ category \in [Txns -> Categories \cup {None}]
  BY DEF IInv
<1>1. CASE UNCHANGED <<slotVars, hint, category, cache, asked>>
  BY <1>1, AnswerKept DEF Holds, Merchant, slotVars
<1>2. ASSUME NEW w \in Slots, CategorizeStep(w)
      PROVE  OneAnswer(m)'
  <2>1. CASE (\E t \in Txns : Take(w, t)) \/ CacheMiss(w) \/ Finish(w)
    <3>1. /\ pc'[w] \in {"idle", "resolve", "llm"}
          /\ \A v \in Slots \ {w} : pc'[v] = pc[v] /\ job'[v] = job[v] /\ answer'[v] = answer[v]
          /\ UNCHANGED <<hint, category, cache, asked>>
      BY <2>1 DEF Take, CacheMiss, Finish, rowVars
    <3>. QED
      BY <3>1, AnswerKept DEF Holds, Merchant
  <2>2. CASE ResolveKnown(w)
    <3>1. /\ pc[w] = "resolve" /\ pc'[w] = "save" /\ answer'[w] = Known(w) /\ Known(w) # None
          /\ \A v \in Slots \ {w} : pc'[v] = pc[v] /\ answer'[v] = answer[v]
          /\ UNCHANGED <<job, hint, category, cache, asked>>
      BY <2>2 DEF ResolveKnown, Resolved, rowVars
    <3>2. CASE Holds(w, m)'
      <4>1. cache[m] # None /\ answer'[w] = cache[m]
        BY <3>1, <3>2, KnownFrom DEF Holds, Merchant
      <4>2. Unknown(m)' = Unknown(m)
        BY <3>1 DEF Unknown
      <4>3. \A v \in Slots \ {w} : Holds(v, m)' <=> Holds(v, m)
        BY <3>1 DEF Holds, Merchant
      <4>. QED
        BY <3>1, <4>1, <4>2, <4>3 DEF OneAnswer
    <3>3. CASE ~Holds(w, m)'
      BY <3>1, <3>3, AnswerKept DEF Holds, Merchant
    <3>. QED
      BY <3>2, <3>3
  <2>3. CASE CallEnds(w)
    <3>1. /\ pc[w] = "llm" /\ pc'[w] = "cache"
          /\ \A v \in Slots \ {w} : pc'[v] = pc[v] /\ answer'[v] = answer[v]
          /\ asked' = [asked EXCEPT ![Merchant(w)] = @ + 1]
          /\ UNCHANGED <<job, hint, category, cache>>
      BY <2>3 DEF CallEnds, Answered, rowVars
    <3>2. CASE m # Merchant(w)
      BY <3>1, <3>2, AnswerKept DEF Holds, Merchant
    <3>3. CASE m = Merchant(w)
      <4>1. asked'[m] = asked[m] + 1 /\ asked[m] \in Nat
        BY <3>1, <3>3
      <4>2. Unknown(m)' = Unknown(m)
        BY <3>1 DEF Unknown
      <4>3. \A v \in Slots \ {w} : Holds(v, m)' <=> Holds(v, m)
        BY <3>1 DEF Holds, Merchant
      <4>4. CASE asked[m] = 0
        <5>1. cache[m] = None /\ \A v \in Slots : ~Holds(v, m)
          BY <4>4 DEF OneAnswer
        <5>. QED
          BY <3>1, <4>1, <4>2, <4>3, <4>4, <5>1 DEF OneAnswer
      <4>5. CASE asked[m] # 0
        BY <4>1, <4>5 DEF OneAnswer
      <4>. QED
        BY <4>4, <4>5
    <3>. QED
      BY <3>2, <3>3
  <2>4. CASE SaveToCache(w)
    <3>1. /\ pc[w] = "cache" /\ pc'[w] = "save"
          /\ \A v \in Slots \ {w} : pc'[v] = pc[v]
          /\ cache' = [cache EXCEPT ![Merchant(w)] = answer[w]]
          /\ UNCHANGED <<job, answer, hint, category, asked>>
      BY <2>4 DEF SaveToCache, Cached
    <3>2. CASE m # Merchant(w)
      BY <3>1, <3>2, AnswerKept DEF Holds, Merchant
    <3>3. CASE m = Merchant(w)
      <4>1. Holds(w, m)
        BY <3>1, <3>3 DEF Holds, Unhinted
      <4>2. asked[m] # 0 /\ (asked[m] = 1 => cache[m] = None)
        BY <3>1, <4>1 DEF OneAnswer
      <4>3. \A v \in Slots : Holds(v, m)' <=> Holds(v, m)
        BY <3>1 DEF Holds, Merchant
      <4>4. Unknown(m)' = Unknown(m) /\ cache'[m] = answer[w]
        BY <3>1, <3>3 DEF Unknown
      <4>5. answer[w] # None
        BY <3>1, DataAssumption DEF IInv, JobInv
      <4>. QED
        BY <3>1, <4>1, <4>2, <4>3, <4>4, <4>5 DEF OneAnswer
    <3>. QED
      BY <3>2, <3>3
  <2>5. CASE SaveEnrichment(w)
    <3>1. /\ pc[w] = "save" /\ pc'[w] = "baseline"
          /\ \A v \in Slots \ {w} : pc'[v] = pc[v]
          /\ category' = [category EXCEPT ![job[w]] = answer[w]]
          /\ UNCHANGED <<job, answer, hint, cache, asked>>
      BY <2>5 DEF SaveEnrichment
    <3>2. job[w] \in Txns
      BY <3>1 DEF IInv, JobInv
    <3>3. \A v \in Slots : Holds(v, m)' <=> Holds(v, m)
      BY <3>1 DEF Holds, Merchant
    <3>4. CASE Holds(w, m)
      <4>1. asked[m] \in {0, 1} => asked[m] = 1 /\ cache[m] # None /\ answer[w] = cache[m]
        BY <3>1, <3>4 DEF OneAnswer
      <4>2. Unknown(m)' = Unknown(m)
        BY <3>1 DEF Unknown
      <4>. QED
        BY <3>1, <3>2, <3>3, <4>1, <4>2 DEF OneAnswer
    <3>5. CASE ~Holds(w, m)
      <4>1. job[w] \notin Unknown(m)
        BY <3>1, <3>5 DEF Holds, Merchant, Unknown
      <4>. QED
        BY <3>1, <3>2, <3>3, <4>1, AnswerKept DEF Unknown
    <3>. QED
      BY <3>4, <3>5
  <2>6. CASE EnqueueBaseline(w) \/ EnqueueAnomaly(w) \/ EnqueueMatch(w)
    <3>1. /\ pc[w] \in {"baseline", "anomaly", "match"}
          /\ pc'[w] \in {"anomaly", "match", "return"}
          /\ \A v \in Slots \ {w} : pc'[v] = pc[v]
          /\ UNCHANGED <<job, answer, hint, category, cache, asked>>
      BY <2>6 DEF EnqueueBaseline, EnqueueAnomaly, EnqueueMatch, AfterBaseline, rowVars
    <3>. QED
      BY <3>1, AnswerKept DEF Holds, Merchant
  <2>. QED
    BY <1>2, <2>1, <2>2, <2>3, <2>4, <2>5, <2>6 DEF CategorizeStep
<1>3. ASSUME NEW w \in Slots, Fail(w)
      PROVE  OneAnswer(m)'
  <2>1. /\ \A v \in Slots : pc'[v] # "idle" =>
             pc'[v] = pc[v] /\ job'[v] = job[v] /\ answer'[v] = answer[v]
        /\ UNCHANGED <<hint, category, cache, asked>>
    BY <1>3 DEF Fail, rowVars
  <2>. QED
    BY <2>1, AnswerKept DEF Holds, Merchant
<1>4. CASE Crash
  <2>1. (\A v \in Slots : pc'[v] = "idle") /\ UNCHANGED <<hint, category, cache, asked>>
    BY <1>4 DEF Crash, rowVars
  <2>. QED
    BY <2>1, AnswerKept DEF Holds
<1>5. ASSUME NEW w \in Writers, WriterAsks(w) \/ WriterDone(w)
      PROVE  UNCHANGED <<slotVars, hint, category, cache, asked>>
  BY <1>5 DEF WriterAsks, WriterDone, rowVars
<1>6. ASSUME NEW b \in BaselineSlots, BaselineStep(b) \/ BaselineFails(b)
      PROVE  UNCHANGED <<slotVars, hint, category, cache, asked>>
  BY <1>6 DEF BaselineStep, ReadRows, WriteBaseline, BaselineFails, rowVars
<1>7. ASSUME NEW t \in Txns, Store(t) \/ Remove(t)
      PROVE  UNCHANGED <<slotVars, hint, category, cache, asked>>
  BY <1>7 DEF Store, Remove, rowVars
<1>8. CASE UNCHANGED vars
  BY <1>8, <1>1 DEF vars, rowVars
<1>. QED
  BY <1>1, <1>2, <1>3, <1>4, <1>5, <1>6, <1>7, <1>8 DEF Next

LEMMA CacheInductive == Spec => []CacheInv
<1>1. Init => Unhinted
  BY DEF Init, Unhinted
<1>2. ASSUME Init, NEW m \in Merchants
      PROVE  AskedOf(m) /\ OneAnswer(m)
  <2>1. asked[m] = 0 /\ cache[m] = None /\ \A w \in Slots : pc[w] = "idle"
    BY <1>2 DEF Init
  <2>2. AskedOf(m)
    <3>1. Cardinality(Slots) * faults \in Nat
      BY <1>2, AtMostSlots, OneFaultMore DEF Init
    <3>. QED
      BY <2>1, <3>1, AtMostSlots DEF AskedOf
  <2>3. OneAnswer(m)
    BY <1>2, <2>1 DEF Init, OneAnswer, Holds, Unknown
  <2>. QED
    BY <2>2, <2>3
<1>3. Init => CacheInv
  BY <1>1, <1>2 DEF CacheInv
<1>4. IInv /\ CacheInv /\ [Next]_vars => CacheInv'
  BY UnhintedStep, AskedStep, AnswerStep DEF CacheInv
<1>. QED
  BY <1>3, <1>4, Inductive, PTL DEF Spec

-----------------------------------------------------------------------------
(* What the baselines count, with one recomputation at a time. *)

\* A transaction that stays announced keeps its category; the others are new to the
\* baselines, and a recomputation of them waits.
LEMMA AnnouncedKept ==
  ASSUME IInv, [Next]_vars, recompute' = 0, NEW t \in Txns, Announced(t)'
  PROVE  Announced(t) /\ category'[t] = category[t]
<1>. USE DEF IInv, JobInv, SlotTypes, RowTypes, Announced, Goto, Steps
<1>1. ASSUME NEW w \in Slots, CategorizeStep(w)
      PROVE  Announced(t) /\ category'[t] = category[t]
  <2>1. CASE \E u \in Txns : Take(w, u)
    BY <2>1 DEF Take, rowVars
  <2>2. CASE ResolveKnown(w) \/ CacheMiss(w)
    BY <2>2 DEF ResolveKnown, Resolved, CacheMiss, rowVars
  <2>3. CASE CallEnds(w) \/ SaveToCache(w)
    BY <2>3 DEF CallEnds, Answered, SaveToCache, rowVars
  <2>4. CASE SaveEnrichment(w)
    BY <2>4 DEF SaveEnrichment
  <2>5. CASE EnqueueBaseline(w)
    BY <2>5 DEF EnqueueBaseline
  <2>6. CASE EnqueueAnomaly(w) \/ EnqueueMatch(w)
    BY <2>6 DEF EnqueueAnomaly, EnqueueMatch
  <2>7. CASE Finish(w)
    BY <2>7 DEF Finish, rowVars
  <2>. QED
    BY <1>1, <2>1, <2>2, <2>3, <2>4, <2>5, <2>6, <2>7 DEF CategorizeStep
<1>2. ASSUME NEW w \in Slots, Fail(w)
      PROVE  Announced(t) /\ category'[t] = category[t]
  BY <1>2 DEF Fail, rowVars
<1>3. ASSUME NEW w \in Writers, WriterAsks(w) \/ WriterDone(w)
      PROVE  Announced(t) /\ category'[t] = category[t]
  BY <1>3 DEF WriterAsks, WriterDone, rowVars, slotVars
<1>4. ASSUME NEW b \in BaselineSlots, BaselineStep(b) \/ BaselineFails(b)
      PROVE  Announced(t) /\ category'[t] = category[t]
  BY <1>4 DEF BaselineStep, ReadRows, WriteBaseline, BaselineFails, rowVars, slotVars
<1>5. ASSUME NEW u \in Txns, Store(u) \/ Remove(u)
      PROVE  Announced(t) /\ category'[t] = category[t]
  BY <1>5 DEF Store, Remove, Stored, rowVars, slotVars
<1>6. CASE Crash
  BY <1>6 DEF Crash, rowVars
<1>7. CASE UNCHANGED vars
  BY <1>7 DEF vars, rowVars, slotVars
<1>. QED
  BY <1>1, <1>2, <1>3, <1>4, <1>5, <1>6, <1>7 DEF Next

\* A job once stored stays, and so do the live rows but for those the bank removes.
LEMMA StoredStep ==
  ASSUME IInv, live \subseteq Stored, [Next]_vars
  PROVE  live' \subseteq Stored'
<1>. USE DEF IInv, JobInv, SlotTypes, RowTypes, Stored
<1>1. ASSUME NEW w \in Slots, CategorizeStep(w)
      PROVE  live' \subseteq Stored'
  <2>1. CASE \E u \in Txns : Take(w, u)
    BY <2>1 DEF Take
  <2>2. CASE ResolveKnown(w) \/ CacheMiss(w)
    BY <2>2 DEF ResolveKnown, Resolved, CacheMiss
  <2>3. CASE CallEnds(w) \/ SaveToCache(w) \/ SaveEnrichment(w)
    BY <2>3 DEF CallEnds, Answered, SaveToCache, SaveEnrichment
  <2>4. CASE EnqueueBaseline(w) \/ EnqueueAnomaly(w) \/ EnqueueMatch(w)
    BY <2>4 DEF EnqueueBaseline, EnqueueAnomaly, EnqueueMatch
  <2>5. CASE Finish(w)
    BY <2>5 DEF Finish
  <2>. QED
    BY <1>1, <2>1, <2>2, <2>3, <2>4, <2>5 DEF CategorizeStep
<1>2. ASSUME NEW w \in Slots, Fail(w)
      PROVE  live' \subseteq Stored'
  BY <1>2 DEF Fail
<1>3. ASSUME NEW w \in Writers, WriterAsks(w) \/ WriterDone(w)
      PROVE  live' \subseteq Stored'
  BY <1>3 DEF WriterAsks, WriterDone
<1>4. ASSUME NEW b \in BaselineSlots, BaselineStep(b) \/ BaselineFails(b)
      PROVE  live' \subseteq Stored'
  BY <1>4 DEF BaselineStep, ReadRows, WriteBaseline, BaselineFails
<1>5. ASSUME NEW u \in Txns, Store(u) \/ Remove(u)
      PROVE  live' \subseteq Stored'
  BY <1>5 DEF Store, Remove
<1>6. CASE Crash
  BY <1>6 DEF Crash
<1>7. CASE UNCHANGED vars
  BY <1>7 DEF vars
<1>. QED
  BY <1>1, <1>2, <1>3, <1>4, <1>5, <1>6, <1>7 DEF Next

\* A recomputation that no other runs beside is what is ahead of the baselines.
LEMMA AheadIs ==
  ASSUME NEW b \in BaselineSlots, NEW c \in Categories
  PROVE  /\ (\A other \in BaselineSlots \ {b} : view[other] = NoView)
              => Ahead(c) = view[b][c]
         /\ (\A other \in BaselineSlots \ {b} : view'[other] = NoView)
              => Ahead(c)' = view'[b][c]
<1>1. ASSUME \A other \in BaselineSlots \ {b} : view[other] = NoView
      PROVE  Ahead(c) = view[b][c]
  <2>1. \A x \in BaselineSlots : x # b => view[x][c] = {}
    BY <1>1 DEF NoView
  <2>. QED
    BY <2>1 DEF Ahead
<1>2. ASSUME \A other \in BaselineSlots \ {b} : view'[other] = NoView
      PROVE  Ahead(c)' = view'[b][c]
  <2>1. \A x \in BaselineSlots : x # b => view'[x][c] = {}
    BY <1>2 DEF NoView
  <2>. QED
    BY <2>1 DEF Ahead
<1>. QED
  BY <1>1, <1>2

\* Whoever dies, when no recomputation waits and none is lost then none was running.
LEMMA CrashOfNone ==
  ASSUME IInv, Crash, recompute' = 0, ranAlone'
  PROVE  Busy = {} /\ recompute = 0 /\ ranAlone
<1>. USE DEF IInv, SlotTypes
<1>1. IsFiniteSet(Busy) /\ Cardinality(Busy) \in Nat
  BY DataAssumption, FS_Subset, FS_CardinalityType DEF Busy
<1>2. PICK buried \in 0 .. Cardinality(BaselineSlots) :
        /\ recompute' = recompute + Cardinality(Busy) - buried
        /\ ranAlone' = (ranAlone /\ buried = 0)
  BY DEF Crash
<1>3. ranAlone /\ buried = 0
  BY <1>2
<1>4. recompute = 0 /\ Cardinality(Busy) = 0
  BY <1>1, <1>2, <1>3
<1>. QED
  BY <1>1, <1>3, <1>4, FS_EmptySet

LEMMA AloneStep ==
  ASSUME IInv, AloneInv, [Next]_vars
  PROVE  AloneInv'
<1>. USE DEF IInv, SlotTypes, AloneInv, Busy, Idle
<1>1. CASE UNCHANGED baselineVars
  BY <1>1 DEF baselineVars
<1>2. ASSUME NEW w \in Slots, CategorizeStep(w) \/ Fail(w)
      PROVE  UNCHANGED baselineVars
  BY <1>2 DEF CategorizeStep, Take, ResolveKnown, Resolved, CacheMiss, CallEnds, Answered,
        SaveToCache, SaveEnrichment, EnqueueBaseline, EnqueueAnomaly, EnqueueMatch, Finish, Fail
<1>3. ASSUME NEW w \in Writers, WriterAsks(w) \/ WriterDone(w)
      PROVE  UNCHANGED baselineVars
  BY <1>3 DEF WriterAsks, WriterDone
<1>4. ASSUME NEW b \in BaselineSlots, ReadRows(b)
      PROVE  AloneInv'
  BY <1>4 DEF ReadRows
<1>5. ASSUME NEW b \in BaselineSlots, NEW d \in Categories, WriteBaseline(b, d)
      PROVE  AloneInv'
  <2>1. Busy' \subseteq Busy /\ ranAlone' = ranAlone
    BY <1>5 DEF WriteBaseline, NoView
  <2>. QED
    BY <2>1
<1>6. ASSUME NEW b \in BaselineSlots, BaselineFails(b)
      PROVE  AloneInv'
  <2>1. Busy' \subseteq Busy /\ (ranAlone' => ranAlone)
    BY <1>6 DEF BaselineFails
  <2>. QED
    BY <2>1
<1>7. ASSUME NEW t \in Txns, Store(t) \/ Remove(t)
      PROVE  UNCHANGED baselineVars
  BY <1>7 DEF Store, Remove
<1>8. CASE Crash
  BY <1>8 DEF Crash
<1>9. CASE UNCHANGED vars
  BY <1>9, <1>1 DEF vars
<1>. QED
  BY <1>1, <1>2, <1>3, <1>4, <1>5, <1>6, <1>7, <1>8, <1>9 DEF Next, BaselineStep

\* Reading the rows beside no other recomputation brings a category that has some up
\* to date; nothing else that leaves none waiting, and buries none, changes what the
\* baselines will count.
LEMMA TargetStep ==
  ASSUME IInv, AloneInv, [Next]_vars, recompute' = 0, ranAlone', NEW c \in Categories
  PROVE  \/ /\ UNCHANGED <<live, category>>
            /\ Counted(c) # {} => Target(c)' = Counted(c)
         \/ /\ recompute = 0 /\ ranAlone
            /\ Target(c)' = Target(c) /\ live' \subseteq live \cup (Txns \ Stored)
<1>. USE DEF IInv, SlotTypes, RowTypes
<1>1. CASE UNCHANGED <<baselineVars, recompute, live>>
  <2>1. Ahead(c)' = Ahead(c)
    BY <1>1 DEF Ahead, baselineVars
  <2>. QED
    BY <1>1, <2>1 DEF Target, baselineVars
<1>2. ASSUME NEW w \in Slots, CategorizeStep(w) \/ Fail(w)
      PROVE  UNCHANGED <<baselineVars, recompute, live>>
  BY <1>2 DEF CategorizeStep, Take, ResolveKnown, Resolved, CacheMiss, CallEnds, Answered,
        SaveToCache, SaveEnrichment, EnqueueBaseline, EnqueueAnomaly, EnqueueMatch, Finish, Fail
<1>3. ASSUME NEW w \in Writers, WriterAsks(w) \/ WriterDone(w)
      PROVE  UNCHANGED <<baselineVars, recompute, live>>
  BY <1>3 DEF WriterAsks, WriterDone
<1>4. ASSUME NEW b \in BaselineSlots, ReadRows(b)
      PROVE  UNCHANGED <<live, category>> /\ (Counted(c) # {} => Target(c)' = Counted(c))
  <2>1. /\ view' \in [BaselineSlots -> [Categories -> SUBSET Txns]]
        /\ \A other \in BaselineSlots \ {b} : view'[other] = NoView
        /\ view'[b][c] = Counted(c) /\ UNCHANGED <<live, category>>
    BY <1>4, TypesStep DEF ReadRows, Idle, rowVars
  <2>2. Ahead(c)' = Counted(c)
    BY <2>1, AheadIs
  <2>. QED
    BY <2>1, <2>2 DEF Target
<1>5. ASSUME NEW b \in BaselineSlots, NEW d \in Categories, WriteBaseline(b, d)
      PROVE  /\ recompute = 0 /\ ranAlone
             /\ Target(c)' = Target(c) /\ live' \subseteq live \cup (Txns \ Stored)
  <2>1. /\ view[b][d] # {} /\ baseline' = [baseline EXCEPT ![d] = view[b][d]]
        /\ view' = [view EXCEPT ![b][d] = {}] /\ UNCHANGED <<recompute, live, ranAlone>>
    BY <1>5 DEF WriteBaseline, Written
  <2>2. \A other \in BaselineSlots \ {b} : view[other] = NoView
    BY <2>1 DEF AloneInv, Busy, Idle, NoView
  <2>3. /\ view' \in [BaselineSlots -> [Categories -> SUBSET Txns]]
        /\ \A other \in BaselineSlots \ {b} : view'[other] = NoView
    BY <2>1, <2>2, TypesStep
  <2>4. Ahead(c) = view[b][c] /\ Ahead(c)' = view'[b][c]
    BY <2>2, <2>3, AheadIs
  <2>5. Target(c)' = Target(c)
    BY <2>1, <2>4 DEF Target
  <2>. QED
    BY <2>1, <2>5
<1>6. ASSUME NEW b \in BaselineSlots, BaselineFails(b)
      PROVE  UNCHANGED <<baselineVars, recompute, live>>
  <2>1. PICK buried \in BOOLEAN :
          /\ recompute' = recompute + (IF Idle(b) THEN 0 ELSE 1) - (IF buried THEN 1 ELSE 0)
          /\ ranAlone' = (ranAlone /\ ~buried)
    BY <1>6 DEF BaselineFails
  <2>2. ~buried /\ ranAlone
    BY <2>1
  <2>3. Idle(b) /\ recompute = 0
    BY <2>1, <2>2
  <2>. QED
    BY <1>6, <2>3 DEF BaselineFails
<1>7. ASSUME NEW t \in Txns, Store(t) \/ Remove(t)
      PROVE  /\ recompute = 0 /\ ranAlone
             /\ Target(c)' = Target(c) /\ live' \subseteq live \cup (Txns \ Stored)
  <2>1. UNCHANGED <<baselineVars, recompute>> /\ live' \subseteq live \cup (Txns \ Stored)
    BY <1>7 DEF Store, Remove
  <2>2. Ahead(c)' = Ahead(c)
    BY <2>1 DEF Ahead, baselineVars
  <2>. QED
    BY <2>1, <2>2 DEF Target, baselineVars
<1>8. CASE Crash
  <2>1. Busy = {} /\ recompute = 0 /\ ranAlone
    BY <1>8, CrashOfNone
  <2>2. view' = view
    BY <1>8, <2>1 DEF Crash, Busy, Idle
  <2>3. Ahead(c)' = Ahead(c)
    BY <2>2 DEF Ahead
  <2>. QED
    BY <1>8, <2>1, <2>3 DEF Crash, Target
<1>9. CASE UNCHANGED vars
  BY <1>9, <1>1 DEF vars
<1>. QED
  BY <1>1, <1>2, <1>3, <1>4, <1>5, <1>6, <1>7, <1>8, <1>9 DEF Next, BaselineStep

LEMMA CountStep ==
  ASSUME IInv, CountInv, [Next]_vars
  PROVE  CountInv'
<1>1. live' \subseteq Stored'
  BY StoredStep DEF CountInv
<1>2. ASSUME recompute' = 0, ranAlone', NEW c \in Categories, NEW t \in Txns, Announced(t)'
      PROVE  /\ (t \in Counted(c))' => (t \in Target(c))'
             /\ (t \in Target(c))' /\ t \in live' /\ category'[t] # c =>
                  \A u \in Counted(c)' : ~Announced(u)'
  <2>1. Announced(t) /\ category'[t] = category[t]
    BY <1>2, AnnouncedKept
  <2>2. \A u \in Txns : Announced(u)' => Announced(u) /\ category'[u] = category[u]
    BY <1>2, AnnouncedKept
  <2>3. \A u \in Counted(c)' : u \in Txns /\ u \in live' /\ category'[u] = c
    BY TypesStep DEF Counted, RowTypes
  <2>4. CASE UNCHANGED <<live, category>> /\ (Counted(c) # {} => Target(c)' = Counted(c))
    BY <2>4 DEF Counted
  <2>5. CASE /\ recompute = 0 /\ ranAlone /\ Target(c)' = Target(c)
             /\ live' \subseteq live \cup (Txns \ Stored)
    <3>1. \A u \in Txns : Announced(u) => u \in Stored
      BY DEF Announced, Stored, IInv, JobInv
    <3>2. \A u \in Txns : Announced(u) /\ u \in live' => u \in live
      BY <2>5, <3>1
    <3>3. \A u \in Counted(c)' : Announced(u)' => u \in Counted(c) /\ Announced(u)
      BY <2>2, <2>3, <3>2 DEF Counted
    <3>. QED
      BY <1>2, <2>1, <2>5, <3>2, <3>3 DEF CountInv
  <2>. QED
    BY <1>2, <2>4, <2>5, TargetStep DEF CountInv
<1>3. AloneInv'
  BY AloneStep DEF CountInv
<1>. QED
  BY <1>1, <1>2, <1>3 DEF CountInv

LEMMA CountInductive == Spec => []CountInv
<1>1. Init => CountInv
  BY DEF Init, CountInv, AloneInv, Busy, Idle, Announced
<1>2. IInv /\ CountInv /\ [Next]_vars => CountInv'
  BY CountStep
<1>. QED
  BY <1>1, <1>2, Inductive, PTL DEF Spec

-----------------------------------------------------------------------------
\* The rows, the slots and the limiter keep their types (categorize-service.ts:32-102,
\* baseline-service.ts:22-65, concurrency.ts:2-8).
THEOREM TypeCorrect == Spec => []TypeOK
<1>1. IInv /\ LimiterInv => TypeOK
  BY DEF IInv, RowTypes, SlotTypes, TypeOK, LLM!TypeOK, LimiterInv, LLM!TypeOK
<1>. QED
  BY <1>1, Inductive, LimiterInvariant, PTL

\* With any number of slots and writers, whichever attempts fail and whenever the
\* process restarts, a slot holds or awaits a place at the limiter exactly while
\* it is in its call (concurrency.ts:27-35).
THEOREM PlacesAreAlwaysGivenBack == Spec => []PlacesAreGivenBack
  BY Inductive, PTL DEF IInv

\* With any number of slots, a categorised transaction whose job is done has had
\* the jobs that its category calls for (categorize-service.ts:67-102).
THEOREM DoneIsAlwaysFannedOut == Spec => []DoneIsFannedOut
  BY Inductive, PTL DEF IInv

\* However many slots ask at once, fail and die with the process, the LLM is asked
\* about a merchant once per slot and failure, and a single answer is the category
\* of all its transactions (category-resolvers.ts:53-90).
THEOREM CacheAlwaysSavesAnswers == Spec => []CacheSavesAnswers
<1>1. IInv /\ CacheInv => CacheSavesAnswers
  <2>. SUFFICES ASSUME IInv, CacheInv, NEW m \in Merchants
                PROVE  /\ asked[m] <= Cardinality(Slots) * (1 + faults)
                       /\ asked[m] = 1 =>
                            \A t \in Txns : MerchantOf[t] = m /\ hint[t] = None =>
                                category[t] \in {None, cache[m]}
    BY DEF CacheSavesAnswers
  <2>. AskedOf(m) /\ OneAnswer(m) /\ asked[m] \in Nat /\ faults \in Nat
    BY DEF CacheInv, IInv, RowTypes, SlotTypes
  <2>1. /\ Cardinality(Slots) \in Nat /\ Cardinality(Slots) * faults \in Nat
        /\ Cardinality(Slots) * (1 + faults) = Cardinality(Slots) * faults + Cardinality(Slots)
    BY AtMostSlots, OneFaultMore
  <2>2. asked[m] <= Cardinality(Slots) * (1 + faults)
    BY <2>1, AtMostSlots DEF AskedOf
  <2>. QED
    BY <2>2 DEF OneAnswer, Unknown
<1>. QED
  BY <1>1, Inductive, CacheInductive, PTL

\* With any number of slots of baseline.recompute, the two of config/production.yaml
\* included: once nothing is left to run, and if the last recomputation ran beside no
\* other and none was buried after it, the baselines count what is categorised,
\* whatever was removed, failed, was buried or overlapped before
\* (baseline-service.ts:25-63, categorize-service.ts:76-79, run-handler.ts:97-110).
THEOREM BaselinesAlwaysCatchUp == Spec => []BaselinesCatchUp
<1>1. IInv /\ CountInv => BaselinesCatchUp
  <2>. SUFFICES ASSUME IInv, CountInv, Settled, ranAlone, NEW c \in Categories
                PROVE  /\ \A t \in Counted(c) : jobs[t] = "done" => t \in baseline[c]
                       /\ \A t \in baseline[c] \ Counted(c) :
                            \/ t \notin live \/ jobs[t] = "dead"
                            \/ \A u \in Counted(c) : jobs[u] # "done"
    BY DEF BaselinesCatchUp
  <2>1. Target(c) = baseline[c]
    BY DEF Settled, Busy, Idle, NoView, Ahead, Target
  <2>2. /\ live \subseteq Txns /\ baseline[c] \subseteq Txns
        /\ \A t \in live : jobs[t] \in {"done", "dead"}
    BY DEF CountInv, Settled, Stored, IInv, RowTypes, SlotTypes
  <2>3. \A t \in Txns : jobs[t] = "done" => Announced(t)
    BY DEF Announced
  <2>4. recompute = 0
    BY DEF Settled
  <2>. QED
    BY <2>1, <2>2, <2>3, <2>4 DEF CountInv, Counted
<1>. QED
  BY <1>1, Inductive, CountInductive, PTL

\* The sets of ServingLine are those of Enrichment.
LEMMA SameSets ==
  ASSUME NEW S
  PROVE  LLM!Line!Cardinality(S) = Cardinality(S)
  BY DEF LLM!Line!Cardinality, Cardinality

\* Behind whichever slots and writers fail, and whenever the process restarts, the
\* limiter serves its callers as a line at MaxConcurrent counters does, for any
\* number of them (claude-llm-provider.ts:52-67, concurrency.ts:3-38).
THEOREM CallsAreServedInLine == Spec => ServedInLine
<1>1. Init => LLM!Line!Init
  BY DEF Init, LLM!Init, LLM!Line!Init, LLM!Calling
<1>2. LimiterInv /\ [LLM!Next]_limiterVars => [LLM!Line!Next]_<<LLM!Calling, waiters>>
  <2>. SUFFICES ASSUME LimiterInv, [LLM!Next]_limiterVars
                PROVE  [LLM!Line!Next]_<<LLM!Calling, waiters>>
    OBVIOUS
  <2>. USE DEF LimiterInv, LLM!TypeOK, Callers
  <2>1. CASE LLM!Restart
    BY <2>1 DEF LLM!Restart, LLM!Line!Next, LLM!Line!Close, LLM!Calling
  <2>2. CASE UNCHANGED limiterVars
    BY <2>2 DEF limiterVars, LLM!Calling
  <2>3. ASSUME NEW c \in Callers, LLM!Acquire(c)
        PROVE  LLM!Line!Come(c)
    <3>1. c \notin LLM!Calling /\ c \notin LLM!Line!ToSet(waiters) /\ phase[c] = "out"
      BY <2>3 DEF LLM!Acquire, LLM!Calling, LLM!Line!ToSet, LineInv
    <3>2. CASE LLM!Admits
      <4>1. LLM!Calling' = LLM!Calling \cup {c} /\ waiters' = waiters
        BY <2>3, <3>1, <3>2 DEF LLM!Acquire, LLM!Calling
      <4>. QED
        BY <3>1, <3>2, <4>1, SameSets DEF LLM!Line!Come, LLM!Admits, CounterInv
    <3>3. CASE ~LLM!Admits
      <4>1. LLM!Calling' = LLM!Calling /\ waiters' = Append(waiters, c)
        BY <2>3, <3>1, <3>3 DEF LLM!Acquire, LLM!Calling
      <4>. QED
        BY <3>1, <3>3, <4>1, SameSets DEF LLM!Line!Come, LLM!Admits, CounterInv
    <3>. QED
      BY <3>2, <3>3
  <2>4. ASSUME NEW c \in Callers, LLM!Release(c)
        PROVE  LLM!Line!Go(c)
    <3>1. c \in LLM!Calling
      BY <2>4 DEF LLM!Release, LLM!Calling
    <3>2. CASE waiters = <<>>
      <4>1. LLM!Calling' = LLM!Calling \ {c} /\ waiters' = waiters
        BY <2>4, <3>2 DEF LLM!Release, LLM!Calling
      <4>. QED
        BY <3>1, <3>2, <4>1 DEF LLM!Line!Go
    <3>3. CASE waiters # <<>>
      <4>1. Head(waiters) \in Callers /\ Head(waiters) # c
        BY <3>1, <3>3, FirstInLine DEF LLM!Calling
      <4>2. LLM!Calling' = (LLM!Calling \ {c}) \cup {Head(waiters)} /\ waiters' = Tail(waiters)
        BY <2>4, <3>3, <4>1 DEF LLM!Release, LLM!Calling
      <4>. QED
        BY <3>1, <3>3, <4>2 DEF LLM!Line!Go
    <3>. QED
      BY <3>2, <3>3
  <2>. QED
    BY <2>1, <2>2, <2>3, <2>4 DEF LLM!Next, LLM!Line!Next
<1>. QED
  BY <1>1, <1>2, StepOfLimiter, LimiterInvariant, PTL
    DEF Spec, ServedInLine, LLM!ServedInLine, LLM!Line!Spec
=============================================================================
