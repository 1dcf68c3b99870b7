--------------------------- MODULE AppCacheProofs ---------------------------
(***************************************************************************)
(* Proofs about AppCache, for any number of requests, threads, tries and   *)
(* writes: its type invariant, that each charge is reported once, what the *)
(* conservation of quota rests on (that a write guarded by its CAS deducts *)
(* from exactly the record it replaces and has measured it), and that a    *)
(* cache hit is one indivisible charge (AtomicHit).                        *)
(* Module AppCacheSumProofs goes on from here to the sums over requests.   *)
(***************************************************************************)
EXTENDS AppCache, FiniteSetTheorems, TLAPS

USE ThreadOfAssumption, SingletonAssumption, SizesAssumption, HitsAssumption,
    NumbersAssumption, FailureModeAssumption

-----------------------------------------------------------------------------
(* The invariant *)

(* What a writer goes on with: hits that suffice, a try to spare.          *)
MayWrite(c) ==
  /\ pc[c] = "set" => copy[c].left >= Hits[c]
  /\ pc[c] \in {"set", "refetch"} => tries[c] < MaxTries

(* A copy is not newer than the record, and while its CAS is the record's  *)
(* it is the record; then the change of size is the one measured.          *)
CopyIsCurrent(w) ==
  /\ pc[w] \in {"resolve", "check", "set"} /\ appCas[w] # AnyCas =>
       /\ appCas[w] <= app.cas
       /\ appCas[w] = app.cas =>
            app.present /\ copy[w].left = app.left /\ copy[w].size = app.size
  /\ pc[w] = "set" /\ appCas[w] # AnyCas /\ appCas[w] = app.cas =>
       delta[w] = copy[w].size - StoredSize

SingletonOverwrites == appCas[Singleton] = AnyCas

(* A message is the last thing its request does. *)
ReportsAreFinal ==
  \A i \in 1 .. Len(queue) :
    /\ pc[queue[i].ctx] = "done" /\ verdict[queue[i].ctx] = "passed"
    /\ \A j \in 1 .. Len(queue) : queue[i].ctx = queue[j].ctx => i = j

ChargesAreUnderWay ==
  \A c \in charged :
    \/ pc[c] \in Counting \cup {"report", "unreported"}
    \/ \E i \in 1 .. Len(queue) : queue[i].ctx = c

CacheInv ==
  /\ TypeOK
  /\ \A c \in Contexts : MayWrite(c)
  /\ \A w \in Writers : CopyIsCurrent(w)
  /\ SingletonOverwrites
  /\ ReportsAreFinal
  /\ ChargesAreUnderWay

(* The steps, by the writer that takes them. *)
RequestStep(c)   == OnRequest(c) \/ FreshResponse(c) \/ OtherResponse(c) \/ ResolveQueue(c)
HitStep(c)       == TryCheck(c) \/ GiveUp(c) \/ ReportUsage(c) \/ Refetch(c)
CountStep(w)     == CountGet(w) \/ CountInit(w) \/ CountSet(w)
SingletonStep    == RegisterQueue \/ InitCounter \/ SingletonSets \/ SingletonRemoves
StepOf(w) ==
  \/ w \in Contexts /\ (RequestStep(w) \/ HitStep(w))
  \/ TrySet(w) \/ CountStep(w)
  \/ w = Singleton /\ SingletonStep

-----------------------------------------------------------------------------
(* Types *)

(* The CAS of a write is larger than the one it replaces.                  *)
LEMMA NextCasGrows ==
  ASSUME NEW n \in Nat
  PROVE  NextCas(n) \in Nat /\ NextCas(n) > n
BY DEF NextCas, NoEntry, FirstCas

(* An empty store is in its initial state.                                 *)
LEMMA InitTypeOK == Init => TypeOK
<1> SUFFICES ASSUME Init PROVE TypeOK
  OBVIOUS
<1>1. NoCopy \in Copy /\ NoRead \in Counter /\ NoEntry \in Nat /\ AnyCas \in Nat
  BY DEF NoCopy, NoRead, Copy, Counter, NoEntry, AnyCas
<1>2. app \in Record /\ queue \in Seq(Message) /\ counter \in Counter
  BY <1>1 DEF Init, Record
<1>3. pc \in [Writers -> PCs]
  BY DEF Init, PCs
<1>4. /\ copy \in [Writers -> Copy] /\ appCas \in [Writers -> Nat]
      /\ delta \in [Writers -> Int] /\ read \in [Writers -> Counter]
  BY <1>1 DEF Init
<1>5. /\ tries \in [Contexts -> 0 .. MaxTries] /\ flag \in [Contexts -> BOOLEAN]
      /\ rounds \in [Writers -> 0 .. CounterTries]
      /\ verdict \in [Contexts -> Verdicts]
  BY DEF Init, CounterTries, Verdicts
<1>6. writes \in 0 .. MaxWrites /\ base \in Nat
  BY DEF Init
<1>7. charged \subseteq Contexts
  BY DEF Init
<1>8. skewed \in BOOLEAN
  BY DEF Init
<1> QED
  BY <1>2, <1>3, <1>4, <1>5, <1>6, <1>7, <1>8 DEF TypeOK

(* A step to another label of a callback.                                  *)
LEMMA GotoType ==
  ASSUME TypeOK, NEW w \in Writers, NEW l \in PCs, Goto(w, l)
  PROVE  pc' \in [Writers -> PCs]
BY DEF TypeOK, Goto

(* The end of a request.                                                   *)
LEMMA SettleType ==
  ASSUME TypeOK, NEW c \in Contexts, NEW v \in Verdicts, Settle(c, v)
  PROVE  pc' \in [Writers -> PCs] /\ verdict' \in [Contexts -> Verdicts]
BY DEF TypeOK, Settle, Goto, Writers, PCs

(* A request that fails is passed or refused.                              *)
LEMMA FailType ==
  ASSUME TypeOK, NEW c \in Contexts, Fail(c)
  PROVE  pc' \in [Writers -> PCs] /\ verdict' \in [Contexts -> Verdicts]
BY DEF TypeOK, Fail, Settle, Goto, Writers, PCs, Verdicts

(* The application a writer takes up.                                      *)
LEMMA TakeType ==
  ASSUME TypeOK, NEW w \in Writers, NEW left \in Nat, NEW size \in Nat,
         NEW cas \in Nat, Take(w, left, size, cas)
  PROVE  copy' \in [Writers -> Copy] /\ appCas' \in [Writers -> Nat]
BY DEF TypeOK, Take, Copy

(* The counter never goes below zero: a decrease beyond it is clamped.     *)
LEMMA ResizedType ==
  ASSUME TypeOK, NEW w \in Writers
  PROVE  Resized(w) \in Nat
BY DEF TypeOK, Resized, Clamps, Counter

(* The actions of a request's callbacks.                                   *)
LEMMA RequestTypeOK ==
  ASSUME TypeOK, NEW c \in Contexts,
         OnRequest(c) \/ FreshResponse(c) \/ OtherResponse(c) \/ ResolveQueue(c)
  PROVE  TypeOK'
<1>1. c \in Writers
  BY DEF Writers
<1>2. app.left \in Nat /\ app.size \in Nat /\ app.cas \in Nat
  BY DEF TypeOK, Record
<1>3. {"resolve", "callout", "check"} \subseteq PCs /\ AnyCas \in Nat
  BY DEF PCs, Running, AnyCas
<1>4. CASE OnRequest(c)
  <2>1. CASE app.present /\ Take(c, app.left, app.size, app.cas) /\ Goto(c, "resolve")
             /\ UNCHANGED verdict
    BY <1>1, <1>2, <1>3, <1>4, <2>1, TakeType, GotoType DEF OnRequest, TypeOK, memory, ghosts
  <2>2. CASE Goto(c, "callout") /\ UNCHANGED <<verdict, copy, appCas>>
    BY <1>1, <1>3, <1>4, <2>2, GotoType DEF OnRequest, TypeOK, memory, ghosts
  <2>3. CASE Fail(c) /\ UNCHANGED <<copy, appCas>>
    BY <1>4, <2>3, FailType DEF OnRequest, TypeOK, memory, ghosts
  <2> QED
    BY <1>4, <2>1, <2>2, <2>3 DEF OnRequest
<1>5. CASE FreshResponse(c)
  <2>1. PICK left \in 0 .. Quota, size \in Sizes : Take(c, left, size, AnyCas)
    BY <1>5 DEF FreshResponse
  <2>2. left \in Nat /\ size \in Nat
    BY <2>1
  <2>3. copy' \in [Writers -> Copy] /\ appCas' \in [Writers -> Nat]
    BY <1>1, <1>3, <2>1, <2>2, TakeType
  <2>4. pc' \in [Writers -> PCs]
    BY <1>1, <1>3, <1>5, GotoType DEF FreshResponse
  <2> QED
    BY <1>5, <2>3, <2>4 DEF FreshResponse, TypeOK, memory, ghosts
<1>6. CASE OtherResponse(c)
  <2>1. "denied" \in Verdicts
    BY DEF Verdicts
  <2>2. pc' \in [Writers -> PCs] /\ verdict' \in [Contexts -> Verdicts]
    BY <1>6, <2>1, SettleType, FailType DEF OtherResponse
  <2> QED
    BY <1>6, <2>2 DEF OtherResponse, TypeOK, memory, ghosts
<1>7. CASE ResolveQueue(c)
  <2>1. pc' \in [Writers -> PCs] /\ verdict' \in [Contexts -> Verdicts]
    <3>1. CASE Goto(c, "check") /\ UNCHANGED verdict
      BY <1>1, <1>3, <3>1, GotoType DEF TypeOK
    <3>2. CASE Fail(c)
      BY <3>2, FailType
    <3> QED
      BY <1>7, <3>1, <3>2 DEF ResolveQueue
  <2> QED
    BY <1>7, <2>1 DEF ResolveQueue, TypeOK, memory, ghosts
<1> QED
  BY <1>4, <1>5, <1>6, <1>7

(* The loop of handle_cache_hit.                                           *)
LEMMA HitTypeOK ==
  ASSUME TypeOK, NEW c \in Contexts, MayWrite(c),
         TryCheck(c) \/ GiveUp(c) \/ ReportUsage(c) \/ Refetch(c)
  PROVE  TypeOK'
<1>1. c \in Writers
  BY DEF Writers
<1>2. {"limited", "passed"} \subseteq Verdicts /\ {"set", "check"} \subseteq PCs
  BY DEF Verdicts, PCs, Running
<1>3. CASE TryCheck(c)
  <2>1. StoredSize \in Nat
    BY DEF StoredSize, TypeOK, Record
  <2>2. CASE Settle(c, "limited") /\ UNCHANGED delta
    BY <1>2, <1>3, <2>2, SettleType DEF TryCheck, TypeOK, ghosts
  <2>3. CASE Measure(c) /\ UNCHANGED verdict
    <3>1. copy[c].size - StoredSize \in Int
      BY <1>1, <2>1 DEF TypeOK, Copy
    <3>2. delta' \in [Writers -> Int]
      BY <1>1, <2>3, <3>1 DEF Measure, TypeOK
    <3>3. pc' \in [Writers -> PCs]
      BY <1>1, <1>2, <2>3, GotoType DEF Measure
    <3> QED
      BY <1>3, <2>3, <3>2, <3>3 DEF TryCheck, TypeOK, ghosts
  <2> QED
    BY <1>3, <2>2, <2>3 DEF TryCheck
<1>4. CASE GiveUp(c)
  <2>1. flag' \in [Contexts -> BOOLEAN]
    BY <1>4 DEF GiveUp, TypeOK
  <2>2. pc' \in [Writers -> PCs] /\ verdict' \in [Contexts -> Verdicts]
    BY <1>2, <1>4, SettleType DEF GiveUp
  <2> QED
    BY <1>4, <2>1, <2>2 DEF GiveUp, TypeOK, memory, ghosts
<1>5. CASE ReportUsage(c)
  <2>1. [ctx |-> c, update |-> flag[c]] \in Message
    BY DEF TypeOK, Message
  <2>2. queue' \in Seq(Message)
    <3>1. PICK m : m = [ctx |-> c, update |-> flag[c]]
      OBVIOUS
    <3>2. m \in Message /\ queue \in Seq(Message)
      BY <2>1, <3>1 DEF TypeOK
    <3>3. queue' = queue \/ queue' = Append(queue, m)
      BY <1>5, <3>1 DEF ReportUsage
    <3>4. Append(queue, m) \in Seq(Message)
      BY <3>2
    <3> QED
      BY <3>2, <3>3, <3>4
  <2>3. pc' \in [Writers -> PCs] /\ verdict' \in [Contexts -> Verdicts]
    <3>1. Goto(c, "done") \/ Goto(c, "unreported")
      BY <1>5 DEF ReportUsage
    <3>2. verdict' = [verdict EXCEPT ![c] = "passed"]
      BY <1>5 DEF ReportUsage
    <3>3. {"done", "unreported"} \subseteq PCs
      BY DEF PCs
    <3> QED
      BY <1>1, <1>2, <3>1, <3>2, <3>3, GotoType DEF TypeOK
  <2> QED
    BY <1>5, <2>2, <2>3 DEF ReportUsage, TypeOK, memory, ghosts
<1>6. CASE Refetch(c)
  <2>1. CASE ~app.present /\ Fail(c) /\ UNCHANGED <<copy, appCas, tries>>
    BY <1>6, <2>1, FailType DEF Refetch, TypeOK, memory, ghosts
  <2>2. CASE /\ Take(c, app.left, app.size, app.cas)
             /\ tries' = [tries EXCEPT ![c] = @ + 1]
             /\ Goto(c, "check")
             /\ UNCHANGED verdict
    <3>1. app.left \in Nat /\ app.size \in Nat /\ app.cas \in Nat
      BY DEF TypeOK, Record
    <3>2. copy' \in [Writers -> Copy] /\ appCas' \in [Writers -> Nat]
      BY <1>1, <2>2, <3>1, TakeType
    <3>3. tries' \in [Contexts -> 0 .. MaxTries]
      BY <1>6, <2>2 DEF Refetch, MayWrite, TypeOK
    <3>4. pc' \in [Writers -> PCs]
      BY <1>1, <1>2, <2>2, GotoType
    <3> QED
      BY <1>6, <2>2, <3>2, <3>3, <3>4 DEF Refetch, TypeOK, memory, ghosts
  <2> QED
    BY <1>6, <2>1, <2>2 DEF Refetch
<1> QED
  BY <1>3, <1>4, <1>5, <1>6

(* The write of a record.                                                  *)
LEMMA SetTypeOK ==
  ASSUME TypeOK, SingletonOverwrites, NEW w \in Writers,
         w \in Contexts => MayWrite(w), TrySet(w)
  PROVE  TypeOK'
<1>1. /\ app.left \in Nat /\ app.size \in Nat /\ app.cas \in Nat
      /\ copy[w].left \in Nat /\ copy[w].size \in Nat
  BY DEF TypeOK, Record, Copy
<1>2. copy[w].left - HitsBy(w) \in Nat
  <2>1. CASE w = Singleton
    BY <1>1, <2>1 DEF HitsBy
  <2>2. CASE w # Singleton
    <3>1. w \in Contexts /\ Hits[w] \in Nat /\ copy[w].left >= Hits[w]
      BY <2>2 DEF Writers, MayWrite, TrySet
    <3> QED
      BY <1>1, <2>2, <3>1 DEF HitsBy
  <2> QED
    BY <2>1, <2>2
<1>3. {"count", "refetch"} \subseteq PCs /\ AnyCas \in Nat /\ NoCopy \in Copy
  BY DEF PCs, Running, Counting, AnyCas, NoCopy, Copy
<1>4. appCas' \in [Writers -> Nat]
  BY <1>3 DEF TrySet, TypeOK
<1>5. CASE SetAccepted(w)
  <2>7. /\ app' = [present |-> TRUE, left |-> copy[w].left - HitsBy(w),
                   size |-> copy[w].size, cas |-> NextCas(app.cas)]
        /\ copy' = [copy EXCEPT ![w] = NoCopy]
        /\ UNCHANGED delta
    BY <1>5 DEF TrySet
  <2>1. app' \in Record
    <3>1. NextCas(app.cas) \in Nat
      BY <1>1, NextCasGrows
    <3> QED
      BY <1>1, <1>2, <2>7, <3>1 DEF Record
  <2>2. base' \in Nat
    BY <1>1, <1>5 DEF TrySet, TypeOK
  <2>3. charged' \subseteq Contexts
    <3>1. CASE appCas[w] = AnyCas
      BY <1>5, <3>1 DEF TrySet, Writers
    <3>2. CASE appCas[w] # AnyCas
      <4>1. w \in Contexts
        BY <3>2 DEF SingletonOverwrites, Writers
      <4> QED
        BY <1>5, <3>2, <4>1 DEF TrySet, TypeOK
    <3> QED
      BY <3>1, <3>2
  <2>4. skewed' \in BOOLEAN
    <3>1. CASE appCas[w] = AnyCas
      BY <1>5, <3>1 DEF TrySet
    <3>2. CASE appCas[w] # AnyCas
      BY <1>5, <3>2 DEF TrySet, TypeOK
    <3> QED
      BY <3>1, <3>2
  <2>5. copy' \in [Writers -> Copy] /\ UNCHANGED delta
    BY <1>3, <2>7 DEF TypeOK
  <2>6. pc' \in [Writers -> PCs]
    BY <1>3, <1>5, GotoType DEF TrySet
  <2> QED
    BY <1>4, <2>1, <2>2, <2>3, <2>4, <2>5, <2>6 DEF TrySet, TypeOK
<1>6. CASE ~SetAccepted(w)
  <2>1. UNCHANGED <<app, copy, ghosts>> /\ delta' \in [Writers -> Int]
    BY <1>6 DEF TrySet, TypeOK
  <2>2. pc' \in [Writers -> PCs]
    BY <1>3, <1>6, GotoType DEF TrySet
  <2> QED
    BY <1>4, <2>1, <2>2 DEF TrySet, TypeOK, ghosts
<1> QED
  BY <1>5, <1>6

(* The update of the memory counter.                                       *)
LEMMA CountTypeOK ==
  ASSUME TypeOK, NEW w \in Writers, CountGet(w) \/ CountInit(w) \/ CountSet(w)
  PROVE  TypeOK'
<1>1. {"init", "store", "idle", "report", "count"} \subseteq PCs
  BY DEF PCs, Running, Counting
<1>2. counter.cas \in Nat /\ NextCas(counter.cas) \in Nat
  BY NextCasGrows DEF TypeOK, Counter
<1>3. CASE CountGet(w)
  <2>1. read' \in [Writers -> Counter]
    BY <1>3 DEF CountGet, TypeOK
  <2>2. pc' \in [Writers -> PCs]
    BY <1>1, <1>3, GotoType DEF CountGet
  <2> QED
    BY <1>3, <2>1, <2>2 DEF CountGet, TypeOK, ghosts
<1>4. CASE CountInit(w)
  <2>1. [used |-> InitialSize, cas |-> 1] \in Counter
    BY DEF Counter
  <2>2. read' \in [Writers -> Counter]
    BY <1>4, <2>1 DEF CountInit, TypeOK
  <2>3. counter' \in Counter
    BY <1>2, <1>4 DEF CountInit, Counter
  <2>4. pc' \in [Writers -> PCs]
    BY <1>1, <1>4, GotoType DEF CountInit
  <2>5. skewed' \in BOOLEAN
    BY <1>4 DEF CountInit
  <2> QED
    BY <1>4, <2>2, <2>3, <2>4, <2>5 DEF CountInit, TypeOK
<1>5. CASE CountSet(w)
  <2>1. NoRead \in Counter
    BY DEF NoRead, NoEntry, Counter
  <2>2. read' \in [Writers -> Counter]
    BY <1>5, <2>1 DEF CountSet, TypeOK
  <2>3. ASSUME Counted(w)
        PROVE  /\ pc' \in [Writers -> PCs] /\ delta' \in [Writers -> Int]
               /\ rounds' \in [Writers -> 0 .. CounterTries]
    <3>1. pc' \in [Writers -> PCs]
      BY <1>1, <2>3, GotoType DEF Counted
    <3>2. delta' \in [Writers -> Int] /\ rounds' \in [Writers -> 0 .. CounterTries]
      BY <2>3 DEF Counted, TypeOK, CounterTries
    <3> QED
      BY <3>1, <3>2
  <2>4. CASE /\ counter' = [used |-> Resized(w), cas |-> NextCas(counter.cas)]
             /\ skewed' = (skewed \/ Clamps(w))
             /\ Counted(w)
    <3>1. counter' \in Counter
      BY <1>2, <2>4, ResizedType DEF Counter
    <3>2. skewed' \in BOOLEAN
      BY <2>4
    <3> QED
      BY <1>5, <2>2, <2>3, <2>4, <3>1, <3>2 DEF CountSet, TypeOK
  <2>5. CASE /\ rounds[w] + 1 < CounterTries
             /\ rounds' = [rounds EXCEPT ![w] = @ + 1]
             /\ Goto(w, "count")
             /\ UNCHANGED <<counter, delta, skewed>>
    <3>3. rounds \in [Writers -> 0 .. CounterTries]
      BY DEF TypeOK
    <3>4. rounds[w] + 1 \in 0 .. CounterTries
      BY <2>5, <3>3 DEF CounterTries
    <3>1. rounds' \in [Writers -> 0 .. CounterTries]
      BY <2>5, <3>3, <3>4
    <3>2. pc' \in [Writers -> PCs]
      BY <1>1, <2>5, GotoType
    <3> QED
      BY <1>5, <2>2, <2>5, <3>1, <3>2 DEF CountSet, TypeOK
  <2>6. CASE skewed' = TRUE /\ Counted(w) /\ UNCHANGED counter
    BY <1>5, <2>2, <2>3, <2>6 DEF CountSet, TypeOK
  <2> QED
    BY <1>5, <2>4, <2>5, <2>6 DEF CountSet
<1> QED
  BY <1>3, <1>4, <1>5

(* The singleton.                                                          *)
LEMMA SingletonTypeOK ==
  ASSUME TypeOK,
         RegisterQueue \/ InitCounter \/ SingletonSets \/ SingletonRemoves
  PROVE  TypeOK'
<1>1. Singleton \in Writers /\ {"starting", "idle", "set"} \subseteq PCs
  BY DEF Writers, PCs, Running
<1>2. CASE RegisterQueue
  BY <1>1, <1>2, GotoType DEF RegisterQueue, TypeOK, memory, ghosts
<1>3. CASE InitCounter
  <2>1. NextCas(counter.cas) \in Nat
    BY NextCasGrows DEF TypeOK, Counter
  <2>2. counter' \in Counter
    BY <1>3, <2>1 DEF InitCounter, Counter
  <2>3. pc' \in [Writers -> PCs]
    BY <1>1, <1>3, GotoType DEF InitCounter
  <2>4. skewed' \in BOOLEAN
    BY <1>3 DEF InitCounter
  <2> QED
    BY <1>3, <2>2, <2>3, <2>4 DEF InitCounter, TypeOK
<1>4. CASE SingletonSets
  <2>1. PICK left \in 0 .. Quota, size \in Sizes :
          /\ Take(Singleton, left, size, AnyCas)
          /\ delta' = [delta EXCEPT ![Singleton] = size - StoredSize]
    BY <1>4 DEF SingletonSets
  <2>2. left \in Nat /\ size \in Nat /\ AnyCas \in Nat /\ StoredSize \in Nat
    BY <2>1 DEF AnyCas, StoredSize, TypeOK, Record
  <2>3. copy' \in [Writers -> Copy] /\ appCas' \in [Writers -> Nat]
    BY <1>1, <2>1, <2>2, TakeType
  <2>6. size - StoredSize \in Int
    BY <2>2
  <2>4. delta' \in [Writers -> Int] /\ writes' \in 0 .. MaxWrites
    <3>1. delta' \in [Writers -> Int]
      BY <2>1, <2>6 DEF TypeOK
    <3>2. writes' \in 0 .. MaxWrites
      BY <1>4 DEF SingletonSets, TypeOK
    <3> QED
      BY <3>1, <3>2
  <2>5. pc' \in [Writers -> PCs]
    BY <1>1, <1>4, GotoType DEF SingletonSets
  <2> QED
    BY <1>4, <2>3, <2>4, <2>5 DEF SingletonSets, TypeOK, ghosts
<1>5. CASE SingletonRemoves
  <2>1. NextCas(app.cas) \in Nat
    BY NextCasGrows DEF TypeOK, Record
  <2>2. app' \in Record
    BY <1>5, <2>1 DEF SingletonRemoves, Record
  <2>3. charged' \subseteq Contexts
    BY <1>5 DEF SingletonRemoves
  <2>4. skewed' \in BOOLEAN
    BY <1>5 DEF SingletonRemoves
  <2>5. base' \in Nat /\ writes' \in 0 .. MaxWrites
    BY <1>5 DEF SingletonRemoves, TypeOK
  <2> QED
    BY <1>5, <2>2, <2>3, <2>4, <2>5 DEF SingletonRemoves, TypeOK, memory
<1> QED
  BY <1>2, <1>3, <1>4, <1>5

-----------------------------------------------------------------------------
(* One writer at a time *)

(* Every step is the step of some writer.                                  *)
LEMMA NextStep == Next => \E w \in Writers : StepOf(w)
BY DEF Next, Step, Write, StepOf, RequestStep, HitStep, CountStep, SingletonStep,
       Writers

(* A step keeps the types.                                                 *)
LEMMA StepTypeOK ==
  ASSUME CacheInv, NEW w \in Writers, StepOf(w)
  PROVE  TypeOK'
<1>1. w \in Contexts => MayWrite(w)
  BY DEF CacheInv
<1>2. TypeOK /\ SingletonOverwrites
  BY DEF CacheInv
<1> QED
  BY <1>1, <1>2, RequestTypeOK, HitTypeOK, SetTypeOK, CountTypeOK, SingletonTypeOK
     DEF StepOf, RequestStep, HitStep, CountStep, SingletonStep

Untouched(v) ==
  /\ pc'[v] = pc[v] /\ copy'[v] = copy[v]
  /\ appCas'[v] = appCas[v] /\ delta'[v] = delta[v]
  /\ v \in Contexts => tries'[v] = tries[v] /\ verdict'[v] = verdict[v]

(* What a step of one writer leaves alone, and that its request is open.   *)
LEMMA OneWriter ==
  ASSUME TypeOK, NEW w \in Writers, StepOf(w)
  PROVE  (\A v \in Writers \ {w} : Untouched(v)) /\ pc[w] \notin {"done", "unreported"}
<1> USE DEF Untouched, TypeOK, Goto, Settle, Fail, Take, memory, ghosts
<1>1. CASE w \in Contexts /\ RequestStep(w)
  <2>1. CASE OnRequest(w)
    BY <2>1 DEF OnRequest
  <2>2. CASE FreshResponse(w)
    BY <2>2 DEF FreshResponse
  <2>3. CASE OtherResponse(w)
    BY <2>3 DEF OtherResponse
  <2>4. CASE ResolveQueue(w)
    BY <2>4 DEF ResolveQueue
  <2> QED
    BY <1>1, <2>1, <2>2, <2>3, <2>4 DEF RequestStep
<1>2. CASE w \in Contexts /\ HitStep(w)
  <2>1. CASE TryCheck(w)
    BY <2>1 DEF TryCheck, Measure
  <2>2. CASE GiveUp(w)
    BY <2>2 DEF GiveUp
  <2>3. CASE ReportUsage(w)
    BY <2>3 DEF ReportUsage
  <2>4. CASE Refetch(w)
    BY <2>4 DEF Refetch
  <2> QED
    BY <1>2, <2>1, <2>2, <2>3, <2>4 DEF HitStep
<1>3. CASE TrySet(w)
  BY <1>3 DEF TrySet
<1>4. CASE CountStep(w)
  <2>1. CASE CountGet(w)
    BY <2>1 DEF CountGet
  <2>2. CASE CountInit(w)
    BY <2>2 DEF CountInit
  <2>3. CASE CountSet(w)
    BY <2>3 DEF CountSet, Counted
  <2> QED
    BY <1>4, <2>1, <2>2, <2>3 DEF CountStep
<1>5. CASE w = Singleton /\ SingletonStep
  <2>1. CASE RegisterQueue
    BY <1>5, <2>1 DEF RegisterQueue
  <2>2. CASE InitCounter
    BY <1>5, <2>2 DEF InitCounter
  <2>3. CASE SingletonSets
    BY <1>5, <2>3 DEF SingletonSets
  <2>4. CASE SingletonRemoves
    BY <1>5, <2>4 DEF SingletonRemoves
  <2> QED
    BY <1>5, <2>1, <2>2, <2>3, <2>4 DEF SingletonStep
<1> QED
  BY <1>1, <1>2, <1>3, <1>4, <1>5 DEF StepOf

(* Whoever writes the record raises its CAS.                               *)
LEMMA CasGrows ==
  ASSUME TypeOK, NEW w \in Writers, StepOf(w)
  PROVE  app' = app \/ app'.cas > app.cas
<1>1. app.cas \in Nat
  BY DEF TypeOK, Record
<1>2. NextCas(app.cas) > app.cas
  BY <1>1, NextCasGrows
<1>3. CASE TrySet(w)
  BY <1>2, <1>3 DEF TrySet
<1>4. CASE SingletonRemoves
  BY <1>2, <1>4 DEF SingletonRemoves
<1>5. CASE RequestStep(w)
  BY <1>5 DEF RequestStep, OnRequest, FreshResponse, OtherResponse, ResolveQueue
<1>6. CASE HitStep(w)
  BY <1>6 DEF HitStep, TryCheck, GiveUp, ReportUsage, Refetch
<1>7. CASE CountStep(w)
  BY <1>7 DEF CountStep, CountGet, CountInit, CountSet
<1>8. CASE RegisterQueue \/ InitCounter \/ SingletonSets
  BY <1>8 DEF RegisterQueue, InitCounter, SingletonSets
<1> QED
  BY <1>3, <1>4, <1>5, <1>6, <1>7, <1>8 DEF StepOf, SingletonStep

-----------------------------------------------------------------------------
(* The invariant is kept *)

(* The initial states satisfy the invariant.                               *)
LEMMA InitCacheInv == Init => CacheInv
<1> SUFFICES ASSUME Init PROVE CacheInv
  OBVIOUS
<1>1. TypeOK
  BY InitTypeOK
<1>2. \A w \in Writers : pc[w] \in {"off", "new"}
  BY DEF Init
<1>3. \A c \in Contexts : MayWrite(c)
  BY <1>2 DEF MayWrite, Writers
<1>4. \A w \in Writers : CopyIsCurrent(w)
  BY <1>2 DEF CopyIsCurrent
<1>5. SingletonOverwrites
  BY DEF Init, SingletonOverwrites, Writers
<1>6. ReportsAreFinal /\ ChargesAreUnderWay
  BY DEF Init, ReportsAreFinal, ChargesAreUnderWay
<1> QED
  BY <1>1, <1>3, <1>4, <1>5, <1>6 DEF CacheInv

(* A writer that is not at work keeps its part of the invariant: what it   *)
(* holds is at most outdated.                                              *)
LEMMA OthersKeep ==
  ASSUME TypeOK, TypeOK', NEW v \in Writers, Untouched(v),
         app' = app \/ app'.cas > app.cas
  PROVE  /\ CopyIsCurrent(v) => CopyIsCurrent(v)'
         /\ v \in Contexts /\ MayWrite(v) => MayWrite(v)'
<1>1. app.cas \in Nat /\ app'.cas \in Nat /\ appCas[v] \in Nat
  BY DEF TypeOK, Record
<1>2. CASE app' = app
  BY <1>2 DEF CopyIsCurrent, MayWrite, Untouched, StoredSize
<1>3. CASE app'.cas > app.cas
  <2>1. appCas[v] <= app.cas => appCas[v] <= app'.cas /\ appCas[v] # app'.cas
    BY <1>1, <1>3
  <2> QED
    BY <2>1 DEF CopyIsCurrent, MayWrite, Untouched
<1> QED
  BY <1>2, <1>3

(* The writer at work, whose step leads out of the guarded part of its     *)
(* callback.                                                               *)
LEMMA Harmless ==
  ASSUME NEW w, pc'[w] \notin {"resolve", "check", "set", "refetch"}
  PROVE  CopyIsCurrent(w)' /\ MayWrite(w)'
BY DEF CopyIsCurrent, MayWrite

(* A request's steps.                                                      *)
LEMMA RequestKeeps ==
  ASSUME TypeOK, NEW c \in Contexts, CopyIsCurrent(c), RequestStep(c)
  PROVE  CopyIsCurrent(c)' /\ MayWrite(c)'
<1>1. c \in Writers /\ app.cas \in Nat
  BY DEF Writers, TypeOK, Record
<1>2. CASE OnRequest(c)
  <2>1. CASE app.present /\ Take(c, app.left, app.size, app.cas) /\ Goto(c, "resolve")
    <3>1. /\ pc'[c] = "resolve" /\ appCas'[c] = app.cas
          /\ copy'[c] = [left |-> app.left, size |-> app.size]
      BY <1>1, <2>1 DEF Take, Goto, TypeOK
    <3>2. app' = app
      BY <1>2 DEF OnRequest
    <3> QED
      BY <1>1, <2>1, <3>1, <3>2 DEF CopyIsCurrent, MayWrite
  <2>2. CASE Goto(c, "callout")
    BY <1>1, <2>2, Harmless DEF Goto, TypeOK
  <2>3. CASE Fail(c)
    BY <1>1, <2>3, Harmless DEF Fail, Settle, Goto, TypeOK
  <2> QED
    BY <1>2, <2>1, <2>2, <2>3 DEF OnRequest
<1>3. CASE FreshResponse(c)
  <2>1. pc'[c] = "resolve" /\ appCas'[c] = AnyCas
    BY <1>1, <1>3 DEF FreshResponse, Take, Goto, TypeOK
  <2> QED
    BY <2>1 DEF CopyIsCurrent, MayWrite
<1>4. CASE OtherResponse(c)
  BY <1>1, <1>4, Harmless DEF OtherResponse, Fail, Settle, Goto, TypeOK
<1>5. CASE ResolveQueue(c)
  <2>1. CASE Fail(c)
    BY <1>1, <2>1, Harmless DEF Fail, Settle, Goto, TypeOK
  <2>2. CASE Goto(c, "check")
    <3>1. pc[c] = "resolve" /\ pc'[c] = "check"
      BY <1>1, <1>5, <2>2 DEF ResolveQueue, Goto, TypeOK
    <3>2. UNCHANGED <<app, copy, appCas>>
      BY <1>5 DEF ResolveQueue
    <3> QED
      BY <3>1, <3>2 DEF CopyIsCurrent, MayWrite
  <2> QED
    BY <1>5, <2>1, <2>2 DEF ResolveQueue
<1> QED
  BY <1>2, <1>3, <1>4, <1>5 DEF RequestStep

(* The loop of handle_cache_hit.                                           *)
LEMMA HitKeeps ==
  ASSUME TypeOK, NEW c \in Contexts, CopyIsCurrent(c), MayWrite(c), HitStep(c)
  PROVE  CopyIsCurrent(c)' /\ MayWrite(c)'
<1>1. c \in Writers /\ app.cas \in Nat
  BY DEF Writers, TypeOK, Record
<1>2. CASE TryCheck(c)
  <2>1. CASE Settle(c, "limited")
    BY <1>1, <2>1, Harmless DEF Settle, Goto, TypeOK
  <2>2. CASE copy[c].left >= Hits[c] /\ Measure(c)
    <3>1. /\ pc[c] = "check" /\ pc'[c] = "set" /\ tries[c] < MaxTries
          /\ delta'[c] = copy[c].size - StoredSize
      BY <1>1, <1>2, <2>2 DEF TryCheck, Measure, Goto, TypeOK
    <3>2. UNCHANGED <<app, copy, appCas, tries>>
      BY <1>2 DEF TryCheck
    <3>3. StoredSize' = StoredSize
      BY <3>2 DEF StoredSize
    <3> QED
      BY <2>2, <3>1, <3>2, <3>3 DEF CopyIsCurrent, MayWrite
  <2> QED
    BY <1>2, <2>1, <2>2 DEF TryCheck
<1>3. CASE GiveUp(c)
  BY <1>1, <1>3, Harmless DEF GiveUp, Settle, Goto, TypeOK
<1>4. CASE ReportUsage(c)
  BY <1>1, <1>4, Harmless DEF ReportUsage, Settle, Goto, TypeOK
<1>5. CASE Refetch(c)
  <2>1. CASE Fail(c)
    BY <1>1, <2>1, Harmless DEF Fail, Settle, Goto, TypeOK
  <2>2. CASE app.present /\ Take(c, app.left, app.size, app.cas) /\ Goto(c, "check")
    <3>1. /\ pc'[c] = "check" /\ appCas'[c] = app.cas
          /\ copy'[c] = [left |-> app.left, size |-> app.size]
      BY <1>1, <2>2 DEF Take, Goto, TypeOK
    <3>2. app' = app
      BY <1>5 DEF Refetch
    <3> QED
      BY <1>1, <2>2, <3>1, <3>2 DEF CopyIsCurrent, MayWrite
  <2> QED
    BY <1>5, <2>1, <2>2 DEF Refetch
<1> QED
  BY <1>2, <1>3, <1>4, <1>5 DEF HitStep

(* The writes of the record and of the counter.                            *)
LEMMA WriteKeeps ==
  ASSUME TypeOK, NEW w \in Writers, TrySet(w) \/ CountStep(w)
  PROVE  CopyIsCurrent(w)' /\ (w \in Contexts /\ MayWrite(w) => MayWrite(w)')
<1>1. CASE TrySet(w)
  <2>1. pc[w] = "set" /\ pc'[w] \in {"count", "refetch"} /\ UNCHANGED tries
    BY <1>1 DEF TrySet, Goto, TypeOK
  <2> QED
    BY <2>1 DEF CopyIsCurrent, MayWrite
<1>2. CASE CountStep(w)
  <2>1. pc'[w] \in {"init", "store", "count", "idle", "report"}
    BY <1>2 DEF CountStep, CountGet, CountInit, CountSet, Counted, Goto, TypeOK
  <2> QED
    BY <2>1, Harmless
<1> QED
  BY <1>1, <1>2

(* The singleton always overwrites.                                        *)
LEMMA SingletonKeeps ==
  ASSUME TypeOK, SingletonOverwrites, SingletonStep
  PROVE  CopyIsCurrent(Singleton)' /\ SingletonOverwrites'
<1>1. Singleton \in Writers
  BY DEF Writers
<1>2. appCas'[Singleton] = AnyCas
  BY <1>1 DEF SingletonStep, RegisterQueue, InitCounter, SingletonSets,
              SingletonRemoves, Take, TypeOK, SingletonOverwrites
<1> QED
  BY <1>2 DEF CopyIsCurrent, SingletonOverwrites

(* All of it, for the writer at work and the others.                       *)
LEMMA CopiesKept ==
  ASSUME CacheInv, NEW w \in Writers, StepOf(w)
  PROVE  /\ \A c \in Contexts : MayWrite(c)'
         /\ \A v \in Writers : CopyIsCurrent(v)'
         /\ SingletonOverwrites'
<1>1. /\ TypeOK /\ TypeOK' /\ SingletonOverwrites
      /\ (\A c \in Contexts : MayWrite(c)) /\ (\A v \in Writers : CopyIsCurrent(v))
      /\ Contexts \subseteq Writers
  BY StepTypeOK DEF CacheInv, Writers
<1>2. \A v \in Writers \ {w} : Untouched(v)
  BY <1>1, OneWriter
<1>3. \A v \in Writers \ {w} :
        CopyIsCurrent(v)' /\ (v \in Contexts => MayWrite(v)')
  BY <1>1, <1>2, CasGrows, OthersKeep
<1>4. CopyIsCurrent(w)' /\ (w \in Contexts => MayWrite(w)')
  BY <1>1, RequestKeeps, HitKeeps, WriteKeeps, SingletonKeeps DEF StepOf
<1>5. SingletonOverwrites'
  <2>1. CASE w # Singleton
    BY <1>1, <1>2, <2>1 DEF Untouched, SingletonOverwrites, Writers
  <2>2. CASE w = Singleton /\ SingletonStep
    BY <1>1, <2>2, SingletonKeeps
  <2>3. CASE w = Singleton /\ (TrySet(w) \/ CountStep(w))
    BY <1>1, <2>3 DEF SingletonOverwrites, TrySet, CountStep, CountGet, CountInit,
       CountSet, TypeOK
  <2> QED
    BY <2>1, <2>2, <2>3 DEF StepOf
<1> QED
  BY <1>1, <1>3, <1>4, <1>5

-----------------------------------------------------------------------------
(* Charges and reports *)

(* The message of a request is sent.                                       *)
Sends(c) ==
  /\ ReportUsage(c)
  /\ queue' = Append(queue, [ctx |-> c, update |-> flag[c]])
  /\ Goto(c, "done")

(* Only report_to_singleton changes the queue, and only a write of the     *)
(* record or its removal changes who is charged.                           *)
LEMMA QueueFrame ==
  ASSUME NEW w \in Writers, StepOf(w)
  PROVE  \/ queue' = queue
         \/ w \in Contexts /\ Sends(w)
BY DEF Sends, ReportUsage, StepOf, RequestStep, HitStep, CountStep, SingletonStep, OnRequest,
       FreshResponse, OtherResponse, ResolveQueue, TryCheck, GiveUp, Refetch,
       TrySet, CountGet, CountInit, CountSet, RegisterQueue, InitCounter,
       SingletonSets, SingletonRemoves

(* A message is sent once, by a request that then is done.                 *)
LEMMA ReportsKept ==
  ASSUME CacheInv, NEW w \in Writers, StepOf(w)
  PROVE  ReportsAreFinal'
<1>1. TypeOK /\ ReportsAreFinal /\ queue \in Seq(Message)
  BY DEF CacheInv, TypeOK
<1>2. (\A v \in Writers \ {w} : Untouched(v)) /\ pc[w] \notin {"done", "unreported"}
  BY <1>1, OneWriter
<1>3. ASSUME NEW i \in 1 .. Len(queue) PROVE queue[i].ctx \in Contexts \ {w}
  <2>1. queue[i] \in Message
    BY <1>1
  <2>2. queue[i].ctx \in Contexts
    BY <2>1 DEF Message
  <2>3. pc[queue[i].ctx] = "done"
    BY <1>1 DEF ReportsAreFinal
  <2> QED
    BY <1>2, <2>2, <2>3
<1>4. \A i \in 1 .. Len(queue) :
        pc'[queue[i].ctx] = "done" /\ verdict'[queue[i].ctx] = "passed"
  BY <1>1, <1>2, <1>3 DEF ReportsAreFinal, Untouched, Writers
<1>5. CASE queue' = queue
  BY <1>1, <1>4, <1>5 DEF ReportsAreFinal
<1>6. CASE w \in Contexts /\ Sends(w)
  <2>1. PICK m : m = [ctx |-> w, update |-> flag[w]]
    OBVIOUS
  <2>2. queue' = Append(queue, m) /\ m.ctx = w
    BY <1>6, <2>1 DEF Sends
  <2>3. pc'[w] = "done" /\ verdict'[w] = "passed"
    BY <1>1, <1>6 DEF Sends, ReportUsage, Goto, TypeOK, Writers
  <2>4. /\ Len(queue') = Len(queue) + 1 /\ Len(queue) \in Nat
        /\ queue'[Len(queue) + 1] = m
        /\ \A i \in 1 .. Len(queue) : queue'[i] = queue[i]
    BY <1>1, <2>2
  <2>5. \A i \in 1 .. Len(queue') : i = Len(queue) + 1 \/ i \in 1 .. Len(queue)
    BY <2>4
  <2>6. ASSUME NEW i \in 1 .. Len(queue')
        PROVE  pc'[queue'[i].ctx] = "done" /\ verdict'[queue'[i].ctx] = "passed"
    BY <1>4, <2>2, <2>3, <2>4, <2>5
  <2>7. ASSUME NEW i \in 1 .. Len(queue'), NEW j \in 1 .. Len(queue'),
               queue'[i].ctx = queue'[j].ctx
        PROVE  i = j
    <3>1. CASE i \in 1 .. Len(queue) /\ j \in 1 .. Len(queue)
      BY <1>1, <2>4, <2>7, <3>1 DEF ReportsAreFinal
    <3>2. CASE i = Len(queue) + 1 /\ j \in 1 .. Len(queue)
      BY <1>3, <2>2, <2>4, <2>7, <3>2
    <3>3. CASE j = Len(queue) + 1 /\ i \in 1 .. Len(queue)
      BY <1>3, <2>2, <2>4, <2>7, <3>3
    <3> QED
      BY <2>5, <3>1, <3>2, <3>3
  <2> QED
    BY <2>6, <2>7 DEF ReportsAreFinal
<1> QED
  BY <1>5, <1>6, QueueFrame

(* A request that is charged goes on to its report, whose callback nothing *)
(* interrupts.                                                             *)
LEMMA ChargesKept ==
  ASSUME CacheInv, NEW w \in Writers, StepOf(w)
  PROVE  ChargesAreUnderWay'
<1>1. TypeOK /\ ReportsAreFinal /\ ChargesAreUnderWay /\ SingletonOverwrites
      /\ queue \in Seq(Message) /\ charged \subseteq Contexts
  BY DEF CacheInv, TypeOK
<1>2. (\A v \in Writers \ {w} : Untouched(v)) /\ pc[w] \notin {"done", "unreported"}
  BY <1>1, OneWriter
<1>3. \A c \in Contexts : (\E i \in 1 .. Len(queue) : queue[i].ctx = c)
        => \E i \in 1 .. Len(queue') : queue'[i].ctx = c
  <2>1. CASE queue' = queue
    BY <2>1
  <2>2. CASE w \in Contexts /\ Sends(w)
    <3>1. PICK m : queue' = Append(queue, m)
      BY <2>2 DEF Sends
    <3>2. \A i \in 1 .. Len(queue) : i \in 1 .. Len(queue') /\ queue'[i] = queue[i]
      BY <1>1, <3>1
    <3> QED
      BY <3>2
  <2> QED
    BY <2>1, <2>2, QueueFrame
<1>4. ASSUME NEW c \in charged, c # w
      PROVE  \/ pc'[c] \in Counting \cup {"report", "unreported"}
             \/ \E i \in 1 .. Len(queue') : queue'[i].ctx = c
  BY <1>1, <1>2, <1>3, <1>4 DEF ChargesAreUnderWay, Untouched, Writers
<1>5. ASSUME w \in charged
      PROVE  pc[w] \in Counting \cup {"report"}
  <2>1. ~ \E i \in 1 .. Len(queue) : queue[i].ctx = w
    BY <1>1, <1>2 DEF ReportsAreFinal
  <2> QED
    BY <1>1, <1>2, <1>5, <2>1 DEF ChargesAreUnderWay
<1>6. CASE TrySet(w)
  <2>1. CASE SetAccepted(w)
    <3>1. charged' \subseteq charged \cup ({w} \ {Singleton}) \/ charged' = charged \cup {w}
      BY <1>6, <2>1 DEF TrySet
    <3>2. pc'[w] = "count"
      BY <1>1, <1>6, <2>1 DEF TrySet, Goto, TypeOK
    <3>3. charged' \subseteq charged \cup {w}
      BY <3>1
    <3> QED
      BY <1>4, <3>2, <3>3 DEF ChargesAreUnderWay, Counting
  <2>2. CASE ~SetAccepted(w)
    <3>1. charged' = charged /\ pc[w] = "set"
      BY <1>6, <2>2 DEF TrySet, ghosts
    <3>2. w \notin charged
      BY <1>5, <3>1 DEF Counting
    <3> QED
      BY <1>4, <3>1, <3>2 DEF ChargesAreUnderWay
  <2> QED
    BY <2>1, <2>2
<1>7. CASE w \in Contexts /\ ReportUsage(w)
  <2>0. charged' = charged
    BY <1>7 DEF ReportUsage, ghosts
  <2>1. CASE queue' = queue
    <3>1. pc'[w] = "unreported"
      BY <1>1, <1>7, <2>1 DEF ReportUsage, Goto, TypeOK
    <3> QED
      BY <1>4, <2>0, <3>1 DEF ChargesAreUnderWay
  <2>2. CASE Sends(w)
    <3>1. PICK m : queue' = Append(queue, m) /\ m.ctx = w
      BY <2>2 DEF Sends
    <3>2. Len(queue') = Len(queue) + 1 /\ Len(queue) \in Nat
          /\ queue'[Len(queue) + 1] = m
      BY <1>1, <3>1
    <3>3. \E i \in 1 .. Len(queue') : queue'[i].ctx = w
      BY <3>1, <3>2
    <3> QED
      BY <1>4, <2>0, <3>3 DEF ChargesAreUnderWay
  <2> QED
    BY <2>1, <2>2, QueueFrame
<1>8. CASE CountStep(w)
  <2>1. charged' = charged
    BY <1>8 DEF CountStep, CountGet, CountInit, CountSet, ghosts
  <2>2. w \in Contexts => pc'[w] \in Counting \cup {"report"}
    BY <1>1, <1>8 DEF CountStep, CountGet, CountInit, CountSet, Counted, Goto, TypeOK,
       Counting, Writers
  <2> QED
    BY <1>1, <1>4, <2>1, <2>2 DEF ChargesAreUnderWay
<1>9. CASE w \in Contexts /\ (RequestStep(w) \/ TryCheck(w) \/ GiveUp(w) \/ Refetch(w))
  <2>1. charged' = charged
    BY <1>9 DEF RequestStep, OnRequest, FreshResponse, OtherResponse, ResolveQueue,
       TryCheck, GiveUp, Refetch, ghosts
  <2>2. pc[w] \in {"new", "callout", "resolve", "check", "refetch"}
    BY <1>9 DEF RequestStep, OnRequest, FreshResponse, OtherResponse, ResolveQueue,
       TryCheck, GiveUp, Refetch
  <2>3. w \notin charged
    BY <1>5, <2>2 DEF Counting
  <2> QED
    BY <1>4, <2>1, <2>3 DEF ChargesAreUnderWay
<1>10. CASE w = Singleton /\ SingletonStep
  <2>1. charged' \subseteq charged
    BY <1>10 DEF SingletonStep, RegisterQueue, InitCounter, SingletonSets,
       SingletonRemoves, ghosts
  <2>2. w \notin charged
    BY <1>1, <1>10
  <2> QED
    BY <1>4, <2>1, <2>2 DEF ChargesAreUnderWay
<1> QED
  BY <1>6, <1>7, <1>8, <1>9, <1>10 DEF StepOf, HitStep

(* Every step keeps the invariant.                                         *)
LEMMA NextCacheInv == CacheInv /\ [Next]_vars => CacheInv'
<1>1. ASSUME CacheInv, NEW w \in Writers, StepOf(w) PROVE CacheInv'
  BY <1>1, StepTypeOK, CopiesKept, ReportsKept, ChargesKept DEF CacheInv
<1>2. ASSUME CacheInv, UNCHANGED vars PROVE CacheInv'
  BY <1>2 DEF CacheInv, TypeOK, MayWrite, CopyIsCurrent, SingletonOverwrites,
     ReportsAreFinal, ChargesAreUnderWay, StoredSize, vars
<1> QED
  BY <1>1, <1>2, NextStep

(* The invariant of the cache: whoever writes has hits, a try to spare and *)
(* a copy that is the record while its CAS is the record's; reports come   *)
(* last and charges are on their way to one.                               *)
THEOREM CacheInvariance == Spec => []CacheInv
<1> QED
  BY InitCacheInv, NextCacheInv, PTL DEF Spec

(* Every variable keeps its type; in particular no record ever has less    *)
(* than zero hits left and the counter of the memory stays a natural       *)
(* number, whoever races to write them.                                    *)
THEOREM AppCacheTyping == Spec => []TypeOK
<1>1. CacheInv => TypeOK
  BY DEF CacheInv
<1> QED
  BY <1>1, CacheInvariance, PTL

(* A request that is charged to the record is reported before its callback *)
(* ends, unless the queue does not take its message; no request is         *)
(* reported twice, and none that was refused.                              *)
THEOREM ChargesAreReported == Spec => []ChargedIsReported
<1>1. ASSUME CacheInv PROVE ChargedIsReported
  <2>1. TypeOK /\ ReportsAreFinal /\ ChargesAreUnderWay /\ Len(queue) \in Nat
    BY <1>1 DEF CacheInv, TypeOK
  <2>2. ASSUME NEW c \in Contexts, c \in charged
        PROVE  pc[c] \in Counting \cup {"report", "unreported"} \/ Reports(c) # {}
    BY <2>1, <2>2 DEF ChargesAreUnderWay, Reports
  <2>3. ASSUME NEW c \in Contexts
        PROVE  Cardinality(Reports(c)) <= 1
    <3>1. CASE Reports(c) = {}
      BY <3>1, FS_EmptySet
    <3>2. CASE Reports(c) # {}
      <4>1. PICK i : i \in Reports(c)
        BY <3>2
      <4>2. Reports(c) = {i}
        BY <2>1, <4>1 DEF ReportsAreFinal, Reports
      <4>3. Cardinality({i}) = 1
        BY FS_Singleton
      <4>4. Cardinality(Reports(c)) = 1
        BY <4>2, <4>3
      <4> QED
        BY <4>4
    <3> QED
      BY <3>1, <3>2
  <2>4. ASSUME NEW c \in Contexts, Reports(c) # {}
        PROVE  verdict[c] = "passed"
    BY <2>1, <2>4 DEF ReportsAreFinal, Reports
  <2> QED
    BY <2>2, <2>3, <2>4 DEF ChargedIsReported
<1> QED
  BY <1>1, CacheInvariance, PTL

-----------------------------------------------------------------------------
(* What conservation rests on *)

(* A write that the CAS guards, and that is accepted, replaces the very    *)
(* record that was read and measured.                                      *)
LEMMA GuardedWrite ==
  ASSUME CacheInv, NEW c \in Contexts, TrySet(c), SetAccepted(c), appCas[c] # AnyCas
  PROVE  /\ app.present /\ app'.left = app.left - Hits[c]
         /\ app.left >= Hits[c]
         /\ delta[c] = app'.size - app.size
<1>1. c \in Writers /\ c # Singleton
  BY DEF Writers
<1>2. /\ TypeOK /\ MayWrite(c) /\ CopyIsCurrent(c)
      /\ app.cas \in Nat /\ appCas[c] \in Nat
  BY <1>1 DEF CacheInv, TypeOK, Record
<1>3. pc[c] = "set" /\ appCas[c] <= app.cas
  BY <1>2 DEF TrySet, CopyIsCurrent
<1>4. appCas[c] = app.cas
  BY <1>2, <1>3 DEF SetAccepted, Accepts, NoEntry, AnyCas
<1>5. /\ app.present /\ copy[c].left = app.left /\ copy[c].size = app.size
      /\ delta[c] = copy[c].size - StoredSize /\ copy[c].left >= Hits[c]
  BY <1>2, <1>3, <1>4 DEF CopyIsCurrent, MayWrite
<1>6. app'.left = copy[c].left - Hits[c] /\ app'.size = copy[c].size
  BY <1>1 DEF TrySet, HitsBy
<1> QED
  BY <1>5, <1>6 DEF StoredSize

(* A write that the CAS guards, and that is accepted, takes the hits of    *)
(* its own request from exactly the record it replaces, and the change of  *)
(* size it goes on to count is that of the stored size.                    *)
DeductsExactly ==
  [][\A c \in Contexts :
       TrySet(c) /\ SetAccepted(c) /\ appCas[c] # AnyCas =>
         /\ app.present /\ app'.left = app.left - Hits[c]
         /\ app.left >= Hits[c]
         /\ delta[c] = app'.size - app.size]_vars

(* set_application_to_cache with the CAS of the copy (handle_cache_hit):   *)
(* no deduction made on a stale copy is ever stored, for any number of     *)
(* threads, tries and overwrites by the singleton.                         *)
THEOREM GuardedWritesDeduct == Spec => DeductsExactly
<1>1. ASSUME CacheInv, [Next]_vars
      PROVE  [\A c \in Contexts :
                TrySet(c) /\ SetAccepted(c) /\ appCas[c] # AnyCas =>
                  /\ app.present /\ app'.left = app.left - Hits[c]
                  /\ app.left >= Hits[c]
                  /\ delta[c] = app'.size - app.size]_vars
  BY <1>1, GuardedWrite
<1> QED
  BY <1>1, CacheInvariance, PTL DEF Spec, DeductsExactly

-----------------------------------------------------------------------------
(* The hit is atomic *)

(* A CAS that was read with a record is never the one that guards nothing. *)
AtomicInv == CacheInv /\ (app.present => app.cas # AnyCas)

(* What the mapping shows of the record and of the requests.               *)
RecordShown == [present |-> app.present, left |-> app.left]
PhasesShown == [c \in Contexts |-> Phase(c)]

(* Every write of the record gives it a CAS above all earlier ones.        *)
LEMMA NextAtomicInv == AtomicInv /\ [Next]_vars => AtomicInv'
<1> SUFFICES ASSUME AtomicInv, [Next]_vars
             PROVE  CacheInv' /\ (app'.present => app'.cas # AnyCas)
  BY DEF AtomicInv
<1>1. app.cas \in Nat
  BY DEF AtomicInv, CacheInv, TypeOK, Record
<1>2. NextCas(app.cas) # AnyCas
  BY <1>1 DEF NextCas, NoEntry, FirstCas, AnyCas
<1>3. app' = app \/ app'.cas = NextCas(app.cas)
  <2>1. CASE UNCHANGED vars
    BY <2>1 DEF vars
  <2>2. ASSUME NEW w \in Writers, StepOf(w) PROVE app' = app \/ app'.cas = NextCas(app.cas)
    BY <2>2 DEF StepOf, RequestStep, HitStep, CountStep, SingletonStep, OnRequest,
       FreshResponse, OtherResponse, ResolveQueue, TryCheck, GiveUp, ReportUsage,
       Refetch, TrySet, CountGet, CountInit, CountSet, RegisterQueue, InitCounter,
       SingletonSets, SingletonRemoves
  <2> QED
    BY <2>1, <2>2, NextStep
<1> QED
  BY <1>2, <1>3, NextCacheInv DEF AtomicInv

(* A request that is done and was reported has a message in the queue.     *)
Told(c) == \E i \in 1 .. Len(queue) : queue[i].ctx = c

(* The phase of a request that runs, waits or is done.                     *)
LEMMA PhaseIs ==
  ASSUME NEW c
  PROVE  /\ pc[c] \in {"new", "refetch"} => Phase(c) = "asks"
         /\ pc[c] \in {"resolve", "check", "set"} =>
              Phase(c) = IF appCas[c] = AnyCas THEN "fetched" ELSE "asks"
         /\ pc[c] = "callout" => Phase(c) = "calls"
         /\ pc[c] \in Counting \cup {"report"} => Phase(c) = "charged"
         /\ pc[c] = "unreported" => Phase(c) = "unreported"
         /\ pc[c] = "done" => Phase(c) = IF Told(c) THEN "reported" ELSE "ended"
<1>1. Reports(c) # {} <=> Told(c)
  BY DEF Reports, Told
<1> QED
  BY <1>1 DEF Phase, Counting

(* And the phase it has after a step.                                      *)
LEMMA PhaseBecomes ==
  ASSUME NEW c
  PROVE  /\ pc'[c] \in {"new", "refetch"} => Phase(c)' = "asks"
         /\ pc'[c] \in {"resolve", "check", "set"} =>
              Phase(c)' = IF appCas'[c] = AnyCas THEN "fetched" ELSE "asks"
         /\ pc'[c] = "callout" => Phase(c)' = "calls"
         /\ pc'[c] \in Counting \cup {"report"} => Phase(c)' = "charged"
         /\ pc'[c] = "unreported" => Phase(c)' = "unreported"
         /\ pc'[c] = "done" => Phase(c)' = IF Told(c)' THEN "reported" ELSE "ended"
<1>1. Reports(c)' # {} <=> Told(c)'
  BY DEF Reports, Told
<1> QED
  BY <1>1 DEF Phase, Counting

(* A message tells of its own request only.                                *)
LEMMA ToldFrame ==
  ASSUME CacheInv, NEW w \in Writers, StepOf(w), NEW c \in Contexts
  PROVE  /\ c # w => (Told(c)' <=> Told(c))
         /\ Told(w)' <=> w \in Contexts /\ Sends(w)
<1>1. queue \in Seq(Message) /\ ReportsAreFinal /\ pc[w] # "done"
  BY OneWriter DEF CacheInv, TypeOK
<1>2. ~Told(w)
  BY <1>1 DEF Told, ReportsAreFinal
<1>3. CASE w \in Contexts /\ Sends(w)
  <2> DEFINE m == [ctx |-> w, update |-> flag[w]]
  <2>1. queue' = Append(queue, m) /\ m.ctx = w
    BY <1>3 DEF Sends
  <2> HIDE DEF m
  <2>2. /\ Len(queue') = Len(queue) + 1 /\ Len(queue) \in Nat
        /\ \A i \in 1 .. Len(queue) : queue'[i] = queue[i]
        /\ queue'[Len(queue) + 1] = m
    BY <1>1, <2>1, <1>3 DEF TypeOK
  <2> QED
    BY <1>2, <1>3, <2>1, <2>2 DEF Told
<1>4. CASE ~(w \in Contexts /\ Sends(w))
  BY <1>2, <1>4, QueueFrame DEF Told
<1> QED
  BY <1>3, <1>4

(* A step moves the request that takes it, and no other.                   *)
LEMMA OthersStay ==
  ASSUME CacheInv, NEW w \in Writers, StepOf(w)
  PROVE  /\ \A c \in Contexts \ {w} : Phase(c)' = Phase(c)
         /\ \A p : w \in Contexts /\ Phase(w)' = p =>
              PhasesShown' = [PhasesShown EXCEPT ![w] = p]
         /\ w = Singleton \/ Phase(w)' = Phase(w) => UNCHANGED PhasesShown
<1>1. ASSUME NEW c \in Contexts \ {w} PROVE Phase(c)' = Phase(c)
  <2>1. pc'[c] = pc[c] /\ appCas'[c] = appCas[c]
    BY <1>1, OneWriter DEF CacheInv, Untouched, Writers
  <2>2. Told(c)' <=> Told(c)
    BY <1>1, ToldFrame
  <2>3. Reports(c)' # {} <=> Reports(c) # {}
    BY <2>2 DEF Reports, Told
  <2> QED
    BY <2>1, <2>3 DEF Phase
<1>2. Singleton \notin Contexts
  OBVIOUS
<1> QED
  BY <1>1, <1>2 DEF PhasesShown

(* A request's own steps up to the check, and the end of its callback.     *)
LEMMA RequestIsAtomic ==
  ASSUME AtomicInv, NEW c \in Contexts, RequestStep(c)
  PROVE  [Atomic!Next]_(Atomic!vars)
<1>0. c \in Writers /\ StepOf(c) /\ CacheInv /\ c # Singleton
  BY DEF Writers, StepOf, AtomicInv
<1>1. /\ app' = app /\ UNCHANGED RecordShown /\ ~Told(c)'
      /\ \A p : Phase(c)' = p => PhasesShown' = [PhasesShown EXCEPT ![c] = p]
      /\ Phase(c)' = Phase(c) => UNCHANGED PhasesShown
      /\ PhasesShown[c] = Phase(c)
  <2>1. app' = app /\ ~ReportUsage(c)
    BY <1>0 DEF RequestStep, OnRequest, FreshResponse, OtherResponse, ResolveQueue,
       ReportUsage
  <2> QED
    BY <1>0, <2>1, OthersStay, ToldFrame DEF Sends, RecordShown, PhasesShown
<1>2. pc \in [Writers -> PCs] /\ appCas \in [Writers -> Nat]
  BY <1>0 DEF CacheInv, TypeOK
<1>3. ASSUME Phase(c)' = Phase(c) PROVE UNCHANGED Atomic!vars
  BY <1>1, <1>3 DEF Atomic!vars, RecordShown, PhasesShown
<1>4. ASSUME Phase(c) \in {"asks", "calls", "fetched"}, pc'[c] = "done"
      PROVE  Atomic!End(c)
  <2>1. Phase(c)' = "ended"
    BY <1>1, <1>4, PhaseBecomes
  <2> QED
    BY <1>1, <1>4, <2>1 DEF Atomic!End, Atomic!Become, RecordShown, PhasesShown
<1>5. CASE OnRequest(c)
  <2>1. Phase(c) = "asks"
    BY <1>5, PhaseIs DEF OnRequest
  <2>2. CASE app.present /\ Take(c, app.left, app.size, app.cas) /\ Goto(c, "resolve")
    <3>1. pc'[c] = "resolve" /\ appCas'[c] # AnyCas
      BY <1>0, <1>2, <2>2 DEF Goto, Take, AtomicInv
    <3> QED
      BY <1>3, <2>1, <3>1, PhaseBecomes
  <2>3. CASE ~app.present /\ Goto(c, "callout")
    <3>1. Phase(c)' = "calls"
      BY <1>0, <1>2, <2>3, PhaseBecomes DEF Goto
    <3>2. Atomic!Miss(c)
      BY <1>1, <2>1, <2>3, <3>1 DEF Atomic!Miss, Atomic!Become, RecordShown, PhasesShown
    <3> QED
      BY <3>2 DEF Atomic!Next
  <2>4. CASE Fail(c)
    <3>1. pc'[c] = "done"
      BY <1>0, <1>2, <2>4 DEF Fail, Settle, Goto
    <3> QED
      BY <1>4, <2>1, <3>1 DEF Atomic!Next
  <2> QED
    BY <1>5, <2>2, <2>3, <2>4 DEF OnRequest
<1>6. CASE FreshResponse(c)
  <2>1. Phase(c) = "calls"
    BY <1>6, PhaseIs DEF FreshResponse
  <2>2. pc'[c] = "resolve" /\ appCas'[c] = AnyCas
    BY <1>0, <1>2, <1>6 DEF FreshResponse, Goto, Take
  <2>3. Phase(c)' = "fetched"
    BY <2>2, PhaseBecomes
  <2>4. Atomic!Fetch(c)
    BY <1>1, <2>1, <2>3 DEF Atomic!Fetch, Atomic!Become, RecordShown, PhasesShown
  <2> QED
    BY <2>4 DEF Atomic!Next
<1>7. CASE OtherResponse(c)
  <2>1. Phase(c) = "calls"
    BY <1>7, PhaseIs DEF OtherResponse
  <2>2. pc'[c] = "done"
    BY <1>0, <1>2, <1>7 DEF OtherResponse, Fail, Settle, Goto
  <2> QED
    BY <1>4, <2>1, <2>2 DEF Atomic!Next
<1>8. CASE ResolveQueue(c)
  <2>1. Phase(c) = IF appCas[c] = AnyCas THEN "fetched" ELSE "asks"
    BY <1>8, PhaseIs DEF ResolveQueue
  <2>2. CASE Goto(c, "check")
    <3>1. pc'[c] = "check" /\ appCas' = appCas
      BY <1>0, <1>2, <1>8, <2>2 DEF ResolveQueue, Goto
    <3> QED
      BY <1>3, <2>1, <3>1, PhaseBecomes
  <2>3. CASE Fail(c)
    <3>1. pc'[c] = "done"
      BY <1>0, <1>2, <2>3 DEF Fail, Settle, Goto
    <3> QED
      BY <1>4, <2>1, <3>1 DEF Atomic!Next
  <2> QED
    BY <1>8, <2>2, <2>3 DEF ResolveQueue
<1> QED
  BY <1>5, <1>6, <1>7, <1>8 DEF RequestStep

(* The tries of the loop that do not write, and the report.                *)
LEMMA TryIsAtomic ==
  ASSUME AtomicInv, NEW c \in Contexts, HitStep(c)
  PROVE  [Atomic!Next]_(Atomic!vars)
<1>0. c \in Writers /\ StepOf(c) /\ CacheInv /\ c # Singleton
  BY DEF Writers, StepOf, AtomicInv
<1>1. /\ app' = app /\ UNCHANGED RecordShown
      /\ \A p : Phase(c)' = p => PhasesShown' = [PhasesShown EXCEPT ![c] = p]
      /\ Phase(c)' = Phase(c) => UNCHANGED PhasesShown
      /\ PhasesShown[c] = Phase(c)
  <2>1. app' = app
    BY DEF HitStep, TryCheck, GiveUp, ReportUsage, Refetch
  <2> QED
    BY <1>0, <2>1, OthersStay DEF RecordShown, PhasesShown
<1>2. pc \in [Writers -> PCs] /\ appCas \in [Writers -> Nat]
  BY <1>0 DEF CacheInv, TypeOK
<1>3. ASSUME Phase(c)' = Phase(c) PROVE UNCHANGED Atomic!vars
  BY <1>1, <1>3 DEF Atomic!vars, RecordShown, PhasesShown
<1>4. ASSUME Phase(c) \in {"asks", "fetched"}, pc'[c] = "done", ~ReportUsage(c)
      PROVE  Atomic!End(c)
  <2>1. Phase(c)' = "ended"
    BY <1>0, <1>4, PhaseBecomes, ToldFrame DEF Sends
  <2> QED
    BY <1>1, <1>4, <2>1 DEF Atomic!End, Atomic!Become, RecordShown, PhasesShown
<1>5. CASE TryCheck(c)
  <2>1. Phase(c) = IF appCas[c] = AnyCas THEN "fetched" ELSE "asks"
    BY <1>5, PhaseIs DEF TryCheck
  <2>2. CASE Settle(c, "limited")
    <3>1. pc'[c] = "done" /\ pc[c] = "check"
      BY <1>0, <1>2, <1>5, <2>2 DEF TryCheck, Settle, Goto
    <3> QED
      BY <1>4, <2>1, <3>1 DEF Atomic!Next, ReportUsage
  <2>3. CASE Measure(c)
    <3>1. pc'[c] = "set" /\ appCas' = appCas
      BY <1>0, <1>2, <1>5, <2>3 DEF TryCheck, Measure, Goto
    <3> QED
      BY <1>3, <2>1, <3>1, PhaseBecomes
  <2> QED
    BY <1>5, <2>2, <2>3 DEF TryCheck
<1>6. CASE GiveUp(c)
  <2>1. Phase(c) \in {"asks", "fetched"}
    BY <1>6, PhaseIs DEF GiveUp
  <2>2. pc'[c] = "done" /\ pc[c] = "check"
    BY <1>0, <1>2, <1>6 DEF GiveUp, Settle, Goto
  <2> QED
    BY <1>4, <2>1, <2>2 DEF Atomic!Next, ReportUsage
<1>7. CASE ReportUsage(c)
  <2>1. Phase(c) = "charged"
    BY <1>7, PhaseIs DEF ReportUsage
  <2>2. \/ pc'[c] = "done" /\ Told(c)'
        \/ pc'[c] = "unreported"
    BY <1>0, <1>2, <1>7, ToldFrame DEF Sends, ReportUsage, Goto
  <2>3. Phase(c)' \in {"reported", "unreported"}
    BY <2>2, PhaseBecomes
  <2>4. Atomic!Report(c)
    BY <1>1, <2>1, <2>3 DEF Atomic!Report, Atomic!Become, RecordShown, PhasesShown
  <2> QED
    BY <2>4 DEF Atomic!Next
<1>8. CASE Refetch(c)
  <2>1. Phase(c) = "asks" /\ pc[c] = "refetch"
    BY <1>8, PhaseIs DEF Refetch
  <2>2. CASE app.present /\ Take(c, app.left, app.size, app.cas) /\ Goto(c, "check")
    <3>1. pc'[c] = "check" /\ appCas'[c] # AnyCas
      BY <1>0, <1>2, <2>2 DEF Goto, Take, AtomicInv
    <3> QED
      BY <1>3, <2>1, <3>1, PhaseBecomes
  <2>3. CASE Fail(c)
    <3>1. pc'[c] = "done"
      BY <1>0, <1>2, <2>3 DEF Fail, Settle, Goto
    <3> QED
      BY <1>4, <2>1, <3>1 DEF Atomic!Next, ReportUsage
  <2> QED
    BY <1>8, <2>2, <2>3 DEF Refetch
<1> QED
  BY <1>5, <1>6, <1>7, <1>8 DEF HitStep

(* The write of a request.  With a CAS that is the record's, what it takes *)
(* its hits from is the record.                                            *)
LEMMA WriteIsAtomic ==
  ASSUME AtomicInv, NEW c \in Contexts, TrySet(c)
  PROVE  [Atomic!Next]_(Atomic!vars)
<1>0. c \in Writers /\ StepOf(c) /\ CacheInv /\ TypeOK /\ MayWrite(c) /\ c # Singleton
  BY DEF Writers, StepOf, AtomicInv, CacheInv
<1>1. /\ \A p : Phase(c)' = p => PhasesShown' = [PhasesShown EXCEPT ![c] = p]
      /\ Phase(c)' = Phase(c) => UNCHANGED PhasesShown
      /\ PhasesShown[c] = Phase(c)
  BY <1>0, OthersStay DEF PhasesShown
<1>2. pc \in [Writers -> PCs] /\ pc[c] = "set"
  BY <1>0 DEF TypeOK, TrySet
<1>3. Phase(c) = IF appCas[c] = AnyCas THEN "fetched" ELSE "asks"
  BY <1>2, PhaseIs
<1>4. CASE SetAccepted(c)
  <2>1. pc'[c] = "count" /\ app'.present = TRUE /\ app'.left = copy[c].left - Hits[c]
    BY <1>0, <1>2, <1>4 DEF TrySet, Goto, HitsBy
  <2>2. Phase(c)' = "charged"
    BY <2>1, PhaseBecomes DEF Counting
  <2>3. CASE appCas[c] = AnyCas
    <3>1. copy[c].left \in Nat /\ Hits[c] \in Nat /\ copy[c].left >= Hits[c]
      BY <1>0, <1>2 DEF TypeOK, Copy, MayWrite
    <3>2. app'.left \in Nat
      BY <2>1, <3>1
    <3>3. RecordShown' \in Atomic!Records
      BY <2>1, <3>2 DEF RecordShown, Atomic!Records
    <3>4. Atomic!Renew(c)
      BY <1>1, <1>3, <2>2, <2>3, <3>3
         DEF Atomic!Renew, Atomic!Become, RecordShown, PhasesShown
    <3> QED
      BY <3>4 DEF Atomic!Next
  <2>4. CASE appCas[c] # AnyCas
    <3>1. app.present /\ app'.left = app.left - Hits[c] /\ app.left >= Hits[c]
      BY <1>0, <1>4, <2>4, GuardedWrite
    <3>2. RecordShown' = [present |-> TRUE, left |-> app.left - Hits[c]]
      BY <2>1, <3>1 DEF RecordShown
    <3>3. Atomic!Charge(c)
      BY <1>1, <1>3, <2>2, <2>4, <3>1, <3>2
         DEF Atomic!Charge, Atomic!Become, RecordShown, PhasesShown
    <3> QED
      BY <3>3 DEF Atomic!Next
  <2> QED
    BY <2>3, <2>4
<1>5. CASE ~SetAccepted(c)
  <2>1. appCas[c] # AnyCas
    BY <1>5 DEF SetAccepted, Accepts
  <2>2. pc'[c] = "refetch" /\ app' = app
    BY <1>0, <1>2, <1>5 DEF TrySet, Goto
  <2>3. Phase(c)' = Phase(c)
    BY <1>3, <2>1, <2>2, PhaseBecomes
  <2> QED
    BY <1>1, <2>2, <2>3 DEF Atomic!vars, RecordShown, PhasesShown
<1> QED
  BY <1>4, <1>5

(* Counting the memory shows nothing of the record or the requests.        *)
LEMMA CountIsAtomic ==
  ASSUME AtomicInv, NEW w \in Writers, CountStep(w)
  PROVE  [Atomic!Next]_(Atomic!vars)
<1>0. StepOf(w) /\ CacheInv /\ pc \in [Writers -> PCs]
  BY DEF StepOf, AtomicInv, CacheInv, TypeOK
<1>1. UNCHANGED app /\ pc[w] \in Counting
  BY DEF CountStep, CountGet, CountInit, CountSet, Counting
<1>2. w \in Contexts => pc'[w] \in Counting \cup {"report"}
  BY <1>0 DEF CountStep, CountGet, CountInit, CountSet, Counted, Counting, Goto
<1>3. w \in Contexts => Phase(w)' = Phase(w)
  BY <1>1, <1>2, PhaseIs, PhaseBecomes
<1>4. UNCHANGED PhasesShown
  BY <1>0, <1>3, OthersStay DEF Writers
<1> QED
  BY <1>1, <1>4 DEF Atomic!vars, RecordShown, PhasesShown

(* The singleton replaces the record or removes it.                        *)
LEMMA SingletonIsAtomic ==
  ASSUME AtomicInv, SingletonStep \/ TrySet(Singleton)
  PROVE  [Atomic!Next]_(Atomic!vars)
<1>0. /\ Singleton \in Writers /\ StepOf(Singleton)
      /\ CacheInv /\ TypeOK /\ SingletonOverwrites
  BY DEF Writers, StepOf, AtomicInv, CacheInv
<1>1. UNCHANGED PhasesShown
  BY <1>0, OthersStay
<1>2. ASSUME UNCHANGED app PROVE UNCHANGED Atomic!vars
  BY <1>1, <1>2 DEF Atomic!vars, RecordShown, PhasesShown
<1>3. ASSUME RecordShown' \in Atomic!Records \cup {Atomic!NoRecord} PROVE Atomic!Replace
  BY <1>1, <1>3 DEF Atomic!Replace, RecordShown, PhasesShown
<1>4. CASE RegisterQueue \/ InitCounter \/ SingletonSets
  BY <1>2, <1>4 DEF RegisterQueue, InitCounter, SingletonSets
<1>5. CASE SingletonRemoves
  <2>1. RecordShown' = Atomic!NoRecord
    BY <1>5 DEF SingletonRemoves, RecordShown, Atomic!NoRecord
  <2> QED
    BY <1>3, <2>1 DEF Atomic!Next
<1>6. CASE TrySet(Singleton)
  <2>1. CASE SetAccepted(Singleton)
    <3>1. copy[Singleton].left \in Nat
      BY <1>0 DEF TypeOK, Copy
    <3>2. app'.present = TRUE /\ app'.left = copy[Singleton].left
      BY <1>6, <2>1, <3>1 DEF TrySet, HitsBy
    <3>3. RecordShown' \in Atomic!Records
      BY <3>1, <3>2 DEF RecordShown, Atomic!Records
    <3> QED
      BY <1>3, <3>3 DEF Atomic!Next
  <2>2. CASE ~SetAccepted(Singleton)
    BY <1>2, <1>6, <2>2 DEF TrySet
  <2> QED
    BY <2>1, <2>2
<1> QED
  BY <1>4, <1>5, <1>6 DEF SingletonStep

(* Every step is an atomic one, or shows nothing.                          *)
LEMMA NextIsAtomic == AtomicInv /\ [Next]_vars => [Atomic!Next]_(Atomic!vars)
<1> SUFFICES ASSUME AtomicInv, [Next]_vars PROVE [Atomic!Next]_(Atomic!vars)
  OBVIOUS
<1>1. CASE UNCHANGED vars
  BY <1>1 DEF vars, Atomic!vars, Phase, Reports
<1>2. ASSUME NEW w \in Writers, StepOf(w) PROVE [Atomic!Next]_(Atomic!vars)
  <2>1. w \in Contexts \/ w = Singleton
    BY DEF Writers
  <2>2. CASE w \in Contexts /\ RequestStep(w)
    BY <2>2, RequestIsAtomic
  <2>3. CASE w \in Contexts /\ HitStep(w)
    BY <2>3, TryIsAtomic
  <2>4. CASE w \in Contexts /\ TrySet(w)
    BY <2>4, WriteIsAtomic
  <2>5. CASE CountStep(w)
    BY <2>5, CountIsAtomic
  <2>6. CASE w = Singleton /\ (SingletonStep \/ TrySet(w))
    BY <2>6, SingletonIsAtomic
  <2> QED
    BY <1>2, <2>1, <2>2, <2>3, <2>4, <2>5, <2>6 DEF StepOf
<1> QED
  BY <1>1, <1>2, NextStep

(* handle_cache_hit implements an atomic charge: whatever other requests   *)
(* and the singleton do between the read of a record and the write of it,  *)
(* for any number of requests, threads, tries and writes, a request that   *)
(* passes on the account of a record has found enough hits in it and taken *)
(* its own in one step; only who missed the record replaces one; and a     *)
(* charge, nothing else, is reported.                                      *)
THEOREM HitsAreAtomic == Spec => ImplementsAtomicHit
<1>1. Init => Atomic!Init
  <2> SUFFICES ASSUME Init PROVE Atomic!Init
    OBVIOUS
  <2>1. \A c \in Contexts : pc[c] = "new"
    BY DEF Init, Writers
  <2>2. \A c \in Contexts : Phase(c) = "asks"
    BY <2>1, PhaseIs
  <2>3. app.present = FALSE /\ app.left = 0
    BY DEF Init
  <2> QED
    BY <2>2, <2>3 DEF Atomic!Init, Atomic!NoRecord
<1>2. Init => AtomicInv
  BY InitCacheInv DEF AtomicInv, Init
<1> QED
  BY <1>1, <1>2, NextAtomicInv, NextIsAtomic, PTL
     DEF Spec, ImplementsAtomicHit, Atomic!Spec
=============================================================================
