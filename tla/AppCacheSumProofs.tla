-------------------------- MODULE AppCacheSumProofs --------------------------
(***************************************************************************)
(* Proofs about the sums of AppCache, for any number of requests: between  *)
(* two overwrites a record loses exactly the hits of the requests charged  *)
(* to it, and the memory counter follows the stored size, up to the known  *)
(* inaccuracies that `skewed' names.                                       *)
(*                                                                         *)
(* Both rest on CacheInv: what a guarded write replaces is what its writer *)
(* has read and measured.  The counter needs the same of the value it is   *)
(* computed from (ReadIsCurrent).                                          *)
(***************************************************************************)
EXTENDS AppCacheProofs, SumTheorems

USE ThreadOfAssumption, SingletonAssumption, SizesAssumption, HitsAssumption,
    NumbersAssumption, FailureModeAssumption

(* A writer that is about to store the counter has read a value of it that *)
(* is not newer than the counter, and is the counter's while its CAS is.   *)
(* CAS 1, which CountInit goes on with, is given to no value.              *)
ReadIsCurrent(w) ==
  pc[w] = "store" =>
    /\ read[w].cas >= 1 /\ read[w].cas <= counter.cas
    /\ read[w].cas = counter.cas => read[w].used = counter.used

(* The requests charged and the writers that count are finitely many.      *)
Finite == IsFiniteSet(charged) /\ IsFiniteSet(Owing)

SumInv ==
  /\ CacheInv
  /\ Finite
  /\ QuotaConserved
  /\ \A w \in Writers : ReadIsCurrent(w)
  /\ MemoryFollows

-----------------------------------------------------------------------------
(* The quota *)

(* The steps other than a write of the record or its removal leave alone   *)
(* what the conservation of quota speaks of.                               *)
LEMMA RecordFrame ==
  ASSUME NEW w \in Writers, StepOf(w), ~(TrySet(w) /\ SetAccepted(w)), ~SingletonRemoves
  PROVE  UNCHANGED <<app, base, charged>>
<1>1. CASE TrySet(w)
  BY <1>1 DEF TrySet, ghosts
<1>2. CASE RequestStep(w)
  BY <1>2 DEF RequestStep, OnRequest, FreshResponse, OtherResponse, ResolveQueue, ghosts
<1>3. CASE HitStep(w)
  BY <1>3 DEF HitStep, TryCheck, GiveUp, ReportUsage, Refetch, ghosts
<1>4. CASE CountStep(w)
  BY <1>4 DEF CountStep, CountGet, CountInit, CountSet, ghosts
<1>5. CASE RegisterQueue \/ InitCounter \/ SingletonSets
  BY <1>5 DEF RegisterQueue, InitCounter, SingletonSets, ghosts
<1> QED
  BY <1>1, <1>2, <1>3, <1>4, <1>5 DEF StepOf, SingletonStep

(* Who is charged has gone on from its write.                              *)
LEMMA WriterIsNotCharged ==
  ASSUME CacheInv, NEW w, TrySet(w)
  PROVE  w \notin charged
BY DEF CacheInv, ReportsAreFinal, ChargesAreUnderWay, TrySet, Counting

(* The hits of the requests charged are a sum of natural numbers.          *)
LEMMA ChargesSummable ==
  ASSUME TypeOK, IsFiniteSet(charged)
  PROVE  Summable(Hits, charged) /\ HitsOf(charged) \in Int
<1>1. Summable(Hits, charged)
  BY DEF TypeOK, Summable
<1> QED
  BY <1>1, TotalType DEF HitsOf

(* A write of the record with CAS 0 begins a new account, and one that its *)
(* CAS guards charges the record it replaces, once.                        *)
LEMMA WriteConserves ==
  ASSUME SumInv, NEW w \in Writers, TrySet(w), SetAccepted(w)
  PROVE  QuotaConserved' /\ IsFiniteSet(charged')
<1>1. TypeOK /\ TypeOK' /\ w \notin charged /\ CacheInv
  BY WriterIsNotCharged, StepTypeOK DEF SumInv, CacheInv, StepOf
<1>2. Summable(Hits, charged) /\ HitsOf(charged) \in Int
  BY <1>1, ChargesSummable DEF SumInv, Finite
<1>3. CASE appCas[w] = AnyCas
  <2>1. /\ base' = copy[w].left /\ charged' = {w} \ {Singleton}
        /\ app'.left = copy[w].left - HitsBy(w) /\ copy[w].left \in Nat
    BY <1>1, <1>3 DEF TrySet, TypeOK, Copy
  <2>2. CASE w = Singleton
    <3>1. charged' = {}
      BY <2>1, <2>2
    <3>2. HitsOf({}) = 0 /\ IsFiniteSet({})
      BY TotalEmpty, FS_EmptySet DEF HitsOf
    <3>3. HitsOf(charged') = 0 /\ IsFiniteSet(charged')
      BY <3>1, <3>2
    <3>4. HitsBy(w) = 0
      BY <2>2 DEF HitsBy
    <3>5. app'.left + 0 = base'
      BY <2>1, <3>4
    <3>6. HitsOf(charged)' = 0
      BY <3>3 DEF HitsOf
    <3>7. app'.left + HitsOf(charged)' = base'
      BY <3>5, <3>6
    <3> QED
      BY <3>3, <3>7 DEF QuotaConserved
  <2>3. CASE w # Singleton
    <3>1. charged' = {w} /\ w \in Contexts /\ Hits[w] \in Nat
      BY <2>1, <2>3 DEF Writers
    <3>2. IsFiniteSet({w}) /\ {w} \ {w} = {}
      BY FS_Singleton
    <3>7. Summable(Hits, {w})
      BY <3>1, <3>2 DEF Summable
    <3>3. HitsOf({w}) = Hits[w] + HitsOf({w} \ {w})
      BY <3>7, TotalTake DEF HitsOf
    <3>4. HitsOf({w} \ {w}) = 0
      BY <3>2, TotalEmpty DEF HitsOf
    <3>5. HitsOf(charged)' = Hits[w]
      BY <3>1, <3>3, <3>4 DEF HitsOf
    <3>6. IsFiniteSet(charged')
      BY <3>1, <3>2
    <3> QED
      BY <2>1, <2>3, <3>1, <3>5, <3>6 DEF QuotaConserved, HitsBy
  <2> QED
    BY <2>2, <2>3
<1>4. CASE appCas[w] # AnyCas
  <2>1. w \in Contexts /\ Hits[w] \in Nat
    BY <1>1, <1>4 DEF CacheInv, SingletonOverwrites, Writers
  <2>2. app.present /\ app'.left = app.left - Hits[w]
    BY <1>1, <1>4, <2>1, GuardedWrite
  <2>3. charged' = charged \cup {w} /\ base' = base
    BY <1>4 DEF TrySet
  <2>4. HitsOf(charged \cup {w}) = HitsOf(charged) + Hits[w]
    BY <1>1, <1>2, <2>1, TotalAdd DEF HitsOf
  <2>5. HitsOf(charged)' = HitsOf(charged) + Hits[w]
    BY <2>3, <2>4 DEF HitsOf
  <2>6. app.left + HitsOf(charged) = base /\ app.left \in Nat
    BY <1>1, <2>2 DEF SumInv, QuotaConserved, TypeOK, Record
  <2>7. IsFiniteSet(charged')
    BY <2>3, FS_AddElement DEF SumInv, Finite
  <2> QED
    BY <1>2, <2>1, <2>2, <2>3, <2>5, <2>6, <2>7 DEF QuotaConserved
<1> QED
  BY <1>3, <1>4

(* Every step conserves the quota.                                         *)
LEMMA StepConserves ==
  ASSUME SumInv, NEW w \in Writers, StepOf(w)
  PROVE  QuotaConserved' /\ IsFiniteSet(charged')
<1>1. CASE TrySet(w) /\ SetAccepted(w)
  BY <1>1, WriteConserves
<1>2. CASE SingletonRemoves
  BY <1>2, FS_EmptySet DEF SingletonRemoves, QuotaConserved
<1>3. CASE ~(TrySet(w) /\ SetAccepted(w)) /\ ~SingletonRemoves
  BY <1>3, RecordFrame DEF SumInv, Finite, QuotaConserved, HitsOf
<1> QED
  BY <1>1, <1>2, <1>3
-----------------------------------------------------------------------------
(* The memory counter *)

(* Only the update of the counter and its initialization by the singleton  *)
(* change it; every change raises its CAS above 1.                         *)
LEMMA CounterFrame ==
  ASSUME TypeOK, NEW w \in Writers, StepOf(w)
  PROVE  /\ counter' = counter \/ (counter'.cas > counter.cas /\ counter'.cas > 1)
         /\ \A v \in Writers \ {w} : read'[v] = read[v]
<1>1. /\ NextCas(counter.cas) > counter.cas /\ NextCas(counter.cas) > 1
      /\ read \in [Writers -> Counter]
  BY DEF TypeOK, Counter, NextCas, NoEntry, FirstCas
<1>2. CASE CountStep(w)
  BY <1>1, <1>2 DEF CountStep, CountGet, CountInit, CountSet
<1>3. CASE InitCounter
  BY <1>1, <1>3 DEF InitCounter
<1>4. CASE TrySet(w)
  BY <1>4 DEF TrySet
<1>5. CASE RequestStep(w)
  BY <1>5 DEF RequestStep, OnRequest, FreshResponse, OtherResponse, ResolveQueue, memory
<1>6. CASE HitStep(w)
  BY <1>6 DEF HitStep, TryCheck, GiveUp, ReportUsage, Refetch, memory
<1>7. CASE RegisterQueue \/ SingletonSets \/ SingletonRemoves
  BY <1>7 DEF RegisterQueue, SingletonSets, SingletonRemoves, memory
<1> QED
  BY <1>2, <1>3, <1>4, <1>5, <1>6, <1>7 DEF StepOf, SingletonStep

(* What a writer has read stays current or is outdated for good.           *)
LEMMA ReadsKept ==
  ASSUME SumInv, NEW w \in Writers, StepOf(w), NEW v \in Writers
  PROVE  ReadIsCurrent(v)'
<1>1. TypeOK /\ TypeOK' /\ ReadIsCurrent(v)
  BY StepTypeOK DEF SumInv, CacheInv
<1>2. /\ counter.cas \in Nat /\ counter'.cas \in Nat
      /\ read[v].cas \in Nat /\ read[w].cas \in Nat
  BY <1>1 DEF TypeOK, Counter
<1>3. CASE v # w
  <2>1. pc'[v] = pc[v] /\ read'[v] = read[v]
    BY <1>1, <1>3, OneWriter, CounterFrame DEF Untouched
  <2> QED
    BY <1>1, <1>2, <2>1, CounterFrame DEF ReadIsCurrent
<1>4. CASE v = w /\ CountGet(w)
  <2>1. /\ read'[w] = counter /\ counter' = counter
        /\ pc'[w] = "store" => counter.cas # NoEntry
    BY <1>1, <1>4 DEF CountGet, Goto, TypeOK
  <2> QED
    BY <1>2, <1>4, <2>1 DEF ReadIsCurrent, NoEntry
<1>5. CASE v = w /\ CountInit(w)
  <2>1. read'[w].cas = 1 /\ counter'.cas > 1
    BY <1>1, <1>2, <1>5 DEF CountInit, TypeOK, NextCas, NoEntry, FirstCas
  <2> QED
    BY <1>2, <1>5, <2>1 DEF ReadIsCurrent
<1>6. CASE v = w /\ ~(CountGet(w) \/ CountInit(w))
  <2>1. pc'[w] # "store"
    <3>1. CASE CountSet(w)
      BY <1>1, <3>1 DEF CountSet, Counted, Goto, TypeOK
    <3>2. CASE TrySet(w)
      BY <1>1, <3>2 DEF TrySet, Goto, TypeOK
    <3>3. CASE w \in Contexts /\ RequestStep(w)
      BY <1>1, <3>3 DEF RequestStep, OnRequest, FreshResponse, OtherResponse,
         ResolveQueue, Fail, Settle, Goto, TypeOK
    <3>4. CASE w \in Contexts /\ HitStep(w)
      BY <1>1, <3>4 DEF HitStep, TryCheck, Measure, GiveUp, ReportUsage, Refetch, Fail,
         Settle, Goto, TypeOK
    <3>5. CASE w = Singleton /\ SingletonStep
      BY <1>1, <3>5 DEF SingletonStep, RegisterQueue, InitCounter, SingletonSets,
         SingletonRemoves, Goto, TypeOK
    <3> QED
      BY <1>6, <3>1, <3>2, <3>3, <3>4, <3>5 DEF StepOf, CountStep
  <2> QED
    BY <1>6, <2>1 DEF ReadIsCurrent
<1> QED
  BY <1>3, <1>4, <1>5, <1>6

(* What is owed by w.                                                      *)
Owed(w) == IF w \in Owing THEN delta[w] ELSE 0

(* A step of w changes what is pending by what w owes.                     *)
LEMMA PendingStep ==
  ASSUME SumInv, NEW w \in Writers, StepOf(w)
  PROVE  /\ IsFiniteSet(Owing') /\ Pending \in Int /\ Owed(w) \in Int
         /\ Pending' = Pending - Owed(w) + Owed(w)'
<1>1. TypeOK /\ TypeOK' /\ IsFiniteSet(Owing)
  BY StepTypeOK DEF SumInv, CacheInv, Finite
<1>2. Summable(delta, Owing) /\ delta[w] \in Int /\ delta'[w] \in Int
  BY <1>1 DEF TypeOK, Owing, Summable
<1>3. \A v \in Writers \ {w} : pc'[v] = pc[v] /\ delta'[v] = delta[v]
  BY <1>1, OneWriter DEF Untouched
<1>4. Owing \ {w} = Owing' \ {w}
  BY <1>3 DEF Owing
<1>5. \A v \in Owing \ {w} : delta'[v] = delta[v]
  BY <1>3 DEF Owing
<1>6. /\ Summable(delta', Owing')
      /\ Total(delta', Owing') = Total(delta, Owing)
            - (IF w \in Owing THEN delta[w] ELSE 0) + (IF w \in Owing' THEN delta'[w] ELSE 0)
  <2>1. w \in Owing' => delta'[w] \in Int
    BY <1>2
  <2> QED
    BY ONLY <1>2, <1>4, <1>5, <2>1, TotalStep
<1> QED
  BY <1>2, <1>6, TotalType DEF Pending, Owed, Summable

(* A step that leaves the counter, the size of the record and what its     *)
(* writer owes alone.                                                      *)
LEMMA MemoryFrame ==
  ASSUME SumInv, NEW w \in Writers, StepOf(w),
         UNCHANGED <<counter, StoredSize>>, Owed(w)' = Owed(w), skewed => skewed'
  PROVE  MemoryFollows'
<1>1. Pending' = Pending
  BY PendingStep
<1> QED
  BY <1>1 DEF SumInv, MemoryFollows, CounterUsed

(* The writer has stored a record of another size: it owes the change.     *)
LEMMA SetFollows ==
  ASSUME SumInv, NEW w \in Writers, TrySet(w)
  PROVE  MemoryFollows'
<1>1. TypeOK /\ TypeOK' /\ CacheInv /\ StepOf(w)
  BY StepTypeOK DEF SumInv, CacheInv, StepOf
<1>2. pc[w] = "set" /\ counter' = counter
  BY DEF TrySet
<1>3. Owed(w) = 0
  BY <1>2 DEF Owed, Owing, Counting
<1>4. CASE ~SetAccepted(w)
  <2>1. app' = app /\ skewed' = skewed /\ pc'[w] = "refetch"
    BY <1>1, <1>4 DEF TrySet, Goto, TypeOK, ghosts
  <2>2. Owed(w)' = 0
    BY <2>1 DEF Owed, Owing, Counting
  <2> QED
    BY <1>1, <1>2, <1>3, <2>1, <2>2, MemoryFrame DEF StoredSize
<1>5. CASE SetAccepted(w)
  <2>1. /\ app'.present /\ app'.size = copy[w].size
        /\ delta' = delta /\ pc'[w] = "count"
    BY <1>1, <1>5 DEF TrySet, Goto, TypeOK
  <2>2. Owed(w)' = delta[w] /\ StoredSize' = copy[w].size
    BY <2>1 DEF Owed, Owing, Counting, StoredSize
  <2>3. ~skewed' => ~skewed /\ delta[w] = copy[w].size - StoredSize
    <3>1. CASE appCas[w] = AnyCas
      BY <1>5, <3>1 DEF TrySet
    <3>2. CASE appCas[w] # AnyCas
      <4>1. w \in Contexts
        BY <1>1, <3>2 DEF CacheInv, SingletonOverwrites, Writers
      <4>2. app.present /\ delta[w] = app'.size - app.size /\ skewed' = skewed
        BY <1>1, <1>5, <3>2, <4>1, GuardedWrite DEF TrySet
      <4> QED
        BY <2>1, <4>2 DEF StoredSize
    <3> QED
      BY <3>1, <3>2
  <2>4. CounterUsed' = CounterUsed /\ CounterUsed \in Int
    BY <1>1, <1>2 DEF CounterUsed, TypeOK, Counter
  <2>5. /\ StoredSize \in Int /\ copy[w].size \in Int /\ delta[w] \in Int
        /\ InitialSize \in Int
    BY <1>1 DEF StoredSize, TypeOK, Record, Copy
  <2>6. Pending \in Int /\ Pending' = Pending + delta[w]
    BY <1>1, <1>3, <2>2, <2>5, PendingStep
  <2>7. ~skewed => CounterUsed + Pending = InitialSize + StoredSize
    BY DEF SumInv, MemoryFollows
  <2>8. ~skewed' => CounterUsed' + Pending' = InitialSize + StoredSize'
    BY <2>2, <2>3, <2>4, <2>5, <2>6, <2>7
  <2> QED
    BY <2>8 DEF MemoryFollows
<1> QED
  BY <1>4, <1>5

(* An initialization of the counter while it is absent is what an absent   *)
(* counter counts as.                                                      *)
LEMMA InitializedFollows ==
  ASSUME SumInv, NEW w \in Writers, StepOf(w),
         counter'.used = InitialSize, counter'.cas = NextCas(counter.cas),
         skewed' = (skewed \/ counter.cas # NoEntry), app' = app, Owed(w)' = Owed(w)
  PROVE  MemoryFollows'
<1>1. Pending' = Pending /\ StoredSize' = StoredSize
  BY PendingStep DEF StoredSize
<1>2. ~skewed' => ~skewed /\ CounterUsed = InitialSize /\ CounterUsed' = InitialSize
  BY DEF CounterUsed, NextCas, NoEntry, FirstCas
<1> QED
  BY <1>1, <1>2 DEF SumInv, MemoryFollows

(* The counter is written by a writer that has read what it replaces.      *)
LEMMA CountFollows ==
  ASSUME SumInv, NEW w \in Writers, CountStep(w)
  PROVE  MemoryFollows'
<1>1. TypeOK /\ TypeOK' /\ ReadIsCurrent(w) /\ StepOf(w)
  BY StepTypeOK DEF SumInv, CacheInv, StepOf
<1>2. app' = app /\ StoredSize' = StoredSize
  BY DEF CountStep, CountGet, CountInit, CountSet, StoredSize
<1>3. CASE CountGet(w)
  <2>1. /\ pc[w] = "count" /\ pc'[w] \in {"init", "store"}
        /\ UNCHANGED <<counter, delta, skewed>>
    BY <1>1, <1>3 DEF CountGet, Goto, TypeOK, ghosts
  <2>2. Owed(w)' = Owed(w)
    BY <2>1 DEF Owed, Owing, Counting
  <2> QED
    BY <1>1, <1>2, <2>1, <2>2, MemoryFrame
<1>4. CASE CountInit(w)
  <2>1. /\ pc[w] = "init" /\ pc'[w] = "store" /\ delta' = delta
        /\ counter'.used = InitialSize /\ counter'.cas = NextCas(counter.cas)
        /\ skewed' = (skewed \/ counter.cas # NoEntry)
    BY <1>1, <1>4 DEF CountInit, Goto, TypeOK
  <2>2. Owed(w)' = Owed(w)
    BY <2>1 DEF Owed, Owing, Counting
  <2> QED
    BY <1>1, <1>2, <2>1, <2>2, InitializedFollows
<1>5. CASE CountSet(w)
  <2>1. /\ pc[w] = "store" /\ Owed(w) = delta[w]
        /\ delta[w] \in Int /\ InitialSize \in Int
    BY <1>1, <1>5 DEF CountSet, Owed, Owing, Counting, TypeOK
  <2>2. CASE skewed'
    BY <2>2 DEF MemoryFollows
  <2>3. CASE rounds[w] + 1 < CounterTries /\ Goto(w, "count")
             /\ UNCHANGED <<counter, delta, skewed>>
    <3>1. Owed(w)' = Owed(w)
      BY <1>1, <2>1, <2>3 DEF Owed, Owing, Counting, Goto, TypeOK
    <3> QED
      BY <1>1, <1>2, <2>3, <3>1, MemoryFrame
  <2>4. CASE /\ Accepts(counter.cas, read[w].cas)
             /\ counter' = [used |-> Resized(w), cas |-> NextCas(counter.cas)]
             /\ skewed' = (skewed \/ Clamps(w))
             /\ Counted(w)
             /\ ~skewed'
    <3>1. /\ read[w].cas = counter.cas /\ read[w].used = counter.used
          /\ counter.cas # NoEntry /\ counter.used \in Int
      <4>1. counter.cas \in Nat /\ read[w].cas \in Nat /\ counter.used \in Nat
        BY <1>1 DEF TypeOK, Counter
      <4>2. read[w].cas >= 1 /\ read[w].cas <= counter.cas
        BY <1>1, <2>1 DEF ReadIsCurrent
      <4>3. read[w].cas = counter.cas
        BY <2>4, <4>1, <4>2 DEF Accepts, NoEntry, AnyCas
      <4> QED
        BY <1>1, <2>1, <4>1, <4>2, <4>3 DEF ReadIsCurrent, NoEntry
    <3>2. ~skewed /\ ~Clamps(w)
      BY <2>4
    <3>3. /\ counter'.used = counter.used + delta[w]
          /\ counter'.cas # NoEntry
      BY <1>1, <2>4, <3>1, <3>2 DEF Resized, NextCas, NoEntry, FirstCas, TypeOK, Counter
    <3>4. CounterUsed = counter.used /\ CounterUsed' = counter.used + delta[w]
      BY <3>1, <3>3 DEF CounterUsed
    <3>5. Owed(w)' = 0
      <4>1. delta'[w] = 0
        BY <1>1, <2>4 DEF Counted, TypeOK
      <4> QED
        BY <4>1 DEF Owed
    <3>6. Pending \in Int /\ Pending' = Pending - delta[w]
      BY <1>1, <2>1, <3>5, PendingStep
    <3>7. CounterUsed + Pending = InitialSize + StoredSize
      BY <3>2 DEF SumInv, MemoryFollows
    <3>8. CounterUsed' + Pending' = CounterUsed + Pending
      BY <2>1, <3>1, <3>4, <3>6
    <3> QED
      BY <1>2, <3>7, <3>8 DEF MemoryFollows
  <2> QED
    BY <1>5, <2>2, <2>3, <2>4 DEF CountSet
<1> QED
  BY <1>3, <1>4, <1>5 DEF CountStep

(* The other steps, and all of them.                                       *)
LEMMA StepFollows ==
  ASSUME SumInv, NEW w \in Writers, StepOf(w)
  PROVE  MemoryFollows'
<1>1. TypeOK
  BY DEF SumInv, CacheInv
<1>2. ASSUME pc[w] \notin Counting, pc'[w] \notin Counting
      PROVE  Owed(w)' = Owed(w)
  BY <1>2 DEF Owed, Owing
<1>3. CASE w \in Contexts /\ (RequestStep(w) \/ HitStep(w))
  <2>1. UNCHANGED <<app, counter, skewed>>
    BY <1>3 DEF RequestStep, OnRequest, FreshResponse, OtherResponse, ResolveQueue,
       HitStep, TryCheck, GiveUp, ReportUsage, Refetch, memory, ghosts
  <2>2. pc[w] \notin Counting
    BY <1>3 DEF RequestStep, OnRequest, FreshResponse, OtherResponse, ResolveQueue,
       HitStep, TryCheck, GiveUp, ReportUsage, Refetch, Counting
  <2>3. pc'[w] \notin Counting
    <3>1. CASE RequestStep(w)
      BY <1>1, <1>3, <3>1 DEF RequestStep, OnRequest, FreshResponse, OtherResponse,
         ResolveQueue, Fail, Settle, Goto, TypeOK, Counting, Writers
    <3>2. CASE HitStep(w)
      BY <1>1, <1>3, <3>2 DEF HitStep, TryCheck, Measure, GiveUp, ReportUsage, Refetch,
         Fail, Settle, Goto, TypeOK, Counting, Writers
    <3> QED
      BY <1>3, <3>1, <3>2
  <2> QED
    BY <1>2, <2>1, <2>2, <2>3, MemoryFrame DEF StoredSize
<1>4. CASE w = Singleton /\ (RegisterQueue \/ SingletonSets)
  <2>1. UNCHANGED <<app, counter, skewed>>
    BY <1>4 DEF RegisterQueue, SingletonSets, memory, ghosts
  <2>2. pc[w] \notin Counting /\ pc'[w] \notin Counting
    BY <1>1, <1>4 DEF RegisterQueue, SingletonSets, Goto, TypeOK, Counting
  <2> QED
    BY <1>2, <2>1, <2>2, MemoryFrame DEF StoredSize
<1>5. CASE w = Singleton /\ SingletonRemoves
  <2>1. /\ UNCHANGED <<counter, pc, delta>> /\ ~app'.present
        /\ skewed' = (skewed \/ app.present)
    BY <1>5 DEF SingletonRemoves, memory
  <2>2. Owed(w)' = Owed(w)
    BY <2>1 DEF Owed, Owing
  <2>3. CASE app.present
    BY <2>1, <2>3 DEF MemoryFollows
  <2>4. CASE ~app.present
    <3>1. skewed => skewed'
      BY <2>1, <2>4
    <3> QED
      BY <2>1, <2>2, <2>4, <3>1, MemoryFrame DEF StoredSize
  <2> QED
    BY <2>3, <2>4
<1>6. CASE w = Singleton /\ InitCounter
  <2>1. /\ pc[w] \notin Counting /\ pc'[w] \notin Counting
    BY <1>1, <1>6 DEF InitCounter, Goto, TypeOK, Counting
  <2>2. /\ counter'.used = InitialSize /\ counter'.cas = NextCas(counter.cas)
        /\ skewed' = (skewed \/ counter.cas # NoEntry) /\ app' = app
    BY <1>6 DEF InitCounter
  <2> QED
    BY <1>2, <2>1, <2>2, InitializedFollows
<1> QED
  BY <1>3, <1>4, <1>5, <1>6, SetFollows, CountFollows DEF StepOf, SingletonStep

-----------------------------------------------------------------------------
(* The theorems *)

(* Nothing is charged, counted or stored at first.                         *)
LEMMA InitSumInv == Init => SumInv
<1> SUFFICES ASSUME Init PROVE SumInv
  OBVIOUS
<1>1. CacheInv
  BY InitCacheInv
<1>2. \A w \in Writers : pc[w] \in {"off", "new"}
  BY DEF Init
<1>3. Owing = {} /\ \A w \in Writers : ReadIsCurrent(w)
  BY <1>2 DEF Owing, Counting, ReadIsCurrent
<1>4. Finite
  BY <1>3, FS_EmptySet DEF Finite, Init
<1>5. Pending = 0
  BY <1>3, TotalEmpty DEF Pending
<1>6. CounterUsed = InitialSize /\ StoredSize = 0
  BY DEF Init, CounterUsed, NoRead, StoredSize
<1>7. MemoryFollows
  BY <1>5, <1>6 DEF MemoryFollows
<1>8. QuotaConserved
  BY DEF Init, QuotaConserved
<1> QED
  BY <1>1, <1>3, <1>4, <1>7, <1>8 DEF SumInv

(* Every step keeps the sums.                                              *)
LEMMA NextSumInv == SumInv /\ [Next]_vars => SumInv'
<1>1. ASSUME SumInv, NEW w \in Writers, StepOf(w) PROVE SumInv'
  <2>1. CacheInv'
    BY <1>1, StepTypeOK, CopiesKept, ReportsKept, ChargesKept DEF SumInv, CacheInv
  <2>2. Finite' /\ QuotaConserved'
    BY <1>1, PendingStep, StepConserves DEF Finite
  <2> QED
    BY <1>1, <2>1, <2>2, ReadsKept, StepFollows DEF SumInv
<1>2. ASSUME SumInv, UNCHANGED vars PROVE SumInv'
  <2>1. CacheInv'
    BY <1>2, NextCacheInv DEF SumInv
  <2>2. Owing' = Owing /\ Pending' = Pending /\ StoredSize' = StoredSize
        /\ CounterUsed' = CounterUsed
    BY <1>2 DEF vars, Owing, Pending, StoredSize, CounterUsed
  <2> QED
    BY <1>2, <2>1, <2>2 DEF vars, SumInv, Finite, QuotaConserved, HitsOf, ReadIsCurrent,
       MemoryFollows
<1> QED
  BY <1>1, <1>2, NextStep

(* The invariant of the sums: CacheInv, reads of the counter that are      *)
(* current or outdated for good, and the two balances.                     *)
THEOREM SumInvariance == Spec => []SumInv
<1> QED
  BY InitSumInv, NextSumInv, PTL DEF Spec

(* handle_cache_hit: between two overwrites the record loses exactly the   *)
(* hits of the requests passed on its account, however many race for it,   *)
(* retry, give up or are overtaken by the singleton.                       *)
THEOREM QuotaIsConserved == Spec => []QuotaConserved
<1>1. SumInv => QuotaConserved
  BY DEF SumInv
<1> QED
  BY <1>1, SumInvariance, PTL

(* update_shared_memory_size: as long as it has met none of its known      *)
(* inaccuracies, the memory counter is what is stored, up to the changes   *)
(* that are being counted; no two updates of it are lost.                  *)
THEOREM MemoryIsFollowed == Spec => []MemoryFollows
<1>1. SumInv => MemoryFollows
  BY DEF SumInv
<1> QED
  BY <1>1, SumInvariance, PTL
=============================================================================
