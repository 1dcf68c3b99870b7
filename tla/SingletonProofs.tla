--------------------------- MODULE SingletonProofs ---------------------------
(***************************************************************************)
(* Proofs about Singleton, for any messages, capacity and number of        *)
(* flushes: the service can always tell what an unanswered call was for,   *)
(* and no call is entered in both of its tables; its types; that the       *)
(* memory it counts is what the delta store holds; and that it accounts    *)
(* for all usage, where names have no underscore.                          *)
(***************************************************************************)
EXTENDS Singleton, SumTheorems

(* Tokens of earlier flushes; a new flush makes none of them again.        *)
Used(T) ==
  \A t \in T : /\ t.flush \in Nat /\ t.flush < flushes
               /\ t.kind \in {"report", "auth"}

(* The entries of the tables, and the calls that have one.                 *)
EntriesOfKind ==
  /\ \A t \in DOMAIN report_requests : t.kind = "report"
  /\ \A t \in DOMAIN auth_requests : t.kind = "auth"
CallsHaveEntry ==
  \A t \in calls : /\ t.kind = "report" => t \in DOMAIN report_requests
                   /\ t.kind = "auth" => t \in DOMAIN auth_requests

TablesInv ==
  /\ flushes \in Nat
  /\ Used(calls \cup DOMAIN report_requests \cup DOMAIN auth_requests)
  /\ EntriesOfKind
  /\ CallsHaveEntry

-----------------------------------------------------------------------------
(* A flush adds entries and calls of its own tokens only.                  *)
LEMMA FlushKeepsTables ==
  ASSUME TablesInv, NEW d, NEW keys, NEW memory, FlushLocalCache(d, keys, memory)
  PROVE  TablesInv'
<1> DEFINE reports == {Token("report", k) : k \in DOMAIN d}
           auths   == {Token("auth", k) : k \in DOMAIN keys}
<1>1. PICK failed \in SUBSET (reports \cup auths) :
        /\ report_requests' = Inserted(report_requests,
             [t \in reports \ failed |-> ReportOf(t.to, d[t.to])])
        /\ auth_requests' = Inserted(auth_requests, [t \in auths \ failed |-> t.to])
        /\ calls' = calls \cup ((reports \cup auths) \ failed)
        /\ flushes' = flushes + 1
  BY DEF FlushLocalCache
<1>2. /\ \A t \in reports : t.flush = flushes /\ t.kind = "report"
      /\ \A t \in auths : t.flush = flushes /\ t.kind = "auth"
  BY DEF Token
<1> HIDE DEF reports, auths
<1>3. /\ DOMAIN report_requests' = DOMAIN report_requests \cup (reports \ failed)
      /\ DOMAIN auth_requests' = DOMAIN auth_requests \cup (auths \ failed)
  BY <1>1 DEF Inserted
<1>4. flushes \in Nat /\ flushes' \in Nat
  BY <1>1 DEF TablesInv
<1>5. Used(calls \cup DOMAIN report_requests \cup DOMAIN auth_requests)'
  BY <1>1, <1>2, <1>3, <1>4 DEF TablesInv, Used
<1>6. EntriesOfKind'
  BY <1>2, <1>3 DEF TablesInv, EntriesOfKind
<1>7. CallsHaveEntry'
  BY <1>1, <1>2, <1>3 DEF TablesInv, CallsHaveEntry
<1> QED
  BY <1>4, <1>5, <1>6, <1>7 DEF TablesInv

(* An answer ends one call and removes at most the entries of that call.   *)
LEMMA ResponseKeepsTables ==
  ASSUME TablesInv, NEW t \in calls, Response(t)
  PROVE  TablesInv'
<1>1. calls' = calls \ {t} /\ flushes' = flushes
  BY DEF Response, NoHeaders, Timeout, WithoutBody, Accepted, Refused, Answer
<1>2. /\ \/ report_requests' = report_requests
         \/ report_requests' = Without(report_requests, t)
      /\ \/ auth_requests' = auth_requests
         \/ auth_requests' = Without(auth_requests, t)
  BY DEF Response, NoHeaders, Timeout, WithoutBody, Accepted, Refused
<1>3. /\ DOMAIN report_requests' \in {DOMAIN report_requests, DOMAIN report_requests \ {t}}
      /\ DOMAIN auth_requests' \in {DOMAIN auth_requests, DOMAIN auth_requests \ {t}}
  BY <1>2 DEF Without
<1>4. Used(calls \cup DOMAIN report_requests \cup DOMAIN auth_requests)'
  BY <1>1, <1>3 DEF TablesInv, Used
<1>5. EntriesOfKind' /\ CallsHaveEntry'
  BY <1>1, <1>3 DEF TablesInv, EntriesOfKind, CallsHaveEntry
<1> QED
  BY <1>1, <1>4, <1>5 DEF TablesInv

(* A step that leaves the calls and the tables alone.                      *)
LEMMA TablesUntouched ==
  ASSUME TablesInv, UNCHANGED <<tables, flushes>>
  PROVE  TablesInv'
BY DEF tables, TablesInv, Used, EntriesOfKind, CallsHaveEntry

(* Every step keeps the invariant.                                         *)
LEMMA NextTables == TablesInv /\ [Next]_vars => TablesInv'
<1> SUFFICES ASSUME TablesInv, [Next]_vars PROVE TablesInv'
  OBVIOUS
<1>1. CASE FilterSends
  BY <1>1, TablesUntouched DEF FilterSends
<1>2. CASE OnQueueReady
  <2>1. \/ \E d, keys, memory : FlushLocalCache(d, keys, memory)
        \/ UNCHANGED <<tables, flushes>>
    BY <1>2 DEF OnQueueReady
  <2> QED
    BY <2>1, FlushKeepsTables, TablesUntouched
<1>3. CASE OnTick
  BY <1>3, FlushKeepsTables DEF OnTick
<1>4. ASSUME NEW t \in calls, Response(t) PROVE TablesInv'
  BY <1>4, ResponseKeepsTables
<1>5. CASE UNCHANGED vars
  BY <1>5, TablesUntouched DEF vars
<1> QED
  BY <1>1, <1>2, <1>3, <1>4, <1>5 DEF Next

(* The tables report_requests and auth_requests, in any number of flushes  *)
(* under way together: entries are of their own kind and of earlier        *)
(* flushes, and each unanswered call has one.                              *)
THEOREM TablesInvariance == Spec => []TablesInv
<1>1. Init => TablesInv
  BY DEF Init, Empty, TablesInv, Used, EntriesOfKind, CallsHaveEntry
<1> QED
  BY <1>1, NextTables, PTL DEF Spec

(* on_http_call_response always finds in one of its tables, and in one     *)
(* only, what the call it is given the answer to was for.                  *)
THEOREM EveryCallIsTracked == Spec => []CallsTracked
<1>1. TablesInv => CallsTracked
  BY DEF TablesInv, EntriesOfKind, CallsHaveEntry, CallsTracked
<1> QED
  BY <1>1, TablesInvariance, PTL

-----------------------------------------------------------------------------
(* The types of the maps *)

(* Usage by metric, by application, by delta key: all of them finite maps. *)
IsUsage(u) == IsFiniteSet(DOMAIN u) /\ u \in [DOMAIN u -> Nat]
AreApps(apps) ==
  /\ IsFiniteSet(DOMAIN apps)
  /\ \A a \in DOMAIN apps : a \in Apps /\ IsUsage(apps[a])
IsStore(d) ==
  /\ IsFiniteSet(DOMAIN d)
  /\ \A k \in DOMAIN d : k \in Keys /\ AreApps(d[k])
AreKeys(keys) ==
  \A k \in DOMAIN keys : \E m \in Inputs : k = CacheKey(m) /\ keys[k] = m.tok
OfReports(T) == {t \in T : t.kind = "report"}

(* The store and the reports under way hold usage of known applications.   *)
TypeInv ==
  /\ TypeOK
  /\ IsStore(deltas)
  /\ \A t \in DOMAIN report_requests : AreApps(report_requests[t].usages)
  /\ IsFiniteSet(OfReports(calls))

(* What is looked up in a store, or in a map of usages, has a value even   *)
(* where there is no entry.                                                *)
LEMMA LookedUp ==
  /\ AreApps(Empty) /\ IsUsage(Empty) /\ IsStore(Empty)
  /\ \A d, k : IsStore(d) => AreApps(AppsOf(d, k))
  /\ \A apps, a : AreApps(apps) => IsUsage(UsageOf(apps, a))
  /\ \A u, x : IsUsage(u) => HitsOf(u, x) \in Nat
<1>1. DOMAIN Empty = {} /\ IsFiniteSet(DOMAIN Empty)
  BY FS_EmptySet DEF Empty
<1>2. AreApps(Empty) /\ IsUsage(Empty) /\ IsStore(Empty)
  <2>1. Empty \in [DOMAIN Empty -> Nat]
    BY DEF Empty
  <2> QED
    BY <1>1, <2>1 DEF AreApps, IsUsage, IsStore
<1>3. \A d, k : IsStore(d) => AreApps(AppsOf(d, k))
  BY <1>2 DEF IsStore, AppsOf
<1>4. \A apps, a : AreApps(apps) => IsUsage(UsageOf(apps, a))
  BY <1>2 DEF AreApps, UsageOf
<1>5. \A u, x : IsUsage(u) => HitsOf(u, x) \in Nat
  BY DEF IsUsage, HitsOf
<1> QED
  BY <1>2, <1>3, <1>4, <1>5

(* The usage in a store and in a report is a number.                       *)
LEMMA UsageIsNatural ==
  /\ \A d, x : IsStore(d) => Stored(d, x) \in Nat
  /\ \A r, x : AreApps(r.usages) => Reported(r, x) \in Nat
BY LookedUp DEF Stored, Reported

(* update_delta_store leaves a store.                                      *)
LEMMA UpdatedIsStore ==
  ASSUME NEW d, IsStore(d), NEW m \in Inputs
  PROVE  IsStore(Updated(d, m))
<1> DEFINE apps == AppsOf(d, DeltaKey(m))
           usage == AddUsage(UsageOf(apps, m.app), m.metrics)
           new == With(apps, m.app, usage)
<1>1. AreApps(apps) /\ IsUsage(UsageOf(apps, m.app)) /\ IsUsage(m.metrics)
  BY LookedUp, InputsAssumption DEF IsUsage
<1>2. IsUsage(usage)
  <2>1. DOMAIN usage = DOMAIN UsageOf(apps, m.app) \cup DOMAIN m.metrics
    BY DEF AddUsage
  <2>2. IsFiniteSet(DOMAIN usage)
    BY <1>1, <2>1, FS_Union DEF IsUsage
  <2>3. usage \in [DOMAIN usage -> Nat]
    BY <1>1, LookedUp DEF AddUsage
  <2> QED
    BY <2>2, <2>3 DEF IsUsage
<1> HIDE DEF usage
<1>3. AreApps(new)
  <2>1. DOMAIN new = DOMAIN apps \cup {m.app}
    BY DEF With
  <2>2. IsFiniteSet(DOMAIN new)
    BY <1>1, <2>1, FS_AddElement DEF AreApps
  <2>3. \A a \in DOMAIN new : a \in Apps /\ IsUsage(new[a])
    BY <1>1, <1>2 DEF With, AreApps, Apps
  <2> QED
    BY <2>2, <2>3 DEF AreApps
<1>4. Updated(d, m) = With(d, DeltaKey(m), new)
  BY DEF Updated, usage
<1> HIDE DEF new
<1>5. DOMAIN Updated(d, m) = DOMAIN d \cup {DeltaKey(m)}
  BY <1>4 DEF With
<1>6. IsFiniteSet(DOMAIN Updated(d, m))
  BY <1>5, FS_AddElement DEF IsStore
<1>7. \A k \in DOMAIN Updated(d, m) : k \in Keys /\ AreApps(Updated(d, m)[k])
  BY <1>3, <1>4, <1>5 DEF With, IsStore, Keys
<1> QED
  BY <1>6, <1>7 DEF IsStore

(* What a flush does to the calls: the reports R and the authorize calls A *)
(* are made, and those of F fail.                                          *)
FlushedInto(d, keys, R, A, F) ==
  /\ IsFiniteSet(R)
  /\ \A t \in R : t.kind = "report" /\ t.to \in DOMAIN d
  /\ R = {Token("report", k) : k \in DOMAIN d}
  /\ \A t \in A : t.kind = "auth" /\ t.to \in DOMAIN keys
  /\ \A t \in R \cup A : t = Token(t.kind, t.to)
  /\ deltas' = Empty /\ memory_allocated' = 0 /\ flushes' = flushes + 1
  /\ DOMAIN report_requests' = DOMAIN report_requests \cup (R \ F)
  /\ \A t \in DOMAIN report_requests' :
       report_requests'[t] =
         IF t \in R \ F THEN ReportOf(t.to, d[t.to]) ELSE report_requests[t]
  /\ DOMAIN auth_requests' = DOMAIN auth_requests \cup (A \ F)
  /\ calls' = calls \cup ((R \cup A) \ F)
  /\ OfReports(calls') = OfReports(calls) \cup (R \ F)
  /\ lost' = [x \in Cells |-> lost[x] +
       Total([t \in R |-> Reported(ReportOf(t.to, d[t.to]), x)], R \cap F)]

(* Every flush is of this kind.                                            *)
LEMMA Flushed ==
  ASSUME NEW d, IsStore(d), NEW keys, NEW memory, FlushLocalCache(d, keys, memory)
  PROVE  \E R, A, F : FlushedInto(d, keys, R, A, F)
<1> DEFINE R == {Token("report", k) : k \in DOMAIN d}
           A == {Token("auth", k) : k \in DOMAIN keys}
<1>1. PICK F \in SUBSET (R \cup A) :
        /\ report_requests' = Inserted(report_requests,
             [t \in R \ F |-> ReportOf(t.to, d[t.to])])
        /\ auth_requests' = Inserted(auth_requests, [t \in A \ F |-> t.to])
        /\ calls' = calls \cup ((R \cup A) \ F)
        /\ lost' = [x \in Cells |-> lost[x] +
             Total([t \in R |-> Reported(ReportOf(t.to, d[t.to]), x)], R \cap F)]
  BY DEF FlushLocalCache
<1>2. IsFiniteSet(R)
  <2>1. IsFiniteSet(DOMAIN d)
    BY DEF IsStore
  <2>2. R = {Token("report", k) : k \in DOMAIN d}
    OBVIOUS
  <2> DEFINE f == [k \in DOMAIN d |-> Token("report", k)]
  <2>3. f \in Surjection(DOMAIN d, R)
    BY DEF Surjection
  <2> HIDE DEF f, R
  <2> QED
    BY ONLY <2>1, <2>3, FS_Surjection
<1>3. /\ \A t \in R : t.kind = "report" /\ t.to \in DOMAIN d
      /\ \A t \in A : t.kind = "auth" /\ t.to \in DOMAIN keys
      /\ \A t \in R \cup A : t = Token(t.kind, t.to)
  BY DEF Token
<1>4. R = {Token("report", k) : k \in DOMAIN d}
  OBVIOUS
<1> HIDE DEF R, A
<1>5. /\ DOMAIN report_requests' = DOMAIN report_requests \cup (R \ F)
      /\ DOMAIN auth_requests' = DOMAIN auth_requests \cup (A \ F)
  BY <1>1 DEF Inserted
<1>6. \A t \in DOMAIN report_requests' :
        report_requests'[t] = IF t \in R \ F
          THEN ReportOf(t.to, d[t.to]) ELSE report_requests[t]
  BY <1>1 DEF Inserted
<1>7. OfReports(calls') = OfReports(calls) \cup (R \ F)
  BY <1>1, <1>3 DEF OfReports
<1>8. deltas' = Empty /\ memory_allocated' = 0 /\ flushes' = flushes + 1
  BY DEF FlushLocalCache, FlushDeltaStore
<1>9. FlushedInto(d, keys, R, A, F)
  BY ONLY <1>1, <1>2, <1>3, <1>4, <1>5, <1>6, <1>7, <1>8 DEF FlushedInto
<1> QED
  BY ONLY <1>9

(* The tokens in use are of earlier flushes, reports of known delta keys   *)
(* and authorize calls of known cache keys.                                *)
TokensTyped ==
  \A t \in calls \cup DOMAIN report_requests \cup DOMAIN auth_requests :
    t \in Tokens /\ t.flush < flushes

(* What a flush touches keeps its type.                                    *)
LEMMA FlushTypes ==
  ASSUME TypeInv, NEW d, IsStore(d), NEW keys, AreKeys(keys), NEW memory,
         FlushLocalCache(d, keys, memory)
  PROVE  /\ IsStore(deltas') /\ memory_allocated' \in Nat /\ flushes' \in Nat
         /\ TokensTyped'
         /\ lost' \in [Cells -> Nat]
         /\ \A t \in DOMAIN report_requests' : AreApps(report_requests'[t].usages)
         /\ IsFiniteSet(OfReports(calls'))
<1>1. PICK R, A, F : FlushedInto(d, keys, R, A, F)
  BY Flushed
<1>2. IsStore(deltas') /\ memory_allocated' \in Nat
  BY <1>1, LookedUp DEF FlushedInto
<1>3. /\ flushes \in Nat /\ flushes' = flushes + 1 /\ flushes' \in Nat
      /\ TokensTyped /\ lost \in [Cells -> Nat]
  BY <1>1 DEF TypeInv, TypeOK, TokensTyped, FlushedInto
<1>5. TokensTyped'
  <2>1. \A t \in R : t \in Tokens
    <3> TAKE t \in R
    <3>1. t = [flush |-> flushes, kind |-> "report", to |-> t.to]
      BY <1>1 DEF Token, FlushedInto
    <3>2. t.to \in Keys
      BY <1>1 DEF IsStore, FlushedInto
    <3> QED
      BY ONLY <1>3, <3>1, <3>2 DEF Tokens
  <2>2. \A t \in A : t \in Tokens
    <3> TAKE t \in A
    <3>1. t = [flush |-> flushes, kind |-> "auth", to |-> t.to]
      BY <1>1 DEF Token, FlushedInto
    <3>2. t.to \in CacheKeys
      BY <1>1 DEF AreKeys, CacheKeys, FlushedInto
    <3> QED
      BY ONLY <1>3, <3>1, <3>2 DEF Tokens
  <2>3. \A t \in R \cup A : t.flush < flushes'
    BY <1>1, <1>3 DEF FlushedInto, Token
  <2>4. \A t \in calls \cup DOMAIN report_requests \cup DOMAIN auth_requests :
          t \in Tokens /\ t.flush < flushes'
    <3>1. \A t \in Tokens : t.flush \in Nat
      BY DEF Tokens
    <3> QED
      BY <1>3, <3>1 DEF TokensTyped
  <2>5. \A t \in (calls \cup DOMAIN report_requests \cup DOMAIN auth_requests)' :
          t \in calls \cup DOMAIN report_requests \cup DOMAIN auth_requests \cup R \cup A
    BY <1>1 DEF FlushedInto
  <2> QED
    BY ONLY <2>1, <2>2, <2>3, <2>4, <2>5 DEF TokensTyped
<1>6. lost' \in [Cells -> Nat]
  <2>1. ASSUME NEW x \in Cells
        PROVE  Total([t \in R |-> Reported(ReportOf(t.to, d[t.to]), x)], R \cap F) \in Nat
    <3> DEFINE f == [t \in R |-> Reported(ReportOf(t.to, d[t.to]), x)]
    <3>1. \A t \in R : AreApps(ReportOf(t.to, d[t.to]).usages)
      BY <1>1 DEF ReportOf, IsStore, FlushedInto
    <3>2. \A t \in R \cap F : f[t] \in Nat
      BY <3>1, UsageIsNatural
    <3>3. IsFiniteSet(R \cap F)
      BY <1>1, FS_Subset DEF FlushedInto
    <3> HIDE DEF f
    <3>4. Total(f, R \cap F) \in Nat
      BY ONLY <3>2, <3>3, TotalNat
    <3> QED
      BY <3>4 DEF f
  <2>2. lost' = [x \in Cells |-> lost[x] +
          Total([t \in R |-> Reported(ReportOf(t.to, d[t.to]), x)], R \cap F)]
    BY <1>1 DEF FlushedInto
  <2> DEFINE g == [x \in Cells |->
               Total([t \in R |-> Reported(ReportOf(t.to, d[t.to]), x)], R \cap F)]
  <2>3. g \in [Cells -> Nat]
    BY ONLY <2>1
  <2>4. lost' = [x \in Cells |-> lost[x] + g[x]]
    BY ONLY <2>2
  <2> HIDE DEF g
  <2> QED
    BY ONLY <1>3, <2>3, <2>4
<1>7. \A t \in DOMAIN report_requests' : AreApps(report_requests'[t].usages)
  <2>1. \A t \in R \ F : AreApps(ReportOf(t.to, d[t.to]).usages)
    BY <1>1 DEF ReportOf, IsStore, FlushedInto
  <2>2. \A t \in DOMAIN report_requests : AreApps(report_requests[t].usages)
    BY DEF TypeInv
  <2> QED
    BY <1>1, <2>1, <2>2 DEF FlushedInto
<1>8. IsFiniteSet(OfReports(calls'))
  <2>1. IsFiniteSet(OfReports(calls)) /\ IsFiniteSet(R \ F)
    BY <1>1, FS_Subset DEF TypeInv, FlushedInto
  <2>2. OfReports(calls') = OfReports(calls) \cup (R \ F)
    BY <1>1 DEF FlushedInto
  <2> QED
    BY ONLY <2>1, <2>2, FS_Union
<1> QED
  BY <1>2, <1>3, <1>5, <1>6, <1>7, <1>8

(* The memory an update adds is a number.                                  *)
LEMMA IncreaseIsNatural ==
  ASSUME NEW d, NEW m \in Inputs
  PROVE  Increase(d, m) \in Nat
<1> DEFINE new == DOMAIN m.metrics \ DOMAIN UsageOf(AppsOf(d, DeltaKey(m)), m.app)
<1>1. Cardinality(new) \in Nat
  BY InputsAssumption, FS_Subset, FS_CardinalityType
<1> HIDE DEF new
<1>2. ServiceSize \in Nat /\ AppSize \in Nat /\ MetricSize \in Nat
  BY SizesAssumption
<1>3. Cardinality(new) * MetricSize \in Nat
  BY <1>1, <1>2
<1>4. Increase(d, m) = (IF DeltaKey(m) \in DOMAIN d THEN 0 ELSE ServiceSize)
        + (IF m.app \in DOMAIN AppsOf(d, DeltaKey(m)) THEN 0 ELSE AppSize)
        + Cardinality(new) * MetricSize
  BY DEF Increase, new
<1> QED
  BY <1>2, <1>3, <1>4

(* on_queue_ready keeps the types.                                         *)
LEMMA QueueKeepsTypes == ASSUME TypeInv, OnQueueReady PROVE TypeInv'
<1>1. PICK m, keys, d, memory :
        /\ m = Head(queue) /\ d = Updated(deltas, m)
        /\ keys = IF CacheKey(m) \in DOMAIN cache_keys
                    THEN cache_keys ELSE With(cache_keys, CacheKey(m), m.tok)
        /\ memory = memory_allocated +
             IF flush_mode = "Periodical" THEN 0 ELSE Increase(deltas, m)
        /\ cache_keys' = keys
        /\ received' = [x \in Cells |-> received[x] +
             IF <<x[1], x[2], x[3]>> = <<m.svc, m.tok, m.app>>
               THEN HitsOf(m.metrics, x[4]) ELSE 0]
        /\ \/ FlushLocalCache(d, keys, memory)
           \/ /\ deltas' = d /\ memory_allocated' = memory
              /\ UNCHANGED <<tables, lost, flushes>>
  BY DEF OnQueueReady
<1>2. /\ queue # <<>> /\ queue' = Tail(queue)
      /\ UNCHANGED <<store, flush_mode, crashed, sent, ticks, answered>>
  BY DEF OnQueueReady
<1>3. m \in Inputs /\ queue' \in Seq(Inputs)
  BY <1>1, <1>2 DEF TypeInv, TypeOK
<1>4. IsStore(d)
  BY <1>1, <1>3, UpdatedIsStore DEF TypeInv
<1>5. AreKeys(keys)
  BY <1>1, <1>3 DEF TypeInv, TypeOK, AreKeys, With
<1>6. memory \in Nat
  BY <1>1, <1>3, IncreaseIsNatural DEF TypeInv, TypeOK
<1>7. received' \in [Cells -> Nat]
  <2>1. received \in [Cells -> Nat]
    BY DEF TypeInv, TypeOK
  <2>2. \A y : HitsOf(m.metrics, y) \in Nat
    BY <1>3, InputsAssumption, LookedUp DEF IsUsage
  <2> QED
    BY <1>1, <2>1, <2>2
<1>8. /\ IsStore(deltas') /\ memory_allocated' \in Nat /\ flushes' \in Nat
      /\ TokensTyped'
      /\ lost' \in [Cells -> Nat]
      /\ \A t \in DOMAIN report_requests' : AreApps(report_requests'[t].usages)
      /\ IsFiniteSet(OfReports(calls'))
  <2>1. CASE FlushLocalCache(d, keys, memory)
    BY <1>4, <1>5, <2>1, FlushTypes
  <2>2. CASE deltas' = d /\ memory_allocated' = memory /\ UNCHANGED <<tables, lost, flushes>>
    BY <1>4, <1>6, <2>2 DEF TypeInv, TypeOK, TokensTyped, tables
  <2> QED
    BY <1>1, <2>1, <2>2
<1>9. TypeOK'
  BY <1>1, <1>2, <1>3, <1>5, <1>7, <1>8
     DEF TypeInv, TypeOK, TokensTyped, AreKeys, IsStore, AreApps, IsUsage
<1> QED
  BY <1>8, <1>9 DEF TypeInv

(* An answer keeps the types.                                              *)
LEMMA ResponseKeepsTypes ==
  ASSUME TypeInv, TablesInv, NEW t \in calls, Response(t)
  PROVE  TypeInv'
<1>1. /\ Answer(t)
      /\ UNCHANGED <<host, flush_mode, deltas, memory_allocated, flushes, ticks,
                     received, lost>>
      /\ calls' = calls \ {t}
  BY DEF Response, NoHeaders, Timeout, WithoutBody, Accepted, Refused, Answer
<1>2. answered' \in [Cells -> Nat]
  <2> DEFINE g == [x \in Cells |->
               IF t.kind = "report" THEN Reported(report_requests[t], x) ELSE 0]
  <2>1. t.kind = "report" => AreApps(report_requests[t].usages)
    BY DEF TypeInv, TablesInv, CallsHaveEntry
  <2>2. g \in [Cells -> Nat]
    BY <2>1, UsageIsNatural
  <2>3. answered' = [x \in Cells |-> answered[x] + g[x]]
    BY <1>1 DEF Answer
  <2>4. answered \in [Cells -> Nat]
    BY DEF TypeInv, TypeOK
  <2> HIDE DEF g
  <2> QED
    BY ONLY <2>2, <2>3, <2>4
<1>3. /\ \/ report_requests' = report_requests
         \/ report_requests' = Without(report_requests, t)
      /\ \/ auth_requests' = auth_requests
         \/ auth_requests' = Without(auth_requests, t)
      /\ \/ cache_keys' = cache_keys
         \/ cache_keys' = Without(cache_keys, auth_requests[t])
  BY DEF Response, NoHeaders, Timeout, WithoutBody, Accepted, Refused
<1>4. TokensTyped'
  <2>1. TokensTyped
    BY DEF TypeInv, TypeOK, TokensTyped
  <2> QED
    BY <1>1, <1>3, <2>1 DEF TokensTyped, Without
<1>5. \A r \in DOMAIN report_requests' : AreApps(report_requests'[r].usages)
  BY <1>3 DEF TypeInv, Without
<1>6. AreKeys(cache_keys')
  <2>1. AreKeys(cache_keys)
    BY DEF TypeInv, TypeOK, AreKeys
  <2> QED
    BY <1>3, <2>1 DEF AreKeys, Without
<1>7. store' \subseteq CacheKeys /\ crashed' \in BOOLEAN
  <2>1. store \subseteq CacheKeys /\ crashed \in BOOLEAN
    BY DEF TypeInv, TypeOK
  <2>2. t.kind = "auth" => t.to \in CacheKeys
    BY DEF TypeInv, TypeOK, Tokens
  <2>3. CASE NoHeaders(t)
    BY <2>1, <2>3 DEF NoHeaders
  <2>4. CASE Timeout(t)
    BY <2>1, <2>4 DEF Timeout
  <2>5. CASE WithoutBody(t)
    BY <2>1, <2>5 DEF WithoutBody
  <2>6. CASE Accepted(t)
    BY <2>1, <2>2, <2>6 DEF Accepted
  <2>7. CASE Refused(t)
    BY <2>1, <2>7 DEF Refused
  <2> QED
    BY <2>3, <2>4, <2>5, <2>6, <2>7 DEF Response
<1>8. IsFiniteSet(OfReports(calls'))
  <2>1. OfReports(calls') \subseteq OfReports(calls)
    BY <1>1 DEF OfReports
  <2> QED
    BY <2>1, FS_Subset DEF TypeInv
<1>9. IsStore(deltas')
  BY <1>1 DEF TypeInv
<1>10. TypeOK'
  BY <1>1, <1>2, <1>4, <1>6, <1>7 DEF TypeInv, TypeOK, TokensTyped, AreKeys, host
<1> QED
  BY <1>5, <1>8, <1>9, <1>10 DEF TypeInv

(* A tick keeps the types.                                                 *)
LEMMA TickKeepsTypes == ASSUME TypeInv, OnTick PROVE TypeInv'
<1>1. AreKeys(cache_keys) /\ IsStore(deltas)
  BY DEF TypeInv, TypeOK, AreKeys
<1>2. /\ IsStore(deltas') /\ memory_allocated' \in Nat /\ flushes' \in Nat
      /\ TokensTyped'
      /\ lost' \in [Cells -> Nat]
      /\ \A t \in DOMAIN report_requests' : AreApps(report_requests'[t].usages)
      /\ IsFiniteSet(OfReports(calls'))
  BY <1>1, FlushTypes DEF OnTick
<1>3. /\ UNCHANGED <<host, store, flush_mode, cache_keys, crashed, received, answered>>
      /\ ticks' \in 0 .. MaxTicks
  <2>1. ticks \in 0 .. MaxTicks /\ MaxTicks \in Nat
    BY SizesAssumption DEF TypeInv, TypeOK
  <2> QED
    BY <2>1 DEF OnTick
<1>4. TypeOK'
  BY <1>2, <1>3 DEF TypeInv, TypeOK, TokensTyped, host, IsStore, AreApps, IsUsage
<1> QED
  BY <1>2, <1>4 DEF TypeInv

(* A step that only sends a message keeps the types.                       *)
LEMMA SendKeepsTypes == ASSUME TypeInv, FilterSends PROVE TypeInv'
<1>1. PICK m \in Inputs : queue' = Append(queue, m) /\ store' = store \cup {CacheKey(m)}
  BY DEF FilterSends
<1>2. queue' \in Seq(Inputs) /\ store' \subseteq CacheKeys
  BY <1>1 DEF TypeInv, TypeOK, CacheKeys
<1>3. sent' \in 0 .. MaxMessages
  BY SizesAssumption DEF FilterSends, TypeInv, TypeOK
<1>4. UNCHANGED <<tables, ghosts, flush_mode, deltas, memory_allocated, cache_keys,
                  flushes, crashed, ticks>>
  BY DEF FilterSends
<1> QED
  BY <1>2, <1>3, <1>4 DEF TypeInv, TypeOK, tables, ghosts

(* Every step keeps the types.                                             *)
LEMMA NextTypes == TypeInv /\ TablesInv /\ [Next]_vars => TypeInv'
<1> SUFFICES ASSUME TypeInv, TablesInv, [Next]_vars PROVE TypeInv'
  OBVIOUS
<1>1. CASE FilterSends
  BY <1>1, SendKeepsTypes
<1>2. CASE OnQueueReady
  BY <1>2, QueueKeepsTypes
<1>3. CASE OnTick
  BY <1>3, TickKeepsTypes
<1>4. ASSUME NEW t \in calls, Response(t) PROVE TypeInv'
  BY <1>4, ResponseKeepsTypes
<1>5. CASE UNCHANGED vars
  BY <1>5 DEF vars, host, tables, ghosts, TypeInv, TypeOK
<1> QED
  BY <1>1, <1>2, <1>3, <1>4, <1>5 DEF Next

(* The maps of the service hold usage by metric of known applications      *)
(* under known delta keys, in the store and in the reports under way.      *)
THEOREM TypeInvariance == Spec => []TypeInv
<1>1. Init => TypeInv
  <2> SUFFICES ASSUME Init PROVE TypeInv
    OBVIOUS
  <2>1. deltas = Empty /\ report_requests = Empty /\ calls = {} /\ DOMAIN Empty = {}
    BY DEF Init, Empty
  <2>2. IsStore(deltas) /\ IsFiniteSet(OfReports(calls))
    BY <2>1, LookedUp, FS_EmptySet DEF OfReports
  <2>3. DOMAIN cache_keys = {} /\ DOMAIN auth_requests = {}
    BY <2>1 DEF Init
  <2>4. TypeOK
    <3>0. queue = <<>> /\ store = {}
      BY DEF Init
    <3>1. queue \in Seq(Inputs) /\ store \subseteq CacheKeys
      BY ONLY <3>0
    <3>5. crashed \in BOOLEAN
      BY Zenon DEF Init
    <3>2. {received, answered, lost} \subseteq [Cells -> Nat]
      BY DEF Init
    <3>3. sent \in 0 .. MaxMessages /\ ticks \in 0 .. MaxTicks
      BY SizesAssumption DEF Init
    <3>4. flush_mode \in FlushModes /\ memory_allocated \in Nat /\ flushes \in Nat
      BY DEF Init
    <3> QED
      BY <2>1, <2>3, <3>1, <3>2, <3>3, <3>4, <3>5 DEF TypeOK
  <2> QED
    BY <2>1, <2>2, <2>4 DEF TypeInv
<1> QED
  BY <1>1, NextTypes, TablesInvariance, PTL DEF Spec

(* Every variable of the service keeps its type, whatever the answers and  *)
(* the failures of its calls, and tokens are of earlier flushes.           *)
THEOREM SingletonTyping == Spec => []TypeOK
<1>1. TypeInv => TypeOK
  BY DEF TypeInv
<1> QED
  BY <1>1, TypeInvariance, PTL

-----------------------------------------------------------------------------
(* The memory counted is the memory held *)

(* What usage and applications take is a number.                           *)
LEMMA MemoryIsNatural ==
  /\ \A u : IsUsage(u) => MemoryOfUsage(u) \in Nat
  /\ \A apps : AreApps(apps) => MemoryOfApps(apps) \in Nat
<1>0. ServiceSize \in Nat /\ AppSize \in Nat /\ MetricSize \in Nat
  BY SizesAssumption
<1>1. ASSUME NEW u, IsUsage(u) PROVE MemoryOfUsage(u) \in Nat
  <2>1. Cardinality(DOMAIN u) \in Nat
    BY <1>1, FS_CardinalityType DEF IsUsage
  <2>2. Cardinality(DOMAIN u) * MetricSize \in Nat
    BY ONLY <1>0, <2>1
  <2> QED
    BY <1>0, <2>2 DEF MemoryOfUsage
<1>2. ASSUME NEW apps, AreApps(apps) PROVE MemoryOfApps(apps) \in Nat
  <2> DEFINE f == [a \in DOMAIN apps |-> MemoryOfUsage(apps[a])]
  <2>1. IsFiniteSet(DOMAIN apps) /\ \A a \in DOMAIN apps : f[a] \in Nat
    BY <1>1, <1>2 DEF AreApps
  <2> HIDE DEF f
  <2>2. Total(f, DOMAIN apps) \in Nat
    BY ONLY <2>1, TotalNat
  <2> QED
    BY <1>0, <2>2 DEF MemoryOfApps, f
<1> QED
  BY <1>1, <1>2

(* The metrics an application gains take what they number.                 *)
LEMMA MemoryOfMoreMetrics ==
  ASSUME NEW u, IsUsage(u), NEW new, IsUsage(new)
  PROVE  MemoryOfUsage(AddUsage(u, new)) =
           MemoryOfUsage(u) + Cardinality(DOMAIN new \ DOMAIN u) * MetricSize
<1> DEFINE S == DOMAIN u
           T == DOMAIN new \ DOMAIN u
<1>1. DOMAIN AddUsage(u, new) = S \cup T /\ S \cap T = {}
  BY DEF AddUsage
<1>2. IsFiniteSet(S) /\ IsFiniteSet(T)
  BY FS_Subset DEF IsUsage
<1> HIDE DEF S, T
<1>3. /\ Cardinality(S) \in Nat /\ Cardinality(T) \in Nat
      /\ Cardinality(S \cup T) = Cardinality(S) + Cardinality(T)
  <2>1. Cardinality(S \cup T) = Cardinality(S) + Cardinality(T) - Cardinality({})
    BY <1>1, <1>2, FS_Union
  <2>2. /\ Cardinality({}) = 0
        /\ Cardinality(S) \in Nat /\ Cardinality(T) \in Nat
    BY <1>2, FS_EmptySet, FS_CardinalityType
  <2> QED
    BY ONLY <2>1, <2>2
<1>4. \A a, b, c \in Nat : (a + b) * c = a * c + b * c /\ a * c \in Nat /\ b * c \in Nat
  OBVIOUS
<1>5. AppSize \in Nat /\ MetricSize \in Nat
  BY SizesAssumption
<1>6. Cardinality(S \cup T) * MetricSize =
        Cardinality(S) * MetricSize + Cardinality(T) * MetricSize
  BY <1>3, <1>4, <1>5
<1>7. /\ MemoryOfUsage(AddUsage(u, new)) = AppSize + Cardinality(S \cup T) * MetricSize
      /\ MemoryOfUsage(u) = AppSize + Cardinality(S) * MetricSize
  BY <1>1 DEF MemoryOfUsage, S
<1>8. Cardinality(S) * MetricSize \in Nat /\ Cardinality(T) * MetricSize \in Nat
  BY <1>3, <1>4, <1>5
<1>9. MemoryOfUsage(AddUsage(u, new)) =
        MemoryOfUsage(u) + Cardinality(T) * MetricSize
  BY ONLY <1>5, <1>6, <1>7, <1>8
<1> QED
  BY <1>9 DEF T

(* A changed or a new application changes what the applications take.      *)
LEMMA MemoryOfChangedApps ==
  ASSUME NEW apps, AreApps(apps), NEW a \in Apps, NEW u, IsUsage(u)
  PROVE  MemoryOfApps(With(apps, a, u)) = MemoryOfApps(apps) + MemoryOfUsage(u)
           - (IF a \in DOMAIN apps THEN MemoryOfUsage(apps[a]) ELSE 0)
<1> DEFINE new == With(apps, a, u)
           f == [b \in DOMAIN apps |-> MemoryOfUsage(apps[b])]
           g == [b \in DOMAIN new |-> MemoryOfUsage(new[b])]
           S == DOMAIN apps
           T == DOMAIN new
<1>1. /\ T = S \cup {a} /\ g[a] = MemoryOfUsage(u)
      /\ a \in S => f[a] = MemoryOfUsage(apps[a])
      /\ \A b \in S \ {a} : g[b] = f[b]
  BY DEF With
<1>2. Summable(f, S) /\ g[a] \in Nat
  BY MemoryIsNatural, <1>1 DEF Summable, AreApps
<1>3. MemoryOfApps(new) = ServiceSize + Total(g, T)
  BY DEF MemoryOfApps
<1>4. MemoryOfApps(apps) = ServiceSize + Total(f, S)
  BY DEF MemoryOfApps
<1>5. a \in S => MemoryOfUsage(apps[a]) \in Nat
  BY MemoryIsNatural DEF AreApps
<1> HIDE DEF new, f, g, S, T
<1>6. Total(g, T) = Total(f, S) - (IF a \in S THEN f[a] ELSE 0) + g[a]
  <2>1. S \ {a} = T \ {a} /\ a \in T /\ g[a] \in Int
    BY <1>1, <1>2
  <2>2. \A b \in S \ {a} : g[b] = f[b]
    BY <1>1
  <2>3. CASE a \in S
    <3>1. T = S
      BY <1>1, <2>3
    <3>2. Total(g, S) = Total(f, S) - f[a] + g[a]
      BY ONLY <1>2, <2>1, <2>2, <2>3, TotalChange
    <3> QED
      BY <2>3, <3>1, <3>2
  <2>4. CASE a \notin S
    <3>1. \A b \in S : g[b] = f[b]
      BY <2>2, <2>4
    <3>2. Total(g, S) = Total(f, S) /\ Summable(g, S)
      BY <1>2, <3>1, TotalSame DEF Summable
    <3>3. Total(g, S \cup {a}) = Total(g, S) + g[a]
      BY <2>1, <2>4, <3>2, TotalAdd
    <3> QED
      BY <1>1, <1>2, <2>1, <2>4, <3>2, <3>3, TotalType
  <2> QED
    BY <2>3, <2>4
<1>7. Total(f, S) \in Int /\ ServiceSize \in Nat
  BY <1>2, TotalType, SizesAssumption
<1>8. MemoryOfApps(new) = MemoryOfApps(apps) + MemoryOfUsage(u)
        - (IF a \in S THEN MemoryOfUsage(apps[a]) ELSE 0)
  BY ONLY <1>1, <1>2, <1>3, <1>4, <1>5, <1>6, <1>7
<1> QED
  BY <1>8 DEF new, S

(* The same for a service in the store.                                    *)
LEMMA MemoryOfChangedStore ==
  ASSUME NEW d, IsStore(d), NEW k, NEW apps, AreApps(apps)
  PROVE  MemoryOf(With(d, k, apps)) = MemoryOf(d) + MemoryOfApps(apps)
           - (IF k \in DOMAIN d THEN MemoryOfApps(d[k]) ELSE 0)
<1> DEFINE new == With(d, k, apps)
           f == [b \in DOMAIN d |-> MemoryOfApps(d[b])]
           g == [b \in DOMAIN new |-> MemoryOfApps(new[b])]
           S == DOMAIN d
           T == DOMAIN new
<1>1. /\ T = S \cup {k} /\ g[k] = MemoryOfApps(apps)
      /\ k \in S => f[k] = MemoryOfApps(d[k])
      /\ \A b \in S \ {k} : g[b] = f[b]
  BY DEF With
<1>2. Summable(f, S) /\ g[k] \in Nat
  BY MemoryIsNatural, <1>1 DEF Summable, IsStore
<1>3. MemoryOf(new) = Total(g, T) /\ MemoryOf(d) = Total(f, S)
  BY DEF MemoryOf
<1>4. k \in S => MemoryOfApps(d[k]) \in Nat
  BY MemoryIsNatural DEF IsStore
<1> HIDE DEF new, f, g, S, T
<1>5. Total(g, T) = Total(f, S) - (IF k \in S THEN f[k] ELSE 0) + g[k]
  <2>1. S \ {k} = T \ {k} /\ k \in T /\ g[k] \in Int
    BY <1>1, <1>2
  <2>2. \A b \in S \ {k} : g[b] = f[b]
    BY <1>1
  <2>3. CASE k \in S
    <3>1. T = S
      BY <1>1, <2>3
    <3>2. Total(g, S) = Total(f, S) - f[k] + g[k]
      BY ONLY <1>2, <2>1, <2>2, <2>3, TotalChange
    <3> QED
      BY <2>3, <3>1, <3>2
  <2>4. CASE k \notin S
    <3>1. \A b \in S : g[b] = f[b]
      BY <2>2, <2>4
    <3>2. Total(g, S) = Total(f, S) /\ Summable(g, S)
      BY <1>2, <3>1, TotalSame DEF Summable
    <3>3. Total(g, S \cup {k}) = Total(g, S) + g[k]
      BY <2>1, <2>4, <3>2, TotalAdd
    <3> QED
      BY <1>1, <1>2, <2>1, <2>4, <3>2, <3>3, TotalType
  <2> QED
    BY <2>3, <2>4
<1>6. Total(f, S) \in Int
  BY <1>2, TotalType
<1>7. MemoryOf(new) = MemoryOf(d) + MemoryOfApps(apps)
        - (IF k \in S THEN MemoryOfApps(d[k]) ELSE 0)
  BY ONLY <1>1, <1>2, <1>3, <1>4, <1>5, <1>6
<1> QED
  BY <1>7 DEF new, S

(* delta_increase is what the update adds to the content of the store.     *)
LEMMA IncreaseIsExact ==
  ASSUME NEW d, IsStore(d), NEW m \in Inputs
  PROVE  MemoryOf(Updated(d, m)) = MemoryOf(d) + Increase(d, m)
<1> DEFINE key == DeltaKey(m)
           apps == AppsOf(d, key)
           old == UsageOf(apps, m.app)
           usage == AddUsage(old, m.metrics)
           new == With(apps, m.app, usage)
           more == Cardinality(DOMAIN m.metrics \ DOMAIN old) * MetricSize
<1>1. AreApps(apps) /\ IsUsage(old) /\ IsUsage(m.metrics) /\ m.app \in Apps
  BY LookedUp, InputsAssumption DEF IsUsage, Apps
<1>2. IsStore(Updated(d, m)) /\ Updated(d, m) = With(d, key, new)
  BY UpdatedIsStore DEF Updated
<1>3. AreApps(new)
  <2>1. key \in DOMAIN With(d, key, new) /\ With(d, key, new)[key] = new
    BY DEF With
  <2> QED
    BY ONLY <1>2, <2>1 DEF IsStore
<1>4. IsUsage(usage)
  <2>1. m.app \in DOMAIN new /\ new[m.app] = usage
    BY DEF With
  <2> QED
    BY ONLY <1>3, <2>1 DEF AreApps
<1>5. MemoryOfUsage(usage) = MemoryOfUsage(old) + more
  BY <1>1, MemoryOfMoreMetrics
<1>6. MemoryOfApps(new) = MemoryOfApps(apps) + MemoryOfUsage(usage)
        - (IF m.app \in DOMAIN apps THEN MemoryOfUsage(apps[m.app]) ELSE 0)
  BY <1>1, <1>4, MemoryOfChangedApps
<1>7. MemoryOf(Updated(d, m)) = MemoryOf(d) + MemoryOfApps(new)
        - (IF key \in DOMAIN d THEN MemoryOfApps(d[key]) ELSE 0)
  BY <1>2, <1>3, MemoryOfChangedStore
<1>8. MemoryOfUsage(old) =
        IF m.app \in DOMAIN apps THEN MemoryOfUsage(apps[m.app]) ELSE AppSize
  <2>1. CASE m.app \in DOMAIN apps
    BY <2>1 DEF UsageOf
  <2>2. CASE m.app \notin DOMAIN apps
    <3>1. old = Empty /\ DOMAIN Empty = {} /\ Cardinality({}) = 0
      BY <2>2, FS_EmptySet DEF UsageOf, Empty
    <3>2. MemoryOfUsage(old) = AppSize + 0 * MetricSize
      BY <3>1 DEF MemoryOfUsage
    <3> QED
      BY <2>2, <3>2, SizesAssumption
  <2> QED
    BY <2>1, <2>2
<1>9. MemoryOfApps(apps) =
        IF key \in DOMAIN d THEN MemoryOfApps(d[key]) ELSE ServiceSize
  <2>1. CASE key \in DOMAIN d
    BY <2>1 DEF AppsOf
  <2>2. CASE key \notin DOMAIN d
    <3>1. apps = Empty /\ DOMAIN Empty = {}
      BY <2>2 DEF AppsOf, Empty
    <3>2. MemoryOfApps(apps) =
            ServiceSize + Total([a \in DOMAIN apps |-> MemoryOfUsage(apps[a])], {})
      BY ONLY <3>1 DEF MemoryOfApps
    <3> QED
      BY <2>2, <3>2, TotalEmpty, SizesAssumption
  <2> QED
    BY <2>1, <2>2
<1>10. Increase(d, m) = (IF key \in DOMAIN d THEN 0 ELSE ServiceSize)
         + (IF m.app \in DOMAIN apps THEN 0 ELSE AppSize) + more
  BY DEF Increase
<1>11. /\ MemoryOfUsage(old) \in Nat /\ MemoryOfUsage(usage) \in Nat
       /\ MemoryOfApps(apps) \in Nat /\ MemoryOfApps(new) \in Nat
  BY <1>1, <1>3, <1>4, MemoryIsNatural
<1>12. more \in Nat
  <2>1. Cardinality(DOMAIN m.metrics \ DOMAIN old) \in Nat
    BY <1>1, FS_Subset, FS_CardinalityType DEF IsUsage
  <2> QED
    BY <2>1, SizesAssumption
<1>13. MemoryOf(d) \in Int
  <2> DEFINE f == [b \in DOMAIN d |-> MemoryOfApps(d[b])]
  <2>1. Summable(f, DOMAIN d)
    BY MemoryIsNatural DEF Summable, IsStore
  <2> HIDE DEF f
  <2>2. Total(f, DOMAIN d) \in Int
    BY ONLY <2>1, TotalType
  <2> QED
    BY <2>2 DEF MemoryOf, f
<1>14. ServiceSize \in Nat /\ AppSize \in Nat
  BY SizesAssumption
<1> HIDE DEF key, apps, old, usage, new, more
<1> QED
  BY ONLY <1>5, <1>6, <1>7, <1>8, <1>9, <1>10, <1>11, <1>12, <1>13, <1>14

(* Every step keeps the count of the memory.                               *)
LEMMA NextMemory == TypeInv /\ TypeInv' /\ MemoryMatches /\ [Next]_vars => MemoryMatches'
<1> SUFFICES ASSUME TypeInv, TypeInv', MemoryMatches, [Next]_vars
             PROVE  MemoryMatches'
  OBVIOUS
<1>1. MemoryOf(Empty) = 0
  <2>1. DOMAIN Empty = {}
    BY DEF Empty
  <2>2. MemoryOf(Empty) = Total([k \in DOMAIN Empty |-> MemoryOfApps(Empty[k])], {})
    BY <2>1 DEF MemoryOf
  <2> QED
    BY <2>2, TotalEmpty
<1>2. ASSUME NEW d, NEW keys, NEW memory, FlushLocalCache(d, keys, memory)
      PROVE  MemoryMatches'
  <2>1. deltas' = Empty /\ memory_allocated' = 0
    BY <1>2 DEF FlushLocalCache, FlushDeltaStore
  <2>2. memory_allocated' = MemoryOf(deltas')
    BY <1>1, <2>1
  <2> QED
    BY <2>1, <2>2 DEF MemoryMatches, MemoryOf
<1>3. ASSUME UNCHANGED <<flush_mode, deltas, memory_allocated>>
      PROVE  MemoryMatches'
  BY <1>3 DEF MemoryMatches, MemoryOf
<1>4. CASE FilterSends
  BY <1>3, <1>4 DEF FilterSends
<1>5. CASE OnQueueReady
  <2>1. PICK m : m = Head(queue)
    OBVIOUS
  <2> DEFINE memory == memory_allocated +
               IF flush_mode = "Periodical" THEN 0 ELSE Increase(deltas, m)
  <2>2. m \in Inputs
    BY <1>5, <2>1 DEF OnQueueReady, TypeInv, TypeOK
  <2>3. \/ \E d, keys, v : FlushLocalCache(d, keys, v)
        \/ /\ ~Full(memory)
           /\ deltas' = Updated(deltas, m) /\ memory_allocated' = memory
    BY <1>5, <2>1 DEF OnQueueReady
  <2>4. CASE /\ ~Full(memory)
             /\ deltas' = Updated(deltas, m) /\ memory_allocated' = memory
    <3> SUFFICES ASSUME flush_mode # "Periodical"
                 PROVE  /\ memory_allocated' = MemoryOf(deltas')
                        /\ memory_allocated' < Capacity
      <4>1. flush_mode' = flush_mode
        BY <1>5 DEF OnQueueReady
      <4> QED
        BY <4>1 DEF MemoryMatches, MemoryOf
    <3>1. memory_allocated' = MemoryOf(deltas) + Increase(deltas, m)
      BY <2>4 DEF MemoryMatches
    <3>2. IsStore(deltas)
      BY DEF TypeInv
    <3>3. memory_allocated' = MemoryOf(deltas')
      BY <2>2, <2>4, <3>1, <3>2, IncreaseIsExact
    <3>4. memory_allocated' \in Nat /\ Capacity \in Nat
      BY SizesAssumption DEF TypeInv, TypeOK
    <3>5. ~(memory_allocated' >= Capacity)
      BY <2>4 DEF Full
    <3> QED
      BY <3>3, <3>4, <3>5
  <2> QED
    BY <1>2, <2>3, <2>4
<1>6. CASE OnTick
  BY <1>2, <1>6 DEF OnTick
<1>7. ASSUME NEW t \in calls, Response(t) PROVE MemoryMatches'
  BY <1>3, <1>7
     DEF Response, NoHeaders, Timeout, WithoutBody, Accepted, Refused, Answer
<1>8. CASE UNCHANGED vars
  BY <1>3, <1>8 DEF vars
<1> QED
  BY <1>4, <1>5, <1>6, <1>7, <1>8 DEF Next

(* memory_allocated counts increases only and is set to zero by a flush,   *)
(* yet is always what the content of the store takes; when a callback      *)
(* ends it is below the capacity, or the store is empty.                   *)
THEOREM MemoryIsCounted == Spec => []MemoryMatches
<1>1. Init => MemoryMatches
  <2> SUFFICES ASSUME Init PROVE MemoryMatches
    OBVIOUS
  <2>1. deltas = Empty /\ memory_allocated = 0 /\ DOMAIN Empty = {}
    BY DEF Init, Empty
  <2>2. MemoryOf(deltas) = Total([k \in DOMAIN Empty |-> MemoryOfApps(Empty[k])], {})
    BY <2>1 DEF MemoryOf
  <2> QED
    BY <2>1, <2>2, TotalEmpty DEF MemoryMatches
<1> QED
  BY <1>1, NextMemory, TypeInvariance, PTL DEF Spec

-----------------------------------------------------------------------------
(* No usage is forgotten and none is reported twice *)

(* Service ids and tokens without an underscore, which would part them.    *)
OnePart == \A m \in Inputs : \E s, k : m.svc = <<s>> /\ m.tok = <<k>>

(* Sequences of one part are joined to a pair and parted again.            *)
LEMMA PairOfParts ==
  ASSUME NEW s, NEW k
  PROVE  (<<s>> \o <<k>>)[1] = s /\ (<<s>> \o <<k>>)[2] = k
<1>1. <<s>> \in Seq({s, k}) /\ <<k>> \in Seq({s, k})
  OBVIOUS
<1> QED
  BY <1>1

(* The parts of a cell are those of a message.                             *)
LEMMA CellParts ==
  ASSUME OnePart, NEW x \in Cells
  PROVE  \E s, k : x[1] = <<s>> /\ x[2] = <<k>>
<1>1. PICK m \in Inputs : \E y \in DOMAIN m.metrics : x = <<m.svc, m.tok, m.app, y>>
  BY DEF Cells
<1> QED
  BY <1>1 DEF OnePart

(* Two messages share a delta key only if they share service and token.    *)
LEMMA KeyIsOfCell ==
  ASSUME OnePart, NEW x \in Cells, NEW m \in Inputs
  PROVE  x[1] \o x[2] = DeltaKey(m) <=> x[1] = m.svc /\ x[2] = m.tok
<1>1. PICK s, k : x[1] = <<s>> /\ x[2] = <<k>>
  BY CellParts
<1>2. PICK t, l : m.svc = <<t>> /\ m.tok = <<l>>
  BY DEF OnePart
<1>3. x[1] \o x[2] = <<s>> \o <<k>> /\ DeltaKey(m) = <<t>> \o <<l>>
  BY <1>1, <1>2 DEF DeltaKey
<1>4. <<s>> \o <<k>> = <<t>> \o <<l>> => s = t /\ k = l
  <2>1. (<<s>> \o <<k>>)[1] = s /\ (<<s>> \o <<k>>)[2] = k
    BY PairOfParts
  <2>2. (<<t>> \o <<l>>)[1] = t /\ (<<t>> \o <<l>>)[2] = l
    BY PairOfParts
  <2> QED
    BY <2>1, <2>2
<1> QED
  BY <1>1, <1>2, <1>3, <1>4

(* report() finds the service and the token the key was made of.           *)
LEMMA ReportIsOfCell ==
  ASSUME OnePart, NEW x \in Cells, NEW key \in Keys, NEW apps
  PROVE  Reported(ReportOf(key, apps), x) =
           IF key = x[1] \o x[2] THEN HitsOf(UsageOf(apps, x[3]), x[4]) ELSE 0
<1>1. PICK m \in Inputs : key = DeltaKey(m)
  BY DEF Keys
<1>2. PICK t, l : m.svc = <<t>> /\ m.tok = <<l>>
  BY DEF OnePart
<1>3. key[1] = t /\ key[2] = l
  BY <1>1, <1>2, PairOfParts DEF DeltaKey
<1>4. <<key[1]>> = m.svc /\ <<key[2]>> = m.tok
  BY <1>2, <1>3
<1>5. <<m.svc, m.tok>> = <<x[1], x[2]>> <=> key = x[1] \o x[2]
  BY <1>1, KeyIsOfCell
<1>6. Reported(ReportOf(key, apps), x) =
        IF <<m.svc, m.tok>> = <<x[1], x[2]>>
          THEN HitsOf(UsageOf(apps, x[3]), x[4]) ELSE 0
  BY <1>4 DEF Reported, ReportOf
<1> QED
  BY ONLY <1>5, <1>6

(* The usage of a message, for a cell.                                     *)
Told(m, x) ==
  IF <<x[1], x[2], x[3]>> = <<m.svc, m.tok, m.app>> THEN HitsOf(m.metrics, x[4]) ELSE 0

(* update_delta_store adds the usage of the message to its cells.          *)
LEMMA UpdateAddsTold ==
  ASSUME OnePart, NEW d, IsStore(d), NEW m \in Inputs, NEW x \in Cells
  PROVE  Stored(Updated(d, m), x) = Stored(d, x) + Told(m, x)
<1> DEFINE key == DeltaKey(m)
           apps == AppsOf(d, key)
           old == UsageOf(apps, m.app)
           usage == AddUsage(old, m.metrics)
           new == With(apps, m.app, usage)
           at == x[1] \o x[2]
<1>1. Updated(d, m) = With(d, key, new)
  BY DEF Updated
<1>2. at = key <=> x[1] = m.svc /\ x[2] = m.tok
  BY KeyIsOfCell
<1>3. AppsOf(Updated(d, m), at) = IF at = key THEN new ELSE AppsOf(d, at)
  BY <1>1 DEF AppsOf, With
<1>4. UsageOf(new, x[3]) = IF x[3] = m.app THEN usage ELSE UsageOf(apps, x[3])
  BY DEF UsageOf, With
<1>5. IsUsage(old) /\ IsUsage(m.metrics)
  BY LookedUp, InputsAssumption DEF IsUsage
<1>6. HitsOf(usage, x[4]) = HitsOf(old, x[4]) + HitsOf(m.metrics, x[4])
  <2>1. HitsOf(old, x[4]) \in Nat /\ HitsOf(m.metrics, x[4]) \in Nat
    BY <1>5, LookedUp
  <2>2. CASE x[4] \in DOMAIN usage
    BY <2>2 DEF AddUsage, HitsOf
  <2>3. CASE x[4] \notin DOMAIN usage
    BY <2>3 DEF AddUsage, HitsOf
  <2> QED
    BY <2>2, <2>3
<1>7. Stored(d, x) \in Nat
  BY UsageIsNatural
<1>8. Stored(Updated(d, m), x) = HitsOf(UsageOf(AppsOf(Updated(d, m), at), x[3]), x[4])
  BY DEF Stored
<1>9. Stored(d, x) = HitsOf(UsageOf(AppsOf(d, at), x[3]), x[4])
  BY DEF Stored
<1>10. apps = AppsOf(d, key) /\ old = UsageOf(apps, m.app)
  OBVIOUS
<1> HIDE DEF key, apps, old, usage, new, at
<1>11. CASE at = key /\ x[3] = m.app
  <2>1. Told(m, x) = HitsOf(m.metrics, x[4])
    BY <1>2, <1>11 DEF Told
  <2>2. Stored(Updated(d, m), x) = HitsOf(usage, x[4])
    BY ONLY <1>3, <1>4, <1>8, <1>11
  <2>3. Stored(d, x) = HitsOf(old, x[4])
    BY ONLY <1>9, <1>10, <1>11
  <2> QED
    BY ONLY <1>6, <2>1, <2>2, <2>3
<1>12. CASE ~(at = key /\ x[3] = m.app)
  <2>1. Told(m, x) = 0
    BY <1>2, <1>12 DEF Told
  <2>2. Stored(Updated(d, m), x) = Stored(d, x)
    BY ONLY <1>3, <1>4, <1>8, <1>9, <1>10, <1>12
  <2> QED
    BY ONLY <1>7, <2>1, <2>2
<1> QED
  BY <1>11, <1>12

(* The reports of a flush take the usage of the store, once.               *)
LEMMA ReportsAreOfStore ==
  ASSUME OnePart, TypeInv, NEW d, IsStore(d), NEW R, NEW A, NEW F,
         NEW keys, FlushedInto(d, keys, R, A, F),
         NEW x \in Cells
  PROVE  LET f == [t \in R |-> Reported(ReportOf(t.to, d[t.to]), x)]
         IN  Summable(f, R) /\ Total(f, R) = Stored(d, x)
<1> DEFINE f == [t \in R |-> Reported(ReportOf(t.to, d[t.to]), x)]
           at == x[1] \o x[2]
           T == Token("report", at)
<1>1. /\ IsFiniteSet(R) /\ R = {Token("report", k) : k \in DOMAIN d}
      /\ \A t \in R : /\ t.to \in DOMAIN d /\ t.kind = "report"
                      /\ t = Token(t.kind, t.to)
  BY DEF FlushedInto
<1>2. \A t \in R : f[t] = IF t.to = at
                            THEN HitsOf(UsageOf(d[t.to], x[3]), x[4]) ELSE 0
  BY <1>1, ReportIsOfCell DEF IsStore
<1>3. \A t \in R : f[t] \in Nat
  <2>1. \A t \in R : AreApps(d[t.to])
    BY <1>1 DEF IsStore
  <2>2. \A t \in R : HitsOf(UsageOf(d[t.to], x[3]), x[4]) \in Nat
    BY <2>1, LookedUp
  <2> HIDE DEF f, at
  <2>3. ASSUME NEW t \in R PROVE f[t] \in Nat
    <3> DEFINE h == HitsOf(UsageOf(d[t.to], x[3]), x[4])
    <3>1. h \in Nat /\ f[t] = IF t.to = at THEN h ELSE 0
      BY <1>2, <2>2
    <3> HIDE DEF h
    <3> QED
      BY ONLY <3>1
  <2> QED
    BY <2>3
<1>4. Stored(d, x) = HitsOf(UsageOf(AppsOf(d, at), x[3]), x[4])
  BY DEF Stored
<1>5. T.to = at /\ (T \in R <=> at \in DOMAIN d) /\ \A t \in R : t.to = at => t = T
  BY <1>1 DEF Token
<1> HIDE DEF f, at, T
<1>6. Summable(f, R)
  BY <1>1, <1>3 DEF Summable
<1>7. CASE at \in DOMAIN d
  <2>1. T \in R
    BY <1>5, <1>7
  <2>2. Total(f, R) = f[T] + Total(f, R \ {T})
    BY ONLY <1>6, <2>1, TotalTake
  <2>3. IsFiniteSet(R \ {T}) /\ \A t \in R \ {T} : f[t] = 0
    BY <1>1, <1>2, <1>5, FS_Subset
  <2>4. Total(f, R \ {T}) = 0
    BY ONLY <2>3, TotalZero
  <2>5. f[T] = Stored(d, x)
    BY <1>2, <1>4, <1>5, <1>7, <2>1 DEF AppsOf
  <2>6. f[T] \in Nat
    BY <1>3, <2>1
  <2> QED
    BY ONLY <1>6, <2>2, <2>4, <2>5, <2>6 DEF f
<1>8. CASE at \notin DOMAIN d
  <2>1. \A t \in R : f[t] = 0
    BY <1>1, <1>2, <1>8
  <2>2. Total(f, R) = 0
    BY ONLY <1>1, <2>1, TotalZero
  <2>3. Stored(d, x) = 0
    <3>1. AppsOf(d, at) = Empty /\ DOMAIN Empty = {}
      BY <1>8 DEF AppsOf, Empty
    <3>2. UsageOf(Empty, x[3]) = Empty
      BY <3>1 DEF UsageOf
    <3> QED
      BY <1>4, <3>1, <3>2 DEF HitsOf
  <2> QED
    BY ONLY <1>6, <2>2, <2>3 DEF f
<1> QED
  BY <1>7, <1>8

(* Reports under way have an entry each, of usage.                         *)
LEMMA UnderwayIsSummable ==
  ASSUME TypeInv, TablesInv, NEW x \in Cells
  PROVE  /\ \A t \in OfReports(calls) : t \in DOMAIN report_requests
         /\ Summable([t \in OfReports(calls) |-> Reported(report_requests[t], x)],
                     OfReports(calls))
         /\ Underway(x) \in Int
<1> DEFINE O == OfReports(calls)
           u == [t \in O |-> Reported(report_requests[t], x)]
<1>1. \A t \in O : t \in DOMAIN report_requests
  BY DEF OfReports, TablesInv, CallsHaveEntry
<1>2. \A t \in O : Reported(report_requests[t], x) \in Nat
  BY <1>1, UsageIsNatural DEF TypeInv
<1>3. IsFiniteSet(O)
  BY DEF TypeInv
<1>4. Summable(u, O)
  BY <1>2, <1>3 DEF Summable
<1>5. Underway(x) = Total(u, O)
  BY DEF Underway, OfReports
<1> HIDE DEF u
<1>6. Total(u, O) \in Int
  BY ONLY <1>4, TotalType
<1> QED
  BY <1>1, <1>4, <1>5, <1>6 DEF u

(* A flush moves usage from the store to reports, under way or lost.       *)
LEMMA FlushConserves ==
  ASSUME OnePart, TypeInv, TablesInv, NEW d, IsStore(d), NEW keys, NEW memory,
         FlushLocalCache(d, keys, memory), NEW x \in Cells
  PROVE  /\ Stored(deltas', x) + Underway(x)' + lost'[x] =
              Stored(d, x) + Underway(x) + lost[x]
         /\ Underway(x)' \in Int
<1>1. PICK R, A, F : FlushedInto(d, keys, R, A, F)
  BY Flushed
<1> DEFINE O == OfReports(calls)
           f == [t \in R |-> Reported(ReportOf(t.to, d[t.to]), x)]
           u == [t \in O |-> Reported(report_requests[t], x)]
           v == [t \in O \cup (R \ F) |-> Reported(report_requests'[t], x)]
<1>2. Summable(f, R) /\ Total(f, R) = Stored(d, x)
  BY <1>1, ReportsAreOfStore
<1>3. Summable(u, O) /\ \A t \in O : t \in DOMAIN report_requests
  BY UnderwayIsSummable
<1>4. OfReports(calls') = O \cup (R \ F)
  BY <1>1 DEF FlushedInto
<1>5. Underway(x) = Total(u, O)
  BY DEF Underway, OfReports
<1>6. Underway(x)' = Total(v, O \cup (R \ F))
  BY <1>4 DEF Underway, OfReports
<1>7. lost'[x] = lost[x] + Total(f, R \cap F)
  BY <1>1 DEF FlushedInto
<1>8. Stored(deltas', x) = 0
  <2>1. deltas' = Empty /\ DOMAIN Empty = {}
    BY <1>1 DEF FlushedInto, Empty
  <2> QED
    BY <2>1 DEF Stored, AppsOf, UsageOf, HitsOf
<1>9. O \cap R = {}
  <2>1. \A t \in R : t.flush = flushes
    BY <1>1 DEF FlushedInto, Token
  <2>2. \A t \in O : t.flush \in Nat /\ t.flush < flushes
    BY DEF OfReports, TablesInv, Used
  <2>3. flushes \in Nat
    BY DEF TablesInv
  <2> QED
    BY ONLY <2>1, <2>2, <2>3
<1>10. /\ \A t \in O : v[t] = u[t]
       /\ \A t \in R \ F : v[t] = f[t]
  <2>1. /\ \A t \in O : report_requests'[t] = report_requests[t]
        /\ \A t \in R \ F : report_requests'[t] = ReportOf(t.to, d[t.to])
    BY <1>1, <1>3, <1>9 DEF FlushedInto
  <2> QED
    BY <2>1
<1>11. lost[x] \in Nat
  BY DEF TypeInv, TypeOK
<1> HIDE DEF O, f, u, v
<1>12. /\ Summable(f, R \ F) /\ Summable(f, R \cap F)
       /\ Total(f, R) = Total(f, R \ F) + Total(f, R \cap F)
  <2>1. R = (R \ F) \cup (R \cap F) /\ (R \ F) \cap (R \cap F) = {}
    OBVIOUS
  <2>2. Summable(f, R \ F) /\ Summable(f, R \cap F)
    BY <1>2, FS_Subset DEF Summable
  <2>3. Summable(f, (R \ F) \cup (R \cap F))
    BY <1>2, <2>1
  <2>4. Total(f, (R \ F) \cup (R \cap F)) = Total(f, R \ F) + Total(f, R \cap F)
    BY ONLY <2>1, <2>3, TotalUnion
  <2> QED
    BY <2>1, <2>2, <2>4
<1>13. Total(v, O) = Total(u, O) /\ Total(v, R \ F) = Total(f, R \ F)
  BY ONLY <1>3, <1>10, <1>12, TotalSame
<1>14. Total(v, O \cup (R \ F)) = Total(v, O) + Total(v, R \ F)
  <2>1. Summable(v, O \cup (R \ F))
    <3>1. IsFiniteSet(O \cup (R \ F))
      BY <1>3, <1>12, FS_Union DEF Summable
    <3> QED
      BY <1>3, <1>10, <1>12, <3>1 DEF Summable
  <2>2. O \cap (R \ F) = {}
    BY <1>9
  <2> QED
    BY ONLY <2>1, <2>2, TotalUnion
<1>15. /\ Total(u, O) \in Int /\ Total(f, R \ F) \in Int
       /\ Total(f, R \cap F) \in Int
  BY <1>3, <1>12, TotalType
<1> QED
  BY ONLY <1>2, <1>5, <1>6, <1>7, <1>8, <1>11, <1>12, <1>13, <1>14, <1>15

(* An answer takes the usage of its report from what is under way.         *)
LEMMA AnswerConserves ==
  ASSUME TypeInv, TablesInv, NEW t \in calls, Response(t), NEW x \in Cells
  PROVE  /\ Underway(x)' + answered'[x] = Underway(x) + answered[x]
         /\ Underway(x)' \in Int
<1> DEFINE O == OfReports(calls)
           u == [r \in O |-> Reported(report_requests[r], x)]
           v == [r \in O \ {t} |-> Reported(report_requests'[r], x)]
<1>1. /\ calls' = calls \ {t}
      /\ answered'[x] = answered[x] +
           IF t.kind = "report" THEN Reported(report_requests[t], x) ELSE 0
  BY DEF Response, NoHeaders, Timeout, WithoutBody, Accepted, Refused, Answer
<1>2. \/ report_requests' = report_requests
      \/ report_requests' = Without(report_requests, t)
  BY DEF Response, NoHeaders, Timeout, WithoutBody, Accepted, Refused
<1>3. Summable(u, O) /\ \A r \in O : r \in DOMAIN report_requests
  BY UnderwayIsSummable
<1>4. Underway(x) = Total(u, O)
  BY DEF Underway, OfReports
<1>5. Underway(x)' = Total(v, O \ {t})
  <2>1. {r \in calls' : r.kind = "report"} = O \ {t}
    BY <1>1 DEF OfReports
  <2> QED
    BY <2>1 DEF Underway
<1>6. \A r \in O \ {t} : v[r] = u[r]
  BY <1>2, <1>3 DEF Without
<1>7. t \in O <=> t.kind = "report"
  BY DEF OfReports
<1>8. t \in O => u[t] = Reported(report_requests[t], x)
  OBVIOUS
<1>9. answered[x] \in Nat
  BY DEF TypeInv, TypeOK
<1> HIDE DEF O, u, v
<1>10. Summable(u, O \ {t}) /\ Total(v, O \ {t}) = Total(u, O \ {t})
  <2>1. Summable(u, O \ {t})
    BY <1>3, FS_Subset DEF Summable
  <2> QED
    BY ONLY <1>6, <2>1, TotalSame
<1>11. Total(u, O \ {t}) \in Int
  BY <1>10, TotalType
<1>12. CASE t \in O
  <2>1. Total(u, O) = u[t] + Total(u, O \ {t}) /\ u[t] \in Int
    BY <1>3, <1>12, TotalTake DEF Summable
  <2> QED
    BY ONLY <1>1, <1>4, <1>5, <1>7, <1>8, <1>9, <1>10, <1>11, <1>12, <2>1
<1>13. CASE t \notin O
  <2>1. O \ {t} = O
    BY <1>13
  <2> QED
    <3>1. Total(u, O \ {t}) = Total(u, O)
      BY <2>1
    <3>2. answered'[x] = answered[x]
      BY <1>1, <1>7, <1>9, <1>13
    <3> QED
      BY ONLY <1>4, <1>5, <1>9, <1>10, <1>11, <3>1, <3>2
<1> QED
  BY <1>12, <1>13

(* Every step accounts for all usage it was told of.                       *)
LEMMA NextUsage ==
  ASSUME OnePart, TypeInv, TypeInv', TablesInv, UsageConserved, [Next]_vars
  PROVE  UsageConserved'
<1> SUFFICES ASSUME NEW x \in Cells
             PROVE  received'[x] =
                      Stored(deltas', x) + Underway(x)' + answered'[x] + lost'[x]
  BY DEF UsageConserved, Stored
<1>1. received[x] = Stored(deltas, x) + Underway(x) + answered[x] + lost[x]
  BY DEF UsageConserved
<1>2. /\ received[x] \in Nat /\ answered[x] \in Nat /\ lost[x] \in Nat
      /\ received'[x] \in Nat /\ answered'[x] \in Nat /\ lost'[x] \in Nat
  BY DEF TypeInv, TypeOK
<1>3. Stored(deltas, x) \in Nat /\ Stored(deltas', x) \in Nat
  BY UsageIsNatural DEF TypeInv
<1>4. Underway(x) \in Int
  BY UnderwayIsSummable
<1>5. ASSUME UNCHANGED <<calls, report_requests>> PROVE Underway(x)' = Underway(x)
  BY <1>5 DEF Underway
<1>6. ASSUME UNCHANGED <<tables, ghosts, deltas>>
      PROVE  received'[x] =
               Stored(deltas', x) + Underway(x)' + answered'[x] + lost'[x]
  BY <1>1, <1>5, <1>6 DEF tables, ghosts
<1>7. ASSUME NEW d, IsStore(d), NEW keys, NEW memory, FlushLocalCache(d, keys, memory)
      PROVE  /\ Stored(deltas', x) + Underway(x)' + lost'[x] =
                  Stored(d, x) + Underway(x) + lost[x]
             /\ Underway(x)' \in Int
  BY <1>7, FlushConserves
<1>8. CASE FilterSends
  BY <1>6, <1>8 DEF FilterSends
<1>9. CASE OnQueueReady
  <2>1. PICK m, d : m = Head(queue) /\ d = Updated(deltas, m)
    OBVIOUS
  <2>2. m \in Inputs
    BY <1>9, <2>1 DEF OnQueueReady, TypeInv, TypeOK
  <2>3. IsStore(d) /\ Stored(d, x) = Stored(deltas, x) + Told(m, x)
    BY <2>1, <2>2, UpdatedIsStore, UpdateAddsTold DEF TypeInv
  <2>4. received'[x] = received[x] + Told(m, x) /\ answered' = answered
    BY <1>9, <2>1 DEF OnQueueReady, Told
  <2>5. Told(m, x) \in Nat
    <3>1. HitsOf(m.metrics, x[4]) \in Nat
      BY <2>2, InputsAssumption, LookedUp DEF IsUsage
    <3> QED
      BY <3>1 DEF Told
  <2>6. \/ \E keys, memory : FlushLocalCache(d, keys, memory)
        \/ deltas' = d /\ UNCHANGED <<tables, lost>>
    BY <1>9, <2>1 DEF OnQueueReady
  <2>7. CASE \E keys, memory : FlushLocalCache(d, keys, memory)
    <3>1. /\ Stored(deltas', x) + Underway(x)' + lost'[x] =
               Stored(d, x) + Underway(x) + lost[x]
          /\ Underway(x)' \in Int
      BY <1>7, <2>3, <2>7
    <3> QED
      BY ONLY <1>1, <1>2, <1>3, <1>4, <2>3, <2>4, <2>5, <3>1
  <2>8. CASE deltas' = d /\ UNCHANGED <<tables, lost>>
    <3>1. Underway(x)' = Underway(x) /\ lost' = lost
      BY <1>5, <2>8 DEF tables
    <3> QED
      BY ONLY <1>1, <1>2, <1>3, <1>4, <2>3, <2>4, <2>5, <2>8, <3>1
  <2> QED
    BY <2>6, <2>7, <2>8
<1>10. CASE OnTick
  <2>1. UNCHANGED <<received, answered>>
    BY <1>10 DEF OnTick
  <2>2. /\ Stored(deltas', x) + Underway(x)' + lost'[x] =
             Stored(deltas, x) + Underway(x) + lost[x]
        /\ Underway(x)' \in Int
    BY <1>7, <1>10 DEF OnTick, TypeInv
  <2> QED
    BY ONLY <1>1, <1>2, <1>3, <1>4, <2>1, <2>2
<1>11. ASSUME NEW t \in calls, Response(t)
       PROVE  received'[x] =
                Stored(deltas', x) + Underway(x)' + answered'[x] + lost'[x]
  <2>1. UNCHANGED <<received, lost, deltas>>
    BY <1>11 DEF Response, NoHeaders, Timeout, WithoutBody, Accepted, Refused, Answer
  <2>2. /\ Underway(x)' + answered'[x] = Underway(x) + answered[x]
        /\ Underway(x)' \in Int
    BY <1>11, AnswerConserves
  <2> QED
    BY ONLY <1>1, <1>2, <1>3, <1>4, <2>1, <2>2
<1>12. CASE UNCHANGED vars
  BY <1>6, <1>12 DEF vars
<1> QED
  BY <1>8, <1>9, <1>10, <1>11, <1>12 DEF Next

(* Where service ids and tokens have no underscore, all usage a filter     *)
(* told of is in the delta store, in one report under way, answered, or    *)
(* dropped by a failed dispatch, however messages, flushes and answers     *)
(* interleave: no flush forgets usage, and no report has it twice.         *)
THEOREM NoUsageIsForgotten == ASSUME OnePart PROVE Spec => []UsageConserved
<1>1. Init => UsageConserved
  <2> SUFFICES ASSUME Init, NEW x \in Cells
               PROVE  received[x] =
                        Stored(deltas, x) + Underway(x) + answered[x] + lost[x]
    BY DEF UsageConserved
  <2>1. received[x] = 0 /\ answered[x] = 0 /\ lost[x] = 0
    BY DEF Init
  <2>2. Stored(deltas, x) = 0
    <3>1. deltas = Empty /\ DOMAIN Empty = {}
      BY DEF Init, Empty
    <3> QED
      BY <3>1 DEF Stored, AppsOf, UsageOf, HitsOf
  <2>3. Underway(x) = 0
    <3>1. {t \in calls : t.kind = "report"} = {}
      BY DEF Init
    <3> QED
      BY <3>1, TotalEmpty DEF Underway
  <2> QED
    BY <2>1, <2>2, <2>3
<1>2. TypeInv /\ TypeInv' /\ TablesInv /\ UsageConserved /\ [Next]_vars => UsageConserved'
  BY NextUsage
<1> QED
  BY <1>1, <1>2, TypeInvariance, TablesInvariance, PTL DEF Spec
=============================================================================
