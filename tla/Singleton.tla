----------------------------- MODULE Singleton -----------------------------
(***************************************************************************)
(* The singleton service: it drains the message queue into the delta       *)
(* store, flushes the store to 3scale when it is full or at a tick (one    *)
(* report call for each service, then one authorize call for each          *)
(* application it knows), and handles the answers.  Each callback runs     *)
(* to its end on the service's one VM, so each is one action.              *)
(*                                                                         *)
(* A name is the sequence of its parts between underscores: the key of     *)
(* the delta store joins the service id and the token with an underscore,  *)
(* and report() splits it again.  The flag update_cache_from_singleton     *)
(* of a message is never set (module AppCache), and the branch it guards   *)
(* is left out.                                                            *)
(***************************************************************************)
EXTENDS Integers, Sequences, Sums

CONSTANTS
  Inputs,       \* what a filter may enqueue: [svc, tok, app, metrics]
  Capacity,     \* configuration: delta_store_config.capacity
  FlushModes,   \* configurations: delta_store_config.flush_mode
  ServiceSize,  \* size_of a String and a HashMap
  AppSize,      \* size_of an AppIdentifier and a HashMap
  MetricSize,   \* size_of a String and a u64
  MaxMessages,  \* bound: messages the filters send
  MaxTicks      \* bound: ticks with an empty delta store

ASSUME SizesAssumption ==
  /\ ServiceSize \in Nat /\ AppSize \in Nat /\ MetricSize \in Nat
  /\ Capacity \in Nat /\ MaxMessages \in Nat /\ MaxTicks \in Nat
ASSUME FlushModesAssumption ==
  FlushModes \subseteq {"ContainerLimit", "Periodical", "Default"}
ASSUME InputsAssumption ==
  \A m \in Inputs :
    /\ m.svc # <<>> /\ m.tok # <<>>
    /\ IsFiniteSet(DOMAIN m.metrics)
    /\ m.metrics \in [DOMAIN m.metrics -> Nat]

VARIABLES
  queue,             \* shared: message_queue
  store,             \* shared: the cache keys whose application is cached
  flush_mode,        \* delta_store_config.flush_mode
  deltas,            \* delta key -> app -> metric -> usage
  memory_allocated,
  cache_keys,        \* cache key -> service token
  report_requests,   \* token of a call -> Report
  auth_requests,     \* token of a call -> cache key
  calls,             \* host: tokens of the calls not answered yet
  flushes,           \* flushes so far; makes the tokens of a flush new
  crashed,           \* the VM has trapped
  sent,              \* messages sent so far
  ticks,             \* ticks so far with an empty delta store
  received, answered, lost   \* ghosts: usage told of, reported, dropped

host == <<queue, sent>>
tables == <<report_requests, auth_requests, calls>>
ghosts == <<received, answered, lost>>
vars == <<host, tables, ghosts, store, flush_mode, deltas, memory_allocated,
          cache_keys, flushes, crashed, ticks>>

Empty  == <<>>
Apps   == {m.app : m \in Inputs}
Cells  == UNION {{<<m.svc, m.tok, m.app, x>> : x \in DOMAIN m.metrics} :
                    m \in Inputs}

(* Values of partial functions, with a default. *)
AppsOf(d, key)   == IF key \in DOMAIN d THEN d[key] ELSE Empty
UsageOf(apps, a) == IF a \in DOMAIN apps THEN apps[a] ELSE Empty
HitsOf(usage, x) == IF x \in DOMAIN usage THEN usage[x] ELSE 0
Without(f, k)    == [x \in DOMAIN f \ {k} |-> f[x]]
With(f, k, v)    == [x \in DOMAIN f \cup {k} |-> IF x = k THEN v ELSE f[x]]

(* A map with new entries, which replace those of the same keys.           *)
Inserted(f, new) ==
  [x \in DOMAIN f \cup DOMAIN new |-> IF x \in DOMAIN new THEN new[x] ELSE f[x]]

DeltaKey(m) == m.svc \o m.tok
CacheKey(m) == <<m.svc, m.app>>

(* A report goes to the first two parts of its delta key. *)
ReportOf(key, apps) ==
  [svc |-> <<key[1]>>, tok |-> <<key[2]>>, usages |-> apps]

(* The usage of a cell in a delta store, and in a report. *)
Stored(d, cell) ==
  HitsOf(UsageOf(AppsOf(d, cell[1] \o cell[2]), cell[3]), cell[4])
Reported(r, cell) ==
  IF <<r.svc, r.tok>> = <<cell[1], cell[2]>>
    THEN HitsOf(UsageOf(r.usages, cell[3]), cell[4])
    ELSE 0

Init ==
  /\ queue = <<>> /\ sent = 0
  /\ store = {}
  /\ flush_mode \in FlushModes
  /\ deltas = Empty /\ memory_allocated = 0
  /\ cache_keys = Empty
  /\ report_requests = Empty /\ auth_requests = Empty /\ calls = {}
  /\ flushes = 0 /\ ticks = 0
  /\ crashed = FALSE
  /\ received = [x \in Cells |-> 0]
  /\ answered = received
  /\ lost = received

-----------------------------------------------------------------------------
(* The filters: report_to_singleton, after the hit was charged. *)

FilterSends ==
  /\ sent < MaxMessages
  /\ \E m \in Inputs :
       queue' = Append(queue, m) /\ store' = store \cup {CacheKey(m)}
  /\ sent' = sent + 1
  /\ UNCHANGED <<tables, ghosts, flush_mode, deltas, memory_allocated, cache_keys,
                 flushes, crashed, ticks>>

-----------------------------------------------------------------------------
(* The delta store *)

(* Mutant: the usage of a known metric is replaced. *)
AddUsageOver(old, new) == Inserted(old, new)

AddUsage(old, new) ==
  [x \in DOMAIN old \cup DOMAIN new |-> HitsOf(old, x) + HitsOf(new, x)]

(* update_delta_store: the store with the usage of a message. *)
Updated(d, m) ==
  LET apps == AppsOf(d, DeltaKey(m))
      usage == AddUsage(UsageOf(apps, m.app), m.metrics)
  IN  With(d, DeltaKey(m), With(apps, m.app, usage))

(* Mutant: a new application of a known service is not counted. *)
IncreaseNoApp(d, m) ==
  LET apps == AppsOf(d, DeltaKey(m))
      new  == DOMAIN m.metrics \ DOMAIN UsageOf(apps, m.app)
  IN  (IF DeltaKey(m) \in DOMAIN d THEN 0 ELSE ServiceSize + AppSize)
      + Cardinality(new) * MetricSize

(* delta_increase: what the message adds to the store's keys and values. *)
Increase(d, m) ==
  LET apps == AppsOf(d, DeltaKey(m))
      new  == DOMAIN m.metrics \ DOMAIN UsageOf(apps, m.app)
  IN  (IF DeltaKey(m) \in DOMAIN d THEN 0 ELSE ServiceSize)
      + (IF m.app \in DOMAIN apps THEN 0 ELSE AppSize)
      + Cardinality(new) * MetricSize

(* DeltaStoreState::Flush *)
Full(memory) == flush_mode # "Periodical" /\ memory >= Capacity

-----------------------------------------------------------------------------
(* flush_local_cache *)

Token(kind, key) == [flush |-> flushes, kind |-> kind, to |-> key]

(* Mutant: a flush is taken to be of a full store. *)
FlushDeltaStoreFull(memory) ==
  deltas' = Empty /\ memory_allocated' = memory - Capacity

(* flush_delta_store *)
FlushDeltaStore(memory) == deltas' = Empty /\ memory_allocated' = 0

(* The report of each service in d and the authorize call of each cache    *)
(* key in keys; any of them may fail to dispatch, and a report that fails  *)
(* is dropped.                                                             *)
FlushLocalCache(d, keys, memory) ==
  LET reports == {Token("report", k) : k \in DOMAIN d}
      auths   == {Token("auth", k) : k \in DOMAIN keys}
  IN  \E failed \in SUBSET (reports \cup auths) :
        /\ FlushDeltaStore(memory)
        /\ report_requests' = Inserted(report_requests,
             [t \in reports \ failed |-> ReportOf(t.to, d[t.to])])
        /\ auth_requests' = Inserted(auth_requests, [t \in auths \ failed |-> t.to])
        /\ calls' = calls \cup ((reports \cup auths) \ failed)
        /\ lost' = [x \in Cells |-> lost[x] +
             Total([t \in reports |-> Reported(ReportOf(t.to, d[t.to]), x)],
                   reports \cap failed)]
        /\ flushes' = flushes + 1

(* on_queue_ready *)
OnQueueReady ==
  /\ ~crashed /\ queue # <<>>
  /\ LET m      == Head(queue)
         keys   == IF CacheKey(m) \in DOMAIN cache_keys
                     THEN cache_keys ELSE With(cache_keys, CacheKey(m), m.tok)
         d      == Updated(deltas, m)
         memory == memory_allocated +
                     IF flush_mode = "Periodical" THEN 0 ELSE Increase(deltas, m)
     IN  /\ cache_keys' = keys
         /\ received' = [x \in Cells |-> received[x] +
              IF <<x[1], x[2], x[3]>> = <<m.svc, m.tok, m.app>>
                THEN HitsOf(m.metrics, x[4])
                ELSE 0]
         /\ \/ Full(memory) /\ FlushLocalCache(d, keys, memory)
            \/ /\ ~Full(memory)
               /\ deltas' = d /\ memory_allocated' = memory
               /\ UNCHANGED <<tables, lost, flushes>>
  /\ queue' = Tail(queue)
  /\ UNCHANGED <<store, flush_mode, crashed, sent, ticks, answered>>

(* Mutant: a tick flushes in the periodical mode alone. *)
OnTickPeriodical ==
  /\ ~crashed /\ flush_mode = "Periodical"
  /\ deltas # Empty
  /\ FlushLocalCache(deltas, cache_keys, memory_allocated)
  /\ UNCHANGED <<host, store, flush_mode, cache_keys, crashed, ticks, received,
                 answered>>

(* on_tick; ticks that find the store empty are bounded. *)
OnTick ==
  /\ ~crashed /\ flush_mode # "ContainerLimit"
  /\ \/ deltas # Empty /\ UNCHANGED ticks
     \/ deltas = Empty /\ ticks < MaxTicks /\ ticks' = ticks + 1
  /\ FlushLocalCache(deltas, cache_keys, memory_allocated)
  /\ UNCHANGED <<host, store, flush_mode, cache_keys, crashed, received, answered>>

-----------------------------------------------------------------------------
(* on_http_call_response *)

(* The host is done with a call; the usage of a report counts as answered. *)
Answer(t) ==
  /\ ~crashed
  /\ calls' = calls \ {t}
  /\ answered' = [x \in Cells |-> answered[x] +
       IF t.kind = "report" THEN Reported(report_requests[t], x) ELSE 0]
  /\ UNCHANGED <<host, flush_mode, deltas, memory_allocated, flushes, ticks,
                 received, lost>>

(* The call failed in the host: there are no headers, and looking up       *)
(* :status panics.                                                         *)
NoHeaders(t) ==
  /\ Answer(t)
  /\ crashed' = TRUE
  /\ UNCHANGED <<store, cache_keys, report_requests, auth_requests>>

(* Status 504. *)
Timeout(t) ==
  /\ Answer(t)
  /\ report_requests' = Without(report_requests, t)
  /\ auth_requests' = Without(auth_requests, t)
  /\ UNCHANGED <<store, cache_keys, crashed>>

(* An answer without a body is taken for a report's; that of an authorize  *)
(* call leaves its entry.                                                  *)
WithoutBody(t) ==
  /\ Answer(t)
  /\ report_requests' = Without(report_requests, t)
  /\ UNCHANGED <<store, cache_keys, auth_requests, crashed>>

(* An answer with a body is taken for an authorize call's.  Accepted: the  *)
(* application is stored, unless it cannot be read or written.             *)
Accepted(t) ==
  /\ t.kind = "auth"
  /\ Answer(t)
  /\ store' = store \cup {t.to} \/ UNCHANGED store
  /\ auth_requests' = Without(auth_requests, t)
  /\ UNCHANGED <<cache_keys, report_requests, crashed>>

(* Mutant: the failure drops every authorize call of the application. *)
RefusedDropsAll(t) ==
  /\ Answer(t)
  /\ IF t \in DOMAIN auth_requests
       THEN /\ store' = store \ {auth_requests[t]}
            /\ cache_keys' = Without(cache_keys, auth_requests[t])
            /\ auth_requests' =
                 [o \in {a \in DOMAIN auth_requests : a.to # t.to} |->
                    auth_requests[o]]
       ELSE UNCHANGED <<store, cache_keys, auth_requests>>
  /\ UNCHANGED <<report_requests, crashed>>

(* Refused: handle_auth_failure removes the application of the call.  The  *)
(* body of a refused report ends here too, and leaves its entry.           *)
Refused(t) ==
  /\ Answer(t)
  /\ IF t \in DOMAIN auth_requests
       THEN /\ store' = store \ {auth_requests[t]}
            /\ cache_keys' = Without(cache_keys, auth_requests[t])
            /\ auth_requests' = Without(auth_requests, t)
       ELSE UNCHANGED <<store, cache_keys, auth_requests>>
  /\ UNCHANGED <<report_requests, crashed>>

Response(t) ==
  NoHeaders(t) \/ Timeout(t) \/ WithoutBody(t) \/ Accepted(t) \/ Refused(t)

Next == FilterSends \/ OnQueueReady \/ OnTick \/ \E t \in calls : Response(t)

(* The host delivers what is queued, ticks for ever, and answers or times  *)
(* out every call.                                                         *)
Fairness ==
  WF_vars(OnQueueReady) /\ WF_vars(OnTick) /\ WF_vars(\E t \in calls : Response(t))

Spec == Init /\ [][Next]_vars /\ Fairness

-----------------------------------------------------------------------------
(* Properties *)

CacheKeys == {CacheKey(m) : m \in Inputs}
Keys      == {DeltaKey(m) : m \in Inputs}
Tokens    == [flush : Nat, kind : {"report"}, to : Keys]
             \cup [flush : Nat, kind : {"auth"}, to : CacheKeys]

(* Every variable keeps its type; tokens in use are of earlier flushes.    *)
TypeOK ==
  /\ queue \in Seq(Inputs)
  /\ store \subseteq CacheKeys
  /\ flush_mode \in FlushModes
  /\ DOMAIN deltas \subseteq Keys
  /\ \A k \in DOMAIN deltas : \A a \in DOMAIN deltas[k] :
       a \in Apps /\ deltas[k][a] \in [DOMAIN deltas[k][a] -> Nat]
  /\ memory_allocated \in Nat
  /\ \A k \in DOMAIN cache_keys :
       \E m \in Inputs : k = CacheKey(m) /\ cache_keys[k] = m.tok
  /\ flushes \in Nat
  /\ \A t \in calls \cup DOMAIN report_requests \cup DOMAIN auth_requests :
       t \in Tokens /\ t.flush < flushes
  /\ crashed \in BOOLEAN
  /\ sent \in 0 .. MaxMessages /\ ticks \in 0 .. MaxTicks
  /\ {received, answered, lost} \subseteq [Cells -> Nat]

(* What the store's keys and values take, counted from its content.        *)
MemoryOfUsage(usage) == AppSize + Cardinality(DOMAIN usage) * MetricSize
MemoryOfApps(apps) ==
  ServiceSize + Total([a \in DOMAIN apps |-> MemoryOfUsage(apps[a])], DOMAIN apps)
MemoryOf(d) == Total([k \in DOMAIN d |-> MemoryOfApps(d[k])], DOMAIN d)

(* memory_allocated, which only ever counts increases (deltas.rs), is the  *)
(* size of the delta store's content, and between two callbacks it is      *)
(* below the capacity: a full store has been flushed.                      *)
MemoryMatches ==
  flush_mode # "Periodical" =>
    /\ memory_allocated = MemoryOf(deltas)
    /\ memory_allocated < Capacity \/ deltas = Empty

(* The usage of the reports that are not answered.                         *)
Underway(cell) ==
  LET reports == {t \in calls : t.kind = "report"}
  IN  Total([t \in reports |-> Reported(report_requests[t], cell)], reports)

(* All usage a filter told of is in the delta store, in one report under   *)
(* way for the service and token it was told for, or accounted for as      *)
(* answered or as dropped by a failed dispatch: none is forgotten by a     *)
(* flush and none is reported twice.                                       *)
UsageConserved ==
  \A x \in Cells :
    received[x] = Stored(deltas, x) + Underway(x) + answered[x] + lost[x]

(* The service knows what every unanswered call was for, in one of its two *)
(* tables, whatever the answers to other calls made it remove.             *)
CallsTracked ==
  /\ {t \in calls : t.kind = "report"} \subseteq DOMAIN report_requests
  /\ {t \in calls : t.kind = "auth"} \subseteq DOMAIN auth_requests
  /\ DOMAIN report_requests \cap DOMAIN auth_requests = {}

(* Unless the capacity alone triggers a flush, or a panic stops the VM,    *)
(* usage leaves the queue and the delta store, and every call is answered. *)
UsageIsFlushed ==
  flush_mode # "ContainerLimit" /\ (queue # <<>> \/ deltas # Empty)
    ~> crashed \/ (queue = <<>> /\ deltas = Empty /\ calls = {})
=============================================================================
