------------------------------ MODULE AppCache ------------------------------
(***************************************************************************)
(* One application's record in the shared store, and the requests that     *)
(* charge it: handle_cache_hit with its retries on a CAS mismatch, and the *)
(* fresh record a request stores after a cache miss.  This is the default  *)
(* build, without the feature unique_callout: every request that misses    *)
(* calls 3scale itself (unique_callout_dummy.rs).                          *)
(*                                                                         *)
(* The record is reduced to the hits left of one limit and its serialized  *)
(* size; how several limits and periods make a verdict is the subject of   *)
(* module LimitCheck.  The singleton starts at any time, and then          *)
(* overwrites or removes the record at any time.                           *)
(*                                                                         *)
(* Whoever stores a record adds the change of its size to the shared       *)
(* memory counter.  The key's length is on both sides of that difference   *)
(* and cancels.                                                            *)
(***************************************************************************)
EXTENDS Integers, Sequences, Sums, SharedData

CONSTANTS
  Threads,          \* filter VMs
  Contexts,         \* HTTP requests, all for this application
  Singleton,        \* the VM of the singleton
  ThreadOf,         \* the thread a request is served by
  Hits,             \* the usage a request declares
  Quota,            \* bound: the largest number of hits left
  Sizes,            \* bound: the sizes of a serialized record
  InitialSize,      \* SHARED_MEMORY_INITIAL_SIZE
  MaxTries,         \* configuration: max_tries
  MaxWrites,        \* bound: the singleton's writes
  FailureModeDeny   \* configuration: answer 403 when the filter fails

Writers == Contexts \cup {Singleton}

ASSUME ThreadOfAssumption == ThreadOf \in [Contexts -> Threads]
ASSUME SingletonAssumption == Singleton \notin Contexts
ASSUME SizesAssumption == Sizes \subseteq Nat /\ InitialSize \in Nat
ASSUME HitsAssumption == Hits \in [Contexts -> Nat]
ASSUME NumbersAssumption == Quota \in Nat /\ MaxTries \in Nat /\ MaxWrites \in Nat
ASSUME FailureModeAssumption == FailureModeDeny \in BOOLEAN

VARIABLES
  app,       \* shared: the record
  counter,   \* shared: the memory counter
  queue,     \* shared: message_queue of the singleton
  pc,        \* writer -> where its callback is
  copy,      \* writer -> the application it works on: hits left and size
  appCas,    \* writer -> app_cas
  tries,     \* context -> num_try
  flag,      \* context -> update_cache_from_singleton
  delta,     \* writer -> memory_delta
  read,      \* writer -> the counter as it read it
  rounds,    \* writer -> num_try of the counter
  verdict,   \* context -> what became of its request
  writes,    \* the singleton's writes so far
  base,      \* ghost: hits left when the record was last overwritten
  charged,   \* ghost: requests charged to it since
  skewed     \* ghost: the counter has met one of its known inaccuracies

vars == <<app, counter, queue, pc, copy, appCas, tries, flag, delta, read, rounds,
          verdict, writes, base, charged, skewed>>
ghosts == <<base, charged, skewed>>
memory == <<counter, delta, read, rounds>>

Record   == [present : BOOLEAN, left : Nat, size : Nat, cas : Nat]
Copy     == [left : Nat, size : Nat]
Counter  == [used : Nat, cas : Nat]
Message  == [ctx : Contexts, update : BOOLEAN]
(* A local that is not read any more goes back to these, so that TLC tells *)
(* fewer states apart.                                                     *)
NoCopy == [left |-> 0, size |-> 0]
NoRead == [used |-> 0, cas |-> NoEntry]

Counting == {"count", "init", "store"}
Running  == Counting \cup {"resolve", "check", "set", "report", "refetch"}
PCs      == Running \cup {"new", "callout", "done", "unreported",
                          "off", "starting", "idle"}
Verdicts == {"none", "passed", "limited", "denied", "failed_open"}

(* No callback runs on the thread: the next one may start. *)
Idle(t) == \A c \in Contexts : ThreadOf[c] = t => pc[c] \notin Running

Init ==
  /\ app = [present |-> FALSE, left |-> 0, size |-> 0, cas |-> NoEntry]
  /\ counter = NoRead
  /\ queue = <<>>
  /\ pc = [w \in Writers |-> IF w = Singleton THEN "off" ELSE "new"]
  /\ copy = [w \in Writers |-> NoCopy]
  /\ appCas = [w \in Writers |-> AnyCas]
  /\ tries = [c \in Contexts |-> 0]
  /\ flag = [c \in Contexts |-> FALSE]
  /\ delta = [w \in Writers |-> 0]
  /\ read = [w \in Writers |-> NoRead]
  /\ rounds = [w \in Writers |-> 0]
  /\ verdict = [c \in Contexts |-> "none"]
  /\ writes = 0
  /\ base = 0
  /\ charged = {}
  /\ skewed = FALSE

Goto(c, label) == pc' = [pc EXCEPT ![c] = label]

Settle(c, v) == Goto(c, "done") /\ verdict' = [verdict EXCEPT ![c] = v]

(* in_request_failure and request_process_failure *)
Fail(c) == Settle(c, IF FailureModeDeny THEN "denied" ELSE "failed_open")

(* The application a writer goes on with, and its CAS. *)
Take(w, left, size, cas) ==
  /\ copy' = [copy EXCEPT ![w] = [left |-> left, size |-> size]]
  /\ appCas' = [appCas EXCEPT ![w] = cas]

-----------------------------------------------------------------------------
(* on_http_request_headers: a hit goes on to handle_cache_hit, a miss to   *)
(* do_auth_call, which may fail to dispatch.                               *)

OnRequest(c) ==
  /\ pc[c] = "new" /\ Idle(ThreadOf[c])
  /\ \/ /\ app.present
        /\ Take(c, app.left, app.size, app.cas)
        /\ Goto(c, "resolve")
        /\ UNCHANGED verdict
     \/ /\ ~app.present
        /\ \/ Goto(c, "callout") /\ UNCHANGED verdict
           \/ Fail(c)
        /\ UNCHANGED <<copy, appCas>>
  /\ UNCHANGED <<app, memory, queue, tries, flag, writes, ghosts>>

(* on_http_call_response.  An accepted status makes a fresh application,   *)
(* which is charged and stored with CAS 0; all other responses fail the    *)
(* request or refuse it (403).                                             *)
FreshResponse(c) ==
  /\ pc[c] = "callout" /\ Idle(ThreadOf[c])
  /\ \E left \in 0 .. Quota, size \in Sizes : Take(c, left, size, AnyCas)
  /\ Goto(c, "resolve")
  /\ UNCHANGED <<app, memory, queue, tries, flag, verdict, writes, ghosts>>

OtherResponse(c) ==
  /\ pc[c] = "callout" /\ Idle(ThreadOf[c])
  /\ Settle(c, "denied") \/ Fail(c)
  /\ UNCHANGED <<app, memory, queue, copy, appCas, tries, flag, writes, ghosts>>

-----------------------------------------------------------------------------
(* handle_cache_hit *)

(* The singleton's queue is resolved first: MQNotFound while the singleton *)
(* has not registered it.                                                  *)
ResolveQueue(c) ==
  /\ pc[c] = "resolve"
  /\ \/ pc[Singleton] # "off" /\ Goto(c, "check") /\ UNCHANGED verdict
     \/ pc[Singleton] = "off" /\ Fail(c)
  /\ UNCHANGED <<app, memory, queue, copy, appCas, tries, flag, writes, ghosts>>

StoredSize == IF app.present THEN app.size ELSE 0

(* set_application_to_cache begins with reading the size of what is stored,*)
(* in an access of its own.                                                *)
Measure(w) ==
  /\ delta' = [delta EXCEPT ![w] = copy[w].size - StoredSize]
  /\ Goto(w, "set")

(* Mutant: the limit is not checked before the request is charged. *)
TryCheckNoLimit(c) ==
  /\ pc[c] = "check" /\ tries[c] < MaxTries
  /\ Measure(c)
  /\ UNCHANGED <<app, counter, read, rounds, queue, copy, appCas, tries, flag,
                 verdict, writes, ghosts>>

(* One try: a limit that is exceeded ends the request (429).               *)
TryCheck(c) ==
  /\ pc[c] = "check" /\ tries[c] < MaxTries
  /\ \/ copy[c].left < Hits[c] /\ Settle(c, "limited") /\ UNCHANGED delta
     \/ copy[c].left >= Hits[c] /\ Measure(c) /\ UNCHANGED verdict
  /\ UNCHANGED <<app, counter, read, rounds, queue, copy, appCas, tries, flag,
                 writes, ghosts>>

(* All tries failed, or there were none: the request is passed, the flag   *)
(* is set, and nothing is sent to the singleton.                           *)
GiveUp(c) ==
  /\ pc[c] = "check" /\ tries[c] >= MaxTries
  /\ flag' = [flag EXCEPT ![c] = TRUE]
  /\ Settle(c, "passed")
  /\ UNCHANGED <<app, memory, queue, copy, appCas, tries, writes, ghosts>>

(* Mutant: a record is written whatever its CAS is by now. *)
SetAcceptedAlways(w) == TRUE

SetAccepted(w) == Accepts(app.cas, appCas[w])

HitsBy(w) == IF w = Singleton THEN 0 ELSE Hits[w]

(* A record that is written with CAS 0 replaces what is there, which is    *)
(* not always what was measured.                                           *)
TrySet(w) ==
  /\ pc[w] = "set"
  /\ \/ /\ SetAccepted(w)
        /\ app' = [present |-> TRUE, left |-> copy[w].left - HitsBy(w),
                   size |-> copy[w].size, cas |-> NextCas(app.cas)]
        /\ \/ /\ appCas[w] = AnyCas
              /\ base' = copy[w].left
              /\ charged' = {w} \ {Singleton}
              /\ skewed' = (skewed \/ delta[w] # copy[w].size - StoredSize)
           \/ /\ appCas[w] # AnyCas
              /\ charged' = charged \cup {w}
              /\ UNCHANGED <<base, skewed>>
        /\ Goto(w, "count")
        /\ copy' = [copy EXCEPT ![w] = NoCopy]
        /\ UNCHANGED delta
     \/ /\ ~SetAccepted(w)
        /\ Goto(w, "refetch")
        /\ delta' = [delta EXCEPT ![w] = 0]
        /\ UNCHANGED <<app, copy, ghosts>>
  /\ appCas' = [appCas EXCEPT ![w] = AnyCas]
  /\ UNCHANGED <<counter, read, rounds, queue, tries, flag, verdict, writes>>

-----------------------------------------------------------------------------
(* update_shared_memory_size, and the loop that tries it three times *)

CounterTries == 3

CountGet(w) ==
  /\ pc[w] = "count"
  /\ read' = [read EXCEPT ![w] = counter]
  /\ Goto(w, IF counter.cas = NoEntry THEN "init" ELSE "store")
  /\ UNCHANGED <<app, counter, delta, rounds, queue, copy, appCas, tries, flag,
                 verdict, writes, ghosts>>

(* The counter was absent: it is set to the initial size whatever is there *)
(* by now, and the code goes on as if it had read that with CAS 1.         *)
CountInit(w) ==
  /\ pc[w] = "init"
  /\ counter' = [used |-> InitialSize, cas |-> NextCas(counter.cas)]
  /\ read' = [read EXCEPT ![w] = [used |-> InitialSize, cas |-> 1]]
  /\ skewed' = (skewed \/ counter.cas # NoEntry)
  /\ Goto(w, "store")
  /\ UNCHANGED <<app, delta, rounds, queue, copy, appCas, tries, flag, verdict,
                 writes, base, charged>>

(* A decrease beyond what is used starts again from the initial size.      *)
Clamps(w) == delta[w] < 0 /\ read[w].used <= -delta[w]
Resized(w) == IF Clamps(w) THEN InitialSize ELSE read[w].used + delta[w]

(* A context goes on to its report, the singleton to its next callback.    *)
Counted(w) ==
  /\ Goto(w, IF w = Singleton THEN "idle" ELSE "report")
  /\ delta' = [delta EXCEPT ![w] = 0]
  /\ rounds' = [rounds EXCEPT ![w] = 0]

(* Mutant: the counter is written whatever its CAS is by now. *)
CountSetNoCas(w) ==
  /\ pc[w] = "store"
  /\ counter' = [used |-> Resized(w), cas |-> NextCas(counter.cas)]
  /\ skewed' = (skewed \/ Clamps(w))
  /\ Counted(w)
  /\ read' = [read EXCEPT ![w] = NoRead]
  /\ UNCHANGED <<app, queue, copy, appCas, tries, flag, verdict, writes, base, charged>>

CountSet(w) ==
  /\ pc[w] = "store"
  /\ \/ /\ Accepts(counter.cas, read[w].cas)
        /\ counter' = [used |-> Resized(w), cas |-> NextCas(counter.cas)]
        /\ skewed' = (skewed \/ Clamps(w))
        /\ Counted(w)
     \/ /\ ~Accepts(counter.cas, read[w].cas) /\ rounds[w] + 1 < CounterTries
        /\ rounds' = [rounds EXCEPT ![w] = @ + 1]
        /\ Goto(w, "count")
        /\ UNCHANGED <<counter, delta, skewed>>
     \/ /\ ~Accepts(counter.cas, read[w].cas) /\ rounds[w] + 1 >= CounterTries
        /\ skewed' = TRUE
        /\ Counted(w)
        /\ UNCHANGED counter
  /\ read' = [read EXCEPT ![w] = NoRead]
  /\ UNCHANGED <<app, queue, copy, appCas, tries, flag, verdict, writes, base, charged>>

-----------------------------------------------------------------------------
(* Mutant: nothing is sent. *)
ReportNothing(c) ==
  /\ pc[c] = "report"
  /\ Settle(c, "passed")
  /\ UNCHANGED <<app, memory, queue, copy, appCas, tries, flag, writes, ghosts>>

(* report_to_singleton and resume_http_request.  The queue may not take    *)
(* the message: that is logged, and the request goes on, charged and       *)
(* unreported (http.rs:303-307, a TODO).                                   *)
ReportUsage(c) ==
  /\ pc[c] = "report"
  /\ \/ /\ queue' = Append(queue, [ctx |-> c, update |-> flag[c]])
        /\ Goto(c, "done")
     \/ UNCHANGED queue /\ Goto(c, "unreported")
  /\ verdict' = [verdict EXCEPT ![c] = "passed"]
  /\ UNCHANGED <<app, memory, copy, appCas, tries, flag, writes, ghosts>>

(* Mutant: a retry goes on with the application it has. *)
RefetchCasOnly(c) ==
  /\ pc[c] = "refetch"
  /\ \/ /\ app.present
        /\ Take(c, copy[c].left, copy[c].size, app.cas)
        /\ tries' = [tries EXCEPT ![c] = @ + 1]
        /\ Goto(c, "check")
        /\ UNCHANGED verdict
     \/ ~app.present /\ Fail(c) /\ UNCHANGED <<copy, appCas, tries>>
  /\ UNCHANGED <<app, memory, queue, flag, writes, ghosts>>

(* After a mismatch the application is read again; if it was removed in    *)
(* the meantime the hit fails (AppFetchFail).                              *)
Refetch(c) ==
  /\ pc[c] = "refetch"
  /\ \/ /\ app.present
        /\ Take(c, app.left, app.size, app.cas)
        /\ tries' = [tries EXCEPT ![c] = @ + 1]
        /\ Goto(c, "check")
        /\ UNCHANGED verdict
     \/ ~app.present /\ Fail(c) /\ UNCHANGED <<copy, appCas, tries>>
  /\ UNCHANGED <<app, memory, queue, flag, writes, ghosts>>

-----------------------------------------------------------------------------
(* The singleton.  It registers its queue and then initializes the         *)
(* counter, whatever the filters have counted in between.                  *)

RegisterQueue ==
  /\ pc[Singleton] = "off"
  /\ Goto(Singleton, "starting")
  /\ UNCHANGED <<app, memory, queue, copy, appCas, tries, flag, verdict, writes,
                 ghosts>>

InitCounter ==
  /\ pc[Singleton] = "starting"
  /\ counter' = [used |-> InitialSize, cas |-> NextCas(counter.cas)]
  /\ skewed' = (skewed \/ counter.cas # NoEntry)
  /\ Goto(Singleton, "idle")
  /\ UNCHANGED <<app, delta, read, rounds, queue, copy, appCas, tries, flag,
                 verdict, writes, base, charged>>

(* It stores a refreshed application with CAS 0, or erases one that 3scale *)
(* does not know; it does either only for an application it was told of.   *)
(* The counter is left as it is when a record is erased.                   *)
SingletonSets ==
  /\ pc[Singleton] = "idle" /\ queue # <<>> /\ writes < MaxWrites
  /\ \E left \in 0 .. Quota, size \in Sizes :
       /\ Take(Singleton, left, size, AnyCas)
       /\ delta' = [delta EXCEPT ![Singleton] = size - StoredSize]
  /\ writes' = writes + 1
  /\ Goto(Singleton, "set")
  /\ UNCHANGED <<app, counter, read, rounds, queue, tries, flag, verdict, ghosts>>

SingletonRemoves ==
  /\ pc[Singleton] = "idle" /\ queue # <<>> /\ writes < MaxWrites
  /\ app' = [present |-> FALSE, left |-> 0, size |-> 0, cas |-> NextCas(app.cas)]
  /\ base' = 0 /\ charged' = {} /\ skewed' = (skewed \/ app.present)
  /\ writes' = writes + 1
  /\ UNCHANGED <<memory, queue, pc, copy, appCas, tries, flag, verdict>>

Step(c) ==
  \/ ResolveQueue(c) \/ TryCheck(c) \/ GiveUp(c)
  \/ ReportUsage(c) \/ Refetch(c)

Write(w) ==
  TrySet(w) \/ CountGet(w) \/ CountInit(w) \/ CountSet(w)

Next ==
  \/ \E c \in Contexts : OnRequest(c) \/ FreshResponse(c) \/ OtherResponse(c) \/ Step(c)
  \/ \E w \in Writers : Write(w)
  \/ RegisterQueue \/ InitCounter
  \/ SingletonSets \/ SingletonRemoves

Spec == Init /\ [][Next]_vars

-----------------------------------------------------------------------------
(* Properties *)

(* Every variable keeps its type. *)
TypeOK ==
  /\ app \in Record
  /\ queue \in Seq(Message)
  /\ counter \in Counter
  /\ pc \in [Writers -> PCs]
  /\ copy \in [Writers -> Copy]
  /\ appCas \in [Writers -> Nat]
  /\ tries \in [Contexts -> 0 .. MaxTries]
  /\ flag \in [Contexts -> BOOLEAN]
  /\ delta \in [Writers -> Int]
  /\ read \in [Writers -> Counter]
  /\ rounds \in [Writers -> 0 .. CounterTries]
  /\ verdict \in [Contexts -> Verdicts]
  /\ writes \in 0 .. MaxWrites
  /\ base \in Nat
  /\ charged \subseteq Contexts
  /\ skewed \in BOOLEAN

HitsOf(S) == Total(Hits, S)

(* Between two overwrites the record loses exactly the hits of the         *)
(* requests passed on its account: no deduction is lost or made twice by   *)
(* requests that race to charge it.                                        *)
QuotaConserved == app.present => app.left + HitsOf(charged) = base

Reports(c) == {i \in 1 .. Len(queue) : queue[i].ctx = c}

(* A request charged to the record is reported, once, before its callback  *)
(* ends, unless the queue does not take its message; no request that was   *)
(* refused or failed, on whatever try, is reported.                        *)
ChargedIsReported ==
  \A c \in Contexts :
    /\ c \in charged =>
         pc[c] \in Counting \cup {"report", "unreported"} \/ Reports(c) # {}
    /\ Cardinality(Reports(c)) <= 1
    /\ Reports(c) # {} => verdict[c] = "passed"

(* The changes of size that are stored and not yet counted. *)
Owing   == {w \in Writers : pc[w] \in Counting}
Pending == Total(delta, Owing)

CounterUsed == IF counter.cas = NoEntry THEN InitialSize ELSE counter.used

(* The memory counter follows the stored size, up to the changes that are  *)
(* just being counted, unless it has met one of these: a write with CAS 0  *)
(* over a record of another size than it had measured, a removal, an       *)
(* initialization after somebody counted, three lost races, or a decrease  *)
(* below the initial size.  In particular a write guarded by its CAS has   *)
(* measured what it replaces, and no two updates of the counter are lost.  *)
MemoryFollows ==
  ~skewed => CounterUsed + Pending = InitialSize + StoredSize

-----------------------------------------------------------------------------
(* Refinement: the retry loop charges in one step *)

(* A request without a CAS has brought its copy from 3scale.               *)
Phase(c) ==
  CASE pc[c] \in {"new", "refetch"} -> "asks"
    [] pc[c] \in {"resolve", "check", "set"} ->
         IF appCas[c] = AnyCas THEN "fetched" ELSE "asks"
    [] pc[c] = "callout" -> "calls"
    [] pc[c] \in Counting \cup {"report"} -> "charged"
    [] pc[c] = "unreported" -> "unreported"
    [] pc[c] = "done" -> IF Reports(c) # {} THEN "reported" ELSE "ended"

Atomic == INSTANCE AtomicHit WITH
  record <- [present |-> app.present, left |-> app.left],
  phase  <- [c \in Contexts |-> Phase(c)]

(* The loop of handle_cache_hit, over a copy that others may outdate and   *)
(* with a CAS that may fail, charges as one atomic step would; only who    *)
(* found no record overwrites one; a report follows a charge.              *)
ImplementsAtomicHit == Atomic!Spec

-----------------------------------------------------------------------------
(* What the documentation says and the code does not do *)

(* "If the usage update fails due to concurrency issues, then the cache    *)
(* filter will delegate that task to the singleton service" (README.md):   *)
(* a request passed without being charged has asked the singleton for the  *)
(* update.                                                                 *)
UpdateIsDelegated ==
  \A c \in Contexts :
    pc[c] = "done" /\ flag[c] => \E i \in Reports(c) : queue[i].update
=============================================================================
