---------------------------- MODULE UniqueCallout ----------------------------
(***************************************************************************)
(* The cache filter built with the feature unique_callout: of all requests *)
(* that miss the cache under one cache key, one takes the callout lock and *)
(* calls 3scale, the others wait in the lock's waitlist until that one has *)
(* handled the response and sends their threads a message.                 *)
(*                                                                         *)
(* A thread is a single-threaded VM: it runs one callback at a time, and a *)
(* callback of one thread interleaves with those of other threads at each  *)
(* call of the host's shared store.  A context is one HTTP request.        *)
(*                                                                         *)
(* Left out: requests without metadata (answered 401 before any state is   *)
(* touched), (de)serialisation failures of the program's own structures    *)
(* and host calls that fail for reasons other than CAS; the retries inside *)
(* handle_cache_hit and the usage it reports, which do not touch the lock; *)
(* the lock's owned_by, which is only logged.                              *)
(***************************************************************************)
EXTENDS Naturals, Sequences, FiniteSets, SharedData

CONSTANTS
  Threads,          \* filter VMs
  Contexts,         \* HTTP requests
  UserKeys,         \* cache keys <service, user_key>
  AppKeys,          \* cache keys <service, app_id>
  ThreadOf,         \* the thread a request is served by
  AppKeyOf,         \* the application a user_key belongs to
  FailureModeDeny   \* configuration: answer 403 when the filter fails

Keys == UserKeys \cup AppKeys

ASSUME KeysAssumption == UserKeys \cap AppKeys = {}
ASSUME ThreadOfAssumption == ThreadOf \in [Contexts -> Threads]
ASSUME AppKeyOfAssumption == AppKeyOf \in [UserKeys -> AppKeys]
ASSUME FailureModeAssumption == FailureModeDeny \in BOOLEAN

VARIABLES
  lock,      \* shared: key -> callout lock entry
  mapped,    \* shared: user_key -> its app_id is stored
  app,       \* shared: app key -> the application's entry
  mq,        \* thread -> its message queue
  waiting,   \* WAITING_CONTEXTS of all threads
  pc,        \* context -> where its request is
  key,       \* context -> state.cache_key
  prev,      \* context -> prev_cache_key of on_http_call_response
  seen,      \* context -> the lock entry it read last
  met,       \* context -> seen_lock_owner.is_some()
  notify,    \* context -> waiters it still has to notify
  action,    \* context -> waiter_action of on_http_call_response
  verdict    \* context -> what became of its request

shared == <<lock, mapped, app, mq, waiting>>
local  == <<key, prev, seen, met, notify, action>>
vars   == <<lock, mapped, app, mq, waiting, pc, key, prev, seen, met, notify,
            action, verdict>>

LockEntry == [held : BOOLEAN, waiters : Seq(Contexts), cas : Nat]
NoLock    == [held |-> FALSE, waiters |-> <<>>, cas |-> NoEntry]

Actions  == {"HandleCacheHit", "HandleFailure"}
Message  == [kind : Actions, ctx : Contexts]
Verdicts == {"none", "passed", "limited", "denied"}

Running == {"lookup", "get", "set", "register", "came_first", "dispatch",
            "fresh", "free", "notify"}
Owning  == {"dispatch", "callout", "fresh", "free", "notify"}
PCs     == Running \cup {"new", "callout", "waiting", "gone", "stranded", "done",
                          "trapped"}

(* The key under which an owner took its lock: handle_auth_response may    *)
(* have replaced its cache_key since.                                      *)
LockKeyOf(c) == IF pc[c] \in {"fresh", "free", "notify"} THEN prev[c] ELSE key[c]

Owners(k) == {c \in Contexts : pc[c] \in Owning /\ LockKeyOf(c) = k}

(* A panic in a callback traps the VM: it runs no callback any more.       *)
Trapped(t) == \E c \in Contexts : ThreadOf[c] = t /\ pc[c] = "trapped"

(* No callback runs on the thread: the next one may start.                 *)
Idle(t) ==
  ~Trapped(t) /\ \A c \in Contexts : ThreadOf[c] = t => pc[c] \notin Running

FailureVerdict == IF FailureModeDeny THEN "denied" ELSE "passed"

(* What handle_cache_hit does of a request whose application is cached:    *)
(* passed, 429, or an error the caller answers by the failure mode.        *)
HitVerdicts == {"passed", "limited", FailureVerdict}

Init ==
  /\ lock = [k \in Keys |-> NoLock]
  /\ mapped = [u \in UserKeys |-> FALSE]
  /\ app = [a \in AppKeys |-> "absent"]
  /\ mq = [t \in Threads |-> <<>>]
  /\ waiting = {}
  /\ pc = [c \in Contexts |-> "new"]
  /\ key \in [Contexts -> Keys]   \* built from the request's metadata
  /\ prev = key
  /\ seen = [c \in Contexts |-> NoLock]
  /\ met = [c \in Contexts |-> FALSE]
  /\ notify = [c \in Contexts |-> <<>>]
  /\ action = [c \in Contexts |-> "HandleFailure"]
  /\ verdict = [c \in Contexts |-> "none"]

Goto(c, label) == pc' = [pc EXCEPT ![c] = label]

Settle(c, v) == Goto(c, "done") /\ verdict' = [verdict EXCEPT ![c] = v]
-----------------------------------------------------------------------------
(* on_http_request_headers *)

(* A request arrives.  With a user_key the application's id is looked up   *)
(* first; without a mapping the request competes for the lock.             *)
OnRequest(c) ==
  /\ pc[c] = "new"
  /\ Idle(ThreadOf[c])
  /\ \/ /\ key[c] \in UserKeys /\ ~mapped[key[c]]
        /\ Goto(c, "get")
        /\ UNCHANGED key
     \/ /\ key[c] \in UserKeys /\ mapped[key[c]]
        /\ key' = [key EXCEPT ![c] = AppKeyOf[key[c]]]
        /\ Goto(c, "lookup")
     \/ /\ key[c] \in AppKeys
        /\ Goto(c, "lookup")
        /\ UNCHANGED key
  /\ UNCHANGED <<shared, prev, seen, met, notify, action, verdict>>

(* handle_cache_hit, in which a panic is possible (LimitCheck has them).   *)
Hit(c) ==
  \/ \E v \in HitVerdicts : Settle(c, v)
  \/ Goto(c, "trapped") /\ UNCHANGED verdict

Lookup(c) ==
  /\ pc[c] = "lookup"
  /\ \/ app[key[c]] = "cached" /\ Hit(c) /\ UNCHANGED met
     \/ /\ app[key[c]] # "cached"
        /\ met' = [met EXCEPT ![c] = FALSE]
        /\ Goto(c, "get")
        /\ UNCHANGED verdict
  /\ UNCHANGED <<shared, key, prev, seen, notify, action>>

(* ResponseCameFirst: look again for what the callout should have stored.  *)
(* A user_key that is mapped now goes on to the application's lookup.      *)
CameFirst(c) ==
  /\ pc[c] = "came_first"
  /\ \/ /\ key[c] \in UserKeys /\ mapped[key[c]]
        /\ key' = [key EXCEPT ![c] = AppKeyOf[key[c]]]
        /\ Goto(c, "lookup")
        /\ UNCHANGED verdict
     \/ /\ \/ key[c] \in UserKeys /\ ~mapped[key[c]]
           \/ key[c] \in AppKeys /\ app[key[c]] # "cached"
        /\ Settle(c, FailureVerdict)
        /\ UNCHANGED key
     \/ /\ key[c] \in AppKeys /\ app[key[c]] = "cached"
        /\ Hit(c)
        /\ UNCHANGED key
  /\ UNCHANGED <<shared, prev, seen, met, notify, action>>

-----------------------------------------------------------------------------
(* set_callout_lock: a loop of get_shared_data and set_shared_data *)

LockGet(c) ==
  /\ pc[c] = "get"
  /\ LET entry == lock[key[c]]
         erased == entry.cas # NoEntry /\ ~entry.held
     IN  /\ seen' = [seen EXCEPT ![c] = entry]
         /\ Goto(c, IF erased /\ met[c] THEN "came_first" ELSE "set")
  /\ UNCHANGED <<shared, key, prev, met, notify, action, verdict>>

(* Mutant: the first writer passes None, as the comment warns. *)
CasToSendNone(c) == seen[c].cas

(* The CAS a context writes with: 1, which no entry has, to be the first   *)
(* writer of a key it found absent; otherwise the CAS it read.             *)
CasToSend(c) == IF seen[c].cas = NoEntry THEN 1 ELSE seen[c].cas

SetAccepted(c) == Accepts(lock[key[c]].cas, CasToSend(c))

(* Mutant: after a mismatch the loop writes again without reading. *)
AcquireNoReread(c) ==
  /\ pc[c] = "set" /\ ~seen[c].held
  /\ \/ /\ SetAccepted(c)
        /\ lock' = [lock EXCEPT ![key[c]] =
                      [held |-> TRUE, waiters |-> <<>>, cas |-> NextCas(@.cas)]]
        /\ Goto(c, "dispatch")
     \/ ~SetAccepted(c) /\ UNCHANGED <<lock, pc>>
  /\ UNCHANGED <<mapped, app, mq, waiting, local, verdict>>

Acquire(c) ==
  /\ pc[c] = "set" /\ ~seen[c].held
  /\ \/ /\ SetAccepted(c)
        /\ lock' = [lock EXCEPT ![key[c]] =
                      [held |-> TRUE, waiters |-> <<>>, cas |-> NextCas(@.cas)]]
        /\ Goto(c, "dispatch")
     \/ ~SetAccepted(c) /\ Goto(c, "get") /\ UNCHANGED lock
  /\ UNCHANGED <<mapped, app, mq, waiting, local, verdict>>

(* Mutant: the waiter is stored by its queue only. *)
PushQueue(c) ==
  lock' = [lock EXCEPT ![key[c]] = [held |-> TRUE,
             waiters |-> Append(seen[c].waiters, ThreadOf[c]),
             cas |-> NextCas(@.cas)]]

PushWaiter(c) ==
  lock' = [lock EXCEPT ![key[c]] = [held |-> TRUE,
             waiters |-> Append(seen[c].waiters, c), cas |-> NextCas(@.cas)]]

(* Mutant: the list is written back whatever was stored meanwhile. *)
JoinUnconditionally(c) ==
  /\ pc[c] = "set" /\ seen[c].held
  /\ PushWaiter(c)
  /\ Goto(c, "register")
  /\ UNCHANGED <<mapped, app, mq, waiting, local, verdict>>

(* The first half of joining: the entry of the lock, for its owner to read *)
(* and to send messages by.                                                *)
JoinWaitlist(c) ==
  /\ pc[c] = "set" /\ seen[c].held
  /\ \/ /\ SetAccepted(c)
        /\ PushWaiter(c)
        /\ Goto(c, "register")
        /\ UNCHANGED met
     \/ /\ ~SetAccepted(c)
        /\ met' = [met EXCEPT ![c] = TRUE]
        /\ Goto(c, "get")
        /\ UNCHANGED lock
  /\ UNCHANGED <<mapped, app, mq, waiting, key, prev, seen, notify, action,
                 verdict>>

(* Mutant: the context is not kept. *)
KeepNothing(c) == UNCHANGED waiting

KeepContext(c) == waiting' = waiting \cup {c}

(* The second half: the context, for its own thread to find.  The owner    *)
(* may have sent the message by now.                                       *)
Register(c) ==
  /\ pc[c] = "register"
  /\ KeepContext(c)
  /\ Goto(c, "waiting")
  /\ UNCHANGED <<lock, mapped, app, mq, local, verdict>>

-----------------------------------------------------------------------------
(* do_auth_call and on_http_call_response *)

Dispatch(c) ==
  /\ pc[c] = "dispatch"
  /\ \/ Goto(c, "callout") /\ UNCHANGED verdict
     \/ Settle(c, FailureVerdict)
  /\ UNCHANGED <<shared, local>>

(* Mutant: the key is saved after the response has changed it. *)
SaveNewKey(c) == prev' = [prev EXCEPT ![c] = key'[c]]

SaveKey(c) == prev' = [prev EXCEPT ![c] = key[c]]

(* An authorization status that is authorized, or carries usage reports:   *)
(* the user_key is mapped and the context goes on under the app key.       *)
ResponseStatus(c) ==
  /\ pc[c] = "callout" /\ Idle(ThreadOf[c])
  /\ \/ /\ key[c] \in UserKeys
        /\ mapped' = [mapped EXCEPT ![key[c]] = TRUE]
        /\ key' = [key EXCEPT ![c] = AppKeyOf[key[c]]]
     \/ key[c] \in AppKeys /\ UNCHANGED <<mapped, key>>
  /\ SaveKey(c)
  /\ Goto(c, "fresh")
  /\ UNCHANGED <<lock, app, mq, waiting, seen, met, notify, action, verdict>>

(* The rest of handle_auth_response: the application is stored by          *)
(* handle_cache_hit only if it is not rate-limited already.                *)
FreshApp(c) ==
  /\ pc[c] = "fresh"
  /\ \/ /\ app' = [app EXCEPT ![key[c]] = "cached"]
        /\ action' = [action EXCEPT ![c] = "HandleCacheHit"]
        /\ verdict' = [verdict EXCEPT ![c] = "passed"]
        /\ Goto(c, "free")
     \/ /\ action' = [action EXCEPT ![c] = "HandleCacheHit"]
        /\ verdict' = [verdict EXCEPT ![c] = "limited"]
        /\ Goto(c, "free")
        /\ UNCHANGED app
     \/ /\ verdict' = [verdict EXCEPT ![c] = FailureVerdict]
        /\ Goto(c, "free")
        /\ UNCHANGED <<app, action>>
     \/ /\ Goto(c, "trapped")
        /\ UNCHANGED <<app, action, verdict>>
  /\ UNCHANGED <<lock, mapped, mq, waiting, key, prev, seen, met, notify>>

(* The application is refused (403), or there is no usable response: a     *)
(* timeout, an empty body, one that does not parse or misses its app keys. *)
ResponseRefused(c) ==
  /\ pc[c] = "callout" /\ Idle(ThreadOf[c])
  /\ SaveKey(c)
  /\ \E v \in {"denied", FailureVerdict} : verdict' = [verdict EXCEPT ![c] = v]
  /\ Goto(c, "free")
  /\ UNCHANGED <<shared, key, seen, met, notify, action>>

(* Authorization::Error (an unknown application, a bad token): the request *)
(* is answered and the callback returns without freeing the lock.          *)
ResponseError(c) ==
  /\ pc[c] = "callout" /\ Idle(ThreadOf[c])
  /\ SaveKey(c)
  /\ Settle(c, FailureVerdict)
  /\ UNCHANGED <<shared, key, seen, met, notify, action>>

(* A call that failed in the host is answered without headers, and :status *)
(* is unwrapped; so are a body that is not UTF-8 and a refusal without a   *)
(* reason.  The VM is trapped while it owns the lock.                      *)
ResponsePanics(c) ==
  /\ pc[c] = "callout" /\ Idle(ThreadOf[c])
  /\ SaveKey(c)
  /\ Goto(c, "trapped")
  /\ UNCHANGED <<shared, key, seen, met, notify, action, verdict>>

-----------------------------------------------------------------------------
(* free_callout_lock_and_notify_waiters: a read, one message per waiter,   *)
(* and a write that erases whatever is stored by then                      *)

FreeGet(c) ==
  /\ pc[c] = "free"
  /\ \/ /\ lock[prev[c]].held
        /\ notify' = [notify EXCEPT ![c] = lock[prev[c]].waiters]
        /\ Goto(c, "notify")
     \/ ~lock[prev[c]].held /\ Goto(c, "done") /\ UNCHANGED notify
  /\ UNCHANGED <<shared, key, prev, seen, met, action, verdict>>

NotifyOne(c) ==
  /\ pc[c] = "notify" /\ notify[c] # <<>>
  /\ LET w == Head(notify[c])
     IN  mq' = [mq EXCEPT ![ThreadOf[w]] =
                  Append(@, [kind |-> action[c], ctx |-> w])]
  /\ notify' = [notify EXCEPT ![c] = Tail(@)]
  /\ UNCHANGED <<lock, mapped, app, waiting, pc, key, prev, seen, met, action,
                 verdict>>

EraseLock(c) ==
  /\ pc[c] = "notify" /\ notify[c] = <<>>
  /\ lock' = [lock EXCEPT ![prev[c]] =
                [held |-> FALSE, waiters |-> <<>>, cas |-> NextCas(@.cas)]]
  /\ Goto(c, "done")
  /\ UNCHANGED <<mapped, app, mq, waiting, local, verdict>>

-----------------------------------------------------------------------------
(* CacheFilterRoot::on_queue_ready *)

(* The application key of a waiter, whose own key may still be a user_key. *)
AppKeyFor(c) == IF key[c] \in UserKeys THEN AppKeyOf[key[c]] ELSE key[c]

(* HandleCacheHit on a live waiter: it is resumed if its application is    *)
(* found; if the mapping or the application is missing the code warns,     *)
(* forgets the context and neither resumes nor answers it.                 *)
ResumeOnHit(c) ==
  \/ /\ key[c] \in UserKeys /\ ~mapped[key[c]]
     /\ Goto(c, "stranded")
     /\ UNCHANGED <<key, verdict>>
  \/ /\ key[c] \in UserKeys => mapped[key[c]]
     /\ key' = [key EXCEPT ![c] = AppKeyFor(c)]
     /\ \/ app[AppKeyFor(c)] = "cached" /\ Hit(c)
        \/ /\ app[AppKeyFor(c)] # "cached"
           /\ Goto(c, "stranded")
           /\ UNCHANGED verdict

(* A message names a context this thread does not keep: the code calls it  *)
(* an unrecoverable error.  set_effective_context fails for a context that *)
(* is gone.                                                                *)
OnQueueReady(t) ==
  /\ Idle(t) /\ mq[t] # <<>>
  /\ mq' = [mq EXCEPT ![t] = Tail(@)]
  /\ LET m == Head(mq[t])
     IN  /\ waiting' = waiting \ {m.ctx}
         /\ \/ /\ m.ctx \notin waiting \/ pc[m.ctx] = "gone"
               /\ UNCHANGED <<pc, key, verdict>>
            \/ /\ m.ctx \in waiting /\ pc[m.ctx] # "gone"
               /\ m.kind = "HandleFailure"
               /\ Settle(m.ctx, FailureVerdict)
               /\ UNCHANGED key
            \/ /\ m.ctx \in waiting /\ pc[m.ctx] # "gone"
               /\ m.kind = "HandleCacheHit"
               /\ ResumeOnHit(m.ctx)
  /\ UNCHANGED <<lock, mapped, app, prev, seen, met, notify, action>>

-----------------------------------------------------------------------------
(* The environment *)

(* The client of a waiting request goes away.  The filter has no handler   *)
(* for it: the context stays in WAITING_CONTEXTS.                          *)
Disconnect(c) ==
  /\ pc[c] = "waiting"
  /\ Goto(c, "gone")
  /\ UNCHANGED <<shared, local, verdict>>

(* The singleton's refresh removes an application it was told of, or       *)
(* stores it again.                                                        *)
SingletonWrites(a) ==
  /\ \/ app[a] = "cached" /\ app' = [app EXCEPT ![a] = "erased"]
     \/ app[a] = "erased" /\ app' = [app EXCEPT ![a] = "cached"]
  /\ UNCHANGED <<lock, mapped, mq, waiting, pc, local, verdict>>

-----------------------------------------------------------------------------
CallbackStep(c) ==
  \/ Lookup(c) \/ CameFirst(c)
  \/ LockGet(c) \/ Acquire(c) \/ JoinWaitlist(c) \/ Register(c)
  \/ Dispatch(c) \/ FreshApp(c)
  \/ FreeGet(c) \/ NotifyOne(c) \/ EraseLock(c)

Response(c) ==
  \/ ResponseStatus(c) \/ ResponseRefused(c) \/ ResponseError(c)
  \/ ResponsePanics(c)

Next ==
  \/ \E c \in Contexts :
       OnRequest(c) \/ CallbackStep(c) \/ Response(c) \/ Disconnect(c)
  \/ \E t \in Threads : OnQueueReady(t)
  \/ \E a \in AppKeys : SingletonWrites(a)

(* A callback runs to its end; the host delivers a response to every call, *)
(* if only the 504 of the call's timeout, and calls on_queue_ready for     *)
(* every message.  These two wait for their thread to be idle, which it is *)
(* again and again, and its event loop starves none of them: hence strong  *)
(* fairness.  Requests, disconnections and the singleton are under no      *)
(* obligation.                                                             *)
Fairness ==
  /\ \A c \in Contexts : WF_vars(CallbackStep(c)) /\ SF_vars(Response(c))
  /\ \A t \in Threads : SF_vars(OnQueueReady(t))

Spec == Init /\ [][Next]_vars /\ Fairness

-----------------------------------------------------------------------------
(* Properties *)

(* Every variable keeps its type. *)
TypeOK ==
  /\ lock \in [Keys -> LockEntry]
  /\ mapped \in [UserKeys -> BOOLEAN]
  /\ app \in [AppKeys -> {"absent", "cached", "erased"}]
  /\ mq \in [Threads -> Seq(Message)]
  /\ waiting \subseteq Contexts
  /\ pc \in [Contexts -> PCs]
  /\ key \in [Contexts -> Keys]
  /\ prev \in [Contexts -> Keys]
  /\ seen \in [Contexts -> LockEntry]
  /\ met \in [Contexts -> BOOLEAN]
  /\ notify \in [Contexts -> Seq(Contexts)]
  /\ action \in [Contexts -> Actions]
  /\ verdict \in [Contexts -> Verdicts]

(* What the feature is for: per cache key at most one request calls        *)
(* 3scale, whatever the interleaving of the reads and writes in            *)
(* set_callout_lock.                                                       *)
MutualExclusion ==
  \A c, d \in Contexts :
    pc[c] \in Owning /\ pc[d] \in Owning /\ LockKeyOf(c) = LockKeyOf(d) => c = d

(* A request that owns a lock finds it held under the key it took it with: *)
(* the warning `trying to free non-existing callout-lock' ("not supposed   *)
(* to happen", unique_callout.rs:327-329) is never reached, also when the  *)
(* response turned the request's user_key into an app_id.                  *)
OwnerHoldsLock ==
  \A c \in Contexts : pc[c] \in Owning => lock[LockKeyOf(c)].held

(* A message goes to the thread of its context, and whenever that thread   *)
(* can take it from its queue the context is in WAITING_CONTEXTS: no       *)
(* waiter is woken twice, and none is looked for in the window between its *)
(* entry in the waitlist and its own insertion (root.rs:133-141 calls the  *)
(* contrary an unrecoverable error).                                       *)
NoUnknownContext ==
  \A t \in Threads : \A i \in 1 .. Len(mq[t]) :
    /\ ThreadOf[mq[t][i].ctx] = t
    /\ Idle(t) => mq[t][i].ctx \in waiting

Settled(c) == pc[c] \in {"done", "gone"}

Listed(c) ==
  \/ \E k \in Keys : lock[k].held /\ \E i \in 1 .. Len(lock[k].waiters) :
       lock[k].waiters[i] = c
  \/ \E d \in Contexts : \E i \in 1 .. Len(notify[d]) : notify[d][i] = c
  \/ \E t \in Threads : \E i \in 1 .. Len(mq[t]) : mq[t][i].ctx = c

(* A waiter nothing refers to any more. *)
Forgotten(c) == pc[c] \in {"register", "waiting"} /\ ~Listed(c)

(* An owner's last step erases the entry whose waitlist names the context. *)
Erases(d, c) ==
  /\ pc[d] = "notify" /\ pc'[d] = "done"
  /\ \E i \in 1 .. Len(lock[prev[d]].waiters) : lock[prev[d]].waiters[i] = c

(* A waiter is lost in one way only, by the erasing write of an owner: no  *)
(* concurrent write of the waitlist, of the lock, no notification and no   *)
(* wake-up of another waiter drops it.  This is what the CAS of the        *)
(* waitlist's write (unique_callout.rs:201-205) is for.                    *)
WaitersAreKept ==
  [][\A c \in Contexts : Forgotten(c)' =>
       Forgotten(c) \/ \E d \in Contexts : Erases(d, c)]_vars

(* A lock nobody will free: its owner has left it, or its VM is trapped.   *)
Orphaned(k) == lock[k].held /\ \A d \in Owners(k) : Trapped(ThreadOf[d])

(* Every request that arrived is answered or passed on, except for exactly *)
(* four ways to hang: its lock was left held, its entry in the waitlist    *)
(* was erased, it was woken for an application that is not cached, or its  *)
(* own VM is trapped.  The trap of another VM reaches it only by a lock.   *)
EveryRequestSettles ==
  \A c \in Contexts :
    pc[c] # "new" ~> \/ Settled(c) \/ pc[c] = "stranded" \/ Forgotten(c)
                     \/ Orphaned(key[c]) \/ Trapped(ThreadOf[c])

-----------------------------------------------------------------------------
(* The abstract lock, and how the filters implement it *)

Called(c) == \E t \in Threads : \E i \in 1 .. Len(mq[t]) : mq[t][i].ctx = c

(* What the message that waits for a context tells it. *)
ToldHit(c) ==
  \E t \in Threads : \E i \in 1 .. Len(mq[t]) :
    mq[t][i] = [kind |-> "HandleCacheHit", ctx |-> c]

(* The part of a context in the protocol.  The client of a waiter may be   *)
(* gone; it leaves the protocol when its message comes.                    *)
Phase(c) ==
  CASE pc[c] \in {"dispatch", "callout", "fresh"} -> "owner"
    [] pc[c] \in {"free", "notify"} -> "answered"
    [] \/ pc[c] = "register"
       \/ pc[c] \in {"waiting", "gone"} /\ c \in waiting ->
         IF Called(c) THEN "called" ELSE "waiting"
    [] \/ pc[c] \in {"done", "stranded", "trapped"}
       \/ pc[c] = "gone" /\ c \notin waiting -> "left"
    [] OTHER -> "out"

HeldKeys == {k \in Keys : lock[k].held}

UnderKey(c) == IF Phase(c) \in {"out", "left"} THEN "none" ELSE LockKeyOf(c)

Outcome(c) ==
  CASE Phase(c) = "answered" -> action[c]
    [] Phase(c) = "called" -> IF ToldHit(c) THEN "HandleCacheHit" ELSE "HandleFailure"
    [] OTHER -> "none"

Lock == INSTANCE CalloutLock WITH
  Outcomes <- Actions,
  taken    <- HeldKeys,
  phase    <- [c \in Contexts |-> Phase(c)],
  under    <- [c \in Contexts |-> UnderKey(c)],
  outcome  <- [c \in Contexts |-> Outcome(c)]

(* The shared entries, the CAS loop and the queues implement the abstract  *)
(* lock: what a request takes, waits for, is told and by whom.             *)
ImplementsLock == Lock!Spec

-----------------------------------------------------------------------------
(* What the code's comments say and the code does not do *)

(* "Depending on how response is handled here, waiters should resume       *)
(* accordingly" (http.rs:502): the callback that handles a response ends   *)
(* with the lock freed.                                                    *)
AnsweredLockIsFreed ==
  [][\A c \in Contexts :
       pc[c] \in {"callout", "notify"} /\ pc'[c] = "done"
         => ~lock'[LockKeyOf(c)].held]_vars

(* The waitlist is the "list of contexts that are waiting for lock to be   *)
(* freed" (unique_callout.rs:49): a context that waits is in the list of a *)
(* held lock, or about to be notified, or has its message.                 *)
NoForgottenWaiter == \A c \in Contexts : ~Forgotten(c)

(* A waiter woken by HandleCacheHit is to "follow the cache hit path"      *)
(* (unique_callout.rs:56): it never ends up neither resumed nor answered.  *)
NoStrandedWaiter == \A c \in Contexts : pc[c] # "stranded"

=============================================================================
