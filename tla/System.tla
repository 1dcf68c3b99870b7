------------------------------- MODULE System -------------------------------
(***************************************************************************)
(* The cache filter, the singleton, the network and the counters of        *)
(* 3scale together: where a unit of usage is between the request that is   *)
(* let through and the counter it must reach, and what the cache knows     *)
(* about that counter.                                                     *)
(*                                                                         *)
(* A cache hit is one step here (module AppCache takes it apart), and so   *)
(* is a callback of the singleton (module Singleton).  What is new is the  *)
(* other end: 3scale serves a call some time after it was sent, in any     *)
(* order, and its answer arrives, or is lost, or comes too late, some time *)
(* after that.                                                             *)
(*                                                                         *)
(* One service with one metric, limited for a period that does not end;    *)
(* each request declares one hit.  failure_mode_deny is set: a request     *)
(* that cannot be authorized is refused.                                   *)
(***************************************************************************)
EXTENDS Integers, Sequences, Sums

CONSTANTS
  Apps,         \* applications of the service
  Tokens,       \* service tokens
  Retiring,     \* those that 3scale may revoke
  Limit,        \* max_value of the limit
  Word,         \* 2^64 in the code: usage is unsigned
  Builds,       \* TRUE: a build with overflow checks; FALSE: without
  Capacity,     \* entries of the delta store that make it full
  Slots,        \* bound: calls under way at a time
  MaxRequests,  \* bound: requests
  MaxFaults     \* bound: failed calls, lost messages, races, revocations

ASSUME NumbersAssumption ==
  /\ Limit \in Nat /\ Word \in Nat /\ Limit < Word
  /\ Capacity \in Nat /\ MaxRequests \in Nat /\ MaxFaults \in Nat
ASSUME BuildsAssumption == Builds \subseteq BOOLEAN /\ Builds # {}
ASSUME RetiringAssumption == Retiring \subseteq Tokens
ASSUME NonEmptyAssumption == Apps # {} /\ Tokens # {}
ASSUME FiniteAssumption == IsFiniteSet(Tokens) /\ IsFiniteSet(Slots)

VARIABLES
  cached,      \* shared: the applications that are in the cache
  left,        \* shared: their left_hits
  queue,       \* shared: message_queue
  cache_keys,  \* singleton: the applications it refreshes
  tokenOf,     \* singleton: the token cache_keys maps them to
  deltas,      \* singleton: the delta store, token -> app -> usage
  crashed,     \* singleton: its VM has trapped
  calls,       \* network: slot -> the call that is under way
  valid,       \* 3scale: the tokens it takes
  counted,     \* 3scale: app -> current_value
  passed,      \* ghost: app -> requests let through
  lost,        \* ghost: app -> usage that never reaches 3scale
  arrived,     \* requests so far
  faults       \* faults so far

cache == <<cached, left>>
singleton == <<cache_keys, tokenOf, deltas>>
threescale == <<valid, counted>>
vars == <<cache, queue, singleton, crashed, calls, threescale, passed, lost,
          arrived, faults>>

Nothing == [a \in Apps |-> 0]

(* A call: a filter's or the singleton's authorize, or a report; and how   *)
(* far it is.  A report whose caller has given it up is abandoned: it may  *)
(* still be served.                                                        *)
Kinds  == {"none", "fetch", "auth", "report"}
Stages == {"sent", "accepted", "refused", "abandoned"}

NoCall == [kind |-> "none", tok |-> CHOOSE t \in Tokens : TRUE,
           app |-> CHOOSE a \in Apps : TRUE, usage |-> Nothing,
           at |-> "sent", left |-> 0]

Authorize(kind, a, t) == [NoCall EXCEPT !.kind = kind, !.app = a, !.tok = t]
ReportCall(t, usage)  == [NoCall EXCEPT !.kind = "report", !.tok = t, !.usage = usage]

Free == {s \in Slots : calls[s] = NoCall}

(* There is room for the calls of the set cs, and the calls with those     *)
(* added, each in a slot of its own.                                       *)
Fit(cs) == ExistsInjection(cs, Free)
With(cs) ==
  LET place == CHOOSE p \in Injection(cs, Free) : TRUE
  IN  [s \in Slots |-> IF \E c \in cs : place[c] = s
                         THEN CHOOSE c \in cs : place[c] = s
                         ELSE calls[s]]

Init ==
  /\ cached = {} /\ left = Nothing
  /\ queue = <<>> /\ crashed = FALSE
  /\ cache_keys = {} /\ tokenOf = [a \in Apps |-> NoCall.tok]
  /\ deltas = [t \in Tokens |-> Nothing]
  /\ calls = [s \in Slots |-> NoCall]
  /\ valid = Tokens /\ counted = Nothing
  /\ passed = Nothing /\ lost = Nothing
  /\ arrived = 0 /\ faults = 0

Fault == faults < MaxFaults /\ faults' = faults + 1

-----------------------------------------------------------------------------
(* The filters *)

(* Mutant: a request that cannot be reported is refused, after its charge. *)
PassOrRefuse(a, t) ==
  \/ /\ passed' = [passed EXCEPT ![a] = @ + 1]
     /\ queue' = Append(queue, [app |-> a, tok |-> t]) /\ UNCHANGED <<lost, faults>>
  \/ Fault /\ UNCHANGED <<passed, queue, lost>>

(* The request passes and its usage is on the way to the singleton, or is  *)
(* lost: the message is not enqueued, and nobody looks at the result.      *)
PassAndReport(a, t) ==
  /\ passed' = [passed EXCEPT ![a] = @ + 1]
  /\ \/ queue' = Append(queue, [app |-> a, tok |-> t]) /\ UNCHANGED <<lost, faults>>
     \/ Fault /\ lost' = [lost EXCEPT ![a] = @ + 1] /\ UNCHANGED queue

(* Mutant: the last hit is overdrawn. *)
ChargeOverdrawn(a, t, n) ==
  \/ /\ cached' = cached \cup {a}
     /\ left' = [left EXCEPT ![a] = n - 1]
     /\ PassAndReport(a, t)
  \/ n < 0 /\ UNCHANGED <<cache, queue, passed, lost, faults>>

(* handle_cache_hit with n hits left: charged, stored and reported, or     *)
(* rate-limited and not stored.                                            *)
Charge(a, t, n) ==
  \/ /\ n >= 1
     /\ cached' = cached \cup {a}
     /\ left' = [left EXCEPT ![a] = n - 1]
     /\ PassAndReport(a, t)
  \/ n < 1 /\ UNCHANGED <<cache, queue, passed, lost, faults>>

Arrives(a) == arrived < MaxRequests /\ arrived' = arrived + 1

Hit(a, t) ==
  /\ Arrives(a) /\ a \in cached
  /\ Charge(a, t, left[a])
  /\ UNCHANGED <<singleton, crashed, calls, threescale>>

(* All tries are lost to other writers: passed, not charged, not reported. *)
GiveUp(a) ==
  /\ Arrives(a) /\ a \in cached /\ Fault
  /\ passed' = [passed EXCEPT ![a] = @ + 1]
  /\ lost' = [lost EXCEPT ![a] = @ + 1]
  /\ UNCHANGED <<cache, queue, singleton, crashed, calls, threescale>>

(* do_auth_call: the call, or a failure to dispatch it.                    *)
Miss(a, t) ==
  /\ Arrives(a) /\ a \notin cached
  /\ \/ Fit({Authorize("fetch", a, t)}) /\ calls' = With({Authorize("fetch", a, t)})
        /\ UNCHANGED faults
     \/ Fault /\ UNCHANGED calls
  /\ UNCHANGED <<cache, queue, singleton, crashed, threescale, passed, lost>>

-----------------------------------------------------------------------------
(* The singleton *)

Entries(d) == {e \in Tokens \X Apps : d[e[1]][e[2]] > 0}
Full(d)    == Cardinality(Entries(d)) >= Capacity

(* The calls of a flush, and the usage that calls carry.                   *)
Reports(d)       == {ReportCall(t, d[t]) : t \in {u \in Tokens : d[u] # Nothing}}
Auths(keys, tok) == {Authorize("auth", a, tok[a]) : a \in keys}
UsageOf(cs, a)   == Total([c \in cs |-> c.usage[a]], cs)

(* Mutant: the delta store is not emptied. *)
FlushKeepsDeltas(d, keys, tok) ==
  LET all == Reports(d) \cup Auths(keys, tok)
  IN  /\ Fit(all) /\ calls' = With(all)
      /\ deltas' = d
      /\ UNCHANGED <<lost, faults>>

(* flush_local_cache: at once a report for each token that has usage and   *)
(* an authorize call for each known application.  Each may fail to         *)
(* dispatch; the usage of a report that does is gone.                      *)
Flush(d, keys, tok) ==
  LET all == Reports(d) \cup Auths(keys, tok)
  IN  /\ Fit(all)
      /\ \E failed \in SUBSET all :
           /\ faults + Cardinality(failed) <= MaxFaults
           /\ faults' = faults + Cardinality(failed)
           /\ calls' = With(all \ failed)
           /\ lost' = [a \in Apps |-> lost[a] + UsageOf(failed, a)]
      /\ deltas' = [t \in Tokens |-> Nothing]

(* The token of an application is that of its first message (or_insert).   *)
OnQueueReady ==
  /\ ~crashed /\ queue # <<>>
  /\ LET m    == Head(queue)
         keys == cache_keys \cup {m.app}
         tok  == [tokenOf EXCEPT ![m.app] = IF m.app \in cache_keys THEN @ ELSE m.tok]
         d    == [deltas EXCEPT ![m.tok][m.app] = @ + 1]
     IN  /\ cache_keys' = keys /\ tokenOf' = tok
         /\ \/ Full(d) /\ Flush(d, keys, tok)
            \/ ~Full(d) /\ deltas' = d /\ UNCHANGED <<calls, lost, faults>>
  /\ queue' = Tail(queue)
  /\ UNCHANGED <<cache, crashed, threescale, passed, arrived>>

OnTick ==
  /\ ~crashed
  /\ Flush(deltas, cache_keys, tokenOf)
  /\ UNCHANGED <<cache, queue, cache_keys, tokenOf, crashed, threescale, passed,
                 arrived>>

-----------------------------------------------------------------------------
(* The network and 3scale *)

Serving(s) == calls[s].kind # "none" /\ calls[s].at \in {"sent", "abandoned"}

Ended(s) == calls' = [calls EXCEPT ![s] = NoCall]

(* 3scale is done with the call: its answer is under way, unless nobody    *)
(* waits for it.                                                           *)
Served(s, stage) ==
  calls' = [calls EXCEPT ![s] = IF @.at = "abandoned" THEN NoCall ELSE [@ EXCEPT !.at = stage]]

(* A report with a valid token is added to the counters.                   *)
Count(s) ==
  /\ Serving(s) /\ calls[s].tok \in valid /\ calls[s].kind = "report"
  /\ counted' = [a \in Apps |-> counted[a] + calls[s].usage[a]]
  /\ Served(s, "accepted")
  /\ UNCHANGED <<cache, queue, singleton, crashed, valid, passed, lost, arrived,
                 faults>>

(* The answer to an authorize call has the limit and the counter.          *)
Accept(s) ==
  /\ Serving(s) /\ calls[s].tok \in valid /\ calls[s].kind # "report"
  /\ calls' = [calls EXCEPT ![s].at = "accepted",
                            ![s].left = Limit - counted[calls[s].app]]
  /\ UNCHANGED <<cache, queue, singleton, crashed, threescale, passed, lost,
                 arrived, faults>>

Drop(s) == lost' = [a \in Apps |-> lost[a] + calls[s].usage[a]]

(* A revoked token: what is reported with it is not counted, a filter      *)
(* refuses its request, and the singleton has an application to remove.    *)
Refuse(s) ==
  /\ Serving(s) /\ calls[s].tok \notin valid
  /\ \/ calls[s].kind = "fetch" /\ Ended(s)
     \/ calls[s].kind # "fetch" /\ Served(s, "refused")
  /\ Drop(s)
  /\ UNCHANGED <<cache, queue, singleton, crashed, threescale, passed, arrived,
                 faults>>

(* A call that was given up has never reached 3scale.                      *)
Vanish(s) ==
  /\ calls[s].at = "abandoned" /\ Drop(s)
  /\ Ended(s)
  /\ UNCHANGED <<cache, queue, singleton, crashed, threescale, passed, arrived,
                 faults>>

Revoke(t) ==
  /\ t \in valid /\ Fault
  /\ valid' = valid \ {t}
  /\ UNCHANGED <<cache, queue, singleton, crashed, calls, counted, passed, lost,
                 arrived>>

-----------------------------------------------------------------------------
(* on_http_call_response of the filter and of the singleton *)

(* max_value - current_value is an unsigned subtraction.  If it overflows, *)
(* a build with overflow checks panics and one without wraps.  With both   *)
(* in Builds each overflow may do either, which covers both builds.        *)
Panics(s)   == calls[s].left < 0 /\ TRUE \in Builds
Computed(s) == calls[s].left >= 0 \/ FALSE \in Builds
LeftHits(s) == calls[s].left % Word

(* A filter charges and stores the application it is answered, whatever is *)
(* in the cache by now; or it is trapped, and its request ends.            *)
Fetched(s) ==
  /\ calls[s].kind = "fetch" /\ calls[s].at = "accepted"
  /\ \/ Computed(s) /\ Charge(calls[s].app, calls[s].tok, LeftHits(s))
     \/ Panics(s) /\ UNCHANGED <<cache, queue, passed, lost, faults>>
  /\ Ended(s)
  /\ UNCHANGED <<singleton, crashed, threescale, arrived>>

(* Mutant: a refresh never raises what is left. *)
RefreshedLower(s) ==
  /\ ~crashed /\ calls[s].kind = "auth" /\ calls[s].at = "accepted"
  /\ \/ /\ Computed(s)
        /\ cached' = cached \cup {calls[s].app}
        /\ left' = [left EXCEPT ![calls[s].app] =
             IF calls[s].app \in cached /\ @ < LeftHits(s) THEN @ ELSE LeftHits(s)]
        /\ UNCHANGED crashed
     \/ Panics(s) /\ crashed' = TRUE /\ UNCHANGED cache
  /\ Ended(s)
  /\ UNCHANGED <<queue, singleton, threescale, passed, lost, arrived, faults>>

(* The singleton overwrites the application, or is trapped.                *)
Refreshed(s) ==
  /\ ~crashed /\ calls[s].kind = "auth" /\ calls[s].at = "accepted"
  /\ \/ /\ Computed(s)
        /\ cached' = cached \cup {calls[s].app}
        /\ left' = [left EXCEPT ![calls[s].app] = LeftHits(s)]
        /\ UNCHANGED crashed
     \/ Panics(s) /\ crashed' = TRUE /\ UNCHANGED cache
  /\ Ended(s)
  /\ UNCHANGED <<queue, singleton, threescale, passed, lost, arrived, faults>>

(* handle_auth_failure *)
Removed(s) ==
  /\ ~crashed /\ calls[s].kind = "auth" /\ calls[s].at = "refused"
  /\ cached' = cached \ {calls[s].app}
  /\ left' = [left EXCEPT ![calls[s].app] = 0]
  /\ cache_keys' = cache_keys \ {calls[s].app}
  /\ tokenOf' = [tokenOf EXCEPT ![calls[s].app] = NoCall.tok]
  /\ Ended(s)
  /\ UNCHANGED <<queue, deltas, crashed, threescale, passed, lost, arrived, faults>>

(* The answer to a report makes the singleton forget it, no more; and no   *)
(* answer does anything to a trapped singleton.                            *)
Ignored(s) ==
  /\ calls[s].at \in {"accepted", "refused"}
  /\ \/ calls[s].kind = "report"
     \/ calls[s].kind = "auth" /\ crashed
  /\ Ended(s)
  /\ UNCHANGED <<cache, queue, singleton, crashed, threescale, passed, lost,
                 arrived, faults>>

(* The caller gives the call up; a report that was not served may yet be.  *)
GivenUp(s) ==
  /\ calls[s].kind # "none" /\ calls[s].at # "abandoned" /\ Fault
  /\ calls' = [calls EXCEPT ![s] = IF @.kind = "report" /\ @.at = "sent"
                                     THEN [@ EXCEPT !.at = "abandoned"]
                                     ELSE NoCall]

(* Status 504, after five seconds: the caller forgets the call, whether or *)
(* not it was served.  An answer that cannot be used ends it as well; so   *)
(* does one that traps the filter which made the call.                     *)
Timeout(s) ==
  /\ GivenUp(s)
  /\ UNCHANGED <<cache, queue, singleton, crashed, threescale, passed, lost, arrived>>

(* The call failed in the host, which answers without headers, and the     *)
(* singleton's VM is trapped when it looks up :status (module Singleton).  *)
NoHeaders(s) ==
  /\ ~crashed /\ calls[s].kind \in {"auth", "report"}
  /\ GivenUp(s)
  /\ crashed' = TRUE
  /\ UNCHANGED <<cache, queue, singleton, threescale, passed, lost, arrived>>

Response(s) ==
  \/ Fetched(s) \/ Refreshed(s) \/ Removed(s) \/ Ignored(s)
  \/ Timeout(s) \/ NoHeaders(s)
Network(s)  == Count(s) \/ Accept(s) \/ Refuse(s) \/ Vanish(s)

Next ==
  \/ \E a \in Apps : \/ \E t \in Tokens : Hit(a, t) \/ Miss(a, t)
                     \/ GiveUp(a)
  \/ OnQueueReady \/ OnTick
  \/ \E s \in Slots : Network(s) \/ Response(s)
  \/ \E t \in Retiring : Revoke(t)

(* Until it traps, the singleton's callbacks are delivered; and every call *)
(* makes progress: it is served or given up, and is answered, or is found  *)
(* never to have arrived.                                                  *)
Fairness ==
  /\ WF_vars(OnQueueReady) /\ WF_vars(OnTick)
  /\ \A s \in Slots : WF_vars(Network(s) \/ Response(s))

Spec == Init /\ [][Next]_vars /\ Fairness

-----------------------------------------------------------------------------
(* Properties *)

(* Every variable keeps its type. *)
Usages == [Apps -> Nat]
Call   == [kind : Kinds, tok : Tokens, app : Apps, usage : Usages, at : Stages, left : Int]
TypeOK ==
  /\ crashed \in BOOLEAN
  /\ cached \subseteq Apps /\ left \in Usages
  /\ queue \in Seq([app : Apps, tok : Tokens])
  /\ cache_keys \subseteq Apps /\ tokenOf \in [Apps -> Tokens]
  /\ deltas \in [Tokens -> Usages]
  /\ calls \in [Slots -> Call]
  /\ valid \subseteq Tokens
  /\ {counted, passed, lost} \subseteq Usages
  /\ arrived \in 0 .. MaxRequests /\ faults \in 0 .. MaxFaults

Queued(a)   == Cardinality({i \in 1 .. Len(queue) : queue[i].app = a})
Stored(a)   == Total([t \in Tokens |-> deltas[t][a]], Tokens)

(* The usage that a call has while 3scale may yet serve it.                *)
Carried(s, a) == IF Serving(s) THEN calls[s].usage[a] ELSE 0
Underway(a)   == Total([s \in Slots |-> Carried(s, a)], Slots)

(* Every request that was let through is in exactly one place: a message,  *)
(* the delta store, a report that 3scale has not served, the counter, or   *)
(* among what is known to be lost.  In particular a report that times out  *)
(* and is served late is not counted twice.                                *)
LedgerBalances ==
  \A a \in Apps :
    passed[a] = Queued(a) + Stored(a) + Underway(a) + counted[a] + lost[a]

(* The cache never withholds quota: whatever overwrites and races happen,  *)
(* with n hits left at least Limit - n requests have been let through, so  *)
(* a request is rate-limited only when the limit is used up.               *)
QuotaNotLost ==
  \A a \in cached : left[a] + passed[a] >= Limit

(* No report is under way.  Unless the singleton is trapped, nothing waits *)
(* to be reported either, and the cache agrees with the counter about each *)
(* application that the singleton refreshes and that is within its limit.  *)
Reconciled ==
  \A a \in Apps :
    /\ Underway(a) = 0
    /\ ~crashed =>
         /\ Queued(a) = 0 /\ Stored(a) = 0
         /\ a \in cached \cap cache_keys /\ counted[a] <= Limit
              => left[a] = Limit - counted[a]

(* The authorize calls of a flush race with its report, an answer may      *)
(* overtake a newer one, calls fail, tokens are revoked; still, once the   *)
(* traffic ends, all usage is counted or known to be lost, and the cache   *)
(* comes to agree with 3scale and stays so.  A panic of the singleton is   *)
(* the one excuse, and then what had left it is served or lost all the     *)
(* same.                                                                   *)
CacheConverges == <>[]Reconciled
=============================================================================
