----------------------------- MODULE LimitCheck -----------------------------
(***************************************************************************)
(* How a request is checked against an application's limits and charged to *)
(* them: add_hierarchy_to_metrics and limit_check_and_update_application.  *)
(*                                                                         *)
(* Metrics and usage reports live in hash maps, whose iteration order is   *)
(* arbitrary: each step of a loop takes any metric not yet visited.  The   *)
(* check works on a local copy of the application, which is stored after   *)
(* the loop; the store itself is the subject of module AppCache.           *)
(*                                                                         *)
(* Time is in seconds.  A period's length is 0 for Eternity, which is      *)
(* never renewed.  u64 arithmetic on hits is modulo Word.  A period starts *)
(* before it ends and Durations do not come near their limit, so the       *)
(* DurationOverflow errors are not reached.                                *)
(***************************************************************************)
EXTENDS Integers, FiniteSets

CONSTANTS
  Metrics,         \* metric names
  Requests,        \* the usage a request may declare: metric -> hits
  Apps,            \* limits 3scale may send: metric -> usage
  Hierarchies,     \* parent metric -> its children
  Times,           \* the time of a request
  Word,            \* 2^64
  OverflowChecks   \* the build panics on overflow (debug) or wraps (release)

(* One entry of the usage reports in 3scale's authorization response.      *)
Usage == [start : Nat, end : Nat, window : Nat, max : Nat, current : Nat]

PartialFunction(f, S, T) == DOMAIN f \subseteq S /\ f \in [DOMAIN f -> T]

ASSUME RequestsAssumption == \A r \in Requests : PartialFunction(r, Metrics, Nat)
ASSUME AppsAssumption == \A a \in Apps : PartialFunction(a, Metrics, Usage)
ASSUME PeriodsAssumption ==
  \A a \in Apps : \A m \in DOMAIN a : a[m].start <= a[m].end
ASSUME TimesAssumption == Times \subseteq Nat
ASSUME WordAssumption == Word \in Nat \ {0}

Eternity == 0

(* UsageReport, as the filter keeps it. *)
Report == [start : Nat, end : Nat, window : Nat, left : Nat, max : Nat]

VARIABLES
  request,    \* the request's metrics, hierarchy included
  usage,      \* what 3scale reported
  hierarchy,
  now,        \* current_time
  local,      \* app.local_state, as it was read
  work,       \* app.local_state, as the loop changes it
  todo,       \* metrics the loop has still to visit
  info,       \* rate_limit_info
  phase

vars == <<request, usage, hierarchy, now, local, work, todo, info, phase>>

Phases == {"receive", "hierarchy", "check", "authorized", "limited", "panic"}

NoInfo == [limit |-> -1, remaining |-> -1, reset |-> -1]

Init ==
  /\ request \in Requests
  /\ usage \in Apps
  /\ hierarchy \in Hierarchies
  /\ now \in Times
  /\ local = [m \in {} |-> 0]
  /\ work = local
  /\ todo = {}
  /\ info = NoInfo
  /\ phase = "receive"

-----------------------------------------------------------------------------
(* handle_auth_response: left_hits = max_value - current_value *)

ToReport(u) ==
  [start |-> u.start, end |-> u.end, window |-> u.window,
   left |-> (u.max - u.current) % Word, max |-> u.max]

Receive ==
  /\ phase = "receive"
  /\ local' = [m \in DOMAIN usage |-> ToReport(usage[m])]
  /\ work' = local'
  /\ phase' = IF OverflowChecks /\ \E m \in DOMAIN usage :
                                      usage[m].current > usage[m].max
              THEN "panic" ELSE "hierarchy"
  /\ UNCHANGED <<request, usage, hierarchy, now, todo, info>>

-----------------------------------------------------------------------------
(* add_hierarchy_to_metrics: a requested metric that is some parent's      *)
(* child makes the code borrow the metrics mutably while its loop still    *)
(* holds them, and RefCell panics.                                         *)

HasParent(m) == \E p \in DOMAIN hierarchy : m \in hierarchy[p]

AddHierarchy ==
  /\ phase = "hierarchy"
  /\ IF \E m \in DOMAIN request : HasParent(m)
     THEN phase' = "panic" /\ UNCHANGED todo
     ELSE phase' = "check" /\ todo' = DOMAIN request
  /\ UNCHANGED <<request, usage, hierarchy, now, local, work, info>>

-----------------------------------------------------------------------------
(* limit_check_and_update_application *)

Expired(r) == r.window # Eternity /\ r.end < now

(* Mutants: windows counted from the end of the old one, or rounded up. *)
WindowsSinceEnd(r) == (now - r.end) \div r.window
WindowsRoundedUp(r) == (now - r.start) \div r.window + 1

NumWindows(r) == (now - r.start) \div r.window

(* Move an expired period forward by whole windows and renew its quota.    *)
Renewed(r) ==
  IF Expired(r)
  THEN LET seconds == NumWindows(r) * r.window
       IN  [r EXCEPT !.start = @ + seconds, !.end = @ + seconds, !.left = r.max]
  ELSE r

(* Mutants: the last hit of a quota is refused; the limit is not checked. *)
ExceedsOrMeets(r, hits) == r.left <= hits
ExceedsNever(r, hits) == r.left < 0

Exceeds(r, hits) == r.left < hits

(* Mutant: a renewed period is charged nothing. *)
ChargeUnlessFull(r, hits) ==
  IF r.left = r.max THEN r ELSE [r EXCEPT !.left = @ - hits]

Charge(r, hits) == [r EXCEPT !.left = @ - hits]

(* Mutant: the header shows the largest limit. *)
Looser(r) == info = NoInfo \/ r.max > info.limit

Tighter(r) == info = NoInfo \/ r.max < info.limit

InfoOf(r) == [limit |-> r.max, remaining |-> r.left, reset |-> r.end - now]

(* period.end.checked_sub(now).unwrap() *)
ResetPanics(r) == r.end < now

(* One round of the loop.  A metric without a report is not limited.       *)
CheckMetric(m) ==
  /\ phase = "check" /\ m \in todo
  /\ todo' = todo \ {m}
  /\ IF m \notin DOMAIN local THEN UNCHANGED <<work, info, phase>>
     ELSE LET r == Renewed(work[m])
              charged == Charge(r, request[m])
          IN  \/ /\ Exceeds(r, request[m])
                 /\ work' = [work EXCEPT ![m] = r]
                 /\ info' = [InfoOf(r) EXCEPT !.remaining = 0]
                 /\ phase' = IF ResetPanics(r) THEN "panic" ELSE "limited"
              \/ /\ ~Exceeds(r, request[m])
                 /\ work' = [work EXCEPT ![m] = charged]
                 /\ IF Tighter(r)
                    THEN /\ info' = InfoOf(charged)
                         /\ phase' = IF ResetPanics(r) THEN "panic" ELSE phase
                    ELSE UNCHANGED <<info, phase>>
  /\ UNCHANGED <<request, usage, hierarchy, now, local>>

Authorize ==
  /\ phase = "check" /\ todo = {}
  /\ phase' = "authorized"
  /\ UNCHANGED <<request, usage, hierarchy, now, local, work, todo, info>>

Next == Receive \/ AddHierarchy \/ (\E m \in Metrics : CheckMetric(m)) \/ Authorize

Spec == Init /\ [][Next]_vars

-----------------------------------------------------------------------------
(* Properties *)

(* Every variable keeps its type. *)
TypeOK ==
  /\ request \in Requests /\ usage \in Apps /\ now \in Times
  /\ hierarchy \in Hierarchies
  /\ PartialFunction(local, Metrics, Report)
  /\ work \in [DOMAIN local -> Report]
  /\ todo \subseteq DOMAIN request
  /\ phase \in Phases
  /\ info \in [limit : Int, remaining : Int, reset : Int]

(* The hits a metric has left for a request at this time. *)
Available(m) == IF Expired(local[m]) THEN local[m].max ELSE local[m].left

Limited == DOMAIN request \cap DOMAIN local

(* The verdict does not depend on the order of the metrics: a request is   *)
(* authorized exactly if each of its limited metrics has its hits left,    *)
(* counting a period that is over as renewed.                              *)
VerdictOrderFree ==
  /\ phase = "authorized" => \A m \in Limited : request[m] <= Available(m)
  /\ phase = "limited"    => \E m \in Limited : request[m] > Available(m)

(* What an authorized request stores has each of its metrics charged once  *)
(* and every other metric as it was, its period included.                  *)
ChargedExactly ==
  phase = "authorized" =>
    \A m \in DOMAIN local :
      IF m \in DOMAIN request THEN work[m].left + request[m] = Available(m)
                              ELSE work[m] = local[m]

(* The RateLimit headers of an authorized request belong to one of its     *)
(* metrics, one with the smallest limit, whichever came first.             *)
HeaderIsTightest ==
  phase = "authorized" =>
    IF Limited = {} THEN info = NoInfo
    ELSE \E m \in Limited : /\ info = InfoOf(work[m])
                            /\ \A n \in Limited : work[m].max <= work[n].max

(* The length of the period is at least the length its name stands for.    *)
FullWindow(r) == r.end >= r.start + r.window

(* A period of full length is renewed to one that contains the time of the *)
(* request, however many periods have gone by.                             *)
WindowCoversNow ==
  phase = "authorized" =>
    \A m \in Limited : FullWindow(local[m]) /\ local[m].start <= now
                         => work[m].start <= now /\ (local[m].window # Eternity
                                                       => now <= work[m].end)

(* The filter panics only for a usage that overshoots its limit (debug), a *)
(* metric with a parent, or a period that is over although not renewable.  *)
PanicsExplained ==
  phase = "panic" =>
    \/ OverflowChecks /\ \E m \in DOMAIN usage : usage[m].current > usage[m].max
    \/ \E m \in DOMAIN request : HasParent(m)
    \/ \E m \in Limited : /\ local[m].end < now
                          /\ local[m].window = Eternity \/ ~FullWindow(local[m])

-----------------------------------------------------------------------------
(* What comments say and the code does not do *)

(* "Current time is between period window since it's already adjusted"     *)
(* (utils.rs:62), where the reset time is computed and unwrapped.          *)
WindowAdjusted ==
  \A m \in Limited \ todo :
    phase \in {"check", "panic"} /\ local[m].window # Eternity
      => ~(work[m].end < now)

(* The hierarchy is used "to determine how the metrics, m, are affected,   *)
(* incrementing parent metrics based on the value of the parents           *)
(* child/children metrics" (utils.rs:89-91).                               *)
ParentsCounted ==
  phase \notin {"receive", "hierarchy"} =>
    \A m \in DOMAIN request : \A p \in DOMAIN hierarchy :
      m \in hierarchy[p] => p \in DOMAIN request

(* The application is updated "to reflect consumed quota if not            *)
(* rate-limited" (utils.rs:17): a request is not passed in a period whose  *)
(* consumed quota 3scale reports to be above the limit.                    *)
ExhaustedIsLimited ==
  phase = "authorized" =>
    \A m \in Limited : ~Expired(local[m]) /\ request[m] > 0
                         => usage[m].current < usage[m].max
=============================================================================
