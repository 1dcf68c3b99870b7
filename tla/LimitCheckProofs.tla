-------------------------- MODULE LimitCheckProofs --------------------------
(***************************************************************************)
(* Proofs about LimitCheck, for any metrics, limits, requests and times:   *)
(* its type invariant, that the verdict and the charges do not depend on   *)
(* the order in which the metrics are visited, and that a renewed period   *)
(* contains the time of the request.                                       *)
(***************************************************************************)
EXTENDS LimitCheck, TLAPS

USE RequestsAssumption, AppsAssumption, PeriodsAssumption, TimesAssumption,
    WordAssumption

(* Rounding a down to a multiple of w loses less than w.                   *)
LEMMA RoundDown ==
  ASSUME NEW a \in Nat, NEW w \in Nat \ {0}
  PROVE  /\ (a \div w) * w \in Nat
         /\ (a \div w) * w <= a
         /\ a < (a \div w) * w + w
<1> DEFINE q == a \div w
<1>1. q \in Int /\ a = w * q + (a % w) /\ 0 <= a % w /\ a % w < w
  OBVIOUS
<1> HIDE DEF q
<1>2. q \in Nat
  BY <1>1 DEF q
<1>3. q * w \in Nat /\ q * w = w * q
  BY <1>2
<1> QED
  BY <1>1, <1>3 DEF q

(* Hits left, modulo the word, are a natural number.                       *)
LEMMA ModIsNat == ASSUME NEW a \in Int PROVE a % Word \in Nat
OBVIOUS

(* A period that starts before it ends. *)
Proper(r) == r \in Report /\ r.start <= r.end

(* Renewing a report moves an expired period to one that has begun, not    *)
(* later than now, and gives it its full quota; it is over only if it was  *)
(* shorter than its name says.                                             *)
LEMMA RenewedPeriod ==
  ASSUME NEW r, Proper(r), now \in Nat
  PROVE  /\ Proper(Renewed(r))
         /\ Renewed(r).max = r.max
         /\ Renewed(r).left = IF Expired(r) THEN r.max ELSE r.left
         /\ Renewed(r).window = r.window
         /\ r.start <= now => Renewed(r).start <= now
         /\ FullWindow(r) /\ r.window # Eternity => now <= Renewed(r).end
<1>0. /\ r.start \in Nat /\ r.end \in Nat /\ r.window \in Nat
      /\ r.left \in Nat /\ r.max \in Nat /\ r.start <= r.end
      /\ r = [start |-> r.start, end |-> r.end, window |-> r.window,
              left |-> r.left, max |-> r.max]
  BY DEF Proper, Report
<1>1. CASE ~Expired(r)
  BY <1>0, <1>1 DEF Renewed, Expired, Proper
<1>2. CASE Expired(r)
  <2> DEFINE s == NumWindows(r) * r.window
  <2>1. r.window \in Nat \ {0} /\ now - r.start \in Nat
    BY <1>0, <1>2 DEF Expired, Eternity
  <2>2. s \in Nat /\ s <= now - r.start /\ now - r.start < s + r.window
    BY <2>1, RoundDown DEF NumWindows
  <2> HIDE DEF s
  <2>3. Renewed(r) = [start |-> r.start + s, end |-> r.end + s,
                      window |-> r.window, left |-> r.max, max |-> r.max]
    BY <1>0, <1>2 DEF Renewed, s
  <2> QED
    BY <1>0, <1>2, <2>1, <2>2, <2>3 DEF Proper, Report, FullWindow
<1> QED
  BY <1>1, <1>2

(* A report made of 3scale's usage is proper. *)
LEMMA ToReportIsProper ==
  ASSUME NEW a \in Apps, NEW m \in DOMAIN a
  PROVE  Proper(ToReport(a[m]))
<1>1. a[m] \in Usage /\ a[m].start <= a[m].end
  BY DEF PartialFunction
<1>2. (a[m].max - a[m].current) % Word \in Nat
  BY <1>1, ModIsNat DEF Usage
<1> QED
  BY <1>1, <1>2 DEF ToReport, Proper, Report, Usage
-----------------------------------------------------------------------------
(* The inductive invariant: a metric the loop has visited is charged once  *)
(* in a renewed period and had its hits left; one it has not visited, or   *)
(* does not visit at all, is as it was read.                               *)

Visited(m) ==
  /\ request[m] <= Available(m)
  /\ work[m].left + request[m] = Available(m)
  /\ work[m].start = Renewed(local[m]).start
  /\ work[m].end = Renewed(local[m]).end

Progress ==
  /\ \A m \in DOMAIN local : local[m].start <= local[m].end
  /\ phase = "hierarchy" => work = local
  /\ phase \in {"check", "authorized"} =>
       \A m \in DOMAIN local :
         IF m \in DOMAIN request \ todo THEN Visited(m) ELSE work[m] = local[m]
  /\ phase = "authorized" => todo = {}
  /\ phase = "limited" => \E m \in Limited : request[m] > Available(m)

Inv == TypeOK /\ Progress

(* The initial states satisfy the invariant.                               *)
LEMMA InitInv == Init => Inv
BY DEF Init, Inv, TypeOK, Progress, PartialFunction, Report, Phases, NoInfo

(* The report the loop makes of an unvisited metric.                       *)
LEMMA Renewal ==
  ASSUME Inv, phase = "check", NEW m \in todo, m \in DOMAIN local
  PROVE  /\ work[m] = local[m] /\ Proper(local[m])
         /\ Renewed(work[m]) \in Report
         /\ Renewed(work[m]).left = Available(m)
         /\ request[m] \in Nat /\ m \in DOMAIN request
         /\ now \in Nat
<1>1. work[m] = local[m] /\ m \in DOMAIN request /\ now \in Nat
  BY DEF Inv, Progress, TypeOK
<1>2. Proper(local[m])
  BY DEF Inv, Progress, TypeOK, PartialFunction, Proper
<1>3. request[m] \in Nat
  BY <1>1 DEF Inv, TypeOK, PartialFunction
<1> QED
  BY <1>1, <1>2, <1>3, RenewedPeriod DEF Proper, Available

(* One round of the loop keeps the invariant.                              *)
LEMMA CheckMetricInv ==
  ASSUME Inv, NEW m \in Metrics, CheckMetric(m)
  PROVE  Inv'
<1>0. /\ phase = "check" /\ m \in todo /\ todo' = todo \ {m}
      /\ UNCHANGED <<request, usage, hierarchy, now, local>>
  BY DEF CheckMetric
<1>1. CASE m \notin DOMAIN local
  <2>1. UNCHANGED <<work, info, phase>>
    BY <1>1 DEF CheckMetric
  <2>2. TypeOK'
    BY <1>0, <2>1 DEF Inv, TypeOK
  <2>3. Progress'
    BY <1>0, <1>1, <2>1 DEF Inv, Progress, Visited, Available, Expired, Renewed,
       NumWindows, Limited
  <2> QED
    BY <2>2, <2>3 DEF Inv
<1>2. CASE m \in DOMAIN local
  <2> DEFINE r == Renewed(work[m])
             charged == Charge(r, request[m])
  <2>0. /\ work[m] = local[m] /\ Proper(local[m]) /\ r \in Report
        /\ r.left = Available(m) /\ request[m] \in Nat /\ m \in DOMAIN request
        /\ now \in Nat
    BY <1>0, <1>2, Renewal
  <2>a. \A n \in DOMAIN local : /\ Available(n)' = Available(n)
                                /\ Renewed(local[n])' = Renewed(local[n])
    BY <1>0 DEF Available, Renewed, Expired, NumWindows
  <2>b. Limited' = Limited /\ m \in Limited
    BY <1>0, <1>2, <2>0 DEF Limited
  <2>c. work \in [DOMAIN local -> Report] /\ info \in [limit : Int, remaining : Int, reset : Int]
    BY DEF Inv, TypeOK
  <2>1. CASE Exceeds(r, request[m])
    <3>1. /\ work' = [work EXCEPT ![m] = r]
          /\ info' = [InfoOf(r) EXCEPT !.remaining = 0]
          /\ phase' \in {"panic", "limited"}
      BY <1>2, <2>1 DEF CheckMetric
    <3>2. info' \in [limit : Int, remaining : Int, reset : Int]
      BY <2>0, <3>1 DEF InfoOf, Report
    <3>3. TypeOK'
      <4>1. work' \in [DOMAIN local' -> Report] /\ phase' \in Phases
        BY <1>0, <2>0, <2>c, <3>1 DEF Phases
      <4>2. todo' \subseteq DOMAIN request'
        BY <1>0 DEF Inv, TypeOK
      <4> QED
        BY <1>0, <3>2, <4>1, <4>2 DEF Inv, TypeOK
    <3>4. request[m] > Available(m)
      BY <2>0, <2>1 DEF Exceeds, Report
    <3>5. Progress'
      <4>1. \E n \in Limited' : request'[n] > Available(n)'
        BY <1>0, <1>2, <2>a, <2>b, <3>4
      <4>2. phase' \notin {"hierarchy", "check", "authorized"}
        BY <3>1
      <4>3. \A n \in DOMAIN local' : local'[n].start <= local'[n].end
        BY <1>0 DEF Inv, Progress
      <4> QED
        BY <4>1, <4>2, <4>3 DEF Progress
    <3> QED
      BY <3>3, <3>5 DEF Inv
  <2>2. CASE ~Exceeds(r, request[m])
    <3>1. /\ work' = [work EXCEPT ![m] = charged]
          /\ \/ info' = InfoOf(charged) /\ phase' \in {"panic", phase}
             \/ UNCHANGED <<info, phase>>
      BY <1>2, <2>2 DEF CheckMetric
    <3>2. /\ charged \in Report
          /\ charged.left + request[m] = Available(m)
          /\ charged.start = r.start /\ charged.end = r.end
          /\ request[m] <= Available(m)
      BY <2>0, <2>2 DEF Exceeds, Charge, Report
    <3> HIDE DEF charged
    <3>3. info' \in [limit : Int, remaining : Int, reset : Int]
      BY <2>0, <2>c, <3>1, <3>2 DEF InfoOf, Report
    <3>4. TypeOK'
      <4>1. work' \in [DOMAIN local' -> Report]
        BY <1>0, <2>c, <3>1, <3>2
      <4>2. phase' \in Phases
        BY <1>0, <3>1 DEF Phases
      <4> QED
        BY <1>0, <3>3, <4>1, <4>2 DEF Inv, TypeOK
    <3>5. work'[m] = charged /\ \A n \in DOMAIN local \ {m} : work'[n] = work[n]
      BY <1>2, <2>c, <3>1
    <3>6. Visited(m)'
      BY <1>0, <1>2, <2>0, <2>a, <3>2, <3>5 DEF Visited
    <3>7. ASSUME NEW n \in DOMAIN local, n # m
          PROVE  IF n \in DOMAIN request \ todo' THEN Visited(n)'
                                                 ELSE work'[n] = local[n]
      BY <1>0, <2>a, <3>5, <3>7 DEF Inv, Progress, Visited
    <3>8. Progress'
      BY <1>0, <2>0, <3>1, <3>6, <3>7 DEF Inv, Progress
    <3> QED
      BY <3>4, <3>8 DEF Inv
  <2> QED
    BY <2>1, <2>2
<1> QED
  BY <1>1, <1>2

(* Every step keeps the invariant.                                         *)
LEMMA NextInv == Inv /\ [Next]_vars => Inv'
<1> SUFFICES ASSUME Inv, [Next]_vars PROVE Inv'
  OBVIOUS
<1>1. CASE Receive
  <2>1. /\ local' = [m \in DOMAIN usage |-> ToReport(usage[m])] /\ work' = local'
        /\ UNCHANGED <<request, usage, hierarchy, now, todo, info>>
        /\ phase' \in {"panic", "hierarchy"}
    BY <1>1 DEF Receive
  <2>2. usage \in Apps
    BY DEF Inv, TypeOK
  <2>3. \A m \in DOMAIN local' : local'[m] \in Report /\ local'[m].start <= local'[m].end
    BY <2>1, <2>2, ToReportIsProper DEF Proper
  <2>4. DOMAIN local' \subseteq Metrics
    BY <2>1, <2>2 DEF PartialFunction
  <2>5. TypeOK'
    BY <2>1, <2>3, <2>4 DEF Inv, TypeOK, PartialFunction, Phases
  <2>6. Progress'
    BY <2>1, <2>3 DEF Progress
  <2> QED
    BY <2>5, <2>6 DEF Inv
<1>2. CASE AddHierarchy
  <2>1. /\ \/ phase' = "panic" /\ UNCHANGED todo
           \/ phase' = "check" /\ todo' = DOMAIN request
        /\ phase = "hierarchy"
        /\ UNCHANGED <<request, usage, hierarchy, now, local, work, info>>
    BY <1>2 DEF AddHierarchy
  <2>2. TypeOK'
    BY <2>1 DEF Inv, TypeOK, Phases
  <2>3. Progress'
    BY <2>1 DEF Inv, Progress
  <2> QED
    BY <2>2, <2>3 DEF Inv
<1>3. ASSUME NEW m \in Metrics, CheckMetric(m) PROVE Inv'
  BY <1>3, CheckMetricInv
<1>4. CASE Authorize
  <2>1. TypeOK'
    BY <1>4 DEF Authorize, Inv, TypeOK, Phases
  <2>2. Progress'
    BY <1>4 DEF Authorize, Inv, Progress, Visited, Available, Expired, Renewed,
       NumWindows
  <2> QED
    BY <2>1, <2>2 DEF Inv
<1>5. CASE UNCHANGED vars
  BY <1>5 DEF vars, Inv, TypeOK, Progress, Visited, Available, Expired, Renewed,
     NumWindows, Limited
<1> QED
  BY <1>1, <1>2, <1>3, <1>4, <1>5 DEF Next

(* The loop of limit_check_and_update_application keeps, metric by metric, *)
(* what it has charged apart from what it has still to visit.             *)
THEOREM Invariance == Spec => []Inv
BY InitInv, NextInv, PTL DEF Spec

(* Every variable of the check always has its type.                        *)
THEOREM LimitCheckTyping == Spec => []TypeOK
BY Invariance, PTL DEF Inv

(* The verdict is the same in every order of the metrics.                  *)
THEOREM VerdictIsOrderFree == Spec => []VerdictOrderFree
<1>1. Inv => VerdictOrderFree
  BY DEF Inv, Progress, Visited, Limited, VerdictOrderFree
<1> QED
  BY <1>1, Invariance, PTL

(* An authorized request is charged exactly once per metric.               *)
THEOREM ChargesAreExact == Spec => []ChargedExactly
<1>1. Inv => ChargedExactly
  BY DEF Inv, Progress, Visited, ChargedExactly
<1> QED
  BY <1>1, Invariance, PTL

(* The period a request is charged in contains the time of the request, if *)
(* it has the full length of its name.                                     *)
THEOREM RenewedWindowCoversNow == Spec => []WindowCoversNow
<1>1. Inv => WindowCoversNow
  <2> SUFFICES ASSUME Inv, phase = "authorized", NEW m \in Limited,
                      FullWindow(local[m]), local[m].start <= now
               PROVE  /\ work[m].start <= now
                      /\ local[m].window # Eternity => now <= work[m].end
    BY DEF WindowCoversNow
  <2>1. Visited(m)
    BY DEF Inv, Progress, Limited
  <2>2. Proper(local[m]) /\ now \in Nat
    BY DEF Inv, TypeOK, Progress, PartialFunction, Proper, Limited
  <2> QED
    BY <2>1, <2>2, RenewedPeriod DEF Visited
<1> QED
  BY <1>1, Invariance, PTL
-----------------------------------------------------------------------------
(* The headers, and the reasons of a panic *)

Seen == Limited \ todo

(* The header so far is that of a visited metric with the smallest limit.  *)
HeaderOfSeen ==
  /\ phase \in {"receive", "hierarchy"} => info = NoInfo
  /\ phase \in {"hierarchy", "check", "authorized"} =>
       \A m \in DOMAIN local : work[m].max = local[m].max
  /\ phase \in {"check", "authorized"} =>
       IF Seen = {} THEN info = NoInfo
       ELSE \E m \in Seen : /\ info = InfoOf(work[m])
                            /\ \A n \in Seen : work[m].max <= work[n].max

HeaderInv == HeaderOfSeen /\ PanicsExplained

(* A renewed period that is over all the same has no length, or is shorter *)
(* than its name says.                                                     *)
LEMMA OverAfterRenewal ==
  ASSUME NEW r, Proper(r), now \in Nat, ResetPanics(Renewed(r))
  PROVE  r.end < now /\ (r.window = Eternity \/ ~FullWindow(r))
<1>1. /\ Proper(Renewed(r)) /\ r.end \in Nat /\ Renewed(r).end \in Nat
      /\ FullWindow(r) /\ r.window # Eternity => now <= Renewed(r).end
  BY RenewedPeriod DEF Proper, Report
<1>2. r.window = Eternity \/ ~FullWindow(r)
  BY <1>1 DEF ResetPanics
<1>3. ~Expired(r) => r.end < now
  BY DEF Renewed, ResetPanics
<1> QED
  BY <1>2, <1>3 DEF Expired

(* One round of the loop keeps the header.                                 *)
LEMMA CheckMetricHeader ==
  ASSUME Inv, HeaderInv, NEW m \in Metrics, CheckMetric(m)
  PROVE  HeaderInv'
<1>0. /\ phase = "check" /\ m \in todo /\ todo' = todo \ {m}
      /\ UNCHANGED <<request, usage, hierarchy, now, local>>
      /\ Limited' = Limited /\ m \in DOMAIN request
  BY DEF CheckMetric, Limited, Inv, TypeOK
<1>a. \A n \in DOMAIN local : work[n].max = local[n].max
  BY <1>0 DEF HeaderInv, HeaderOfSeen
<1>b. work \in [DOMAIN local -> Report]
  BY DEF Inv, TypeOK
<1>1. CASE m \notin DOMAIN local
  <2>1. UNCHANGED <<work, info, phase>> /\ Seen' = Seen
    BY <1>0, <1>1 DEF CheckMetric, Seen, Limited
  <2> QED
    BY <1>0, <1>a, <2>1 DEF HeaderInv, HeaderOfSeen, PanicsExplained, InfoOf
<1>2. CASE m \in DOMAIN local
  <2> DEFINE r == Renewed(work[m])
             charged == Charge(r, request[m])
  <2>1. /\ work[m] = local[m] /\ Proper(local[m]) /\ r \in Report
        /\ request[m] \in Nat /\ now \in Nat
    BY <1>0, <1>2, Renewal
  <2>2. r.max = local[m].max
    BY <2>1, RenewedPeriod
  <2>3. m \in Limited /\ Seen' = Seen \cup {m} /\ m \notin Seen
    BY <1>0, <1>2 DEF Seen, Limited
  <2>4. ASSUME ResetPanics(r) PROVE PanicsExplained'
    <3>1. local[m].end < now /\ (local[m].window = Eternity \/ ~FullWindow(local[m]))
      BY <2>1, <2>4, OverAfterRenewal
    <3> QED
      BY <1>0, <2>3, <3>1 DEF PanicsExplained, FullWindow
  <2>5. CASE Exceeds(r, request[m])
    <3>1. phase' = IF ResetPanics(r) THEN "panic" ELSE "limited"
      BY <1>2, <2>5 DEF CheckMetric
    <3>2. HeaderOfSeen'
      BY <3>1 DEF HeaderOfSeen
    <3> QED
      BY <2>4, <3>1, <3>2 DEF HeaderInv, PanicsExplained
  <2>6. CASE ~Exceeds(r, request[m])
    <3>1. /\ work' = [work EXCEPT ![m] = charged]
          /\ IF Tighter(r)
             THEN /\ info' = InfoOf(charged)
                  /\ phase' = IF ResetPanics(r) THEN "panic" ELSE phase
             ELSE UNCHANGED <<info, phase>>
      BY <1>2, <2>6 DEF CheckMetric
    <3>2. charged.max = r.max
      BY <2>1 DEF Charge, Report
    <3> HIDE DEF charged
    <3>3. work'[m] = charged /\ \A n \in DOMAIN local \ {m} : work'[n] = work[n]
      BY <1>2, <1>b, <3>1
    <3>4. \A n \in DOMAIN local' : work'[n].max = local'[n].max
      BY <1>0, <1>a, <2>2, <3>2, <3>3
    <3>5. \A n \in DOMAIN local : local[n].max \in Nat
      BY <1>a, <1>b DEF Report
    <3>6. Seen \subseteq DOMAIN local /\ m \notin Seen
      BY <2>3 DEF Seen, Limited
    <3>7. InfoOf(charged).limit = local[m].max /\ NoInfo.limit = -1
      BY <2>2, <3>2 DEF InfoOf, NoInfo
    <3>8. CASE ~Tighter(r)
      <4>1. /\ UNCHANGED <<info, phase>>
            /\ info # NoInfo /\ ~(local[m].max < info.limit)
        BY <2>2, <3>1, <3>8 DEF Tighter
      <4>2. PICK k \in Seen : /\ info = InfoOf(work[k])
                              /\ \A n \in Seen : work[k].max <= work[n].max
        BY <1>0, <4>1 DEF HeaderInv, HeaderOfSeen
      <4>3. info.limit = local[k].max /\ local[k].max <= local[m].max
        BY <1>a, <3>5, <3>6, <1>2, <4>1, <4>2 DEF InfoOf
      <4>4. k \in Seen' /\ info' = InfoOf(work[k])' /\ Seen' # {}
        BY <1>0, <2>3, <3>3, <3>6, <4>1, <4>2 DEF InfoOf
      <4>5. \A n \in Seen' : work'[k].max <= work'[n].max
        BY <1>0, <1>2, <1>a, <2>3, <3>4, <3>6, <4>2, <4>3
      <4>6. HeaderOfSeen'
        BY <1>0, <3>4, <4>1, <4>4, <4>5 DEF HeaderOfSeen
      <4> QED
        BY <1>0, <4>1, <4>6 DEF HeaderInv, PanicsExplained
    <3>9. CASE Tighter(r)
      <4>1. /\ info' = InfoOf(charged)
            /\ phase' = IF ResetPanics(r) THEN "panic" ELSE phase
            /\ info = NoInfo \/ local[m].max < info.limit
        BY <2>2, <3>1, <3>9 DEF Tighter
      <4>2. \A n \in Seen : local[m].max <= local[n].max
        <5>1. CASE Seen = {}
          BY <5>1
        <5>2. CASE Seen # {}
          <6>1. PICK k \in Seen : /\ info = InfoOf(work[k])
                                  /\ \A n \in Seen : work[k].max <= work[n].max
            BY <1>0, <5>2 DEF HeaderInv, HeaderOfSeen
          <6>2. info.limit = local[k].max /\ local[k].max \in Nat
            BY <1>a, <3>5, <3>6, <6>1 DEF InfoOf
          <6>3. local[m].max < local[k].max
            BY <3>7, <4>1, <6>2
          <6>4. \A n \in Seen : local[k].max <= local[n].max
            BY <1>a, <3>6, <6>1
          <6> QED
            BY <1>2, <3>5, <3>6, <6>3, <6>4
        <5> QED
          BY <5>1, <5>2
      <4>3. m \in Seen' /\ info' = InfoOf(work[m])' /\ Seen' # {}
        BY <1>0, <2>3, <3>3, <4>1 DEF InfoOf
      <4>4. \A n \in Seen' : work'[m].max <= work'[n].max
        BY <1>0, <1>2, <2>3, <3>4, <3>5, <3>6, <4>2
      <4>5. HeaderOfSeen'
        BY <1>0, <3>4, <4>1, <4>3, <4>4 DEF HeaderOfSeen
      <4> QED
        BY <1>0, <2>4, <4>1, <4>5 DEF HeaderInv, PanicsExplained
    <3> QED
      BY <3>8, <3>9
  <2> QED
    BY <2>5, <2>6
<1> QED
  BY <1>1, <1>2

(* Every step keeps the header and explains its panic.                     *)
LEMMA NextHeader == Inv /\ HeaderInv /\ [Next]_vars => HeaderInv'
<1> SUFFICES ASSUME Inv, HeaderInv, [Next]_vars PROVE HeaderInv'
  OBVIOUS
<1>1. CASE Receive
  <2>1. /\ phase = "receive" /\ work' = local' /\ UNCHANGED <<usage, info>>
        /\ phase' = IF OverflowChecks /\ \E m \in DOMAIN usage :
                                            usage[m].current > usage[m].max
                    THEN "panic" ELSE "hierarchy"
    BY <1>1 DEF Receive
  <2> QED
    BY <2>1 DEF HeaderInv, HeaderOfSeen, PanicsExplained
<1>2. CASE AddHierarchy
  <2>1. CASE \E m \in DOMAIN request : HasParent(m)
    BY <1>2, <2>1 DEF AddHierarchy, HeaderInv, HeaderOfSeen, PanicsExplained, HasParent
  <2>2. CASE ~ \E m \in DOMAIN request : HasParent(m)
    <3>1. /\ phase = "hierarchy" /\ phase' = "check" /\ todo' = DOMAIN request
          /\ UNCHANGED <<request, local, work, info>>
      BY <1>2, <2>2 DEF AddHierarchy
    <3>2. Seen' = {}
      BY <3>1 DEF Seen, Limited
    <3> QED
      BY <3>1, <3>2 DEF HeaderInv, HeaderOfSeen, PanicsExplained
  <2> QED
    BY <2>1, <2>2
<1>3. ASSUME NEW m \in Metrics, CheckMetric(m) PROVE HeaderInv'
  BY <1>3, CheckMetricHeader
<1>4. CASE Authorize
  <2>1. /\ phase = "check" /\ phase' = "authorized"
        /\ UNCHANGED <<request, usage, hierarchy, now, local, work, todo, info>>
    BY <1>4 DEF Authorize
  <2> QED
    BY <2>1 DEF HeaderInv, HeaderOfSeen, PanicsExplained, Seen, Limited, InfoOf
<1>5. CASE UNCHANGED vars
  BY <1>5 DEF vars, HeaderInv, HeaderOfSeen, PanicsExplained, Seen, Limited, InfoOf,
     HasParent, FullWindow
<1> QED
  BY <1>1, <1>2, <1>3, <1>4, <1>5 DEF Next

(* The header so far, and the reasons of a panic, for any metrics, limits  *)
(* and times.                                                              *)
LEMMA HeaderInvariance == Spec => []HeaderInv
<1>1. Init => HeaderInv
  BY DEF Init, HeaderInv, HeaderOfSeen, PanicsExplained
<1> QED
  BY <1>1, NextHeader, Invariance, PTL DEF Spec

(* The RateLimit headers of an authorized request belong to one of its     *)
(* metrics with the smallest limit, in every order of the metrics.         *)
THEOREM HeadersAreTightest == Spec => []HeaderIsTightest
<1>1. Inv /\ HeaderInv => HeaderIsTightest
  BY DEF Inv, Progress, HeaderInv, HeaderOfSeen, Seen, HeaderIsTightest
<1> QED
  BY <1>1, Invariance, HeaderInvariance, PTL

(* limit_check_and_update_application and its caller panic for one of the  *)
(* three known reasons only: an overshot usage, a parent, a period that is *)
(* over and cannot be renewed into the present.                            *)
THEOREM PanicsAreExplained == Spec => []PanicsExplained
<1>1. HeaderInv => PanicsExplained
  BY DEF HeaderInv
<1> QED
  BY <1>1, HeaderInvariance, PTL
=============================================================================
