---------------------------- MODULE SystemProofs ----------------------------
(***************************************************************************)
(* Proofs about System, for any number of applications, tokens, requests,  *)
(* faults and calls under way: its types, that every request let through   *)
(* is in exactly one place between the cache and the counter of 3scale,    *)
(* and that the cache never withholds quota.                               *)
(*                                                                         *)
(* The last rests on the ledger: 3scale never counts more than was let     *)
(* through, so each answer it gives leaves at least what remains of the    *)
(* limit, and goes on to do so however late it arrives.                    *)
(***************************************************************************)
EXTENDS System, SumTheorems

USE NumbersAssumption, RetiringAssumption, NonEmptyAssumption

-----------------------------------------------------------------------------
(* The invariant *)

(* Only reports carry usage or are abandoned, and the answer to another    *)
(* call has what remained of the limit when 3scale gave it.                *)
CallIsConsistent(s) ==
  /\ calls[s].kind # "report" => calls[s].usage = Nothing
  /\ calls[s].at = "abandoned" => calls[s].kind = "report"
  /\ calls[s].kind # "report" /\ calls[s].at = "accepted" =>
       calls[s].left <= Limit /\ calls[s].left + passed[calls[s].app] >= Limit

SystemInv ==
  /\ TypeOK
  /\ LedgerBalances
  /\ \A s \in Slots : CallIsConsistent(s)
  /\ QuotaNotLost

-----------------------------------------------------------------------------
(* Calls *)

(* The calls that are made, and the empty slot, have their type.           *)
LEMMA CallTypes ==
  /\ NoCall \in Call /\ NoCall.kind = "none" /\ NoCall.usage = Nothing
  /\ NoCall.at = "sent"
  /\ \A k \in Kinds, a \in Apps, t \in Tokens :
       /\ Authorize(k, a, t) \in Call
       /\ Authorize(k, a, t).kind = k /\ Authorize(k, a, t).at = "sent"
       /\ Authorize(k, a, t).usage = Nothing
  /\ \A t \in Tokens, u \in Usages :
       /\ ReportCall(t, u) \in Call
       /\ ReportCall(t, u).kind = "report" /\ ReportCall(t, u).at = "sent"
       /\ ReportCall(t, u).usage = u /\ ReportCall(t, u).tok = t
<1>1. Nothing \in Usages
  BY DEF Nothing, Usages
<1>2. NoCall \in Call /\ NoCall.kind = "none" /\ NoCall.usage = Nothing
      /\ NoCall.at = "sent"
  <2>1. (CHOOSE t \in Tokens : TRUE) \in Tokens /\ (CHOOSE a \in Apps : TRUE) \in Apps
    OBVIOUS
  <2> QED
    BY <1>1, <2>1 DEF NoCall, Call, Kinds, Stages
<1> QED
  BY <1>1, <1>2 DEF Authorize, ReportCall, Call, Kinds

(* The usage under way is a sum of natural numbers.                        *)
LEMMA UnderwaySummable ==
  ASSUME TypeOK, NEW a \in Apps
  PROVE  /\ \A s \in Slots : Carried(s, a) \in Nat
         /\ Summable([s \in Slots |-> Carried(s, a)], Slots)
         /\ Underway(a) \in Nat
<1>1. \A s \in Slots : Carried(s, a) \in Nat
  BY DEF TypeOK, Call, Usages, Carried
<1>2. \A s \in Slots : [r \in Slots |-> Carried(r, a)][s] \in Nat
  BY <1>1
<1> QED
  BY <1>1, <1>2, TotalNat, FiniteAssumption DEF Summable, Underway

(* What happens to one call changes what is under way by what it carries.  *)
LEMMA SlotStep ==
  ASSUME TypeOK, TypeOK', NEW s \in Slots, NEW a \in Apps,
         \A r \in Slots \ {s} : calls'[r] = calls[r]
  PROVE  /\ Carried(s, a) \in Nat /\ Carried(s, a)' \in Nat
         /\ Underway(a)' = Underway(a) - Carried(s, a) + Carried(s, a)'
<1> DEFINE f == [r \in Slots |-> Carried(r, a)]
           g == [r \in Slots |-> Carried(r, a)']
<1>1. Carried(s, a) \in Nat /\ Carried(s, a)' \in Nat
  <2>1. calls[s] \in Call /\ calls'[s] \in Call
    BY DEF TypeOK
  <2> QED
    BY <2>1 DEF Carried, Call, Usages
<1>2. Summable(f, Slots)
  BY UnderwaySummable
<1>3. \A r \in Slots \ {s} : g[r] = f[r]
  BY DEF Carried, Serving
<1>4. f[s] = Carried(s, a) /\ g[s] = Carried(s, a)'
  OBVIOUS
<1>5. Underway(a) = Total(f, Slots) /\ Underway(a)' = Total(g, Slots)
  BY DEF Underway
<1> HIDE DEF f, g
<1>6. Total(g, Slots) = Total(f, Slots) - f[s] + g[s]
  BY <1>1, <1>2, <1>3, <1>4, TotalChange
<1> QED
  BY <1>1, <1>4, <1>5, <1>6

(* Calls that fit are put into empty slots, each in one, and what they     *)
(* carry is under way.                                                     *)
LEMMA PlacedCalls ==
  ASSUME TypeOK, NEW cs \in SUBSET Call, Fit(cs), calls' = With(cs),
         \A c \in cs : c.kind # "none" /\ c.at = "sent"
  PROVE  /\ calls' \in [Slots -> Call]
         /\ \A s \in Slots : calls'[s] = calls[s] \/ calls'[s] \in cs
         /\ IsFiniteSet(cs)
         /\ \A a \in Apps : Underway(a)' = Underway(a) + UsageOf(cs, a)
<1>1. (CHOOSE p \in Injection(cs, Free) : TRUE) \in Injection(cs, Free)
  BY DEF Fit, ExistsInjection
<1>2. PICK place \in Injection(cs, Free) :
        calls' = [s \in Slots |-> IF \E c \in cs : place[c] = s
                                    THEN CHOOSE c \in cs : place[c] = s
                                    ELSE calls[s]]
  BY <1>1 DEF With
<1>3. /\ place \in [cs -> Free]
      /\ \A c, d \in cs : place[c] = place[d] => c = d
  BY <1>2 DEF Injection, IsInjective
<1>4. Free \subseteq Slots /\ \A s \in Free : calls[s] = NoCall
  BY DEF Free
<1>5. ASSUME NEW c \in cs PROVE calls'[place[c]] = c
  BY <1>2, <1>3, <1>4
<1>6. ASSUME NEW s \in Slots, ~ \E c \in cs : place[c] = s PROVE calls'[s] = calls[s]
  BY <1>2, <1>6
<1>7. \A s \in Slots : calls'[s] = calls[s] \/ calls'[s] \in cs
  BY <1>5, <1>6
<1>8. calls' \in [Slots -> Call]
  BY <1>2, <1>7 DEF TypeOK
<1>9. IsFiniteSet(cs)
  <2>1. IsFiniteSet(Free)
    BY <1>4, FS_Subset, FiniteAssumption
  <2> QED
    BY <1>2, <2>1, FS_Injection
<1>10. ASSUME NEW a \in Apps PROVE Underway(a)' = Underway(a) + UsageOf(cs, a)
  <2> DEFINE f == [r \in Slots |-> Carried(r, a)]
             g == [r \in Slots |-> Carried(r, a)']
             u == [c \in cs |-> c.usage[a]]
             P == {place[c] : c \in cs}
             R == Slots \ P
  <2>1. Underway(a) = Total(f, Slots) /\ Underway(a)' = Total(g, Slots)
    BY DEF Underway
  <2>2. Summable(f, Slots)
    BY UnderwaySummable
  <2>3. Summable(u, cs) /\ UsageOf(cs, a) = Total(u, cs)
    BY <1>9 DEF UsageOf, Summable, Call, Usages
  <2>4. P \cup R = Slots /\ P \cap R = {} /\ P \subseteq Free
    BY <1>3, <1>4
  <2>5. \A r \in P : f[r] = 0
    BY <1>4, <2>4, CallTypes DEF Carried, Serving
  <2>6. \A r \in R : g[r] = f[r]
    BY <1>6 DEF Carried, Serving
  <2>7. \A c \in cs : u[c] = g[place[c]]
    <3>1. ASSUME NEW c \in cs PROVE Carried(place[c], a)' = c.usage[a]
      BY <1>3, <1>4, <1>5 DEF Carried, Serving
    <3>2. \A c \in cs : place[c] \in Slots
      BY <1>3, <1>4
    <3> QED
      BY <3>1, <3>2
  <2>8. \A r \in Slots : g[r] \in Int
    BY <1>8 DEF Carried, Call, Usages
  <2>9. place \in Bijection(cs, P)
    BY <1>3 DEF Bijection, Injection, Surjection, IsInjective
  <2> HIDE DEF f, g, u, P, R
  <2>10. IsFiniteSet(P) /\ IsFiniteSet(R) /\ IsFiniteSet(Slots)
    BY <2>4, FS_Subset, FiniteAssumption
  <2>11. Summable(g, Slots) /\ Summable(f, R)
    BY <2>2, <2>4, <2>8, <2>10 DEF Summable
  <2>12. Total(f, Slots) = Total(f, P) + Total(f, R) /\ Total(f, P) = 0
    BY <2>2, <2>4, <2>5, <2>10, TotalUnion, TotalZero
  <2>13. Total(g, Slots) = Total(g, P) + Total(g, R)
    BY <2>4, <2>11, TotalUnion
  <2>14. Total(g, R) = Total(f, R) /\ Total(f, R) \in Int
    BY <2>6, <2>11, TotalSame, TotalType
  <2>15. Total(g, P) = Total(u, cs) /\ Total(u, cs) \in Int
    BY <2>3, <2>7, <2>9, TotalRenamed, TotalType
  <2> QED
    BY <2>1, <2>3, <2>12, <2>13, <2>14, <2>15
<1> QED
  BY <1>7, <1>8, <1>9, <1>10

(* The usage that calls carry is a sum of natural numbers.                 *)
LEMMA UsageType ==
  ASSUME NEW cs \in SUBSET Call, IsFiniteSet(cs), NEW a \in Apps
  PROVE  Summable([c \in cs |-> c.usage[a]], cs) /\ UsageOf(cs, a) \in Nat
<1>1. \A c \in cs : c.usage[a] \in Nat
  BY DEF Call, Usages
<1> QED
  BY <1>1, TotalNat DEF Summable, UsageOf

(* Calls of two kinds carry what each kind carries.                        *)
LEMMA UsageSplits ==
  ASSUME NEW cs \in SUBSET Call, NEW ds \in SUBSET Call, cs \cap ds = {},
         IsFiniteSet(cs \cup ds), NEW a \in Apps
  PROVE  UsageOf(cs \cup ds, a) = UsageOf(cs, a) + UsageOf(ds, a)
<1> DEFINE u == [c \in cs \cup ds |-> c.usage[a]]
<1>1. IsFiniteSet(cs) /\ IsFiniteSet(ds)
  BY FS_Subset
<1>2. Total(u, cs \cup ds) = UsageOf(cs \cup ds, a)
  BY DEF UsageOf
<1>3. Summable(u, cs \cup ds)
  BY UsageType
<1>4. Total(u, cs) = UsageOf(cs, a)
  <2>1. \A c \in cs : u[c] = [e \in cs |-> e.usage[a]][c]
    OBVIOUS
  <2> HIDE DEF u
  <2> QED
    BY <1>1, <2>1, UsageType, TotalSame DEF UsageOf
<1>5. Total(u, ds) = UsageOf(ds, a)
  <2>1. \A c \in ds : u[c] = [e \in ds |-> e.usage[a]][c]
    OBVIOUS
  <2> HIDE DEF u
  <2> QED
    BY <1>1, <2>1, UsageType, TotalSame DEF UsageOf
<1> HIDE DEF u
<1> QED
  BY <1>2, <1>3, <1>4, <1>5, TotalUnion

-----------------------------------------------------------------------------
(* A flush *)

(* The sum over the tokens of what the delta store d has for a.            *)
StoredIn(d, a) == Total([t \in Tokens |-> d[t][a]], Tokens)

(* It is a sum of natural numbers.                                         *)
LEMMA StoredType ==
  ASSUME NEW d \in [Tokens -> Usages], NEW a \in Apps
  PROVE  Summable([t \in Tokens |-> d[t][a]], Tokens) /\ StoredIn(d, a) \in Nat
<1>1. \A t \in Tokens : d[t][a] \in Nat
  BY DEF Usages
<1> QED
  BY <1>1, TotalNat, FiniteAssumption DEF Summable, StoredIn

(* The calls of a flush are new, and only its reports carry usage.         *)
LEMMA FlushCalls ==
  ASSUME NEW d \in [Tokens -> Usages], NEW keys \in SUBSET Apps,
         NEW tok \in [Apps -> Tokens]
  PROVE  /\ Reports(d) \subseteq Call /\ Auths(keys, tok) \subseteq Call
         /\ \A c \in Reports(d) : c.kind = "report" /\ c.at = "sent"
         /\ \A c \in Auths(keys, tok) :
              c.kind = "auth" /\ c.at = "sent" /\ c.usage = Nothing
<1>1. ASSUME NEW c \in Reports(d)
      PROVE  c \in Call /\ c.kind = "report" /\ c.at = "sent"
  <2>1. PICK t \in Tokens : c = ReportCall(t, d[t])
    BY DEF Reports
  <2> QED
    BY <2>1, CallTypes
<1>2. ASSUME NEW c \in Auths(keys, tok)
      PROVE  c \in Call /\ c.kind = "auth" /\ c.at = "sent" /\ c.usage = Nothing
  <2>1. PICK a \in keys : c = Authorize("auth", a, tok[a])
    BY DEF Auths
  <2>2. "auth" \in Kinds /\ a \in Apps /\ tok[a] \in Tokens
    BY DEF Kinds
  <2> QED
    BY <2>1, <2>2, CallTypes
<1> QED
  BY <1>1, <1>2

(* The reports of a flush carry all of the delta store.                    *)
LEMMA FlushCarriesAll ==
  ASSUME NEW d \in [Tokens -> Usages], NEW keys \in SUBSET Apps,
         NEW tok \in [Apps -> Tokens], NEW a \in Apps,
         IsFiniteSet(Reports(d) \cup Auths(keys, tok))
  PROVE  UsageOf(Reports(d) \cup Auths(keys, tok), a) = StoredIn(d, a)
<1> DEFINE R == Reports(d)
           A == Auths(keys, tok)
           U == {t \in Tokens : d[t] # Nothing}
           f == [t \in Tokens |-> d[t][a]]
           g == [c \in R |-> c.usage[a]]
           b == [t \in U |-> ReportCall(t, d[t])]
<1>1. R \in SUBSET Call /\ A \in SUBSET Call /\ R \cap A = {}
  BY FlushCalls
<1>2. IsFiniteSet(R) /\ IsFiniteSet(A) /\ IsFiniteSet(U) /\ IsFiniteSet(Tokens \ U)
  BY FS_Subset, FiniteAssumption
<1>3. UsageOf(R \cup A, a) = UsageOf(R, a) + UsageOf(A, a)
  BY <1>1, UsageSplits
<1>4. UsageOf(A, a) = 0
  <2>1. \A c \in A : [e \in A |-> e.usage[a]][c] = 0
    BY FlushCalls DEF Nothing
  <2> HIDE DEF A
  <2> QED
    BY <1>2, <2>1, TotalZero DEF UsageOf
<1>5. b \in Bijection(U, R)
  <2>1. \A t \in U : b[t] = ReportCall(t, d[t]) /\ b[t].tok = t
    BY CallTypes
  <2>2. R = {b[t] : t \in U}
    BY DEF Reports
  <2>3. b \in [U -> R]
    BY <2>2
  <2> HIDE DEF b, R, U
  <2> QED
    BY <2>1, <2>2, <2>3 DEF Bijection, Injection, Surjection, IsInjective
<1>6. \A t \in U : f[t] = g[b[t]]
  <2>1. ASSUME NEW t \in U PROVE f[t] = g[b[t]]
    <3>1. b[t] \in R /\ b[t] = ReportCall(t, d[t]) /\ d[t] \in Usages /\ t \in Tokens
      BY DEF Reports
    <3>2. g[b[t]] = b[t].usage[a] /\ f[t] = d[t][a]
      BY <3>1
    <3> HIDE DEF b, f, g, R
    <3> QED
      BY <3>1, <3>2, CallTypes
  <2> HIDE DEF b, f, g, U
  <2> QED
    BY <2>1
<1>7. Summable(f, Tokens) /\ StoredIn(d, a) = Total(f, Tokens)
  BY StoredType DEF StoredIn
<1>8. \A t \in Tokens \ U : f[t] = 0
  BY DEF Nothing
<1>9. UsageOf(R, a) = Total(g, R)
  BY DEF UsageOf
<1>10. U \cup (Tokens \ U) = Tokens /\ U \cap (Tokens \ U) = {} /\ U \subseteq Tokens
  OBVIOUS
<1> HIDE DEF R, A, U, f, g, b
<1>11. Summable(f, U)
  BY <1>2, <1>7, <1>10 DEF Summable
<1>12. Total(g, R) = Total(f, U)
  BY <1>5, <1>6, <1>11, TotalRenamed
<1>13. Total(f, Tokens \ U) = 0
  BY <1>2, <1>8, TotalZero
<1>14. Total(f, Tokens) = Total(f, U) + Total(f, Tokens \ U)
  BY <1>7, <1>10, TotalUnion
<1>15. Total(f, U) \in Int
  BY <1>11, TotalType
<1>16. UsageOf(R \cup A, a) = StoredIn(d, a)
  BY <1>3, <1>4, <1>7, <1>9, <1>12, <1>13, <1>14, <1>15
<1> QED
  BY <1>16 DEF R, A

(* Some of the calls that fit, fit.                                        *)
LEMMA SomeFit ==
  ASSUME NEW cs, NEW ds \in SUBSET cs, Fit(cs)
  PROVE  Fit(ds)
<1>1. PICK p : p \in Injection(cs, Free)
  BY DEF Fit, ExistsInjection
<1>2. [c \in ds |-> p[c]] \in Injection(ds, Free)
  BY <1>1 DEF Injection, IsInjective
<1> QED
  BY <1>2 DEF Fit, ExistsInjection

(* A flush moves the usage of the delta store d into the calls that are    *)
(* dispatched; that of the others is lost.                                 *)
LEMMA FlushMoves ==
  ASSUME TypeOK, NEW d \in [Tokens -> Usages], NEW keys \in SUBSET Apps,
         NEW tok \in [Apps -> Tokens], Flush(d, keys, tok)
  PROVE  /\ calls' \in [Slots -> Call]
         /\ deltas' = [t \in Tokens |-> Nothing]
         /\ faults' \in 0 .. MaxFaults /\ lost' \in Usages
         /\ \A s \in Slots :
              \/ calls'[s] = calls[s]
              \/ /\ calls'[s].at = "sent"
                 /\ calls'[s].kind # "report" => calls'[s].usage = Nothing
         /\ \A a \in Apps : Underway(a)' + lost'[a] = Underway(a) + lost[a] + StoredIn(d, a)
<1> DEFINE all == Reports(d) \cup Auths(keys, tok)
<1>1. PICK failed \in SUBSET all :
        /\ faults + Cardinality(failed) <= MaxFaults
        /\ faults' = faults + Cardinality(failed)
        /\ calls' = With(all \ failed)
        /\ lost' = [a \in Apps |-> lost[a] + UsageOf(failed, a)]
  BY DEF Flush
<1>2. Fit(all) /\ deltas' = [t \in Tokens |-> Nothing]
  BY DEF Flush
<1>3. all \subseteq Call /\ \A c \in all :
        /\ c.kind # "none" /\ c.at = "sent"
        /\ c.kind # "report" => c.usage = Nothing
  BY FlushCalls
<1>4. ASSUME NEW a \in Apps, IsFiniteSet(all) PROVE UsageOf(all, a) = StoredIn(d, a)
  BY <1>4, FlushCarriesAll
<1> HIDE DEF all
<1>5. IsFiniteSet(all)
  <2>1. PICK p : p \in Injection(all, Free)
    BY <1>2 DEF Fit, ExistsInjection
  <2>2. IsFiniteSet(Free)
    BY FS_Subset, FiniteAssumption DEF Free
  <2> QED
    BY <2>1, <2>2, FS_Injection
<1>6. /\ calls' \in [Slots -> Call]
      /\ \A s \in Slots : calls'[s] = calls[s] \/ calls'[s] \in all \ failed
      /\ \A a \in Apps : Underway(a)' = Underway(a) + UsageOf(all \ failed, a)
  <2>1. Fit(all \ failed)
    BY <1>2, SomeFit
  <2>2. all \ failed \in SUBSET Call
    BY <1>3
  <2> QED
    BY <1>1, <1>3, <2>1, <2>2, PlacedCalls
<1>7. IsFiniteSet(failed) /\ IsFiniteSet(all \ failed)
  BY <1>5, FS_Subset
<1>8. faults' \in 0 .. MaxFaults
  <2>1. Cardinality(failed) \in Nat /\ faults \in 0 .. MaxFaults
    BY <1>7, FS_CardinalityType DEF TypeOK
  <2> QED
    BY <1>1, <2>1
<1>9. \A a \in Apps : UsageOf(failed, a) \in Nat /\ UsageOf(all \ failed, a) \in Nat
  BY <1>3, <1>7, UsageType
<1>10. lost \in Usages
  BY DEF TypeOK
<1>11. lost' \in Usages
  BY <1>1, <1>9, <1>10 DEF Usages
<1>12. ASSUME NEW a \in Apps
       PROVE  Underway(a)' + lost'[a] = Underway(a) + lost[a] + StoredIn(d, a)
  <2>1. (all \ failed) \cup failed = all /\ (all \ failed) \cap failed = {}
    BY <1>1
  <2>2. UsageOf((all \ failed) \cup failed, a) = UsageOf(all \ failed, a) + UsageOf(failed, a)
    BY <1>1, <1>3, <1>5, <2>1, UsageSplits
  <2>3. StoredIn(d, a) = UsageOf(all \ failed, a) + UsageOf(failed, a)
    BY <1>4, <1>5, <2>1, <2>2
  <2>4. lost'[a] = lost[a] + UsageOf(failed, a) /\ lost[a] \in Nat
    BY <1>1, <1>10 DEF Usages
  <2>5. Underway(a) \in Nat /\ Underway(a)' = Underway(a) + UsageOf(all \ failed, a)
    BY <1>6, UnderwaySummable
  <2>6. UsageOf(failed, a) \in Nat /\ UsageOf(all \ failed, a) \in Nat
    BY <1>9
  <2> QED
    BY <2>3, <2>4, <2>5, <2>6
<1>13. \A s \in Slots :
         \/ calls'[s] = calls[s]
         \/ /\ calls'[s].at = "sent"
            /\ calls'[s].kind # "report" => calls'[s].usage = Nothing
  BY <1>3, <1>6
<1> QED
  BY <1>2, <1>6, <1>8, <1>11, <1>12, <1>13

-----------------------------------------------------------------------------
(* The queue *)

Message == [app : Apps, tok : Tokens]

(* The messages of a in the queue q.                                       *)
Places(q, a) == {i \in 1 .. Len(q) : q[i].app = a}

(* They are finitely many.                                                 *)
LEMMA PlacesFinite ==
  ASSUME NEW q \in Seq(Message), NEW a
  PROVE  IsFiniteSet(Places(q, a)) /\ Cardinality(Places(q, a)) \in Nat
<1>1. Len(q) \in Nat /\ Places(q, a) \subseteq 1 .. Len(q)
  BY DEF Places
<1>2. IsFiniteSet(1 .. Len(q))
  BY <1>1, FS_Interval
<1> QED
  BY <1>1, <1>2, FS_Subset, FS_CardinalityType

(* A message that is sent is one more of its application.                  *)
LEMMA PlacesAppend ==
  ASSUME NEW q \in Seq(Message), NEW m \in Message, NEW a
  PROVE  Cardinality(Places(Append(q, m), a))
           = Cardinality(Places(q, a)) + (IF m.app = a THEN 1 ELSE 0)
<1> DEFINE n == Len(q) + 1
<1>1. /\ Len(q) \in Nat /\ Len(Append(q, m)) = n /\ Append(q, m)[n] = m
      /\ \A i \in 1 .. Len(q) : Append(q, m)[i] = q[i]
  OBVIOUS
<1>2. CASE m.app = a
  <2>1. Places(Append(q, m), a) = Places(q, a) \cup {n} /\ n \notin Places(q, a)
    BY <1>1, <1>2 DEF Places
  <2>2. Cardinality(Places(q, a) \cup {n}) = Cardinality(Places(q, a)) + 1
    BY <2>1, PlacesFinite, FS_AddElement
  <2> QED
    BY <1>2, <2>1, <2>2
<1>3. CASE m.app # a
  <2>1. Places(Append(q, m), a) = Places(q, a)
    BY <1>1, <1>3 DEF Places
  <2> QED
    BY <1>3, <2>1, PlacesFinite
<1> QED
  BY <1>2, <1>3

(* A message that is taken is one less.                                    *)
LEMMA PlacesTail ==
  ASSUME NEW q \in Seq(Message), q # <<>>, NEW a
  PROVE  /\ Head(q) \in Message /\ Tail(q) \in Seq(Message)
         /\ Cardinality(Places(q, a))
              = Cardinality(Places(Tail(q), a)) + (IF Head(q).app = a THEN 1 ELSE 0)
<1> DEFINE S == Places(Tail(q), a)
           T == Places(q, a) \ {1}
           b == [i \in S |-> i + 1]
<1>1. /\ Head(q) \in Message /\ Tail(q) \in Seq(Message) /\ Head(q) = q[1]
      /\ Len(q) \in Nat /\ Len(q) >= 1 /\ Len(Tail(q)) = Len(q) - 1
      /\ \A i \in 1 .. Len(q) - 1 : Tail(q)[i] = q[i + 1]
  OBVIOUS
<1>2. b \in Bijection(S, T)
  <2>1. \A i \in S : i \in Int /\ i + 1 \in T
    BY <1>1 DEF Places
  <2>2. ASSUME NEW j \in T PROVE j - 1 \in S /\ (j - 1) + 1 = j
    <3>1. j \in Int /\ j >= 2 /\ j <= Len(q) /\ q[j].app = a
      BY <1>1 DEF Places
    <3>2. j - 1 \in 1 .. Len(q) - 1 /\ (j - 1) + 1 = j
      BY <1>1, <3>1
    <3>3. Tail(q)[j - 1] = q[j]
      BY <1>1, <3>2
    <3> QED
      BY <1>1, <3>1, <3>2, <3>3 DEF Places
  <2>3. b \in [S -> T] /\ \A i, j \in S : b[i] = b[j] => i = j
    BY <2>1
  <2>4. \A j \in T : \E i \in S : b[i] = j
    BY <2>2
  <2> HIDE DEF b, S, T
  <2> QED
    BY <2>3, <2>4 DEF Bijection, Injection, Surjection, IsInjective
<1>3. IsFiniteSet(S) /\ Cardinality(S) \in Nat /\ IsFiniteSet(T)
  BY <1>1, PlacesFinite, FS_Subset
<1>4. Cardinality(T) = Cardinality(S)
  <2> HIDE DEF b, S, T
  <2> QED
    BY <1>2, <1>3, FS_Bijection DEF ExistsBijection
<1>5. CASE Head(q).app = a
  <2>1. Places(q, a) = T \cup {1} /\ 1 \notin T
    BY <1>1, <1>5 DEF Places
  <2> HIDE DEF S, T
  <2>2. Cardinality(T \cup {1}) = Cardinality(T) + 1
    BY <1>3, <2>1, FS_AddElement
  <2>3. Cardinality(Places(q, a)) = Cardinality(S) + 1
    BY <1>4, <2>1, <2>2
  <2> QED
    BY <1>1, <1>5, <2>3 DEF S
<1>6. CASE Head(q).app # a
  <2>1. Places(q, a) = T
    BY <1>1, <1>6 DEF Places
  <2> HIDE DEF S, T
  <2>2. Cardinality(Places(q, a)) = Cardinality(S)
    BY <1>4, <2>1
  <2> QED
    BY <1>1, <1>3, <1>6, <2>2 DEF S
<1> QED
  BY <1>1, <1>5, <1>6

-----------------------------------------------------------------------------
(* What the steps have in common *)

(* The calls stay consistent if each is left alone, forgotten or new.      *)
LEMMA CallsKept ==
  ASSUME SystemInv, TypeOK', \A a \in Apps : passed'[a] >= passed[a],
         \A s \in Slots :
           \/ calls'[s] = calls[s] \/ calls'[s] = NoCall
           \/ /\ calls'[s].at = "sent"
              /\ calls'[s].kind # "report" => calls'[s].usage = Nothing
  PROVE  \A s \in Slots : CallIsConsistent(s)'
<1> SUFFICES ASSUME NEW s \in Slots PROVE CallIsConsistent(s)'
  OBVIOUS
<1>1. CASE calls'[s] = calls[s]
  <2>1. /\ calls[s].app \in Apps /\ calls[s].left \in Int
        /\ \A a \in Apps : passed[a] \in Nat /\ passed'[a] \in Nat
    BY DEF SystemInv, TypeOK, Call, Usages
  <2>2. CallIsConsistent(s) /\ passed'[calls[s].app] >= passed[calls[s].app]
    BY <2>1 DEF SystemInv
  <2> QED
    BY <1>1, <2>1, <2>2 DEF CallIsConsistent
<1>2. CASE calls'[s] = NoCall
  BY <1>2, CallTypes DEF CallIsConsistent
<1>3. CASE /\ calls'[s].at = "sent"
           /\ calls'[s].kind # "report" => calls'[s].usage = Nothing
  BY <1>3 DEF CallIsConsistent
<1> QED
  BY <1>1, <1>2, <1>3

(* Quota that was not lost is not while the cache is left alone.           *)
LEMMA CacheKept ==
  ASSUME SystemInv, TypeOK', UNCHANGED cache, \A a \in Apps : passed'[a] >= passed[a]
  PROVE  QuotaNotLost'
<1>1. \A a \in Apps : passed[a] \in Nat /\ passed'[a] \in Nat /\ left[a] \in Nat
  BY DEF SystemInv, TypeOK, Usages
<1>2. cached \subseteq Apps /\ cached' = cached /\ left' = left
  BY DEF SystemInv, TypeOK, cache
<1> QED
  BY <1>1, <1>2 DEF SystemInv, QuotaNotLost

(* The places where usage is have natural numbers of it.                   *)
LEMMA LedgerTypes ==
  ASSUME TypeOK, NEW a \in Apps
  PROVE  /\ Queued(a) \in Nat /\ Stored(a) \in Nat /\ Underway(a) \in Nat
         /\ counted[a] \in Nat /\ lost[a] \in Nat /\ passed[a] \in Nat
         /\ left[a] \in Nat
         /\ Queued(a) = Cardinality(Places(queue, a)) /\ Stored(a) = StoredIn(deltas, a)
<1>1. counted[a] \in Nat /\ lost[a] \in Nat /\ passed[a] \in Nat /\ left[a] \in Nat
  BY DEF TypeOK, Usages
<1>2. Queued(a) = Cardinality(Places(queue, a)) /\ Stored(a) = StoredIn(deltas, a)
  BY DEF Queued, Places, Stored, StoredIn
<1>3. queue \in Seq(Message) /\ deltas \in [Tokens -> Usages]
  BY DEF TypeOK, Message
<1> QED
  BY <1>1, <1>2, <1>3, PlacesFinite, StoredType, UnderwaySummable

(* The usage of a request that is let through is queued, or is lost.       *)
LEMMA UsageReportedOrLost ==
  ASSUME TypeOK, NEW a \in Apps, NEW t \in Tokens, PassAndReport(a, t)
  PROVE  /\ queue' \in Seq(Message) /\ lost' \in Usages /\ faults' \in 0 .. MaxFaults
         /\ \A b \in Apps :
              /\ Queued(b)' \in Nat
              /\ Queued(b)' + lost'[b] = Queued(b) + lost[b] + (IF a = b THEN 1 ELSE 0)
<1> DEFINE m == [app |-> a, tok |-> t]
<1>1. /\ queue \in Seq(Message) /\ lost \in Usages /\ faults \in 0 .. MaxFaults
      /\ \A b \in Apps : Queued(b) \in Nat /\ lost[b] \in Nat
  BY LedgerTypes DEF TypeOK, Message
<1>2. CASE queue' = Append(queue, m) /\ UNCHANGED <<lost, faults>>
  <2>1. m \in Message /\ m.app = a /\ queue' = Append(queue, m)
    BY <1>2 DEF Message
  <2> HIDE DEF m
  <2>2. ASSUME NEW b \in Apps PROVE Queued(b)' = Queued(b) + (IF a = b THEN 1 ELSE 0)
    <3>1. /\ Queued(b) = Cardinality(Places(queue, b))
          /\ Queued(b)' = Cardinality(Places(queue', b))
      BY DEF Queued, Places
    <3> QED
      BY <1>1, <2>1, <3>1, PlacesAppend
  <2>3. queue' \in Seq(Message)
    BY <1>1, <2>1
  <2>4. lost' = lost /\ faults' = faults
    BY <1>2
  <2> QED
    BY <1>1, <2>2, <2>3, <2>4
<1>3. CASE Fault /\ lost' = [lost EXCEPT ![a] = @ + 1] /\ UNCHANGED queue
  <2>1. lost' \in Usages /\ faults' \in 0 .. MaxFaults
    BY <1>1, <1>3 DEF Usages, Fault
  <2>2. ASSUME NEW b \in Apps
        PROVE  Queued(b)' = Queued(b) /\ lost'[b] = lost[b] + (IF a = b THEN 1 ELSE 0)
    <3>1. Queued(b)' = Queued(b)
      BY <1>3 DEF Queued
    <3>2. lost'[b] = lost[b] + (IF a = b THEN 1 ELSE 0)
      BY <1>1, <1>3 DEF Usages
    <3> QED
      BY <3>1, <3>2
  <2> QED
    BY <1>1, <1>3, <2>1, <2>2
<1> QED
  BY <1>2, <1>3 DEF PassAndReport

(* A request that is let through with n hits left, where n is at least     *)
(* what remains of the limit.                                              *)
LEMMA ChargeKeeps ==
  ASSUME SystemInv, NEW a \in Apps, NEW t \in Tokens, NEW n \in Nat,
         n + passed[a] >= Limit, Charge(a, t, n)
  PROVE  /\ cached' \subseteq Apps /\ left' \in Usages
         /\ queue' \in Seq(Message) /\ passed' \in Usages
         /\ lost' \in Usages /\ faults' \in 0 .. MaxFaults
         /\ \A b \in Apps :
              /\ passed'[b] >= passed[b] /\ Queued(b)' \in Nat
              /\ passed'[b] - Queued(b)' - lost'[b] = passed[b] - Queued(b) - lost[b]
         /\ QuotaNotLost'
<1>1. /\ TypeOK /\ queue \in Seq(Message) /\ cached \subseteq Apps
      /\ left \in Usages /\ passed \in Usages /\ lost \in Usages
      /\ faults \in 0 .. MaxFaults
  BY DEF SystemInv, TypeOK, Message
<1>2. \A b \in Apps : /\ passed[b] \in Nat /\ left[b] \in Nat /\ Queued(b) \in Nat
                      /\ lost[b] \in Nat
                      /\ Queued(b) = Cardinality(Places(queue, b))
                      /\ Queued(b)' = Cardinality(Places(queue', b))
  BY <1>1, LedgerTypes DEF Queued, Places
<1>3. CASE n < 1 /\ UNCHANGED <<cache, queue, passed, lost, faults>>
  <2>1. UNCHANGED <<cached, left, queue, passed, lost, faults>>
    BY <1>3 DEF cache
  <2>2. \A b \in Apps : Queued(b)' = Queued(b)
    BY <1>2, <2>1
  <2> QED
    BY <1>1, <1>2, <2>1, <2>2 DEF SystemInv, QuotaNotLost
<1>4. CASE /\ n >= 1 /\ cached' = cached \cup {a}
           /\ left' = [left EXCEPT ![a] = n - 1]
           /\ PassAndReport(a, t)
  <2>1. passed' = [passed EXCEPT ![a] = @ + 1]
    BY <1>4 DEF PassAndReport
  <2>2. left' \in Usages /\ passed' \in Usages
    <3>1. n - 1 \in Nat /\ passed[a] + 1 \in Nat
      BY <1>2, <1>4
    <3> QED
      BY <1>1, <1>4, <2>1, <3>1 DEF Usages
  <2>3. /\ queue' \in Seq(Message) /\ lost' \in Usages /\ faults' \in 0 .. MaxFaults
        /\ \A b \in Apps :
             /\ Queued(b)' \in Nat
             /\ Queued(b)' + lost'[b] = Queued(b) + lost[b] + (IF a = b THEN 1 ELSE 0)
    BY <1>1, <1>4, UsageReportedOrLost
  <2>4. ASSUME NEW b \in Apps
        PROVE  /\ passed'[b] >= passed[b]
               /\ passed'[b] - Queued(b)' - lost'[b] = passed[b] - Queued(b) - lost[b]
    <3>1. /\ Queued(b)' \in Nat
          /\ Queued(b)' + lost'[b] = Queued(b) + lost[b] + (IF a = b THEN 1 ELSE 0)
      BY <2>3
    <3>2. passed'[b] = passed[b] + (IF a = b THEN 1 ELSE 0) /\ passed[b] \in Nat
      BY <1>1, <1>2, <2>1 DEF Usages
    <3>3. Queued(b) \in Nat /\ lost[b] \in Nat /\ lost'[b] \in Nat
      BY <1>2, <2>3 DEF Usages
    <3> QED
      BY ONLY <3>1, <3>2, <3>3
  <2>5. ASSUME NEW b \in cached' PROVE left'[b] + passed'[b] >= Limit
    <3>1. CASE b = a
      <4>1. left'[b] = n - 1 /\ passed'[b] = passed[a] + 1 /\ passed[a] \in Nat
        BY <1>1, <1>2, <1>4, <2>1, <3>1 DEF Usages
      <4> QED
        BY <4>1
    <3>2. CASE b # a
      <4>1. b \in cached /\ b \in Apps
        BY <1>1, <1>4, <3>2
      <4>2. left'[b] = left[b] /\ passed'[b] = passed[b]
        BY <1>1, <1>4, <2>1, <3>2, <4>1 DEF Usages
      <4> QED
        BY <4>1, <4>2 DEF SystemInv, QuotaNotLost
    <3> QED
      BY <3>1, <3>2
  <2> QED
    BY <1>1, <1>4, <2>2, <2>3, <2>4, <2>5 DEF QuotaNotLost
<1> QED
  BY <1>3, <1>4 DEF Charge

(* The calls are left alone.                                               *)
LEMMA UnderwayKept ==
  ASSUME UNCHANGED calls, NEW a \in Apps
  PROVE  Underway(a)' = Underway(a)
BY DEF Underway, Carried, Serving

-----------------------------------------------------------------------------
(* The filters *)

(* The request is let through, and its usage queued, or neither.           *)
LEMMA HitKeeps ==
  ASSUME SystemInv, NEW a \in Apps, NEW t \in Tokens, Hit(a, t)
  PROVE  SystemInv'
<1>1. TypeOK /\ LedgerBalances /\ a \in cached /\ left[a] \in Nat
  BY DEF SystemInv, Hit, TypeOK, Usages
<1>2. left[a] + passed[a] >= Limit
  BY <1>1 DEF SystemInv, QuotaNotLost
<1>3. /\ cached' \subseteq Apps /\ left' \in Usages
      /\ queue' \in Seq(Message) /\ passed' \in Usages
      /\ lost' \in Usages /\ faults' \in 0 .. MaxFaults
      /\ \A b \in Apps :
           /\ passed'[b] >= passed[b] /\ Queued(b)' \in Nat
           /\ passed'[b] - Queued(b)' - lost'[b] = passed[b] - Queued(b) - lost[b]
      /\ QuotaNotLost'
  BY <1>1, <1>2, ChargeKeeps DEF Hit
<1>4. UNCHANGED <<cache_keys, tokenOf, deltas, crashed, calls, valid, counted>>
      /\ arrived' \in 0 .. MaxRequests
  BY <1>1 DEF Hit, Arrives, singleton, threescale, TypeOK
<1>5. TypeOK'
  BY <1>1, <1>3, <1>4 DEF TypeOK, Message
<1>6. ASSUME NEW b \in Apps
      PROVE  passed'[b] = Queued(b)' + Stored(b)' + Underway(b)' + counted'[b] + lost'[b]
  <2>1. Stored(b)' = Stored(b) /\ Underway(b)' = Underway(b)
    BY <1>4, UnderwayKept DEF Stored
  <2>2. passed[b] = Queued(b) + Stored(b) + Underway(b) + counted[b] + lost[b]
    BY <1>1 DEF LedgerBalances
  <2>3. passed'[b] \in Nat /\ lost'[b] \in Nat /\ Queued(b)' \in Nat
    BY <1>3 DEF Usages
  <2>4. passed'[b] - Queued(b)' - lost'[b] = passed[b] - Queued(b) - lost[b]
    BY <1>3
  <2> QED
    BY <1>1, <1>4, <2>1, <2>2, <2>3, <2>4, LedgerTypes
<1>7. \A s \in Slots : CallIsConsistent(s)'
  BY <1>3, <1>4, <1>5, CallsKept
<1> QED
  BY <1>3, <1>5, <1>6, <1>7 DEF SystemInv, LedgerBalances

(* The request is let through, and its usage known to be lost.             *)
LEMMA GiveUpKeeps ==
  ASSUME SystemInv, NEW a \in Apps, GiveUp(a)
  PROVE  SystemInv'
<1>1. TypeOK /\ LedgerBalances
  BY DEF SystemInv
<1>2. /\ UNCHANGED <<cached, left, queue, cache_keys, tokenOf, deltas, crashed, calls, valid,
                      counted>>
      /\ passed' = [passed EXCEPT ![a] = @ + 1] /\ lost' = [lost EXCEPT ![a] = @ + 1]
      /\ arrived' \in 0 .. MaxRequests /\ faults' \in 0 .. MaxFaults
  BY <1>1 DEF GiveUp, Arrives, Fault, cache, singleton, threescale, TypeOK
<1>3. TypeOK'
  <2>1. passed' \in Usages /\ lost' \in Usages
    <3>1. passed \in Usages /\ lost \in Usages
      BY <1>1 DEF TypeOK
    <3> QED
      BY <1>2, <3>1 DEF Usages
  <2> QED
    BY <1>1, <1>2, <2>1 DEF TypeOK
<1>4. ASSUME NEW b \in Apps
      PROVE  /\ passed'[b] >= passed[b]
             /\ passed'[b] = Queued(b)' + Stored(b)' + Underway(b)' + counted'[b] + lost'[b]
  <2>1. /\ Queued(b)' = Queued(b) /\ Stored(b)' = Stored(b) /\ Underway(b)' = Underway(b)
    BY <1>2, UnderwayKept DEF Stored, Queued
  <2>2. passed[b] = Queued(b) + Stored(b) + Underway(b) + counted[b] + lost[b]
    BY <1>1 DEF LedgerBalances
  <2>3. /\ passed'[b] = passed[b] + (IF a = b THEN 1 ELSE 0)
        /\ lost'[b] = lost[b] + (IF a = b THEN 1 ELSE 0)
    <3>1. passed \in Usages /\ lost \in Usages
      BY <1>1 DEF TypeOK
    <3>2. passed[b] \in Nat /\ lost[b] \in Nat
      BY <3>1 DEF Usages
    <3>3. CASE a = b
      BY <1>2, <3>1, <3>3 DEF Usages
    <3>4. CASE a # b
      BY <1>2, <3>1, <3>2, <3>4 DEF Usages
    <3> QED
      BY <3>3, <3>4
  <2> QED
    BY <1>1, <1>2, <2>1, <2>2, <2>3, LedgerTypes
<1>5. \A s \in Slots : CallIsConsistent(s)'
  BY <1>2, <1>3, <1>4, CallsKept
<1>6. QuotaNotLost'
  BY <1>2, <1>3, <1>4, CacheKept DEF cache
<1> QED
  BY <1>3, <1>4, <1>5, <1>6 DEF SystemInv, LedgerBalances

(* A call without usage is made, or none.                                  *)
LEMMA MissKeeps ==
  ASSUME SystemInv, NEW a \in Apps, NEW t \in Tokens, Miss(a, t)
  PROVE  SystemInv'
<1>1. TypeOK /\ LedgerBalances
  BY DEF SystemInv
<1>2. /\ UNCHANGED <<cached, left, queue, cache_keys, tokenOf, deltas, crashed, valid,
                      counted, passed, lost>>
      /\ arrived' \in 0 .. MaxRequests /\ faults' \in 0 .. MaxFaults
  BY <1>1 DEF Miss, Arrives, Fault, cache, singleton, threescale, TypeOK
<1>3. /\ calls' \in [Slots -> Call]
      /\ \A s \in Slots :
           \/ calls'[s] = calls[s]
           \/ /\ calls'[s].at = "sent"
              /\ calls'[s].kind # "report" => calls'[s].usage = Nothing
      /\ \A b \in Apps : Underway(b)' = Underway(b)
  <2>1. CASE UNCHANGED calls
    BY <1>1, <2>1, UnderwayKept DEF TypeOK
  <2>2. CASE Fit({Authorize("fetch", a, t)}) /\ calls' = With({Authorize("fetch", a, t)})
    <3> DEFINE c == Authorize("fetch", a, t)
    <3>1. /\ c \in Call /\ c.kind = "fetch" /\ c.at = "sent" /\ c.usage = Nothing
      BY CallTypes DEF Kinds
    <3> HIDE DEF c
    <3>2. {c} \in SUBSET Call /\ \A e \in {c} : e.kind # "none" /\ e.at = "sent"
      BY <3>1
    <3>3. Fit({c}) /\ calls' = With({c})
      BY <2>2 DEF c
    <3>4. /\ calls' \in [Slots -> Call]
          /\ \A s \in Slots : calls'[s] = calls[s] \/ calls'[s] \in {c}
          /\ \A b \in Apps : Underway(b)' = Underway(b) + UsageOf({c}, b)
          /\ IsFiniteSet({c})
      BY <1>1, <3>2, <3>3, PlacedCalls
    <3>5. ASSUME NEW b \in Apps PROVE UsageOf({c}, b) = 0
      <4>1. \A e \in {c} : [x \in {c} |-> x.usage[b]][e] = 0
        BY <3>1 DEF Nothing
      <4> QED
        BY <3>4, <4>1, TotalZero DEF UsageOf
    <3>6. \A b \in Apps : Underway(b)' = Underway(b)
      BY <1>1, <3>4, <3>5, LedgerTypes
    <3> QED
      BY <3>1, <3>4, <3>6
  <2> QED
    BY <2>1, <2>2 DEF Miss
<1>4. TypeOK'
  BY <1>1, <1>2, <1>3 DEF TypeOK
<1>5. \A b \in Apps : passed'[b] >= passed[b]
  BY <1>1, <1>2, LedgerTypes
<1>6. \A s \in Slots : CallIsConsistent(s)'
  BY <1>3, <1>4, <1>5, CallsKept
<1>7. QuotaNotLost'
  BY <1>2, <1>4, <1>5, CacheKept DEF cache
<1>8. LedgerBalances'
  <2>1. \A b \in Apps : Queued(b)' = Queued(b) /\ Stored(b)' = Stored(b)
    BY <1>2 DEF Stored, Queued
  <2> QED
    BY <1>1, <1>2, <1>3, <2>1 DEF LedgerBalances
<1> QED
  BY <1>4, <1>6, <1>7, <1>8 DEF SystemInv

-----------------------------------------------------------------------------
(* The singleton *)

(* The delta store e with a message added.                                 *)
Added(e, t, a) == [e EXCEPT ![t][a] = @ + 1]

(* It has one more unit of usage, of that application.                     *)
LEMMA DeltaAdded ==
  ASSUME NEW e \in [Tokens -> Usages], NEW t \in Tokens, NEW a \in Apps
  PROVE  /\ Added(e, t, a) \in [Tokens -> Usages]
         /\ \A b \in Apps :
              StoredIn(Added(e, t, a), b) = StoredIn(e, b) + (IF a = b THEN 1 ELSE 0)
<1> DEFINE d == Added(e, t, a)
<1>1. e[t] \in [Apps -> Nat] /\ [e[t] EXCEPT ![a] = @ + 1] \in [Apps -> Nat]
  BY DEF Usages
<1>2. d = [e EXCEPT ![t] = [e[t] EXCEPT ![a] = @ + 1]]
  BY DEF Added
<1> HIDE DEF d
<1>3. d \in [Tokens -> Usages]
  BY <1>1, <1>2 DEF Usages
<1>4. ASSUME NEW b \in Apps
      PROVE  StoredIn(d, b) = StoredIn(e, b) + (IF a = b THEN 1 ELSE 0)
  <2> DEFINE f == [u \in Tokens |-> e[u][b]]
             g == [u \in Tokens |-> d[u][b]]
  <2>1. StoredIn(e, b) = Total(f, Tokens) /\ StoredIn(d, b) = Total(g, Tokens)
    BY DEF StoredIn
  <2>2. Summable(f, Tokens) /\ f[t] \in Nat /\ Total(f, Tokens) \in Int
    BY <1>1, <2>1, StoredType
  <2>3. g[t] = f[t] + (IF a = b THEN 1 ELSE 0)
    <3>1. d[t] = [e[t] EXCEPT ![a] = @ + 1]
      BY <1>2
    <3>2. CASE a = b
      BY <1>1, <3>1, <3>2
    <3>3. CASE a # b
      <4>1. g[t] = f[t]
        BY <1>1, <3>1, <3>3
      <4> QED
        BY <2>2, <3>3, <4>1
    <3> QED
      BY <3>2, <3>3
  <2>4. \A u \in Tokens \ {t} : g[u] = f[u]
    BY <1>2
  <2> HIDE DEF f, g
  <2>5. g[t] \in Int
    BY <2>2, <2>3
  <2>6. Total(g, Tokens) = Total(f, Tokens) - f[t] + g[t]
    BY <2>2, <2>4, <2>5, TotalChange
  <2> QED
    BY <2>1, <2>2, <2>3, <2>6
<1> QED
  BY <1>3, <1>4 DEF d

(* An empty delta store has no usage.                                      *)
LEMMA EmptyStore ==
  /\ [t \in Tokens |-> Nothing] \in [Tokens -> Usages]
  /\ \A a \in Apps : StoredIn([t \in Tokens |-> Nothing], a) = 0
<1>1. ASSUME NEW a \in Apps PROVE StoredIn([t \in Tokens |-> Nothing], a) = 0
  <2> DEFINE f == [t \in Tokens |-> [u \in Tokens |-> Nothing][t][a]]
  <2>1. \A t \in Tokens : f[t] = 0
    BY DEF Nothing
  <2>2. StoredIn([t \in Tokens |-> Nothing], a) = Total(f, Tokens)
    BY DEF StoredIn
  <2> HIDE DEF f
  <2> QED
    BY <2>1, <2>2, TotalZero, FiniteAssumption
<1> QED
  BY <1>1 DEF Nothing, Usages

(* A flush of the store d, which has the usage of the messages taken.      *)
LEMMA FlushKeeps ==
  ASSUME SystemInv, NEW d \in [Tokens -> Usages], NEW keys \in SUBSET Apps,
         NEW tok \in [Apps -> Tokens], Flush(d, keys, tok),
         cache_keys' = keys, tokenOf' = tok, queue' \in Seq(Message),
         UNCHANGED <<cache, crashed, threescale, passed, arrived>>,
         \A b \in Apps : Queued(b)' + StoredIn(d, b) = Queued(b) + Stored(b),
         \A b \in Apps : Queued(b)' \in Nat
  PROVE  SystemInv'
<1>1. TypeOK /\ LedgerBalances
  BY DEF SystemInv
<1>2. UNCHANGED <<cached, left, crashed, valid, counted, passed, arrived>>
  BY DEF cache, threescale
<1>3. /\ calls' \in [Slots -> Call]
      /\ deltas' = [t \in Tokens |-> Nothing]
      /\ faults' \in 0 .. MaxFaults /\ lost' \in Usages
      /\ \A s \in Slots :
           \/ calls'[s] = calls[s]
           \/ /\ calls'[s].at = "sent"
              /\ calls'[s].kind # "report" => calls'[s].usage = Nothing
      /\ \A a \in Apps : Underway(a)' + lost'[a] = Underway(a) + lost[a] + StoredIn(d, a)
  BY <1>1, FlushMoves
<1>4. deltas' \in [Tokens -> Usages] /\ \A b \in Apps : Stored(b)' = 0
  BY <1>3, EmptyStore DEF Stored, StoredIn
<1>5. TypeOK'
  BY <1>1, <1>2, <1>3, <1>4 DEF TypeOK, Message
<1>6. \A b \in Apps : passed'[b] >= passed[b]
  BY <1>1, <1>2, LedgerTypes
<1>7. \A s \in Slots : CallIsConsistent(s)'
  BY <1>3, <1>5, <1>6, CallsKept
<1>8. QuotaNotLost'
  BY <1>5, <1>6, CacheKept
<1>9. ASSUME NEW b \in Apps
      PROVE  passed'[b] = Queued(b)' + Stored(b)' + Underway(b)' + counted'[b] + lost'[b]
  <2>1. passed[b] = Queued(b) + Stored(b) + Underway(b) + counted[b] + lost[b]
    BY <1>1 DEF LedgerBalances
  <2>2. lost'[b] \in Nat /\ Queued(b)' \in Nat /\ StoredIn(d, b) \in Nat
    BY <1>3, StoredType DEF Usages
  <2>3. Underway(b)' \in Nat
    <3>1. \A s \in Slots : [r \in Slots |-> Carried(r, b)'][s] \in Nat
      BY <1>3 DEF Carried, Call, Usages
    <3> QED
      BY <3>1, TotalNat, FiniteAssumption DEF Underway
  <2>4. /\ Underway(b)' + lost'[b] = Underway(b) + lost[b] + StoredIn(d, b)
        /\ Queued(b)' + StoredIn(d, b) = Queued(b) + Stored(b)
        /\ Stored(b)' = 0 /\ counted'[b] = counted[b] /\ passed'[b] = passed[b]
    BY <1>2, <1>3, <1>4
  <2>5. /\ Queued(b) \in Nat /\ Stored(b) \in Nat /\ Underway(b) \in Nat
        /\ counted[b] \in Nat /\ lost[b] \in Nat
    BY <1>1, LedgerTypes
  <2>6. Queued(b)' + Underway(b)' + lost'[b] = Queued(b) + Stored(b) + Underway(b) + lost[b]
    BY ONLY <2>2, <2>3, <2>4, <2>5
  <2>7. Queued(b)' + Stored(b)' + Underway(b)' + counted'[b] + lost'[b]
          = Queued(b)' + Underway(b)' + lost'[b] + counted[b]
    BY <2>2, <2>3, <2>4, <2>5
  <2> QED
    BY <2>1, <2>4, <2>5, <2>6, <2>7
<1> QED
  BY <1>5, <1>7, <1>8, <1>9 DEF SystemInv, LedgerBalances

(* The tick flushes the delta store as it is.                              *)
LEMMA OnTickKeeps ==
  ASSUME SystemInv, OnTick
  PROVE  SystemInv'
<1>1. TypeOK
  BY DEF SystemInv
<1>2. /\ deltas \in [Tokens -> Usages] /\ cache_keys \in SUBSET Apps
      /\ tokenOf \in [Apps -> Tokens] /\ queue \in Seq(Message)
  BY <1>1 DEF TypeOK, Message
<1>3. /\ Flush(deltas, cache_keys, tokenOf) /\ queue' = queue
      /\ UNCHANGED <<cache_keys, tokenOf, cache, crashed, threescale, passed, arrived>>
  BY DEF OnTick
<1>4. ASSUME NEW b \in Apps
      PROVE  /\ Queued(b)' + StoredIn(deltas, b) = Queued(b) + Stored(b)
             /\ Queued(b)' \in Nat
  <2>1. Queued(b)' = Queued(b)
    BY <1>3 DEF Queued
  <2> QED
    BY <1>1, <2>1, LedgerTypes
<1> QED
  BY <1>2, <1>3, <1>4, FlushKeeps

(* A message goes into the delta store, which is flushed when it is full.  *)
LEMMA OnQueueReadyKeeps ==
  ASSUME SystemInv, OnQueueReady
  PROVE  SystemInv'
<1> DEFINE m    == Head(queue)
           keys == cache_keys \cup {m.app}
           tok  == [tokenOf EXCEPT ![m.app] = IF m.app \in cache_keys THEN @ ELSE m.tok]
           d    == [deltas EXCEPT ![m.tok][m.app] = @ + 1]
<1>1. TypeOK /\ LedgerBalances /\ queue \in Seq(Message) /\ queue # <<>>
      /\ deltas \in [Tokens -> Usages]
  BY DEF SystemInv, OnQueueReady, TypeOK, Message
<1>2. /\ m \in Message /\ Tail(queue) \in Seq(Message)
      /\ m.app \in Apps /\ m.tok \in Tokens
  BY <1>1, PlacesTail DEF Message
<1>3. /\ cache_keys' = keys /\ tokenOf' = tok /\ queue' = Tail(queue)
      /\ \/ Flush(d, keys, tok)
         \/ deltas' = d /\ UNCHANGED <<calls, lost, faults>>
      /\ UNCHANGED <<cache, crashed, threescale, passed, arrived>>
  BY DEF OnQueueReady
<1>4. keys \in SUBSET Apps /\ tok \in [Apps -> Tokens]
  BY <1>1, <1>2 DEF TypeOK
<1>5. /\ d \in [Tokens -> Usages]
      /\ \A b \in Apps : StoredIn(d, b) = StoredIn(deltas, b) + (IF m.app = b THEN 1 ELSE 0)
  <2>1. d = Added(deltas, m.tok, m.app)
    BY DEF Added
  <2> HIDE DEF d, m
  <2> QED
    BY <1>1, <1>2, <2>1, DeltaAdded
<1>6. ASSUME NEW b \in Apps
      PROVE  Queued(b) = Queued(b)' + (IF m.app = b THEN 1 ELSE 0) /\ Queued(b)' \in Nat
  <2>1. Queued(b) = Cardinality(Places(queue, b))
    BY DEF Queued, Places
  <2>2. Queued(b)' = Cardinality(Places(Tail(queue), b))
    BY <1>3 DEF Queued, Places
  <2>3. Cardinality(Places(queue, b))
          = Cardinality(Places(Tail(queue), b)) + (IF m.app = b THEN 1 ELSE 0)
    BY <1>1, PlacesTail
  <2>4. Cardinality(Places(Tail(queue), b)) \in Nat
    BY <1>2, PlacesFinite
  <2> QED
    BY <2>1, <2>2, <2>3, <2>4
<1> HIDE DEF m, keys, tok, d
<1>7. ASSUME NEW b \in Apps
      PROVE  Queued(b)' + StoredIn(d, b) = Queued(b) + Stored(b)
  <2>1. Stored(b) = StoredIn(deltas, b) /\ Stored(b) \in Nat
    BY <1>1, LedgerTypes
  <2> QED
    BY <1>5, <1>6, <2>1
<1>8. CASE Flush(d, keys, tok)
  BY <1>2, <1>3, <1>4, <1>5, <1>6, <1>7, <1>8, FlushKeeps
<1>9. CASE deltas' = d /\ UNCHANGED <<calls, lost, faults>>
  <2>1. UNCHANGED <<cached, left, crashed, valid, counted, passed, arrived>>
    BY <1>3 DEF cache, threescale
  <2>2. TypeOK'
    BY <1>1, <1>2, <1>3, <1>4, <1>5, <1>9, <2>1 DEF TypeOK, Message
  <2>3. \A b \in Apps : passed'[b] >= passed[b]
    BY <1>1, <2>1, LedgerTypes
  <2>4. \A s \in Slots : CallIsConsistent(s)'
    BY <1>9, <2>2, <2>3, CallsKept
  <2>5. QuotaNotLost'
    BY <1>3, <2>2, <2>3, CacheKept
  <2>6. ASSUME NEW b \in Apps
        PROVE  passed'[b] = Queued(b)' + Stored(b)' + Underway(b)' + counted'[b] + lost'[b]
    <3>1. passed[b] = Queued(b) + Stored(b) + Underway(b) + counted[b] + lost[b]
      BY <1>1 DEF LedgerBalances
    <3>2. Stored(b)' = StoredIn(d, b) /\ Underway(b)' = Underway(b)
      BY <1>9, UnderwayKept DEF Stored, StoredIn
    <3>3. Queued(b)' + StoredIn(d, b) = Queued(b) + Stored(b)
      BY <1>7
    <3> QED
      BY <1>9, <2>1, <3>1, <3>2, <3>3
  <2> QED
    BY <2>2, <2>4, <2>5, <2>6 DEF SystemInv, LedgerBalances
<1> QED
  BY <1>3, <1>8, <1>9

-----------------------------------------------------------------------------
(* The network and 3scale *)

(* A step that concerns the call s moves what it carries, and may queue a  *)
(* request that it lets through.                                           *)
LEMMA SlotBalances ==
  ASSUME SystemInv, TypeOK', NEW s \in Slots, \A r \in Slots \ {s} : calls'[r] = calls[r],
         UNCHANGED deltas,
         \A a \in Apps :
           /\ Queued(a)' \in Nat
           /\ passed'[a] - Queued(a)' - lost'[a] - counted'[a] - Carried(s, a)'
                = passed[a] - Queued(a) - lost[a] - counted[a] - Carried(s, a)
  PROVE  LedgerBalances'
<1>1. TypeOK /\ LedgerBalances
  BY DEF SystemInv
<1>2. ASSUME NEW a \in Apps
      PROVE  passed'[a] = Queued(a)' + Stored(a)' + Underway(a)' + counted'[a] + lost'[a]
  <2>1. passed[a] = Queued(a) + Stored(a) + Underway(a) + counted[a] + lost[a]
    BY <1>1 DEF LedgerBalances
  <2>2. /\ Queued(a) \in Nat /\ Stored(a) \in Nat /\ Underway(a) \in Nat
        /\ counted[a] \in Nat /\ lost[a] \in Nat
    BY <1>1, LedgerTypes
  <2>3. /\ Carried(s, a) \in Nat /\ Carried(s, a)' \in Nat
        /\ Underway(a)' = Underway(a) - Carried(s, a) + Carried(s, a)'
    BY <1>1, SlotStep
  <2>4. /\ counted' \in Usages /\ lost' \in Usages /\ passed' \in Usages
    BY DEF TypeOK
  <2>5. counted'[a] \in Nat /\ lost'[a] \in Nat /\ passed'[a] \in Nat
    BY <2>4 DEF Usages
  <2>6. /\ Queued(a)' \in Nat /\ Stored(a)' = Stored(a)
        /\ passed'[a] - Queued(a)' - lost'[a] - counted'[a] - Carried(s, a)'
             = passed[a] - Queued(a) - lost[a] - counted[a] - Carried(s, a)
    BY DEF Stored
  <2>7. passed[a] \in Int /\ Underway(a)' \in Int
    BY <2>1, <2>2, <2>3
  <2>8. passed[a] - Queued(a) - lost[a] - counted[a] - Carried(s, a)
          = Stored(a) + Underway(a) - Carried(s, a)
    BY ONLY <2>1, <2>2, <2>3
  <2>9. Underway(a) - Carried(s, a) = Underway(a)' - Carried(s, a)'
    BY ONLY <2>2, <2>3, <2>7
  <2>10. passed'[a] - Queued(a)' - lost'[a] - counted'[a] = Stored(a) + Underway(a)'
    BY ONLY <2>2, <2>3, <2>5, <2>6, <2>7, <2>8, <2>9
  <2> QED
    BY ONLY <2>2, <2>5, <2>6, <2>7, <2>10
<1> QED
  BY <1>2 DEF LedgerBalances

(* The same when nothing is let through.                                   *)
LEMMA SlotBalancesStill ==
  ASSUME SystemInv, TypeOK', NEW s \in Slots, \A r \in Slots \ {s} : calls'[r] = calls[r],
         UNCHANGED <<queue, deltas, passed>>,
         \A a \in Apps :
           Carried(s, a)' + counted'[a] + lost'[a] = Carried(s, a) + counted[a] + lost[a]
  PROVE  LedgerBalances'
<1>1. TypeOK
  BY DEF SystemInv
<1>2. ASSUME NEW a \in Apps
      PROVE  /\ Queued(a)' \in Nat
             /\ passed'[a] - Queued(a)' - lost'[a] - counted'[a] - Carried(s, a)'
                  = passed[a] - Queued(a) - lost[a] - counted[a] - Carried(s, a)
  <2>1. Queued(a)' = Queued(a) /\ passed'[a] = passed[a]
    BY DEF Queued
  <2>2. /\ Queued(a) \in Nat /\ passed[a] \in Nat /\ counted[a] \in Nat /\ lost[a] \in Nat
        /\ Carried(s, a) \in Nat /\ Carried(s, a)' \in Nat
    BY <1>1, LedgerTypes, SlotStep
  <2>3. counted'[a] \in Nat /\ lost'[a] \in Nat
    BY DEF TypeOK, Usages
  <2>4. Carried(s, a)' + counted'[a] + lost'[a] = Carried(s, a) + counted[a] + lost[a]
    OBVIOUS
  <2> QED
    BY ONLY <2>1, <2>2, <2>3, <2>4
<1> QED
  BY <1>2, SlotBalances

(* A call that leaves its slot.                                            *)
LEMMA EndedCall ==
  ASSUME TypeOK, NEW s \in Slots, Ended(s)
  PROVE  /\ calls' \in [Slots -> Call] /\ calls'[s] = NoCall
         /\ \A r \in Slots \ {s} : calls'[r] = calls[r]
         /\ \A a \in Apps : Carried(s, a)' = 0
<1>1. NoCall \in Call /\ NoCall.kind = "none"
  BY CallTypes
<1>2. calls' = [calls EXCEPT ![s] = NoCall] /\ calls \in [Slots -> Call]
  BY DEF Ended, TypeOK
<1>3. calls' \in [Slots -> Call] /\ calls'[s] = NoCall
      /\ \A r \in Slots \ {s} : calls'[r] = calls[r]
  BY <1>1, <1>2
<1> QED
  BY <1>1, <1>3 DEF Carried, Serving

(* What the call s has to say for its slot.                                *)
LEMMA CarriedTypes ==
  ASSUME TypeOK, NEW s \in Slots, NEW a \in Apps
  PROVE  /\ calls[s] \in Call /\ calls[s].usage \in Usages /\ calls[s].usage[a] \in Nat
         /\ calls[s].app \in Apps /\ calls[s].tok \in Tokens /\ calls[s].left \in Int
         /\ Serving(s) => Carried(s, a) = calls[s].usage[a]
BY DEF TypeOK, Call, Usages, Carried

(* An empty slot is consistent.                                            *)
LEMMA NoCallConsistent ==
  ASSUME NEW s \in Slots, calls'[s] = NoCall
  PROVE  CallIsConsistent(s)'
BY CallTypes DEF CallIsConsistent

(* 3scale is done with a report, or with a call that carries nothing, whose *)
(* usage is then elsewhere.                                                *)
LEMMA ServedCall ==
  ASSUME SystemInv, NEW s \in Slots, NEW stage \in {"accepted", "refused"},
         Served(s, stage), Serving(s),
         calls[s].kind = "report" \/ stage = "refused"
  PROVE  /\ calls' \in [Slots -> Call]
         /\ \A r \in Slots \ {s} : calls'[r] = calls[r]
         /\ \A a \in Apps : Carried(s, a)' = 0
         /\ CallIsConsistent(s)'
<1>1. TypeOK /\ CallIsConsistent(s) /\ calls \in [Slots -> Call] /\ calls[s] \in Call
  BY DEF SystemInv, TypeOK
<1>2. CASE calls[s].at = "abandoned"
  <2>1. Ended(s)
    BY <1>1, <1>2 DEF Served, Ended
  <2> QED
    BY <1>1, <2>1, EndedCall, NoCallConsistent
<1>3. CASE calls[s].at # "abandoned"
  <2>1. [calls[s] EXCEPT !.at = stage] \in Call
    BY <1>1 DEF Call, Stages
  <2>2. calls' = [calls EXCEPT ![s] = [calls[s] EXCEPT !.at = stage]]
    BY <1>1, <1>3 DEF Served
  <2>3. /\ calls' \in [Slots -> Call] /\ \A r \in Slots \ {s} : calls'[r] = calls[r]
        /\ calls'[s] = [calls[s] EXCEPT !.at = stage]
    BY <1>1, <2>1, <2>2
  <2>4. /\ calls'[s].kind = calls[s].kind /\ calls'[s].at = stage
        /\ calls'[s].usage = calls[s].usage
    BY <1>1, <2>3 DEF Call
  <2>5. \A a \in Apps : Carried(s, a)' = 0
    BY <2>4 DEF Carried, Serving
  <2>6. CallIsConsistent(s)'
    BY <1>1, <2>4 DEF CallIsConsistent
  <2> QED
    BY <2>3, <2>5, <2>6
<1> QED
  BY <1>2, <1>3

(* A report that is served moves what it carries to the counters.          *)
LEMMA CountKeeps ==
  ASSUME SystemInv, NEW s \in Slots, Count(s)
  PROVE  SystemInv'
<1>1. TypeOK /\ Serving(s) /\ calls[s].kind = "report" /\ Served(s, "accepted")
      /\ counted' = [a \in Apps |-> counted[a] + calls[s].usage[a]]
      /\ UNCHANGED <<cached, left, queue, cache_keys, tokenOf, deltas, crashed, valid,
                     passed, lost, arrived, faults>>
  BY DEF SystemInv, Count, cache, singleton
<1>2. /\ calls' \in [Slots -> Call]
      /\ \A r \in Slots \ {s} : calls'[r] = calls[r]
      /\ \A a \in Apps : Carried(s, a)' = 0
      /\ CallIsConsistent(s)'
  BY <1>1, ServedCall
<1>3. \A a \in Apps : counted[a] \in Nat /\ lost[a] \in Nat /\ calls[s].usage[a] \in Nat
                      /\ Carried(s, a) = calls[s].usage[a] /\ passed[a] \in Nat
  BY <1>1, CarriedTypes, LedgerTypes
<1>4. TypeOK'
  <2>1. counted' \in Usages
    BY <1>1, <1>3 DEF Usages
  <2> QED
    BY <1>1, <1>2, <2>1 DEF TypeOK
<1>5. \A a \in Apps :
        Carried(s, a)' + counted'[a] + lost'[a] = Carried(s, a) + counted[a] + lost[a]
  BY <1>1, <1>2, <1>3
<1>6. LedgerBalances'
  BY <1>1, <1>2, <1>4, <1>5, SlotBalancesStill
<1>7. \A a \in Apps : passed'[a] >= passed[a]
  BY <1>1, <1>3
<1>8. \A r \in Slots : CallIsConsistent(r)'
  <2>1. \A r \in Slots \ {s} : CallIsConsistent(r)'
    BY <1>1, <1>2 DEF SystemInv, CallIsConsistent
  <2> QED
    BY <1>2, <2>1
<1>9. QuotaNotLost'
  BY <1>1, <1>4, <1>7, CacheKept DEF cache
<1> QED
  BY <1>4, <1>6, <1>8, <1>9 DEF SystemInv

(* What 3scale has counted was let through.                                *)
LEMMA CountedWasPassed ==
  ASSUME SystemInv, NEW a \in Apps
  PROVE  counted[a] \in Nat /\ passed[a] \in Nat /\ counted[a] <= passed[a]
<1>1. passed[a] = Queued(a) + Stored(a) + Underway(a) + counted[a] + lost[a] /\ TypeOK
  BY DEF SystemInv, LedgerBalances
<1> QED
  BY <1>1, LedgerTypes

(* What an answer leaves, in unsigned arithmetic: if it is below zero it   *)
(* becomes more than the limit, or as much.                                *)
LEMMA WhatRemains ==
  ASSUME NEW n \in Int, NEW p \in Nat, n <= Limit, n + p >= Limit
  PROVE  n % Word \in Nat /\ (n % Word) + p >= Limit
<1>1. Word \in Nat /\ Word > 0 /\ Limit \in Nat /\ Limit < Word
  OBVIOUS
<1>2. n % Word \in 0 .. Word - 1
  BY <1>1
<1>3. CASE n >= 0
  <2>1. n \in 0 .. Word - 1
    BY <1>1, <1>3
  <2>2. n % Word = n
    BY <1>1, <2>1
  <2> QED
    BY <1>1, <1>2, <2>2
<1>4. CASE n < 0
  BY <1>1, <1>2, <1>4
<1> QED
  BY <1>3, <1>4

(* An answer to an authorize call has what remains of the limit.           *)
LEMMA AcceptKeeps ==
  ASSUME SystemInv, NEW s \in Slots, Accept(s)
  PROVE  SystemInv'
<1> DEFINE n == Limit - counted[calls[s].app]
<1>1. /\ TypeOK /\ calls \in [Slots -> Call] /\ Serving(s) /\ calls[s].kind # "report"
      /\ calls' = [calls EXCEPT ![s].at = "accepted", ![s].left = n]
      /\ UNCHANGED <<cached, left, queue, cache_keys, tokenOf, deltas, crashed, valid,
                     counted, passed, lost, arrived, faults>>
  BY DEF SystemInv, Accept, cache, singleton, threescale, TypeOK
<1>2. /\ calls[s] \in Call /\ calls[s].app \in Apps
      /\ calls[s].usage = Nothing
  BY <1>1 DEF SystemInv, CallIsConsistent, Call
<1>3. counted[calls[s].app] \in Nat /\ passed[calls[s].app] \in Nat
      /\ counted[calls[s].app] <= passed[calls[s].app]
  BY <1>2, CountedWasPassed
<1>4. n \in Int /\ n <= Limit /\ n + passed[calls[s].app] >= Limit
  BY <1>3
<1> HIDE DEF n
<1>5. /\ calls' = [calls EXCEPT ![s] = [calls[s] EXCEPT !.at = "accepted", !.left = n]]
      /\ [calls[s] EXCEPT !.at = "accepted", !.left = n] \in Call
  BY <1>1, <1>2, <1>4 DEF Call, Stages
<1>6. /\ calls' \in [Slots -> Call]
      /\ \A r \in Slots \ {s} : calls'[r] = calls[r]
      /\ calls'[s] = [calls[s] EXCEPT !.at = "accepted", !.left = n]
  BY <1>1, <1>5
<1>7. /\ calls'[s].kind # "report" /\ calls'[s].usage = Nothing /\ calls'[s].left = n
      /\ calls'[s].at = "accepted" /\ calls'[s].app = calls[s].app
  BY <1>1, <1>2, <1>6 DEF Call
<1>8. TypeOK'
  BY <1>1, <1>6 DEF TypeOK
<1>9. \A a \in Apps :
        Carried(s, a)' + counted'[a] + lost'[a] = Carried(s, a) + counted[a] + lost[a]
  BY <1>1, <1>2, <1>7 DEF Carried, Serving, Nothing
<1>10. LedgerBalances'
  BY <1>1, <1>6, <1>8, <1>9, SlotBalancesStill
<1>11. \A r \in Slots : CallIsConsistent(r)'
  <2>1. CallIsConsistent(s)'
    BY <1>1, <1>4, <1>7 DEF CallIsConsistent
  <2>2. \A r \in Slots \ {s} : CallIsConsistent(r)'
    BY <1>1, <1>6 DEF SystemInv, CallIsConsistent
  <2> QED
    BY <2>1, <2>2
<1>12. \A a \in Apps : passed'[a] >= passed[a]
  BY <1>1, LedgerTypes
<1>13. QuotaNotLost'
  BY <1>1, <1>8, <1>12, CacheKept DEF cache
<1> QED
  BY <1>8, <1>10, <1>11, <1>13 DEF SystemInv

(* What a call that is dropped carries is lost.                            *)
LEMMA DropMoves ==
  ASSUME TypeOK, NEW s \in Slots, Serving(s), Drop(s), UNCHANGED counted,
         \A a \in Apps : Carried(s, a)' = 0
  PROVE  /\ lost' \in Usages
         /\ \A a \in Apps :
              Carried(s, a)' + counted'[a] + lost'[a] = Carried(s, a) + counted[a] + lost[a]
<1>1. \A a \in Apps : counted[a] \in Nat /\ lost[a] \in Nat /\ calls[s].usage[a] \in Nat
                      /\ Carried(s, a) = calls[s].usage[a]
  BY CarriedTypes, LedgerTypes
<1>2. lost' = [a \in Apps |-> lost[a] + calls[s].usage[a]]
  BY DEF Drop
<1>3. lost' \in Usages
  BY <1>1, <1>2 DEF Usages
<1>4. ASSUME NEW a \in Apps
      PROVE  Carried(s, a)' + counted'[a] + lost'[a] = Carried(s, a) + counted[a] + lost[a]
  <2>1. /\ lost'[a] = lost[a] + calls[s].usage[a] /\ Carried(s, a)' = 0
        /\ counted'[a] = counted[a]
    BY <1>2
  <2>2. counted[a] \in Nat /\ lost[a] \in Nat /\ calls[s].usage[a] \in Nat
        /\ Carried(s, a) = calls[s].usage[a]
    BY <1>1
  <2> QED
    BY ONLY <2>1, <2>2
<1> QED
  BY <1>3, <1>4

(* A step that only concerns the call s, whose usage it keeps or drops, and*)
(* leaves it consistent.                                                   *)
LEMMA SlotKeeps ==
  ASSUME SystemInv, NEW s \in Slots, calls' \in [Slots -> Call],
         \A r \in Slots \ {s} : calls'[r] = calls[r], CallIsConsistent(s)',
         UNCHANGED <<cache, queue, singleton, threescale, passed, arrived>>,
         crashed' \in BOOLEAN, faults' \in 0 .. MaxFaults, lost' \in Usages,
         \A a \in Apps :
           Carried(s, a)' + counted'[a] + lost'[a] = Carried(s, a) + counted[a] + lost[a]
  PROVE  SystemInv'
<1>1. TypeOK /\ UNCHANGED <<cached, left, queue, cache_keys, tokenOf, deltas, valid, counted,
                           passed, arrived>>
  BY DEF SystemInv, cache, singleton, threescale
<1>2. TypeOK'
  BY <1>1 DEF TypeOK
<1>3. LedgerBalances'
  BY <1>1, <1>2, SlotBalancesStill
<1>4. \A r \in Slots : CallIsConsistent(r)'
  <2>1. \A r \in Slots \ {s} : CallIsConsistent(r)'
    BY <1>1 DEF SystemInv, CallIsConsistent
  <2> QED
    BY <2>1
<1>5. \A a \in Apps : passed'[a] >= passed[a]
  BY <1>1, LedgerTypes
<1>6. QuotaNotLost'
  BY <1>2, <1>5, CacheKept
<1> QED
  BY <1>2, <1>3, <1>4, <1>6 DEF SystemInv

(* The usage of a report that is refused is lost.                          *)
LEMMA RefuseKeeps ==
  ASSUME SystemInv, NEW s \in Slots, Refuse(s)
  PROVE  SystemInv'
<1>1. /\ TypeOK /\ Serving(s) /\ Drop(s)
      /\ UNCHANGED <<cache, queue, singleton, threescale, passed, arrived>>
      /\ UNCHANGED counted /\ crashed' \in BOOLEAN /\ faults' \in 0 .. MaxFaults
  BY DEF SystemInv, Refuse, TypeOK, threescale
<1>2. /\ calls' \in [Slots -> Call] /\ \A r \in Slots \ {s} : calls'[r] = calls[r]
      /\ CallIsConsistent(s)' /\ \A a \in Apps : Carried(s, a)' = 0
  <2>1. CASE Ended(s)
    BY <1>1, <2>1, EndedCall, NoCallConsistent
  <2>2. CASE Served(s, "refused")
    BY <1>1, <2>2, ServedCall
  <2> QED
    BY <2>1, <2>2 DEF Refuse
<1>3. /\ lost' \in Usages
      /\ \A a \in Apps :
           Carried(s, a)' + counted'[a] + lost'[a] = Carried(s, a) + counted[a] + lost[a]
  BY <1>1, <1>2, DropMoves
<1> QED
  BY <1>1, <1>2, <1>3, SlotKeeps

(* So is that of one that never arrives.                                   *)
LEMMA VanishKeeps ==
  ASSUME SystemInv, NEW s \in Slots, Vanish(s)
  PROVE  SystemInv'
<1>1. /\ TypeOK /\ Serving(s) /\ Drop(s) /\ Ended(s)
      /\ UNCHANGED <<cache, queue, singleton, threescale, passed, arrived>>
      /\ UNCHANGED counted /\ crashed' \in BOOLEAN /\ faults' \in 0 .. MaxFaults
  BY DEF SystemInv, CallIsConsistent, Serving, Vanish, TypeOK, threescale
<1>2. /\ calls' \in [Slots -> Call] /\ calls'[s] = NoCall
      /\ \A r \in Slots \ {s} : calls'[r] = calls[r]
      /\ \A a \in Apps : Carried(s, a)' = 0
  BY <1>1, EndedCall
<1>3. CallIsConsistent(s)'
  BY <1>2, NoCallConsistent
<1>4. /\ lost' \in Usages
      /\ \A a \in Apps :
           Carried(s, a)' + counted'[a] + lost'[a] = Carried(s, a) + counted[a] + lost[a]
  BY <1>1, <1>2, DropMoves
<1> QED
  BY <1>1, <1>2, <1>3, <1>4, SlotKeeps

(* A call that carries nothing may leave its slot; a report that is given  *)
(* up before it is served goes on to carry what it does.                   *)
LEMMA GivenUpKeeps ==
  ASSUME SystemInv, NEW s \in Slots, GivenUp(s), crashed' \in BOOLEAN,
         UNCHANGED <<cache, queue, singleton, threescale, passed, lost, arrived>>
  PROVE  SystemInv'
<1>1. /\ TypeOK /\ calls \in [Slots -> Call] /\ calls[s].at # "abandoned"
      /\ CallIsConsistent(s) /\ calls[s].kind # "none"
      /\ UNCHANGED <<counted, lost>> /\ faults' \in 0 .. MaxFaults /\ lost' \in Usages
  BY DEF SystemInv, GivenUp, Fault, TypeOK, threescale
<1>2. \A a \in Apps : counted[a] \in Nat /\ lost[a] \in Nat
  BY <1>1, LedgerTypes
<1>3. CASE calls[s].kind = "report" /\ calls[s].at = "sent"
  <2>1. calls[s] \in Call /\ [calls[s] EXCEPT !.at = "abandoned"] \in Call
    BY <1>1 DEF Call, Stages
  <2>2. calls' = [calls EXCEPT ![s] = [calls[s] EXCEPT !.at = "abandoned"]]
    BY <1>1, <1>3 DEF GivenUp
  <2>3. /\ calls' \in [Slots -> Call] /\ \A r \in Slots \ {s} : calls'[r] = calls[r]
        /\ calls'[s] = [calls[s] EXCEPT !.at = "abandoned"]
    BY <1>1, <2>1, <2>2
  <2>4. /\ calls'[s].kind = "report" /\ calls'[s].at = "abandoned"
        /\ calls'[s].usage = calls[s].usage
    BY <1>3, <2>1, <2>3 DEF Call
  <2>5. CallIsConsistent(s)' /\ \A a \in Apps : Carried(s, a)' = Carried(s, a)
    BY <1>1, <1>3, <2>1, <2>4 DEF CallIsConsistent, Carried, Serving
  <2>6. \A a \in Apps :
          Carried(s, a)' + counted'[a] + lost'[a] = Carried(s, a) + counted[a] + lost[a]
    BY <1>1, <2>5
  <2> QED
    BY <1>1, <2>3, <2>5, <2>6, SlotKeeps
<1>4. CASE ~ (calls[s].kind = "report" /\ calls[s].at = "sent")
  <2>1. Ended(s)
    BY <1>1, <1>4 DEF GivenUp, Ended
  <2>2. /\ calls' \in [Slots -> Call] /\ calls'[s] = NoCall
        /\ \A r \in Slots \ {s} : calls'[r] = calls[r]
        /\ \A a \in Apps : Carried(s, a)' = 0
    BY <1>1, <2>1, EndedCall
  <2>3. CallIsConsistent(s)'
    BY <2>2, NoCallConsistent
  <2>4. \A a \in Apps : Carried(s, a) = 0
    BY <1>1, <1>4 DEF CallIsConsistent, Carried, Serving, Nothing
  <2>5. \A a \in Apps :
          Carried(s, a)' + counted'[a] + lost'[a] = Carried(s, a) + counted[a] + lost[a]
    BY <1>1, <1>2, <2>2, <2>4
  <2> QED
    BY <1>1, <2>2, <2>3, <2>5, SlotKeeps
<1> QED
  BY <1>3, <1>4

(* An answer that is late, unusable or fatal is one that was given up.     *)
LEMMA TimeoutKeeps ==
  ASSUME SystemInv, NEW s \in Slots, Timeout(s) \/ NoHeaders(s)
  PROVE  SystemInv'
<1>1. crashed \in BOOLEAN
  BY DEF SystemInv, TypeOK
<1> QED
  BY <1>1, GivenUpKeeps DEF Timeout, NoHeaders

(* A call whose answer changes nothing leaves its slot.                    *)
LEMMA IgnoredKeeps ==
  ASSUME SystemInv, NEW s \in Slots, Ignored(s)
  PROVE  SystemInv'
<1>1. /\ TypeOK /\ Ended(s) /\ calls[s].at \in {"accepted", "refused"}
      /\ UNCHANGED <<cache, queue, singleton, threescale, passed, arrived, counted, lost>>
      /\ crashed' \in BOOLEAN /\ faults' \in 0 .. MaxFaults /\ lost' \in Usages
  BY DEF SystemInv, Ignored, TypeOK, threescale
<1>2. /\ calls' \in [Slots -> Call] /\ calls'[s] = NoCall
      /\ \A r \in Slots \ {s} : calls'[r] = calls[r]
      /\ \A a \in Apps : Carried(s, a)' = 0
  BY <1>1, EndedCall
<1>3. CallIsConsistent(s)'
  BY <1>2, NoCallConsistent
<1>4. \A a \in Apps : Carried(s, a) = 0
  BY <1>1 DEF Carried, Serving
<1>5. \A a \in Apps :
        Carried(s, a)' + counted'[a] + lost'[a] = Carried(s, a) + counted[a] + lost[a]
  BY <1>1, <1>2, <1>4
<1> QED
  BY <1>1, <1>2, <1>3, <1>5, SlotKeeps

(* A token that is revoked changes no account.                             *)
LEMMA RevokeKeeps ==
  ASSUME SystemInv, NEW t \in Retiring, Revoke(t)
  PROVE  SystemInv'
<1>1. /\ TypeOK /\ LedgerBalances /\ valid' = valid \ {t}
      /\ UNCHANGED <<cached, left, queue, cache_keys, tokenOf, deltas, crashed, calls, counted,
                     passed, lost, arrived>>
      /\ faults' \in 0 .. MaxFaults
  BY DEF SystemInv, Revoke, Fault, TypeOK, cache, singleton
<1>2. TypeOK'
  BY <1>1 DEF TypeOK
<1>3. \A a \in Apps : /\ Queued(a)' = Queued(a) /\ Stored(a)' = Stored(a)
                      /\ Underway(a)' = Underway(a)
  BY <1>1, UnderwayKept DEF Queued, Stored
<1>4. LedgerBalances'
  BY <1>1, <1>3 DEF LedgerBalances
<1> QED
  BY <1>1, <1>2, <1>4 DEF SystemInv, CallIsConsistent, QuotaNotLost

-----------------------------------------------------------------------------
(* The answers *)

(* An answer that was used leaves what remains of the limit.               *)
LEMMA AnswerLeaves ==
  ASSUME SystemInv, NEW s \in Slots, calls[s].kind # "report", calls[s].at = "accepted"
  PROVE  /\ calls[s].app \in Apps /\ calls[s].tok \in Tokens
         /\ LeftHits(s) \in Nat /\ LeftHits(s) + passed[calls[s].app] >= Limit
<1>1. /\ TypeOK /\ calls[s].app \in Apps /\ calls[s].tok \in Tokens
      /\ calls[s].left \in Int /\ calls[s].left <= Limit
      /\ calls[s].left + passed[calls[s].app] >= Limit
  BY DEF SystemInv, CallIsConsistent, TypeOK, Call
<1>2. passed[calls[s].app] \in Nat
  BY <1>1, LedgerTypes
<1> QED
  BY <1>1, <1>2, WhatRemains DEF LeftHits

(* A filter is answered: its request is charged to what it was told, or it *)
(* is trapped.                                                             *)
LEMMA FetchedKeeps ==
  ASSUME SystemInv, NEW s \in Slots, Fetched(s)
  PROVE  SystemInv'
<1>1. /\ TypeOK /\ Ended(s) /\ calls[s].kind = "fetch" /\ calls[s].at = "accepted"
      /\ UNCHANGED <<cache_keys, tokenOf, deltas, crashed, valid, counted, arrived>>
  BY DEF SystemInv, Fetched, singleton, threescale
<1>2. /\ calls' \in [Slots -> Call] /\ calls'[s] = NoCall
      /\ \A r \in Slots \ {s} : calls'[r] = calls[r]
      /\ \A a \in Apps : Carried(s, a)' = 0
  BY <1>1, EndedCall
<1>3. \A a \in Apps : Carried(s, a) = 0
  BY <1>1 DEF Carried, Serving
<1>4. CASE Charge(calls[s].app, calls[s].tok, LeftHits(s))
  <2>1. /\ cached' \subseteq Apps /\ left' \in Usages
        /\ queue' \in Seq(Message) /\ passed' \in Usages
        /\ lost' \in Usages /\ faults' \in 0 .. MaxFaults
        /\ \A b \in Apps :
             /\ passed'[b] >= passed[b] /\ Queued(b)' \in Nat
             /\ passed'[b] - Queued(b)' - lost'[b] = passed[b] - Queued(b) - lost[b]
        /\ QuotaNotLost'
    BY <1>1, <1>4, AnswerLeaves, ChargeKeeps
  <2>2. TypeOK'
    BY <1>1, <1>2, <2>1 DEF TypeOK, Message
  <2>3. ASSUME NEW a \in Apps
        PROVE  passed'[a] - Queued(a)' - lost'[a] - counted'[a] - Carried(s, a)'
                 = passed[a] - Queued(a) - lost[a] - counted[a] - Carried(s, a)
    <3>1. passed'[a] - Queued(a)' - lost'[a] = passed[a] - Queued(a) - lost[a]
      BY <2>1
    <3>2. counted'[a] = counted[a] /\ Carried(s, a)' = 0 /\ Carried(s, a) = 0
      BY <1>1, <1>2, <1>3
    <3> QED
      BY <3>1, <3>2
  <2>4. LedgerBalances'
    BY <1>1, <1>2, <2>1, <2>2, <2>3, SlotBalances
  <2>5. \A r \in Slots : CallIsConsistent(r)'
    BY <1>2, <2>1, <2>2, CallsKept
  <2> QED
    BY <2>1, <2>2, <2>4, <2>5 DEF SystemInv
<1>5. CASE UNCHANGED <<cache, queue, passed, lost, faults>>
  <2>1. /\ UNCHANGED <<cache, queue, singleton, threescale, passed, arrived, lost>>
        /\ crashed' \in BOOLEAN /\ faults' \in 0 .. MaxFaults /\ lost' \in Usages
    BY <1>1, <1>5 DEF singleton, threescale, TypeOK
  <2>2. \A a \in Apps :
          Carried(s, a)' + counted'[a] + lost'[a] = Carried(s, a) + counted[a] + lost[a]
    BY <1>1, <1>2, <1>3, <2>1
  <2>3. CallIsConsistent(s)'
    BY <1>2, NoCallConsistent
  <2> QED
    BY <1>2, <2>1, <2>2, <2>3, SlotKeeps
<1> QED
  BY <1>4, <1>5 DEF Fetched

(* The singleton is answered: it overwrites or removes the application, or *)
(* it is trapped.                                                          *)
LEMMA RefreshedKeeps ==
  ASSUME SystemInv, NEW s \in Slots, Refreshed(s) \/ Removed(s)
  PROVE  SystemInv'
<1>1. /\ TypeOK /\ Ended(s) /\ calls[s].kind = "auth"
      /\ calls[s].at \in {"accepted", "refused"}
      /\ UNCHANGED <<queue, deltas, valid, counted, passed, lost, arrived, faults>>
  BY DEF SystemInv, Refreshed, Removed, singleton, threescale
<1>2. /\ calls[s].app \in Apps /\ left \in Usages /\ passed \in Usages
      /\ NoCall.tok \in Tokens /\ cached \subseteq Apps
  BY <1>1, CallTypes DEF TypeOK, Call
<1>3. /\ calls' \in [Slots -> Call] /\ calls'[s] = NoCall
      /\ \A r \in Slots \ {s} : calls'[r] = calls[r]
      /\ \A a \in Apps : Carried(s, a)' = 0
  BY <1>1, EndedCall
<1>4. \A a \in Apps : Carried(s, a) = 0
  BY <1>1 DEF Carried, Serving
<1>5. \A a \in Apps :
        Carried(s, a)' + counted'[a] + lost'[a] = Carried(s, a) + counted[a] + lost[a]
  BY <1>1, <1>3, <1>4
<1>6. \A a \in Apps : passed'[a] >= passed[a]
  BY <1>1, LedgerTypes
<1>7. TypeOK' /\ QuotaNotLost'
  <2>1. CASE /\ calls[s].at = "accepted" /\ UNCHANGED <<crashed, cache_keys, tokenOf>>
             /\ cached' = cached \cup {calls[s].app}
             /\ left' = [left EXCEPT ![calls[s].app] = LeftHits(s)]
    <3>1. LeftHits(s) \in Nat /\ LeftHits(s) + passed[calls[s].app] >= Limit
      BY <1>1, <2>1, AnswerLeaves
    <3>2. left' \in Usages
      BY <1>2, <2>1, <3>1 DEF Usages
    <3>3. TypeOK'
      BY <1>1, <1>2, <1>3, <2>1, <3>2 DEF TypeOK
    <3>4. ASSUME NEW a \in cached' PROVE left'[a] + passed'[a] >= Limit
      BY <1>1, <1>2, <2>1, <3>1 DEF SystemInv, QuotaNotLost, Usages
    <3> QED
      BY <3>3, <3>4 DEF QuotaNotLost
  <2>2. CASE Removed(s)
    <3>1. /\ cached' = cached \ {calls[s].app} /\ UNCHANGED crashed
          /\ left' = [left EXCEPT ![calls[s].app] = 0]
          /\ cache_keys' = cache_keys \ {calls[s].app}
          /\ tokenOf' = [tokenOf EXCEPT ![calls[s].app] = NoCall.tok]
      BY <2>2 DEF Removed
    <3>2. left' \in Usages /\ tokenOf' \in [Apps -> Tokens]
      BY <1>1, <1>2, <3>1 DEF Usages, TypeOK
    <3>3. TypeOK'
      BY <1>1, <1>3, <3>1, <3>2 DEF TypeOK
    <3>4. ASSUME NEW a \in cached' PROVE left'[a] + passed'[a] >= Limit
      BY <1>1, <1>2, <3>1 DEF SystemInv, QuotaNotLost, Usages
    <3> QED
      BY <3>3, <3>4 DEF QuotaNotLost
  <2>3. CASE crashed' = TRUE /\ UNCHANGED <<cache, cache_keys, tokenOf>>
    <3>1. TypeOK'
      BY <1>1, <1>3, <2>3 DEF TypeOK, cache
    <3> QED
      BY <1>6, <2>3, <3>1, CacheKept
  <2> QED
    BY <2>1, <2>2, <2>3 DEF Refreshed, singleton
<1>8. LedgerBalances'
  BY <1>1, <1>3, <1>5, <1>7, SlotBalancesStill
<1>9. \A r \in Slots : CallIsConsistent(r)'
  BY <1>3, <1>6, <1>7, CallsKept
<1> QED
  BY <1>7, <1>8, <1>9 DEF SystemInv

-----------------------------------------------------------------------------
(* The theorems *)

(* At first nothing is cached, nothing has been let through and no call is *)
(* under way.                                                              *)
LEMMA InitSystemInv == Init => SystemInv
<1> SUFFICES ASSUME Init PROVE SystemInv
  OBVIOUS
<1>1. Nothing \in Usages /\ NoCall \in Call /\ NoCall.tok \in Tokens
      /\ NoCall.kind = "none" /\ NoCall.usage = Nothing /\ NoCall.at = "sent"
  BY CallTypes DEF Nothing, Usages, Call
<1>2. TypeOK
  <2>1. deltas \in [Tokens -> Usages] /\ calls \in [Slots -> Call] /\ queue \in Seq(Message)
    BY <1>1 DEF Init
  <2>2. {counted, passed, lost} \subseteq Usages /\ left \in Usages
    BY <1>1 DEF Init
  <2>3. crashed \in BOOLEAN
    BY DEF Init
  <2>4. arrived \in 0 .. MaxRequests /\ faults \in 0 .. MaxFaults
    BY DEF Init
  <2>5. /\ cached \subseteq Apps /\ cache_keys \subseteq Apps
        /\ tokenOf \in [Apps -> Tokens] /\ valid \subseteq Tokens
    BY <1>1 DEF Init
  <2> QED
    BY <2>1, <2>2, <2>3, <2>4, <2>5 DEF TypeOK, Message
<1>3. \A s \in Slots : calls[s] = NoCall
  BY DEF Init
<1>4. \A s \in Slots : CallIsConsistent(s)
  BY <1>1, <1>3 DEF CallIsConsistent
<1>5. ASSUME NEW a \in Apps
      PROVE  passed[a] = Queued(a) + Stored(a) + Underway(a) + counted[a] + lost[a]
  <2>1. Queued(a) = 0
    <3>1. {i \in 1 .. Len(queue) : queue[i].app = a} = {}
      BY DEF Init
    <3> QED
      BY <3>1, FS_EmptySet DEF Queued
  <2>2. Stored(a) = 0
    BY EmptyStore DEF Init, Stored, StoredIn
  <2>3. Underway(a) = 0
    <3>1. \A s \in Slots : [r \in Slots |-> Carried(r, a)][s] = 0
      BY <1>1, <1>3 DEF Carried, Serving
    <3> QED
      BY <3>1, TotalZero, FiniteAssumption DEF Underway
  <2>4. passed[a] = 0 /\ counted[a] = 0 /\ lost[a] = 0
    BY DEF Init, Nothing
  <2> QED
    BY <2>1, <2>2, <2>3, <2>4
<1>6. QuotaNotLost
  BY DEF Init, QuotaNotLost
<1> QED
  BY <1>2, <1>4, <1>5, <1>6 DEF SystemInv, LedgerBalances

(* Every step keeps the invariant.                                         *)
LEMMA NextSystemInv == SystemInv /\ [Next]_vars => SystemInv'
<1>1. ASSUME SystemInv, Next PROVE SystemInv'
  BY <1>1, HitKeeps, MissKeeps, GiveUpKeeps, OnQueueReadyKeeps, OnTickKeeps, CountKeeps,
     AcceptKeeps, RefuseKeeps, VanishKeeps, FetchedKeeps, RefreshedKeeps, IgnoredKeeps,
     TimeoutKeeps, RevokeKeeps DEF Next, Network, Response
<1>2. ASSUME SystemInv, UNCHANGED vars PROVE SystemInv'
  <2>1. UNCHANGED <<cached, left, queue, cache_keys, tokenOf, deltas, crashed, calls, valid,
                    counted, passed, lost, arrived, faults>>
    BY <1>2 DEF vars, cache, singleton, threescale
  <2>2. \A a \in Apps : /\ Queued(a)' = Queued(a) /\ Stored(a)' = Stored(a)
                        /\ Underway(a)' = Underway(a)
    BY <2>1, UnderwayKept DEF Queued, Stored
  <2> QED
    BY <1>2, <2>1, <2>2 DEF SystemInv, TypeOK, LedgerBalances, CallIsConsistent, QuotaNotLost
<1> QED
  BY <1>1, <1>2

(* The invariant of the system: the types, the ledger, consistent calls    *)
(* and the quota.                                                          *)
THEOREM SystemInvariance == Spec => []SystemInv
<1> QED
  BY InitSystemInv, NextSystemInv, PTL DEF Spec

(* Every variable keeps its type; in particular what is left never goes    *)
(* below zero, however far the counter is beyond the limit.                *)
THEOREM SystemTyping == Spec => []TypeOK
<1>1. SystemInv => TypeOK
  BY DEF SystemInv
<1> QED
  BY <1>1, SystemInvariance, PTL

(* Each request that was let through is a message, in the delta store, in  *)
(* a report under way, counted by 3scale or known to be lost, and in one   *)
(* of these only, whatever times out, is refused or never arrives.         *)
THEOREM LedgerIsBalanced == Spec => []LedgerBalances
<1>1. SystemInv => LedgerBalances
  BY DEF SystemInv
<1> QED
  BY <1>1, SystemInvariance, PTL

(* With n hits left in the cache at least Limit - n requests have been let *)
(* through: stale answers and overwrites by the singleton may let more     *)
(* pass, and never fewer.                                                  *)
THEOREM QuotaIsNotLost == Spec => []QuotaNotLost
<1>1. SystemInv => QuotaNotLost
  BY DEF SystemInv
<1> QED
  BY <1>1, SystemInvariance, PTL
=============================================================================
