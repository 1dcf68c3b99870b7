----------------------------- MODULE SumTheorems -----------------------------
(***************************************************************************)
(* Facts about Total: its type, what it is for the empty set and for one   *)
(* more element, what a change of one summand does to it, and that it      *)
(* takes a bijection and adds up.                                          *)
(*                                                                         *)
(* Total is a fold, and a fold is a recursive function, which the logic    *)
(* takes to be a CHOOSE.  That such a function exists is shown first: a    *)
(* function that adds up in any order (Additive) is built one element at a *)
(* time, and it satisfies the recursive equation of the fold.  Inductions  *)
(* are over the set of the sets that have a property (SetInduction), since *)
(* strict inclusion of finite sets is well-founded.                        *)
(***************************************************************************)
EXTENDS Sums, FiniteSetTheorems, TLAPS

(* Among subsets of a finite set there is one that includes no other.      *)
LEMMA SmallestSet ==
  ASSUME NEW S, IsFiniteSet(S), NEW G, G \subseteq SUBSET S, G # {}
  PROVE  \E T \in G : \A U \in G : U \subseteq T => U = T
<1>1. IsWellFoundedOn(StrictSubsetOrdering(S), SUBSET S)
  BY FS_StrictSubsetOrderingWellFounded, FS_FiniteSubsetsOfFinite
<1>2. PICK T \in G : \A U \in G : <<U, T>> \notin StrictSubsetOrdering(S)
  BY <1>1, WFMin
<1> QED
  BY <1>2 DEF StrictSubsetOrdering

(* A set of sets that has the empty set and can always grow by an element  *)
(* of a finite set has that finite set.                                    *)
LEMMA SetInduction ==
  ASSUME NEW S, IsFiniteSet(S), NEW G, {} \in G,
         \A T \in SUBSET S : \A x \in S \ T : T \in G => T \cup {x} \in G
  PROVE  S \in G
<1> DEFINE Bad == {T \in SUBSET S : T \notin G}
<1> SUFFICES ASSUME Bad # {} PROVE FALSE
  OBVIOUS
<1>0. Bad \subseteq SUBSET S
  OBVIOUS
<1> HIDE DEF Bad
<1>1. PICK T \in Bad : \A U \in Bad : U \subseteq T => U = T
  BY <1>0, SmallestSet
<1> USE DEF Bad
<1>2. PICK x \in T : TRUE
  OBVIOUS
<1>3. T \ {x} \in G /\ (T \ {x}) \cup {x} = T
  BY <1>1, <1>2
<1> QED
  BY <1>2, <1>3

-----------------------------------------------------------------------------
(* The fold is well defined *)

(* g has the sum of f over each subset of S, whatever is added last.       *)
Additive(g, f, S) ==
  /\ g \in [SUBSET S -> Int]
  /\ g[{}] = 0
  /\ \A T \in SUBSET S : \A x \in T : g[T] = f[x] + g[T \ {x}]

(* There is such a function for each finite set.                           *)
LEMMA AdditiveExists ==
  ASSUME NEW S, IsFiniteSet(S), NEW f, \A x \in S : f[x] \in Int
  PROVE  \E g : Additive(g, f, S)
<1> DEFINE G == {T \in SUBSET S : \E g : Additive(g, f, T)}
<1>1. {} \in G
  <2>1. Additive([T \in SUBSET {} |-> 0], f, {})
    BY DEF Additive
  <2> QED
    BY <2>1
<1>2. ASSUME NEW T \in SUBSET S, NEW x \in S \ T, T \in G
      PROVE  T \cup {x} \in G
  <2>1. PICK g : Additive(g, f, T)
    BY <1>2
  <2> DEFINE h == [U \in SUBSET (T \cup {x}) |->
                     IF x \in U THEN f[x] + g[U \ {x}] ELSE g[U]]
  <2>2. \A U \in SUBSET (T \cup {x}) : U \ {x} \in SUBSET T /\ (x \notin U => U \in SUBSET T)
    OBVIOUS
  <2>3. /\ g \in [SUBSET T -> Int] /\ f[x] \in Int
        /\ \A W \in SUBSET T : \A z \in W : g[W] = f[z] + g[W \ {z}]
    BY <2>1 DEF Additive
  <2>4. h \in [SUBSET (T \cup {x}) -> Int]
    BY <2>2, <2>3
  <2>5. h[{}] = 0
    BY <2>1 DEF Additive
  <2>6. ASSUME NEW U \in SUBSET (T \cup {x}), NEW y \in U
        PROVE  h[U] = f[y] + h[U \ {y}]
    <3>1. CASE y = x
      BY <2>2, <3>1
    <3>2. CASE y # x /\ x \notin U
      BY <2>1, <2>2, <3>2 DEF Additive
    <3>3. CASE y # x /\ x \in U
      <4>1. U \ {x} \in SUBSET T /\ y \in U \ {x} /\ (U \ {x}) \ {y} = (U \ {y}) \ {x}
        BY <3>3
      <4>2. g[U \ {x}] = f[y] + g[(U \ {y}) \ {x}]
        <5>1. PICK V \in SUBSET T : V = U \ {x}
          BY <4>1
        <5>2. g[V] = f[y] + g[V \ {y}]
          BY <2>3, <4>1, <5>1
        <5> QED
          BY <4>1, <5>1, <5>2
      <4>3. h[U] = f[x] + g[U \ {x}] /\ h[U \ {y}] = f[x] + g[(U \ {y}) \ {x}]
        BY <3>3
      <4>4. f[y] \in Int /\ g[(U \ {y}) \ {x}] \in Int
        BY <2>3, <4>1
      <4> QED
        BY <2>3, <4>2, <4>3, <4>4
    <3> QED
      BY <3>1, <3>2, <3>3
  <2>7. Additive(h, f, T \cup {x})
    BY <2>4, <2>5, <2>6 DEF Additive
  <2> QED
    BY <2>7
<1>3. S \in G
  BY <1>1, <1>2, SetInduction
<1> QED
  BY <1>3

(* The recursive equation of the fold.                                     *)
Fold(f, S, iter) ==
  [s \in SUBSET S |-> IF s = {} THEN 0
                      ELSE f[CHOOSE x \in s : TRUE] + iter[s \ {CHOOSE x \in s : TRUE}]]

(* Total is what an additive function has for the whole set.               *)
LEMMA TotalIsAdditive ==
  ASSUME NEW S, IsFiniteSet(S), NEW f, NEW g, Additive(g, f, S)
  PROVE  Total(f, S) = g[S]
<1> DEFINE it == CHOOSE iter : iter = Fold(f, S, iter)
<1>1. Total(f, S) = it[S]
  BY DEF Total, MapThenSumSet, MapThenFoldSet, Fold
<1>2. g = Fold(f, S, g)
  <2>1. \A s \in SUBSET S : s # {} =>
          g[s] = f[CHOOSE x \in s : TRUE] + g[s \ {CHOOSE x \in s : TRUE}]
    BY DEF Additive
  <2>2. g = [s \in SUBSET S |-> g[s]]
    BY DEF Additive
  <2> QED
    BY <2>1, <2>2 DEF Additive, Fold
<1>3. it = Fold(f, S, it)
  BY <1>2
<1> HIDE DEF it
<1> DEFINE Bad == {T \in SUBSET S : it[T] # g[T]}
<1>4. ASSUME Bad # {} PROVE FALSE
  <2>0. Bad \subseteq SUBSET S
    OBVIOUS
  <2> HIDE DEF Bad
  <2>1. PICK T \in Bad : \A U \in Bad : U \subseteq T => U = T
    BY <1>4, <2>0, SmallestSet
  <2> USE DEF Bad
  <2>2. T # {}
    BY <1>3, <2>1 DEF Fold, Additive
  <2> DEFINE x == CHOOSE x \in T : TRUE
  <2>3. x \in T
    BY <2>2
  <2>4. it[T] = f[x] + it[T \ {x}] /\ g[T] = f[x] + g[T \ {x}]
    BY <1>2, <1>3, <2>1, <2>2 DEF Fold
  <2>5. it[T \ {x}] = g[T \ {x}]
    BY <2>1, <2>3
  <2> QED
    BY <2>1, <2>4, <2>5
<1> QED
  BY <1>1, <1>4

-----------------------------------------------------------------------------
(* What proofs use *)

(* f has an integer for each element of S.                                 *)
Summable(f, S) == IsFiniteSet(S) /\ \A x \in S : f[x] \in Int

(* Total itself is additive over the subsets of S.                         *)
LEMMA TotalOfSubsets ==
  ASSUME NEW S, NEW f, Summable(f, S)
  PROVE  Additive([T \in SUBSET S |-> Total(f, T)], f, S)
<1>1. PICK g : Additive(g, f, S)
  BY AdditiveExists DEF Summable
<1>2. ASSUME NEW T \in SUBSET S PROVE Total(f, T) = g[T]
  <2> DEFINE h == [U \in SUBSET T |-> g[U]]
  <2>1. Additive(h, f, T)
    BY <1>1 DEF Additive
  <2>2. IsFiniteSet(T)
    BY FS_Subset DEF Summable
  <2>3. Total(f, T) = h[T]
    BY <2>1, <2>2, TotalIsAdditive
  <2> QED
    BY <2>3
<1>3. [T \in SUBSET S |-> Total(f, T)] = g
  BY <1>1, <1>2 DEF Additive
<1> QED
  BY <1>1, <1>3

(* The sum over no element. *)
LEMMA TotalEmpty == ASSUME NEW f PROVE Total(f, {}) = 0
<1>1. Summable(f, {})
  BY FS_EmptySet DEF Summable
<1> QED
  BY <1>1, TotalOfSubsets DEF Additive

(* A sum is an integer.                                                    *)
LEMMA TotalType ==
  ASSUME NEW S, NEW f, Summable(f, S)
  PROVE  Total(f, S) \in Int
<1> DEFINE g == [T \in SUBSET S |-> Total(f, T)]
<1>1. Additive(g, f, S) /\ g[S] = Total(f, S)
  BY TotalOfSubsets
<1> HIDE DEF g
<1> QED
  BY <1>1 DEF Additive

(* An element of the set is one of the summands.                           *)
LEMMA TotalTake ==
  ASSUME NEW S, NEW f, Summable(f, S), NEW x \in S
  PROVE  Total(f, S) = f[x] + Total(f, S \ {x})
<1> DEFINE g == [T \in SUBSET S |-> Total(f, T)]
<1>1. /\ Additive(g, f, S)
      /\ g[S] = Total(f, S) /\ g[S \ {x}] = Total(f, S \ {x})
  BY TotalOfSubsets
<1> HIDE DEF g
<1>2. g[S] = f[x] + g[S \ {x}]
  BY <1>1 DEF Additive
<1> QED
  BY <1>1, <1>2

(* One more element adds its summand.                                      *)
LEMMA TotalAdd ==
  ASSUME NEW S, NEW f, Summable(f, S), NEW x, x \notin S, f[x] \in Int
  PROVE  Total(f, S \cup {x}) = Total(f, S) + f[x]
<1>1. Summable(f, S \cup {x})
  BY FS_AddElement DEF Summable
<1>2. Total(f, S \cup {x}) = f[x] + Total(f, (S \cup {x}) \ {x})
  BY <1>1, TotalTake
<1>3. (S \cup {x}) \ {x} = S
  OBVIOUS
<1>4. Total(f, S \cup {x}) = f[x] + Total(f, S)
  BY <1>2, <1>3
<1> QED
  BY <1>4, TotalType

(* The sum depends on the summands only.                                   *)
LEMMA TotalSame ==
  ASSUME NEW S, NEW f, NEW g, Summable(f, S), \A x \in S : g[x] = f[x]
  PROVE  Total(g, S) = Total(f, S)
<1> DEFINE G == {T \in SUBSET S : Total(g, T) = Total(f, T)}
<1>1. {} \in G
  BY TotalEmpty
<1>2. ASSUME NEW T \in SUBSET S, NEW x \in S \ T, T \in G
      PROVE  T \cup {x} \in G
  <2>1. Summable(f, T) /\ Summable(g, T) /\ f[x] \in Int /\ g[x] = f[x]
    BY FS_Subset DEF Summable
  <2> QED
    BY <1>2, <2>1, TotalAdd
<1> HIDE DEF G
<1>3. S \in G
  BY <1>1, <1>2, SetInduction DEF Summable
<1> QED
  BY <1>3 DEF G

(* A sum of naturals is one, and has none of them larger than itself.      *)
LEMMA TotalNat ==
  ASSUME NEW S, NEW f, IsFiniteSet(S), \A x \in S : f[x] \in Nat
  PROVE  Total(f, S) \in Nat /\ \A x \in S : f[x] <= Total(f, S)
<1>0. Summable(f, S)
  BY DEF Summable
<1> DEFINE G == {T \in SUBSET S : Total(f, T) \in Nat}
<1>1. {} \in G
  BY TotalEmpty
<1>2. ASSUME NEW T \in SUBSET S, NEW x \in S \ T, T \in G
      PROVE  T \cup {x} \in G
  <2>1. Summable(f, T) /\ f[x] \in Nat
    BY <1>0, FS_Subset DEF Summable
  <2>2. Total(f, T \cup {x}) = Total(f, T) + f[x]
    BY <2>1, TotalAdd
  <2> QED
    BY <1>2, <2>1, <2>2
<1> HIDE DEF G
<1>3. S \in G
  BY <1>1, <1>2, SetInduction
<1>4. ASSUME NEW x \in S PROVE f[x] <= Total(f, S)
  <2>1. IsFiniteSet(S \ {x}) /\ S \ {x} \in SUBSET S
    BY FS_Subset
  <2>2. S \ {x} \in G
    <3> DEFINE R == S \ {x}
    <3>1. ASSUME NEW T \in SUBSET R, NEW y \in R \ T, T \in G
          PROVE  T \cup {y} \in G
      BY <1>2, <3>1
    <3>2. R \in G
      BY <1>1, <2>1, <3>1, SetInduction
    <3> QED
      BY <3>2
  <2>3. Total(f, S) = f[x] + Total(f, S \ {x})
    BY <1>0, TotalTake
  <2> QED
    BY <2>2, <2>3 DEF G
<1> QED
  BY <1>3, <1>4 DEF G

(* One summand changes.                                                    *)
LEMMA TotalChange ==
  ASSUME NEW S, NEW f, NEW g, Summable(f, S), NEW x \in S, g[x] \in Int,
         \A y \in S \ {x} : g[y] = f[y]
  PROVE  Total(g, S) = Total(f, S) - f[x] + g[x]
<1>1. Summable(g, S) /\ Summable(f, S \ {x}) /\ f[x] \in Int
  BY FS_Subset DEF Summable
<1>2. Total(g, S) = g[x] + Total(g, S \ {x}) /\ Total(f, S) = f[x] + Total(f, S \ {x})
  BY <1>1, TotalTake
<1>3. Total(g, S \ {x}) = Total(f, S \ {x}) /\ Total(f, S \ {x}) \in Int
  BY <1>1, TotalSame, TotalType
<1> QED
  BY <1>1, <1>2, <1>3

(* When one summand changes, comes or goes, the sum changes by it.         *)
LEMMA TotalStep ==
  ASSUME NEW S, NEW T, NEW f, NEW g, NEW x, Summable(f, S), S \ {x} = T \ {x},
         x \in T => g[x] \in Int, \A y \in S \ {x} : g[y] = f[y]
  PROVE  /\ Summable(g, T)
         /\ Total(g, T) = Total(f, S) - (IF x \in S THEN f[x] ELSE 0)
                                      + (IF x \in T THEN g[x] ELSE 0)
<1> DEFINE R == S \ {x}
<1>1. Summable(f, R)
  BY FS_Subset DEF Summable
<1>2. Total(g, R) = Total(f, R) /\ Total(f, R) \in Int
  BY <1>1, TotalSame, TotalType
<1>3. Total(f, S) = Total(f, R) + (IF x \in S THEN f[x] ELSE 0)
  <2>1. CASE x \in S
    BY <1>2, <2>1, TotalTake DEF Summable
  <2>2. CASE x \notin S
    <3>1. R = S
      BY <2>2
    <3>2. Total(f, R) = Total(f, S)
      BY <3>1
    <3> QED
      BY <1>2, <2>2, <3>2
  <2> QED
    BY <2>1, <2>2
<1>4. Summable(g, R)
  BY <1>1 DEF Summable
<1>5. Summable(g, T) /\ Total(g, T) = Total(g, R) + (IF x \in T THEN g[x] ELSE 0)
  <2>1. CASE x \in T
    <3>1. T = R \cup {x} /\ x \notin R
      BY <2>1
    <3>2. Summable(g, R \cup {x})
      BY <1>4, <2>1, FS_AddElement DEF Summable
    <3>3. Total(g, R \cup {x}) = Total(g, R) + g[x]
      BY <1>4, <2>1, <3>1, TotalAdd
    <3> QED
      BY <2>1, <3>1, <3>2, <3>3
  <2>2. CASE x \notin T
    <3>1. R = T
      BY <2>2
    <3> QED
      BY <1>2, <1>4, <2>2, <3>1
  <2> QED
    BY <2>1, <2>2
<1> QED
  BY <1>2, <1>3, <1>5 DEF Summable

(* A sum of sums.                                                          *)
LEMMA TotalPlus ==
  ASSUME NEW S, NEW f, NEW g, NEW h, Summable(f, S), Summable(g, S),
         \A x \in S : h[x] = f[x] + g[x]
  PROVE  Total(h, S) = Total(f, S) + Total(g, S)
<1> DEFINE G == {T \in SUBSET S : Total(h, T) = Total(f, T) + Total(g, T)}
<1>1. {} \in G
  BY TotalEmpty
<1>2. ASSUME NEW T \in SUBSET S, NEW x \in S \ T, T \in G
      PROVE  T \cup {x} \in G
  <2>1. /\ Summable(f, T) /\ Summable(g, T) /\ Summable(h, T)
        /\ f[x] \in Int /\ g[x] \in Int /\ h[x] = f[x] + g[x]
    BY FS_Subset DEF Summable
  <2>2. /\ Total(f, T \cup {x}) = Total(f, T) + f[x]
        /\ Total(g, T \cup {x}) = Total(g, T) + g[x]
        /\ Total(h, T \cup {x}) = Total(h, T) + h[x]
        /\ Total(f, T) \in Int /\ Total(g, T) \in Int
    BY <2>1, TotalAdd, TotalType
  <2> QED
    BY <1>2, <2>1, <2>2
<1> HIDE DEF G
<1>3. S \in G
  BY <1>1, <1>2, SetInduction DEF Summable
<1> QED
  BY <1>3 DEF G

(* Summands that are zero.                                                 *)
LEMMA TotalZero ==
  ASSUME NEW S, NEW f, IsFiniteSet(S), \A x \in S : f[x] = 0
  PROVE  Total(f, S) = 0
<1> DEFINE G == {T \in SUBSET S : Total(f, T) = 0}
<1>1. {} \in G
  BY TotalEmpty
<1>2. ASSUME NEW T \in SUBSET S, NEW x \in S \ T, T \in G
      PROVE  T \cup {x} \in G
  <2>1. Summable(f, T) /\ f[x] = 0
    BY FS_Subset DEF Summable
  <2> QED
    BY <1>2, <2>1, TotalAdd
<1> HIDE DEF G
<1>3. S \in G
  BY <1>1, <1>2, SetInduction
<1> QED
  BY <1>3 DEF G

(* Two sets that have no element in common.                                *)
LEMMA TotalUnion ==
  ASSUME NEW S, NEW T, NEW f, Summable(f, S \cup T), S \cap T = {}
  PROVE  Total(f, S \cup T) = Total(f, S) + Total(f, T)
<1>0. IsFiniteSet(S) /\ IsFiniteSet(T) /\ Summable(f, S)
  BY FS_Subset DEF Summable
<1> DEFINE G == {U \in SUBSET T : Total(f, S \cup U) = Total(f, S) + Total(f, U)}
<1>1. {} \in G
  <2>1. S \cup {} = S /\ Total(f, S) \in Int
    BY <1>0, TotalType
  <2> QED
    BY <2>1, TotalEmpty
<1>2. ASSUME NEW U \in SUBSET T, NEW x \in T \ U, U \in G
      PROVE  U \cup {x} \in G
  <2>1. /\ Summable(f, S \cup U) /\ Summable(f, U) /\ f[x] \in Int
        /\ x \notin S \cup U /\ S \cup (U \cup {x}) = (S \cup U) \cup {x}
    BY FS_Subset DEF Summable
  <2>2. /\ Total(f, (S \cup U) \cup {x}) = Total(f, S \cup U) + f[x]
        /\ Total(f, U \cup {x}) = Total(f, U) + f[x]
        /\ Total(f, U) \in Int /\ Total(f, S) \in Int
    BY <1>0, <2>1, TotalAdd, TotalType
  <2>3. Total(f, S \cup (U \cup {x})) = Total(f, S \cup U) + f[x]
    BY <2>1, <2>2
  <2>4. Total(f, S \cup U) = Total(f, S) + Total(f, U)
    BY <1>2
  <2> QED
    BY <2>1, <2>2, <2>3, <2>4
<1> HIDE DEF G
<1>3. T \in G
  BY <1>0, <1>1, <1>2, SetInduction
<1> QED
  BY <1>3 DEF G

(* The same summands under other names.                                    *)
LEMMA TotalRenamed ==
  ASSUME NEW S, NEW R, NEW b \in Bijection(S, R), NEW f, NEW g, Summable(f, S),
         \A x \in S : f[x] = g[b[x]]
  PROVE  Total(g, R) = Total(f, S)
<1>0. /\ b \in [S -> R] /\ \A x, y \in S : b[x] = b[y] => x = y
      /\ \A r \in R : \E x \in S : b[x] = r
  BY DEF Bijection, Injection, Surjection, IsInjective
<1> DEFINE Im(T) == {b[x] : x \in T}
           G == {T \in SUBSET S : IsFiniteSet(Im(T)) /\ Total(g, Im(T)) = Total(f, T)}
<1>1. {} \in G
  BY TotalEmpty, FS_EmptySet
<1>2. ASSUME NEW T \in SUBSET S, NEW x \in S \ T, T \in G
      PROVE  T \cup {x} \in G
  <2>1. Im(T \cup {x}) = Im(T) \cup {b[x]} /\ b[x] \notin Im(T)
    BY <1>0
  <2>2. Summable(g, Im(T)) /\ Summable(f, T) /\ f[x] \in Int /\ g[b[x]] = f[x]
    BY <1>2, FS_Subset DEF Summable
  <2>3. IsFiniteSet(Im(T) \cup {b[x]})
    BY <1>2, FS_AddElement
  <2>4. Total(g, Im(T) \cup {b[x]}) = Total(g, Im(T)) + g[b[x]]
    BY <2>1, <2>2, TotalAdd
  <2>5. Total(f, T \cup {x}) = Total(f, T) + f[x]
    BY <2>2, TotalAdd
  <2> QED
    BY <1>2, <2>1, <2>2, <2>3, <2>4, <2>5
<1> HIDE DEF G
<1>3. S \in G
  BY <1>1, <1>2, SetInduction DEF Summable
<1>4. Im(S) = R
  BY <1>0
<1> HIDE DEF Im
<1> QED
  BY <1>3, <1>4 DEF G
=============================================================================
