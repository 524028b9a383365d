---------------------------- MODULE FoldTheorems ----------------------------
(***************************************************************************)
(* Facts about the operators that the models share, for values of any      *)
(* size: sums over finite sets and functions; the elements of flattened    *)
(* sequences, how often each occurs and what a map of them gives; what     *)
(* Among keeps and SortedBy orders; division with the remainder left over. *)
(*                                                                         *)
(* SumFunctionOnSet takes an element out of the set it sums, by CHOOSE,    *)
(* until none is left; what it computes for every finite set is proved by  *)
(* induction over finite sets. The inductions are first-order: the         *)
(* subsets, or the lengths, for which a fact fails have, if there are any, *)
(* a least one (LeastSubset, LeastNumber), and the step refutes that one.  *)
(***************************************************************************)
EXTENDS Selections, SequencesExt, FiniteSetsExt,
        FiniteSetTheorems, SequenceTheorems, WellFoundedInduction, TLAPS

\* A set of finite sets that is not empty has a member that no other is part
\* of: induction over finite sets, as the absence of a least counterexample.
LEMMA LeastSubset ==
    ASSUME NEW S, IsFiniteSet(S), NEW T \in SUBSET (SUBSET S), T # {}
    PROVE  \E U \in T : \A V \in T : V \subseteq U => V = U
<1> DEFINE R == StrictSubsetOrdering(S)
<1>1. IsWellFoundedOn(R, SUBSET S)
  BY FS_StrictSubsetOrderingWellFounded, FS_FiniteSubsetsOfFinite
<1>2. PICK U \in T : \A V \in T : ~(<<V, U>> \in R)
  <2> HIDE DEF R
  <2> QED
    BY <1>1, WFMin
<1>3. \A V \in T : V \subseteq U => V = U
  BY <1>2 DEF StrictSubsetOrdering
<1> QED
  BY <1>3

\* The recursion of SumFunctionOnSet over the subsets of S, for a function f.
Sums(iter, f, S) ==
    iter = [s \in SUBSET S |->
               IF s = {} THEN 0
               ELSE f[CHOOSE x \in s : TRUE] + iter[s \ {CHOOSE x \in s : TRUE}]]

\* Two such recursions agree where both are defined.
LEMMA SumsAgree ==
    ASSUME NEW S, IsFiniteSet(S), NEW f, NEW V \in SUBSET S, NEW W \in SUBSET S,
           NEW a, Sums(a, f, V), NEW b, Sums(b, f, W),
           NEW s \in SUBSET (V \cap W)
    PROVE  a[s] = b[s]
<1> DEFINE Bad == {t \in SUBSET (V \cap W) : a[t] # b[t]}
<1> SUFFICES ASSUME Bad # {} PROVE FALSE
  OBVIOUS
<1>1. PICK t \in Bad : \A u \in Bad : u \subseteq t => u = t
  <2>1. Bad \in SUBSET (SUBSET S)
    OBVIOUS
  <2> HIDE DEF Bad
  <2> QED
    BY <2>1, LeastSubset
<1>2. /\ a[t] = IF t = {} THEN 0 ELSE f[CHOOSE x \in t : TRUE] + a[t \ {CHOOSE x \in t : TRUE}]
      /\ b[t] = IF t = {} THEN 0 ELSE f[CHOOSE x \in t : TRUE] + b[t \ {CHOOSE x \in t : TRUE}]
  BY DEF Sums
<1>3. CASE t # {}
  <2> DEFINE c == CHOOSE x \in t : TRUE
  <2>1. c \in t
    BY <1>3
  <2>2. t \ {c} \subseteq t /\ t \ {c} # t
    BY <2>1
  <2>3. a[t \ {c}] = b[t \ {c}]
    BY <1>1, <2>2
  <2> QED
    BY <1>1, <1>2, <1>3, <2>3
<1> QED
  BY <1>1, <1>2, <1>3

\* The recursion is defined for every finite set.
LEMMA SumsExist ==
    ASSUME NEW S, IsFiniteSet(S), NEW f
    PROVE  \E iter : Sums(iter, f, S)
<1> DEFINE Bad == {t \in SUBSET S : ~ \E iter : Sums(iter, f, t)}
<1> SUFFICES ASSUME Bad # {} PROVE FALSE
  OBVIOUS
<1>1. PICK t \in Bad : \A u \in Bad : u \subseteq t => u = t
  <2>1. Bad \in SUBSET (SUBSET S)
    OBVIOUS
  <2> HIDE DEF Bad
  <2> QED
    BY <2>1, LeastSubset
<1> DEFINE G(u) == CHOOSE iter : Sums(iter, f, u)
           c(u) == CHOOSE x \in u : TRUE
<1>2. \A u \in SUBSET t : u # t => Sums(G(u), f, u)
  BY <1>1
<1> DEFINE it == [s \in SUBSET t |->
                     IF s = {} THEN 0 ELSE f[c(s)] + G(s \ {c(s)})[s \ {c(s)}]]
<1> HIDE DEF G
<1>3. ASSUME NEW u \in SUBSET t, u # t
      PROVE  G(u)[u] = it[u]
  <2>1. Sums(G(u), f, u)
    BY <1>2, <1>3
  <2>2. CASE u = {}
    BY <2>1, <2>2 DEF Sums
  <2>3. CASE u # {}
    <3>1. c(u) \in u
      BY <2>3
    <3> DEFINE v == u \ {c(u)}
    <3>2. v \in SUBSET t /\ v # t /\ v \in SUBSET (u \cap v)
      BY <1>3, <3>1
    <3>3. Sums(G(v), f, v)
      BY <1>2, <3>2
    <3>4. G(u)[u] = f[c(u)] + G(u)[v]
      BY <2>1, <2>3 DEF Sums
    <3>5. G(u)[v] = G(v)[v]
      <4> HIDE DEF v
      <4> QED
      BY <2>1, <3>2, <3>3, SumsAgree
    <3> QED
      BY <2>3, <3>4, <3>5
  <2> QED
    BY <2>2, <2>3
<1>4. Sums(it, f, t)
  <2>1. ASSUME NEW s \in SUBSET t
        PROVE  it[s] = IF s = {} THEN 0 ELSE f[c(s)] + it[s \ {c(s)}]
    <3>1. CASE s = {}
      BY <3>1
    <3>2. CASE s # {}
      <4>1. c(s) \in s
        BY <3>2
      <4>2. s \ {c(s)} \in SUBSET t /\ s \ {c(s)} # t
        BY <4>1
      <4>3. G(s \ {c(s)})[s \ {c(s)}] = it[s \ {c(s)}]
        BY <4>2, <1>3
      <4> QED
        BY <3>2, <4>3
    <3> QED
      BY <3>1, <3>2
  <2>2. it = [s \in SUBSET t |-> it[s]]
    OBVIOUS
  <2> HIDE DEF it
  <2> QED
    BY <2>1, <2>2 DEF Sums
<1> QED
  BY <1>1, <1>4

\* So SumFunctionOnSet is the value of its recursion.
LEMMA SumIsIteration ==
    ASSUME NEW S, IsFiniteSet(S), NEW f
    PROVE  \E iter : Sums(iter, f, S) /\ SumFunctionOnSet(f, S) = iter[S]
<1>1. \E iter : Sums(iter, f, S)
  BY SumsExist
<1> DEFINE it == CHOOSE iter : Sums(iter, f, S)
<1>2. Sums(it, f, S)
  BY <1>1
<1>3. SumFunctionOnSet(f, S) = it[S]
  BY DEF SumFunctionOnSet, FoldFunctionOnSet, MapThenFoldSet, Sums
<1> QED
  BY <1>2, <1>3

\* The sums of integers are integers.
LEMMA SumsType ==
    ASSUME NEW S, IsFiniteSet(S), NEW f, \A x \in S : f[x] \in Int,
           NEW a, Sums(a, f, S), NEW s \in SUBSET S
    PROVE  a[s] \in Int
<1> DEFINE Bad == {t \in SUBSET S : a[t] \notin Int}
<1> SUFFICES ASSUME Bad # {} PROVE FALSE
  OBVIOUS
<1>1. PICK t \in Bad : \A u \in Bad : u \subseteq t => u = t
  <2>1. Bad \in SUBSET (SUBSET S)
    OBVIOUS
  <2> HIDE DEF Bad
  <2> QED
    BY <2>1, LeastSubset
<1>2. a[t] = IF t = {} THEN 0 ELSE f[CHOOSE x \in t : TRUE] + a[t \ {CHOOSE x \in t : TRUE}]
  BY DEF Sums
<1>3. CASE t # {}
  <2> DEFINE c == CHOOSE x \in t : TRUE
  <2>1. c \in t
    BY <1>3
  <2>2. a[t \ {c}] \in Int
    BY <1>1, <2>1
  <2> QED
    BY <1>1, <1>2, <1>3, <2>1, <2>2
<1> QED
  BY <1>1, <1>2, <1>3

\* It does not matter which element is taken out first.
LEMMA SumsRemove ==
    ASSUME NEW S, IsFiniteSet(S), NEW f, \A y \in S : f[y] \in Int,
           NEW a, Sums(a, f, S), NEW s \in SUBSET S, NEW x \in s
    PROVE  a[s] = f[x] + a[s \ {x}]
<1> DEFINE Bad == {t \in SUBSET S : \E y \in t : a[t] # f[y] + a[t \ {y}]}
<1> SUFFICES ASSUME Bad # {} PROVE FALSE
  OBVIOUS
<1>1. PICK t \in Bad : \A u \in Bad : u \subseteq t => u = t
  <2>1. Bad \in SUBSET (SUBSET S)
    OBVIOUS
  <2> HIDE DEF Bad
  <2> QED
    BY <2>1, LeastSubset
<1>2. PICK y \in t : a[t] # f[y] + a[t \ {y}]
  BY <1>1
<1> DEFINE c == CHOOSE z \in t : TRUE
<1>3. c \in t /\ a[t] = f[c] + a[t \ {c}]
  BY <1>2 DEF Sums
<1> HIDE DEF c
<1>4. c # y
  BY <1>2, <1>3
<1>5. a[t \ {c}] = f[y] + a[(t \ {c}) \ {y}]
  BY <1>1, <1>2, <1>3, <1>4
<1>6. a[t \ {y}] = f[c] + a[(t \ {y}) \ {c}]
  BY <1>1, <1>2, <1>3, <1>4
<1>7. (t \ {c}) \ {y} = (t \ {y}) \ {c}
  OBVIOUS
<1>8. a[(t \ {c}) \ {y}] \in Int /\ f[c] \in Int /\ f[y] \in Int
  BY <1>2, <1>3, SumsType
<1>9. \A i, j, k \in Int : i + (j + k) = j + (i + k)
  OBVIOUS
<1>10. f[c] + a[t \ {c}] = f[y] + a[t \ {y}]
  <2> DEFINE z == a[(t \ {c}) \ {y}]
  <2>1. f[c] + a[t \ {c}] = f[c] + (f[y] + z)
    BY <1>5
  <2>2. f[y] + a[t \ {y}] = f[y] + (f[c] + z)
    BY <1>6, <1>7
  <2>3. f[c] + (f[y] + z) = f[y] + (f[c] + z)
    BY <1>8, <1>9
  <2> QED
    BY <2>1, <2>2, <2>3
<1> QED
  BY <1>2, <1>3, <1>10

-----------------------------------------------------------------------------

\* The sum over a set depends on the values of its elements only.
LEMMA SumCongruence ==
    ASSUME NEW S, IsFiniteSet(S), NEW f, NEW g, \A x \in S : f[x] = g[x]
    PROVE  SumFunctionOnSet(f, S) = SumFunctionOnSet(g, S)
<1>1. PICK a : Sums(a, f, S) /\ SumFunctionOnSet(f, S) = a[S]
  BY SumIsIteration
<1>2. PICK b : Sums(b, g, S) /\ SumFunctionOnSet(g, S) = b[S]
  BY SumIsIteration
<1>3. Sums(b, f, S)
  <2>1. ASSUME NEW s \in SUBSET S, s # {} PROVE f[CHOOSE x \in s : TRUE] = g[CHOOSE x \in s : TRUE]
    BY <2>1
  <2> QED
    BY <1>2, <2>1 DEF Sums
<1> QED
  BY <1>1, <1>2, <1>3, SumsAgree

\* The sum over the empty set.
LEMMA SumEmpty == \A f : SumFunctionOnSet(f, {}) = 0
<1> SUFFICES ASSUME NEW f PROVE SumFunctionOnSet(f, {}) = 0
  OBVIOUS
<1>1. PICK a : Sums(a, f, {}) /\ SumFunctionOnSet(f, {}) = a[{}]
  BY SumIsIteration, FS_EmptySet
<1> QED
  BY <1>1 DEF Sums

\* A sum of integers is one of an element and of the rest.
LEMMA SumRemove ==
    ASSUME NEW S, IsFiniteSet(S), NEW f, \A y \in S : f[y] \in Int, NEW x \in S
    PROVE  /\ SumFunctionOnSet(f, S) \in Int
           /\ SumFunctionOnSet(f, S \ {x}) \in Int
           /\ SumFunctionOnSet(f, S) = f[x] + SumFunctionOnSet(f, S \ {x})
<1>1. PICK a : Sums(a, f, S) /\ SumFunctionOnSet(f, S) = a[S]
  BY SumIsIteration
<1>2. IsFiniteSet(S \ {x}) /\ S \ {x} \in SUBSET S
  BY FS_Subset
<1>3. PICK b : Sums(b, f, S \ {x}) /\ SumFunctionOnSet(f, S \ {x}) = b[S \ {x}]
  BY <1>2, SumIsIteration
<1>4. b[S \ {x}] = a[S \ {x}]
  BY <1>1, <1>2, <1>3, SumsAgree
<1>5. a[S] = f[x] + a[S \ {x}]
  <2>1. \A s \in SUBSET S : \A y \in s : a[s] = f[y] + a[s \ {y}]
    <3> SUFFICES ASSUME NEW s \in SUBSET S, NEW y \in s PROVE a[s] = f[y] + a[s \ {y}]
      OBVIOUS
    <3>1. Sums(a, f, S)
      BY <1>1
    <3> QED
      BY <3>1, SumsRemove
  <2> QED
    BY <2>1
<1>6. a[S] \in Int /\ a[S \ {x}] \in Int
  BY <1>1, <1>2, SumsType
<1> QED
  BY <1>1, <1>3, <1>4, <1>5, <1>6

\* Sums of integers are integers, of naturals naturals.
LEMMA SumType ==
    ASSUME NEW S, IsFiniteSet(S), NEW f, \A x \in S : f[x] \in Int
    PROVE  SumFunctionOnSet(f, S) \in Int
<1>1. CASE S = {}
  BY <1>1, SumEmpty
<1>2. CASE S # {}
  <2>1. PICK x \in S : TRUE
    BY <1>2
  <2> QED
    BY <2>1, SumRemove
<1> QED
  BY <1>1, <1>2

\* When one value changes, the sum changes as much.
LEMMA SumUpdate ==
    ASSUME NEW S, IsFiniteSet(S), NEW x \in S,
           NEW f, \A y \in S : f[y] \in Int,
           NEW g, g[x] \in Int, \A y \in S \ {x} : g[y] = f[y]
    PROVE  SumFunctionOnSet(g, S) = SumFunctionOnSet(f, S) - f[x] + g[x]
<1>1. SumFunctionOnSet(f, S) = f[x] + SumFunctionOnSet(f, S \ {x}) /\ SumFunctionOnSet(f, S \ {x}) \in Int
  BY SumRemove
<1>2. \A y \in S : g[y] \in Int
  OBVIOUS
<1>3. SumFunctionOnSet(g, S) = g[x] + SumFunctionOnSet(g, S \ {x})
  BY <1>2, SumRemove
<1>4. SumFunctionOnSet(f, S \ {x}) = SumFunctionOnSet(g, S \ {x})
  <2>1. IsFiniteSet(S \ {x})
    BY FS_Subset
  <2> QED
    BY <2>1, SumCongruence
<1> QED
  BY <1>1, <1>2, <1>3, <1>4

\* The same for the sum of a whole function.
LEMMA SumFunctionUpdate ==
    ASSUME NEW S, IsFiniteSet(S), NEW x \in S,
           NEW f \in [S -> Int], NEW g \in [S -> Int], \A y \in S \ {x} : g[y] = f[y]
    PROVE  SumFunction(g) = SumFunction(f) - f[x] + g[x]
<1>1. SumFunction(f) = SumFunctionOnSet(f, S) /\ SumFunction(g) = SumFunctionOnSet(g, S)
  BY DEF SumFunction
<1>2. /\ \A y \in S : f[y] \in Int
      /\ g[x] \in Int
  OBVIOUS
<1> QED
  BY <1>1, <1>2, SumUpdate

\* A sum of zeros.
LEMMA SumOfZeros ==
    ASSUME NEW S, IsFiniteSet(S), NEW f, \A x \in S : f[x] = 0
    PROVE  SumFunctionOnSet(f, S) = 0
<1> DEFINE Bad == {T \in SUBSET S : SumFunctionOnSet(f, T) # 0}
<1> SUFFICES ASSUME Bad # {} PROVE FALSE
  OBVIOUS
<1>1. PICK t \in Bad : \A u \in Bad : u \subseteq t => u = t
  <2>1. Bad \in SUBSET (SUBSET S)
    OBVIOUS
  <2> HIDE DEF Bad
  <2> QED
    BY <2>1, LeastSubset
<1>2. IsFiniteSet(t)
  BY FS_Subset
<1>3. PICK x \in t : TRUE
  BY <1>1, SumEmpty
<1>4. SumFunctionOnSet(f, t) = f[x] + SumFunctionOnSet(f, t \ {x})
  <2>1. \A y \in t : f[y] \in Int
    OBVIOUS
  <2> QED
    BY <1>2, <1>3, <2>1, SumRemove
<1>5. SumFunctionOnSet(f, t \ {x}) = 0
  BY <1>1, <1>3
<1> QED
  BY <1>1, <1>3, <1>4, <1>5

\* Two parts of a finite set that may differ in one element.
LEMMA CountChange ==
    ASSUME NEW S, IsFiniteSet(S), NEW x \in S, NEW A \in SUBSET S, NEW B \in SUBSET S,
           \A y \in S \ {x} : y \in A <=> y \in B
    PROVE  /\ Cardinality(A) \in Nat /\ Cardinality(B) \in Nat
           /\ Cardinality(B) + (IF x \in A THEN 1 ELSE 0)
                  = Cardinality(A) + (IF x \in B THEN 1 ELSE 0)
<1>1. IsFiniteSet(A) /\ IsFiniteSet(B)
  BY FS_Subset
<1>2. Cardinality(A) \in Nat /\ Cardinality(B) \in Nat
  BY <1>1, FS_CardinalityType
<1>3. CASE x \in A <=> x \in B
  <2>1. A = B
    BY <1>3
  <2> QED
    BY <1>2, <1>3, <2>1
<1>4. CASE x \in A /\ x \notin B
  <2>1. A = B \cup {x}
    BY <1>4
  <2>2. Cardinality(A) = Cardinality(B) + 1
    BY <1>1, <1>4, <2>1, FS_AddElement
  <2> QED
    BY <1>2, <1>4, <2>2
<1>5. CASE x \notin A /\ x \in B
  <2>1. B = A \cup {x}
    BY <1>5
  <2>2. Cardinality(B) = Cardinality(A) + 1
    BY <1>1, <1>5, <2>1, FS_AddElement
  <2> QED
    BY <1>2, <1>5, <2>2
<1> QED
  BY <1>3, <1>4, <1>5

-----------------------------------------------------------------------------
(* Least elements.                                                         *)

\* A function into the integers has a least value on a finite set.
LEMMA LeastValue ==
    ASSUME NEW S, IsFiniteSet(S), S # {}, NEW f, \A x \in S : f[x] \in Int
    PROVE  \E x \in S : \A y \in S : f[x] <= f[y]
<1> DEFINE Below(x) == {y \in S : f[y] <= f[x]}
           All == {Below(x) : x \in S}
<1>1. PICK U \in All : \A V \in All : V \subseteq U => V = U
  <2>1. All \in SUBSET (SUBSET S) /\ All # {}
    OBVIOUS
  <2> HIDE DEF All
  <2> QED
    BY <2>1, LeastSubset
<1>2. PICK x \in S : U = Below(x)
  OBVIOUS
<1>3. ASSUME NEW y \in S, ~(f[x] <= f[y]) PROVE FALSE
  <2>1. f[y] <= f[x] /\ f[x] \in Int /\ f[y] \in Int
    BY <1>3
  <2>2. Below(y) \subseteq Below(x)
    <3> SUFFICES ASSUME NEW z \in S, f[z] <= f[y] PROVE f[z] <= f[x]
      OBVIOUS
    <3>1. f[z] \in Int
      OBVIOUS
    <3> QED
      BY <2>1, <3>1
  <2>3. x \in Below(x) /\ x \notin Below(y)
    BY <1>3, <2>1
  <2> QED
    BY <1>1, <1>2, <2>2, <2>3
<1> QED
  BY <1>3

\* A set of natural numbers has a least element.
LEMMA LeastNumber ==
    ASSUME NEW T \in SUBSET Nat, T # {}
    PROVE  \E m \in T : \A k \in T : m <= k
<1>1. PICK n \in T : TRUE
  OBVIOUS
<1> DEFINE S == {k \in T : k <= n}
           f == [k \in S |-> k]
<1>2. IsFiniteSet(S) /\ S # {}
  <2>1. S \in SUBSET Nat /\ \A k \in S : k <= n
    OBVIOUS
  <2>2. n \in Nat /\ n <= n
    OBVIOUS
  <2> HIDE DEF S
  <2>3. IsFiniteSet(S)
    BY <2>1, <2>2, FS_BoundedSetOfNaturals
  <2> QED
    BY <1>1, <2>2, <2>3 DEF S
<1>3. PICK m \in S : \A k \in S : f[m] <= f[k]
  <2>1. \A k \in S : f[k] \in Int
    OBVIOUS
  <2> HIDE DEF f, S
  <2> QED
    BY <1>2, <2>1, LeastValue
<1>4. \A k \in T : m <= k
  <2> SUFFICES ASSUME NEW k \in T PROVE m <= k
    OBVIOUS
  <2>1. CASE k <= n
    BY <1>3, <2>1
  <2>2. CASE ~(k <= n)
    BY <2>2
  <2> QED
    BY <2>1, <2>2
<1> QED
  BY <1>4

-----------------------------------------------------------------------------
(* FlattenSeq.                                                             *)

\* The recursion of FlattenSeq over the first n sequences of ss.
Flattens(it, ss, n) ==
    it = [i \in 1..n |-> IF i = 1 THEN ss[i] ELSE it[i - 1] \o ss[i]]

\* It is defined for every n.
LEMMA FlattensExist == \A ss : \A n \in Nat : \E it : Flattens(it, ss, n)
<1> SUFFICES ASSUME NEW ss PROVE \A n \in Nat : \E it : Flattens(it, ss, n)
  OBVIOUS
<1> DEFINE Bad == {n \in Nat : ~ \E it : Flattens(it, ss, n)}
<1> SUFFICES ASSUME Bad # {} PROVE FALSE
  OBVIOUS
<1>1. PICK n \in Bad : \A k \in Bad : n <= k
  BY LeastNumber
<1>2. n # 0
  <2>1. Flattens([i \in 1..0 |-> ss], ss, 0)
    BY DEF Flattens
  <2> QED
    BY <2>1
<1>3. n - 1 \in Nat /\ n - 1 \notin Bad
  BY <1>1, <1>2
<1>4. PICK it : Flattens(it, ss, n - 1)
  BY <1>3
<1> DEFINE all == [i \in 1..n |-> IF i < n THEN it[i]
                                  ELSE IF n = 1 THEN ss[n] ELSE it[n - 1] \o ss[n]]
<1>5. Flattens(all, ss, n)
  <2>1. ASSUME NEW i \in 1..n
        PROVE  all[i] = IF i = 1 THEN ss[i] ELSE all[i - 1] \o ss[i]
    <3>1. CASE i = n
      <4>1. i # 1 => i - 1 \in 1..n /\ i - 1 < n
        BY <3>1
      <4>2. i # 1 => all[i - 1] = it[n - 1]
        BY <3>1, <4>1
      <4> QED
        BY <3>1, <4>2
    <3>2. CASE i # n
      <4>1. i \in 1..(n - 1) /\ i < n
        BY <3>2
      <4>2. it[i] = IF i = 1 THEN ss[i] ELSE it[i - 1] \o ss[i]
        BY <1>4, <4>1 DEF Flattens
      <4>3. i # 1 => i - 1 \in 1..n /\ i - 1 < n
        BY <4>1
      <4>4. i # 1 => all[i - 1] = it[i - 1]
        BY <4>3
      <4> QED
        BY <4>1, <4>2, <4>4
    <3> QED
      BY <3>1, <3>2
  <2>2. all = [i \in 1..n |-> all[i]]
    OBVIOUS
  <2> HIDE DEF all
  <2> QED
    BY <2>1, <2>2 DEF Flattens
<1> QED
  BY <1>5

\* The elements of a concatenation.
LEMMA ConcatElements ==
    ASSUME NEW D, NEW s \in Seq(D), NEW t \in Seq(D)
    PROVE  ToSet(s \o t) = ToSet(s) \cup ToSet(t)
<1>1. s \o t \in Seq(D) /\ Len(s \o t) = Len(s) + Len(t) /\ Len(s) \in Nat /\ Len(t) \in Nat
  OBVIOUS
<1>2. ASSUME NEW i \in 1..Len(s) PROVE i \in 1..Len(s \o t) /\ (s \o t)[i] = s[i]
  BY <1>1
<1>3. ASSUME NEW i \in 1..Len(t)
      PROVE  Len(s) + i \in 1..Len(s \o t) /\ (s \o t)[Len(s) + i] = t[i]
  BY <1>1
<1>4. ASSUME NEW i \in 1..Len(s \o t), ~(i \in 1..Len(s))
      PROVE  i - Len(s) \in 1..Len(t) /\ (s \o t)[i] = t[i - Len(s)]
  BY <1>1, <1>4
<1>5. /\ ToSet(s) = {s[i] : i \in 1..Len(s)}
      /\ ToSet(t) = {t[i] : i \in 1..Len(t)}
      /\ ToSet(s \o t) = {(s \o t)[i] : i \in 1..Len(s \o t)}
  BY <1>1 DEF ToSet
<1>6. ASSUME NEW x \in ToSet(s) \cup ToSet(t) PROVE x \in ToSet(s \o t)
  BY <1>2, <1>3, <1>5, <1>6
<1>7. ASSUME NEW x \in ToSet(s \o t) PROVE x \in ToSet(s) \cup ToSet(t)
  BY <1>2, <1>4, <1>5, <1>7
<1> QED
  BY <1>6, <1>7

\* What it computes: a sequence of the elements of all of them.
LEMMA FlattensElements ==
    ASSUME NEW D, NEW ss \in Seq(Seq(D)), NEW it, Flattens(it, ss, Len(ss)),
           NEW k \in 1..Len(ss)
    PROVE  it[k] \in Seq(D) /\ ToSet(it[k]) = UNION {ToSet(ss[i]) : i \in 1..k}
<1> DEFINE Good(j) == it[j] \in Seq(D) /\ ToSet(it[j]) = UNION {ToSet(ss[i]) : i \in 1..j}
           Bad == {j \in 1..Len(ss) : ~Good(j)}
<1> SUFFICES ASSUME Bad # {} PROVE FALSE
  OBVIOUS
<1>1. PICK j \in Bad : \A i \in Bad : j <= i
  <2>1. Bad \in SUBSET Nat
    OBVIOUS
  <2> HIDE DEF Bad
  <2> QED
    BY <2>1, LeastNumber
<1>2. j \in 1..Len(ss) /\ ss[j] \in Seq(D) /\ Len(ss) \in Nat
  OBVIOUS
<1>3. it[j] = IF j = 1 THEN ss[j] ELSE it[j - 1] \o ss[j]
  BY <1>2 DEF Flattens
<1>4. CASE j = 1
  <2>1. {ToSet(ss[i]) : i \in 1..j} = {ToSet(ss[1])}
    <3>1. 1..j = {1}
      BY <1>4
    <3> QED
      BY <3>1
  <2>2. Good(j)
    BY <1>2, <1>3, <1>4, <2>1
  <2> QED
    BY <2>2
<1>5. CASE j # 1
  <2>1. j - 1 \in 1..Len(ss) /\ ~(j <= j - 1)
    BY <1>2, <1>5
  <2>2. Good(j - 1)
    BY <1>1, <2>1
  <2>3. ToSet(it[j - 1] \o ss[j]) = ToSet(it[j - 1]) \cup ToSet(ss[j])
    BY <1>2, <2>2, ConcatElements
  <2>4. UNION {ToSet(ss[i]) : i \in 1..j}
          = (UNION {ToSet(ss[i]) : i \in 1..(j - 1)}) \cup ToSet(ss[j])
    <3>1. 1..j = 1..(j - 1) \cup {j}
      BY <1>2, <1>5
    <3> QED
      BY <3>1
  <2>5. it[j] = it[j - 1] \o ss[j]
    BY <1>3, <1>5
  <2>6. it[j] \in Seq(D)
    BY <1>2, <2>2, <2>5
  <2>7. ToSet(it[j]) = UNION {ToSet(ss[i]) : i \in 1..j}
    BY <2>2, <2>3, <2>4, <2>5
  <2> QED
    BY <2>6, <2>7
<1> QED
  BY <1>4, <1>5

\* FlattenSeq keeps all elements and adds none.
LEMMA FlattenElements ==
    ASSUME NEW D, NEW ss \in Seq(Seq(D))
    PROVE  /\ FlattenSeq(ss) \in Seq(D)
           /\ ToSet(FlattenSeq(ss)) = UNION {ToSet(ss[i]) : i \in 1..Len(ss)}
<1>1. CASE Len(ss) = 0
  <2>1. FlattenSeq(ss) = ss /\ ss = <<>>
    BY <1>1 DEF FlattenSeq
  <2>2. 1..Len(ss) = {}
    BY <1>1
  <2>3. ToSet(ss) = {}
    BY <2>1 DEF ToSet
  <2> QED
    BY <2>1, <2>2, <2>3
<1>2. CASE Len(ss) # 0
  <2>1. \E it : Flattens(it, ss, Len(ss))
    <3>1. Len(ss) \in Nat
      OBVIOUS
    <3> QED
      BY <3>1, FlattensExist
  <2> DEFINE it == CHOOSE it : Flattens(it, ss, Len(ss))
  <2>2. Flattens(it, ss, Len(ss))
    BY <2>1
  <2>3. FlattenSeq(ss) = it[Len(ss)]
    BY <1>2 DEF FlattenSeq, Flattens
  <2> HIDE DEF it
  <2>4. \A k \in 1..Len(ss) :
            it[k] \in Seq(D) /\ ToSet(it[k]) = UNION {ToSet(ss[i]) : i \in 1..k}
    BY ZenonT(30), <2>2, FlattensElements
  <2>5. Len(ss) \in 1..Len(ss)
    BY <1>2
  <2> QED
    BY <2>3, <2>4, <2>5
<1> QED
  BY <1>1, <1>2

\* One sequence is flat.
LEMMA FlattenOne == \A s : FlattenSeq(<<s>>) = s
<1> SUFFICES ASSUME NEW s PROVE FlattenSeq(<<s>>) = s
  OBVIOUS
<1>1. \E it : Flattens(it, <<s>>, Len(<<s>>))
  BY FlattensExist
<1> DEFINE it == CHOOSE it : Flattens(it, <<s>>, Len(<<s>>))
<1>2. Flattens(it, <<s>>, Len(<<s>>))
  BY <1>1
<1>3. FlattenSeq(<<s>>) = it[1]
  BY DEF FlattenSeq, Flattens
<1> HIDE DEF it
<1>4. it = [i \in 1..1 |-> IF i = 1 THEN <<s>>[i] ELSE it[i - 1] \o <<s>>[i]]
  BY <1>2 DEF Flattens
<1>5. 1 \in 1..1
  OBVIOUS
<1>6. it[1] = <<s>>[1]
  BY <1>4, <1>5
<1> QED
  BY <1>3, <1>6

\* t is s with h applied to its elements.
MapsTo(s, t, h) == Len(t) = Len(s) /\ \A i \in 1..Len(s) : t[i] = h[s[i]]

\* Concatenation keeps that.
LEMMA ConcatMaps ==
    ASSUME NEW D, NEW h, NEW s \in Seq(D), NEW t \in Seq(D), MapsTo(s, t, h),
           NEW u \in Seq(D), NEW v \in Seq(D), MapsTo(u, v, h)
    PROVE  MapsTo(s \o u, t \o v, h)
<1>1. /\ Len(s) \in Nat /\ Len(u) \in Nat /\ Len(t) = Len(s) /\ Len(v) = Len(u)
      /\ Len(s \o u) = Len(s) + Len(u) /\ Len(t \o v) = Len(s) + Len(u)
  BY DEF MapsTo
<1>2. ASSUME NEW i \in 1..(Len(s) + Len(u)) PROVE (t \o v)[i] = h[(s \o u)[i]]
  <2>1. CASE i <= Len(s)
    <3>1. (s \o u)[i] = s[i] /\ (t \o v)[i] = t[i] /\ i \in 1..Len(s)
      BY <1>1, <2>1
    <3> QED
      BY <3>1 DEF MapsTo
  <2>2. CASE ~(i <= Len(s))
    <3>1. /\ (s \o u)[i] = u[i - Len(s)] /\ (t \o v)[i] = v[i - Len(s)]
          /\ i - Len(s) \in 1..Len(u)
      BY <1>1, <2>2
    <3> QED
      BY <3>1 DEF MapsTo
  <2> QED
    BY <2>1, <2>2
<1> QED
  BY <1>1, <1>2 DEF MapsTo

\* So does FlattenSeq.
LEMMA FlattenMaps ==
    ASSUME NEW D, NEW h, NEW ss \in Seq(Seq(D)), NEW tt \in Seq(Seq(D)), Len(tt) = Len(ss),
           \A p \in 1..Len(ss) : MapsTo(ss[p], tt[p], h)
    PROVE  MapsTo(FlattenSeq(ss), FlattenSeq(tt), h)
<1>1. CASE Len(ss) = 0
  <2>1. FlattenSeq(ss) = <<>> /\ FlattenSeq(tt) = <<>>
    BY <1>1 DEF FlattenSeq
  <2> QED
    BY <2>1 DEF MapsTo
<1>2. CASE Len(ss) # 0
  <2> DEFINE n == Len(ss)
  <2>1. n \in Nat \ {0} /\ n \in 1..n
    BY <1>2
  <2>2. (\E it : Flattens(it, ss, n)) /\ (\E it : Flattens(it, tt, n))
    BY <2>1, FlattensExist
  <2> DEFINE a == CHOOSE it : Flattens(it, ss, n)
             b == CHOOSE it : Flattens(it, tt, n)
  <2>3. Flattens(a, ss, n) /\ Flattens(b, tt, n)
    BY <2>2
  <2>4. FlattenSeq(ss) = a[n] /\ FlattenSeq(tt) = b[n]
    BY <1>2 DEF FlattenSeq, Flattens
  <2> HIDE DEF a, b
  <2>5. \A k \in 1..n : a[k] \in Seq(D) /\ b[k] \in Seq(D)
    BY <2>3, FlattensElements
  <2> DEFINE Bad == {j \in 1..n : ~MapsTo(a[j], b[j], h)}
  <2>6. Bad = {}
    <3> SUFFICES ASSUME Bad # {} PROVE FALSE
      OBVIOUS
    <3>1. PICK j \in Bad : \A i \in Bad : j <= i
      <4>1. Bad \in SUBSET Nat
        OBVIOUS
      <4> HIDE DEF Bad
      <4> QED
        BY <4>1, LeastNumber
    <3>2. /\ j \in 1..n /\ ss[j] \in Seq(D) /\ tt[j] \in Seq(D) /\ MapsTo(ss[j], tt[j], h)
          /\ a[j] = IF j = 1 THEN ss[j] ELSE a[j - 1] \o ss[j]
          /\ b[j] = IF j = 1 THEN tt[j] ELSE b[j - 1] \o tt[j]
      <4>1. j \in 1..n /\ n = Len(ss) /\ Len(tt) = Len(ss)
        OBVIOUS
      <4>2. ss[j] \in Seq(D) /\ tt[j] \in Seq(D) /\ MapsTo(ss[j], tt[j], h)
        BY <4>1
      <4>3. a[j] = IF j = 1 THEN ss[j] ELSE a[j - 1] \o ss[j]
        BY <2>3, <4>1 DEF Flattens
      <4>4. b[j] = IF j = 1 THEN tt[j] ELSE b[j - 1] \o tt[j]
        BY <2>3, <4>1 DEF Flattens
      <4> QED
        BY <4>1, <4>2, <4>3, <4>4
    <3>3. CASE j = 1
      BY <3>2, <3>3
    <3>4. CASE j # 1
      <4>1. j - 1 \in 1..n /\ ~(j <= j - 1)
        BY <2>1, <3>2, <3>4
      <4>2. MapsTo(a[j - 1], b[j - 1], h) /\ a[j - 1] \in Seq(D) /\ b[j - 1] \in Seq(D)
        BY <2>5, <3>1, <4>1
      <4>3. MapsTo(a[j - 1] \o ss[j], b[j - 1] \o tt[j], h)
        BY <3>2, <4>2, ConcatMaps
      <4> QED
        BY <3>2, <3>4, <4>3
    <3> QED
      BY <3>3, <3>4
  <2>7. MapsTo(a[n], b[n], h)
    BY <2>1, <2>6
  <2> QED
    BY <2>4, <2>7
<1> QED
  BY <1>1, <1>2

-----------------------------------------------------------------------------
(* Among.                                                                  *)

\* The recursion of Among over the first n elements of s.
Keeps(it, s, S, n) ==
    it = [k \in 0..n |-> IF k = 0 THEN <<>>
                         ELSE IF s[k] \in S THEN Append(it[k - 1], s[k])
                         ELSE it[k - 1]]

\* It is defined for every n.
LEMMA KeepsExist == \A s, S : \A n \in Nat : \E it : Keeps(it, s, S, n)
<1> SUFFICES ASSUME NEW s, NEW S PROVE \A n \in Nat : \E it : Keeps(it, s, S, n)
  OBVIOUS
<1> DEFINE Bad == {n \in Nat : ~ \E it : Keeps(it, s, S, n)}
<1> SUFFICES ASSUME Bad # {} PROVE FALSE
  OBVIOUS
<1>1. PICK n \in Bad : \A k \in Bad : n <= k
  BY LeastNumber
<1>2. n # 0
  <2> DEFINE it == [k \in 0..0 |-> <<>>]
  <2>1. Keeps(it, s, S, 0)
    <3>1. \A k \in 0..0 : k = 0
      OBVIOUS
    <3>2. it = [k \in 0..0 |-> IF k = 0 THEN <<>>
                               ELSE IF s[k] \in S THEN Append(it[k - 1], s[k])
                               ELSE it[k - 1]]
      BY <3>1
    <3> HIDE DEF it
    <3> QED
      BY <3>2 DEF Keeps
  <2> HIDE DEF it
  <2> QED
    BY <2>1
<1>3. n - 1 \in Nat /\ n - 1 \notin Bad
  BY <1>1, <1>2
<1>4. PICK it : Keeps(it, s, S, n - 1)
  BY <1>3
<1> DEFINE last == IF s[n] \in S THEN Append(it[n - 1], s[n]) ELSE it[n - 1]
           all == [k \in 0..n |-> IF k < n THEN it[k] ELSE last]
<1>5. Keeps(all, s, S, n)
  <2>1. ASSUME NEW k \in 0..n
        PROVE  all[k] = IF k = 0 THEN <<>>
                        ELSE IF s[k] \in S THEN Append(all[k - 1], s[k])
                        ELSE all[k - 1]
    <3>1. k # 0 => k - 1 \in 0..n /\ k - 1 < n
      OBVIOUS
    <3>2. k # 0 => all[k - 1] = it[k - 1]
      BY <3>1
    <3>3. CASE k = n
      <4>1. all[k] = last
        BY <3>3
      <4> QED
        BY <1>2, <3>2, <3>3, <4>1
    <3>4. CASE k # n
      <4>1. k \in 0..(n - 1) /\ k < n
        BY <3>4
      <4>2. it[k] = IF k = 0 THEN <<>>
                    ELSE IF s[k] \in S THEN Append(it[k - 1], s[k])
                    ELSE it[k - 1]
        BY <1>4, <4>1 DEF Keeps
      <4>3. all[k] = it[k]
        BY <4>1
      <4> HIDE DEF all
      <4> QED
        BY <3>2, <4>2, <4>3
    <3> QED
      BY <3>3, <3>4
  <2>2. all = [k \in 0..n |-> all[k]]
    OBVIOUS
  <2> HIDE DEF all
  <2> QED
    BY <2>1, <2>2 DEF Keeps
<1> QED
  BY <1>5

\* a is made of the first n elements of s that are in S, in order: g tells
\* where each comes from.
Selects(g, s, S, n, a) ==
    /\ g \in [1..Len(a) -> 1..n]
    /\ \A i \in 1..Len(a) : a[i] = s[g[i]] /\ s[g[i]] \in S
    /\ \A i, j \in 1..Len(a) : i < j => g[i] < g[j]
    /\ \A k \in 1..n : s[k] \in S => \E i \in 1..Len(a) : g[i] = k

\* One element more, which is not in S.
LEMMA SelectsSkip ==
    ASSUME NEW D, NEW s \in Seq(D), NEW S, NEW n \in 1..Len(s), s[n] \notin S,
           NEW a \in Seq(D), NEW g, Selects(g, s, S, n - 1, a)
    PROVE  Selects(g, s, S, n, a)
<1>1. n \in Nat /\ Len(a) \in Nat /\ 1..(n - 1) \subseteq 1..n
  OBVIOUS
<1>2. g \in [1..Len(a) -> 1..n]
  BY <1>1 DEF Selects
<1>3. ASSUME NEW k \in 1..n, s[k] \in S PROVE \E i \in 1..Len(a) : g[i] = k
  <2>1. k \in 1..(n - 1)
    BY <1>3
  <2> QED
    BY <1>3, <2>1 DEF Selects
<1> QED
  BY <1>2, <1>3 DEF Selects

\* One element more, which is.
LEMMA SelectsAppend ==
    ASSUME NEW D, NEW s \in Seq(D), NEW S, NEW n \in 1..Len(s), s[n] \in S,
           NEW a \in Seq(D), NEW g, Selects(g, s, S, n - 1, a)
    PROVE  \E h : Selects(h, s, S, n, Append(a, s[n]))
<1> DEFINE m == Len(a)
           b == Append(a, s[n])
           h == [i \in 1..(m + 1) |-> IF i <= m THEN g[i] ELSE n]
<1>1. /\ m \in Nat /\ n \in Nat \ {0} /\ Len(b) = m + 1 /\ b[m + 1] = s[n]
      /\ \A i \in 1..m : b[i] = a[i]
  OBVIOUS
<1>2. \A i \in 1..(m + 1) : i \in 1..m \/ i = m + 1
  BY <1>1
<1>3. \A i \in 1..m : g[i] \in 1..(n - 1) /\ a[i] = s[g[i]] /\ s[g[i]] \in S
  BY DEF Selects
<1>4. \A i \in 1..m : i \in 1..(m + 1) /\ h[i] = g[i]
  BY <1>1
<1>5. m + 1 \in 1..(m + 1) /\ h[m + 1] = n
  BY <1>1
<1>6. h = [i \in 1..(m + 1) |-> h[i]]
  OBVIOUS
<1> HIDE DEF h, b, m
<1>7. \A i \in 1..(m + 1) : h[i] \in 1..n
  BY <1>1, <1>2, <1>3, <1>4, <1>5
<1>8. h \in [1..Len(b) -> 1..n]
  BY <1>1, <1>6, <1>7
<1>9. \A i \in 1..Len(b) : b[i] = s[h[i]] /\ s[h[i]] \in S
  BY <1>1, <1>2, <1>3, <1>4, <1>5
<1>10. ASSUME NEW i \in 1..Len(b), NEW j \in 1..Len(b), i < j PROVE h[i] < h[j]
  <2>1. i \in 1..m
    BY <1>1, <1>10
  <2>2. CASE j \in 1..m
    BY <1>4, <1>10, <2>1, <2>2 DEF Selects, m
  <2>3. CASE j = m + 1
    BY <1>1, <1>3, <1>4, <1>5, <2>1, <2>3
  <2> QED
    BY <1>1, <1>2, <2>2, <2>3
<1>11. ASSUME NEW k \in 1..n, s[k] \in S PROVE \E i \in 1..Len(b) : h[i] = k
  <2>1. CASE k = n
    BY <1>1, <1>5, <2>1
  <2>2. CASE k # n
    <3>1. k \in 1..(n - 1)
      BY <1>1, <2>2
    <3>2. PICK i \in 1..m : g[i] = k
      BY <1>11, <3>1 DEF Selects, m
    <3> QED
      BY <1>1, <1>4, <3>2
  <2> QED
    BY <2>1, <2>2
<1>12. Selects(h, s, S, n, b)
  BY <1>8, <1>9, <1>10, <1>11 DEF Selects
<1> QED
  BY <1>12 DEF b

\* What Among returns.
LEMMA AmongSelects ==
    ASSUME NEW D, NEW s \in Seq(D), NEW S
    PROVE  Among(s, S) \in Seq(D) /\ \E g : Selects(g, s, S, Len(s), Among(s, S))
<1> DEFINE it == CHOOSE it : Keeps(it, s, S, Len(s))
           Good(k) == it[k] \in Seq(D) /\ \E g : Selects(g, s, S, k, it[k])
           Bad == {k \in 0..Len(s) : ~Good(k)}
<1>1. Len(s) \in Nat
  OBVIOUS
<1>2. Among(s, S) = it[Len(s)]
  BY DEF Among, Keeps
<1>3. Keeps(it, s, S, Len(s))
  <2>1. \E f : Keeps(f, s, S, Len(s))
    BY <1>1, KeepsExist
  <2> QED
    BY <2>1
<1> HIDE DEF it
<1>4. \A k \in 0..Len(s) : it[k] = IF k = 0 THEN <<>>
                                   ELSE IF s[k] \in S THEN Append(it[k - 1], s[k])
                                   ELSE it[k - 1]
  BY <1>3 DEF Keeps
<1>5. Bad = {}
  <2> SUFFICES ASSUME Bad # {} PROVE FALSE
    OBVIOUS
  <2>1. PICK n \in Bad : \A k \in Bad : n <= k
    <3>1. Bad \in SUBSET Nat
      OBVIOUS
    <3> HIDE DEF Bad
    <3> QED
      BY <3>1, LeastNumber
  <2>2. n \in 0..Len(s) /\ ~Good(n)
    OBVIOUS
  <2>3. CASE n = 0
    <3>1. it[0] = <<>>
      BY <1>1, <1>4
    <3>2. Selects([i \in 1..0 |-> 0], s, S, 0, <<>>)
      BY DEF Selects
    <3>3. <<>> \in Seq(D)
      OBVIOUS
    <3>4. Good(0)
      BY <3>1, <3>2, <3>3
    <3> QED
      BY <2>2, <2>3, <3>4
  <2>4. CASE n # 0
    <3>1. n \in 1..Len(s) /\ n - 1 \in 0..Len(s) /\ ~(n <= n - 1) /\ s[n] \in D
      BY <1>1, <2>2, <2>4
    <3>2. it[n - 1] \in Seq(D) /\ \E g : Selects(g, s, S, n - 1, it[n - 1])
      BY <2>1, <3>1
    <3>3. PICK g : Selects(g, s, S, n - 1, it[n - 1])
      BY <3>2
    <3> DEFINE a == it[n - 1]
    <3> HIDE DEF a
    <3>4. a \in Seq(D) /\ Selects(g, s, S, n - 1, a)
      BY <3>2, <3>3 DEF a
    <3>5. it[n] = IF s[n] \in S THEN Append(a, s[n]) ELSE a
      BY <1>4, <2>2, <2>4 DEF a
    <3>6. CASE s[n] \in S
      <4>1. \E h : Selects(h, s, S, n, Append(a, s[n]))
        BY <3>1, <3>4, <3>6, SelectsAppend
      <4>2. Append(a, s[n]) \in Seq(D)
        BY <3>1, <3>4
      <4> QED
        BY <2>2, <3>5, <3>6, <4>1, <4>2
    <3>7. CASE s[n] \notin S
      <4>1. Selects(g, s, S, n, a)
        BY <3>1, <3>4, <3>7, SelectsSkip
      <4> QED
        BY <2>2, <3>4, <3>5, <3>7, <4>1
    <3> QED
      BY <3>6, <3>7
  <2> QED
    BY <2>3, <2>4
<1>6. Good(Len(s))
  <2>1. Len(s) \in 0..Len(s)
    BY <1>1
  <2> QED
    BY <1>5, <2>1
<1> QED
  BY <1>2, <1>6

\* Among keeps the elements in S and no other.
LEMMA AmongElements ==
    ASSUME NEW D, NEW s \in Seq(D), NEW S
    PROVE  /\ Among(s, S) \in Seq(D)
           /\ Among(s, S) \in Seq(ToSet(Among(s, S)))
           /\ ToSet(Among(s, S)) = ToSet(s) \cap S
           /\ \A i \in 1..Len(Among(s, S)) : Among(s, S)[i] \in ToSet(s) \cap S
<1> DEFINE a == Among(s, S)
<1>1. a \in Seq(D) /\ \E g : Selects(g, s, S, Len(s), a)
  BY AmongSelects
<1> HIDE DEF a
<1>2. PICK g : Selects(g, s, S, Len(s), a)
  BY <1>1
<1>3. /\ DOMAIN a = 1..Len(a) /\ DOMAIN s = 1..Len(s)
      /\ ToSet(a) = {a[i] : i \in 1..Len(a)} /\ ToSet(s) = {s[i] : i \in 1..Len(s)}
  BY <1>1 DEF ToSet
<1>4. ASSUME NEW i \in 1..Len(a) PROVE a[i] \in ToSet(s) \cap S
  BY <1>2, <1>3 DEF Selects
<1>5. ASSUME NEW x \in ToSet(s) \cap S PROVE x \in ToSet(a)
  <2>1. PICK k \in 1..Len(s) : x = s[k]
    BY <1>3
  <2>2. PICK i \in 1..Len(a) : g[i] = k
    BY <1>2, <2>1 DEF Selects
  <2>3. a[i] = s[g[i]]
    BY <1>2 DEF Selects
  <2> QED
    BY <1>3, <2>1, <2>2, <2>3
<1>6. ToSet(a) = ToSet(s) \cap S
  BY <1>3, <1>4, <1>5
<1>7. a \in Seq(ToSet(a))
  BY <1>1, <1>3
<1> QED
  BY <1>1, <1>4, <1>6, <1>7 DEF a

-----------------------------------------------------------------------------
(* Images and parts.                                                       *)

\* The image of a finite set is finite and no larger.
LEMMA ImageCardinality ==
    ASSUME NEW S, IsFiniteSet(S), NEW f
    PROVE  /\ IsFiniteSet({f[x] : x \in S})
           /\ Cardinality({f[x] : x \in S}) <= Cardinality(S)
<1> DEFINE T == {f[x] : x \in S}
           g == [x \in S |-> f[x]]
<1>1. g \in Surjection(S, T)
  BY DEF Surjection
<1> HIDE DEF g, T
<1>2. IsFiniteSet(T) /\ Cardinality(T) <= Cardinality(S)
  BY <1>1, FS_Surjection
<1> QED
  BY <1>2 DEF T

\* It is as large if no two elements share their value.
LEMMA InjectiveImage ==
    ASSUME NEW S, IsFiniteSet(S), NEW f, \A x \in S : \A y \in S : f[x] = f[y] => x = y
    PROVE  Cardinality({f[x] : x \in S}) = Cardinality(S)
<1> DEFINE T == {f[x] : x \in S}
           g == [x \in S |-> f[x]]
<1>1. g \in Surjection(S, T)
  BY DEF Surjection
<1>2. g \in Injection(S, T)
  BY DEF Injection, IsInjective
<1> HIDE DEF g, T
<1>3. Cardinality(T) = Cardinality(S)
  BY <1>1, <1>2, FS_Surjection
<1> QED
  BY <1>3 DEF T

\* Parts of a finite set that do not meet are counted one by one.
LEMMA SumOfParts ==
    ASSUME NEW S, IsFiniteSet(S), NEW E, IsFiniteSet(E), NEW part,
           \A e \in E : part[e] \subseteq S,
           \A d, e \in E : d # e => part[d] \cap part[e] = {},
           NEW f, \A e \in E : f[e] = Cardinality(part[e])
    PROVE  SumFunctionOnSet(f, E) = Cardinality(UNION {part[e] : e \in E})
<1> DEFINE All(T) == UNION {part[e] : e \in T}
           Bad == {T \in SUBSET E : SumFunctionOnSet(f, T) # Cardinality(All(T))}
<1> SUFFICES ASSUME Bad # {} PROVE FALSE
  OBVIOUS
<1>1. PICK t \in Bad : \A u \in Bad : u \subseteq t => u = t
  <2>1. Bad \in SUBSET (SUBSET E)
    OBVIOUS
  <2> HIDE DEF Bad
  <2> QED
    BY <2>1, LeastSubset
<1>2. t \in SUBSET E /\ IsFiniteSet(t)
  BY FS_Subset
<1>3. t # {}
  <2>1. All({}) = {}
    OBVIOUS
  <2>2. SumFunctionOnSet(f, {}) = Cardinality(All({}))
    BY <2>1, SumEmpty, FS_EmptySet
  <2> QED
    BY <1>1, <2>2
<1>4. PICK x \in t : TRUE
  BY <1>3
<1>5. \A e \in E : f[e] \in Int /\ IsFiniteSet(part[e])
  BY FS_Subset, FS_CardinalityType
<1>6. SumFunctionOnSet(f, t) = f[x] + SumFunctionOnSet(f, t \ {x})
  BY <1>2, <1>4, <1>5, SumRemove
<1>7. SumFunctionOnSet(f, t \ {x}) = Cardinality(All(t \ {x}))
  BY <1>1, <1>4
<1>8. All(t) = All(t \ {x}) \cup part[x] /\ part[x] \cap All(t \ {x}) = {}
  BY <1>2, <1>4
<1>9. All(t \ {x}) \subseteq S /\ IsFiniteSet(All(t \ {x})) /\ x \in E
  <2>1. All(t \ {x}) \subseteq S
    BY <1>2
  <2> QED
    BY <1>2, <2>1, FS_Subset
<1>10. Cardinality(All(t)) = Cardinality(All(t \ {x})) + Cardinality(part[x])
  <2> DEFINE u == All(t \ {x})
             v == part[x]
  <2>1. IsFiniteSet(u) /\ IsFiniteSet(v) /\ u \cap v = {}
    BY <1>5, <1>8, <1>9
  <2> HIDE DEF u, v
  <2>2. Cardinality(u \cup v) = Cardinality(u) + Cardinality(v) - Cardinality(u \cap v)
    BY <2>1, FS_Union
  <2>3. Cardinality(u) \in Nat /\ Cardinality(v) \in Nat
    BY <2>1, FS_CardinalityType
  <2>4. Cardinality(u \cap v) = 0
    BY <2>1, FS_EmptySet
  <2>5. Cardinality(u \cup v) = Cardinality(u) + Cardinality(v)
    BY <2>2, <2>3, <2>4
  <2> QED
    BY <1>8, <2>5 DEF u, v
<1>11. f[x] = Cardinality(part[x]) /\ f[x] \in Int /\ SumFunctionOnSet(f, t \ {x}) \in Int
  <2>1. \A e \in t : f[e] \in Int
    BY <1>2, <1>5
  <2> QED
    BY <1>2, <1>4, <1>5, <2>1, SumRemove
<1>12. SumFunctionOnSet(f, t) = Cardinality(All(t))
  BY <1>6, <1>7, <1>10, <1>11
<1> QED
  BY <1>1, <1>12

\* A sum may be taken over an image instead.
LEMMA SumOfImage ==
    ASSUME NEW S, IsFiniteSet(S), NEW g, \A x, y \in S : g[x] = g[y] => x = y,
           NEW f, \A x \in S : f[g[x]] \in Int,
           NEW h, \A x \in S : h[x] = f[g[x]]
    PROVE  SumFunctionOnSet(f, {g[x] : x \in S}) = SumFunctionOnSet(h, S)
<1> DEFINE Image(T) == {g[x] : x \in T}
           Bad == {T \in SUBSET S : SumFunctionOnSet(f, Image(T)) # SumFunctionOnSet(h, T)}
<1> SUFFICES ASSUME Bad # {} PROVE FALSE
  OBVIOUS
<1>1. PICK t \in Bad : \A u \in Bad : u \subseteq t => u = t
  <2>1. Bad \in SUBSET (SUBSET S)
    OBVIOUS
  <2> HIDE DEF Bad
  <2> QED
    BY <2>1, LeastSubset
<1>2. t \in SUBSET S /\ IsFiniteSet(t)
  BY FS_Subset
<1>3. t # {}
  <2>1. Image({}) = {}
    OBVIOUS
  <2>2. SumFunctionOnSet(f, Image({})) = SumFunctionOnSet(h, {})
    BY <2>1, SumEmpty
  <2> QED
    BY <1>1, <2>2
<1>4. PICK x \in t : TRUE
  BY <1>3
<1>5. SumFunctionOnSet(h, t) = h[x] + SumFunctionOnSet(h, t \ {x})
  <2>1. \A y \in t : h[y] \in Int
    BY <1>2
  <2> QED
    BY <1>2, <1>4, <2>1, SumRemove
<1>6. Image(t) \ {g[x]} = Image(t \ {x}) /\ g[x] \in Image(t)
  BY <1>2, <1>4
<1>7. SumFunctionOnSet(f, Image(t)) = f[g[x]] + SumFunctionOnSet(f, Image(t \ {x}))
  <2>1. IsFiniteSet(Image(t))
    BY <1>2, ImageCardinality
  <2>2. \A y \in Image(t) : f[y] \in Int
    BY <1>2
  <2> HIDE DEF Image
  <2>3. SumFunctionOnSet(f, Image(t)) = f[g[x]] + SumFunctionOnSet(f, Image(t) \ {g[x]})
    BY <1>6, <2>1, <2>2, SumRemove
  <2> QED
    BY <1>6, <2>3
<1>8. SumFunctionOnSet(f, Image(t \ {x})) = SumFunctionOnSet(h, t \ {x})
  BY <1>1, <1>4
<1>9. h[x] = f[g[x]]
  BY <1>2, <1>4
<1>10. SumFunctionOnSet(f, Image(t)) = SumFunctionOnSet(h, t)
  BY <1>5, <1>7, <1>8, <1>9
<1> QED
  BY <1>1, <1>10

\* A smaller function has a smaller sum.
LEMMA SumMonotone ==
    ASSUME NEW S, IsFiniteSet(S), NEW f, \A x \in S : f[x] \in Int,
           NEW g, \A x \in S : g[x] \in Int, \A x \in S : f[x] <= g[x]
    PROVE  SumFunctionOnSet(f, S) <= SumFunctionOnSet(g, S)
<1> DEFINE Bad == {T \in SUBSET S : ~(SumFunctionOnSet(f, T) <= SumFunctionOnSet(g, T))}
<1> SUFFICES ASSUME Bad # {} PROVE FALSE
  OBVIOUS
<1>1. PICK t \in Bad : \A u \in Bad : u \subseteq t => u = t
  <2>1. Bad \in SUBSET (SUBSET S)
    OBVIOUS
  <2> HIDE DEF Bad
  <2> QED
    BY <2>1, LeastSubset
<1>2. t \in SUBSET S /\ IsFiniteSet(t)
  BY FS_Subset
<1>3. t # {}
  <2>1. SumFunctionOnSet(f, {}) = 0 /\ SumFunctionOnSet(g, {}) = 0
    BY SumEmpty
  <2>2. SumFunctionOnSet(f, {}) <= SumFunctionOnSet(g, {})
    BY <2>1
  <2> QED
    BY <1>1, <2>2
<1>4. PICK x \in t : TRUE
  BY <1>3
<1>5. \A y \in t : f[y] \in Int /\ g[y] \in Int
  BY <1>2
<1>6. /\ SumFunctionOnSet(f, t) = f[x] + SumFunctionOnSet(f, t \ {x})
      /\ SumFunctionOnSet(f, t \ {x}) \in Int
  BY <1>2, <1>4, <1>5, SumRemove
<1>7. /\ SumFunctionOnSet(g, t) = g[x] + SumFunctionOnSet(g, t \ {x})
      /\ SumFunctionOnSet(g, t \ {x}) \in Int
  BY <1>2, <1>4, <1>5, SumRemove
<1>8. SumFunctionOnSet(f, t \ {x}) <= SumFunctionOnSet(g, t \ {x}) /\ f[x] <= g[x]
  BY <1>1, <1>2, <1>4
<1>9. SumFunctionOnSet(f, t) <= SumFunctionOnSet(g, t)
  BY <1>4, <1>5, <1>6, <1>7, <1>8
<1> QED
  BY <1>1, <1>9

\* A common factor may be taken out of a sum.
LEMMA SumScale ==
    ASSUME NEW S, IsFiniteSet(S), NEW n \in Int, NEW f, \A x \in S : f[x] \in Int,
           NEW g, \A x \in S : g[x] = n * f[x]
    PROVE  SumFunctionOnSet(g, S) = n * SumFunctionOnSet(f, S)
<1> DEFINE Bad == {T \in SUBSET S : SumFunctionOnSet(g, T) # n * SumFunctionOnSet(f, T)}
<1> SUFFICES ASSUME Bad # {} PROVE FALSE
  OBVIOUS
<1>1. PICK t \in Bad : \A u \in Bad : u \subseteq t => u = t
  <2>1. Bad \in SUBSET (SUBSET S)
    OBVIOUS
  <2> HIDE DEF Bad
  <2> QED
    BY <2>1, LeastSubset
<1>2. t \in SUBSET S /\ IsFiniteSet(t)
  BY FS_Subset
<1>3. t # {}
  <2>1. SumFunctionOnSet(f, {}) = 0 /\ SumFunctionOnSet(g, {}) = 0
    BY SumEmpty
  <2>2. SumFunctionOnSet(g, {}) = n * SumFunctionOnSet(f, {})
    BY <2>1
  <2> QED
    BY <1>1, <2>2
<1>4. PICK x \in t : TRUE
  BY <1>3
<1>5. \A y \in t : f[y] \in Int /\ g[y] \in Int
  BY <1>2
<1>6. /\ SumFunctionOnSet(f, t) = f[x] + SumFunctionOnSet(f, t \ {x})
      /\ SumFunctionOnSet(f, t \ {x}) \in Int
  BY <1>2, <1>4, <1>5, SumRemove
<1>7. SumFunctionOnSet(g, t) = g[x] + SumFunctionOnSet(g, t \ {x})
  BY <1>2, <1>4, <1>5, SumRemove
<1>8. SumFunctionOnSet(g, t \ {x}) = n * SumFunctionOnSet(f, t \ {x}) /\ g[x] = n * f[x]
  BY <1>1, <1>2, <1>4
<1>9. \A i, j \in Int : n * (i + j) = n * i + n * j
  OBVIOUS
<1>10. SumFunctionOnSet(g, t) = n * SumFunctionOnSet(f, t)
  BY <1>4, <1>5, <1>6, <1>7, <1>8, <1>9
<1> QED
  BY <1>1, <1>10

\* The sum of a constant.
LEMMA SumConstant ==
    ASSUME NEW S, IsFiniteSet(S), NEW n \in Int, NEW g, \A x \in S : g[x] = n
    PROVE  SumFunctionOnSet(g, S) = n * Cardinality(S)
<1> DEFINE Bad == {T \in SUBSET S : SumFunctionOnSet(g, T) # n * Cardinality(T)}
<1> SUFFICES ASSUME Bad # {} PROVE FALSE
  OBVIOUS
<1>1. PICK t \in Bad : \A u \in Bad : u \subseteq t => u = t
  <2>1. Bad \in SUBSET (SUBSET S)
    OBVIOUS
  <2> HIDE DEF Bad
  <2> QED
    BY <2>1, LeastSubset
<1>2. t \in SUBSET S /\ IsFiniteSet(t)
  BY FS_Subset
<1>3. t # {}
  <2>1. SumFunctionOnSet(g, {}) = 0 /\ Cardinality({}) = 0
    BY SumEmpty, FS_EmptySet
  <2>2. SumFunctionOnSet(g, {}) = n * Cardinality({})
    BY <2>1
  <2> QED
    BY <1>1, <2>2
<1>4. PICK x \in t : TRUE
  BY <1>3
<1>5. \A y \in t : g[y] \in Int
  BY <1>2
<1>6. SumFunctionOnSet(g, t) = g[x] + SumFunctionOnSet(g, t \ {x})
  BY <1>2, <1>4, <1>5, SumRemove
<1>7. SumFunctionOnSet(g, t \ {x}) = n * Cardinality(t \ {x}) /\ g[x] = n
  BY <1>1, <1>2, <1>4
<1>8. /\ IsFiniteSet(t \ {x})
      /\ Cardinality(t \ {x}) = Cardinality(t) - 1
  BY <1>2, <1>4, FS_RemoveElement
<1>9. Cardinality(t) \in Nat
  BY <1>2, FS_CardinalityType
<1>10. SumFunctionOnSet(g, t) = n * Cardinality(t)
  <2> DEFINE c == Cardinality(t)
  <2>1. c \in Int /\ SumFunctionOnSet(g, t) = n + n * (c - 1)
    BY <1>6, <1>7, <1>8, <1>9
  <2> HIDE DEF c
  <2>2. n + n * (c - 1) = n * c
    BY <2>1
  <2> QED
    BY <2>1, <2>2 DEF c
<1> QED
  BY <1>1, <1>10

-----------------------------------------------------------------------------
(* SortedBy.                                                               *)

\* The places of the keys are different numbers from 1 on.
LEMMA PlacesDiffer ==
    ASSUME NEW n \in Nat, NEW keys \in [1..n -> Int]
    PROVE  /\ \A k \in 1..n : Place(keys, k) \in 1..n
           /\ \A j, k \in 1..n : Place(keys, j) = Place(keys, k) => j = k
           /\ \A i \in 1..n : \E k \in 1..n : Place(keys, k) = i
<1> DEFINE B(k) == {j \in 1..n : keys[j] < keys[k] \/ (keys[j] = keys[k] /\ j <= k)}
           f == [k \in 1..n |-> Place(keys, k)]
<1>1. \A k \in 1..n : keys[k] \in Int /\ k \in Int
  OBVIOUS
<1>2. \A k \in 1..n : Place(keys, k) = Cardinality(B(k)) /\ f[k] = Place(keys, k)
  BY DEF Place
<1>3. IsFiniteSet(1..n) /\ Cardinality(1..n) = n
  <2>1. 1 \in Int /\ n \in Int
    OBVIOUS
  <2> QED
    BY <2>1, FS_Interval
<1>4. \A k \in 1..n : B(k) \in SUBSET (1..n) /\ k \in B(k)
  BY <1>1
<1>5. ASSUME NEW j \in 1..n, NEW k \in 1..n, ~(k \in B(j))
      PROVE  Place(keys, j) < Place(keys, k)
  <2>1. B(j) \subseteq B(k)
    <3> SUFFICES ASSUME NEW i \in B(j) PROVE i \in B(k)
      OBVIOUS
    <3>1. /\ keys[i] \in Int /\ keys[j] \in Int /\ keys[k] \in Int
          /\ i \in Int /\ j \in Int /\ k \in Int /\ i \in 1..n
      BY <1>1
    <3>2. keys[i] < keys[j] \/ (keys[i] = keys[j] /\ i <= j)
      OBVIOUS
    <3>3. ~(keys[k] < keys[j]) /\ (keys[k] = keys[j] => ~(k <= j))
      BY <1>5
    <3>4. keys[i] < keys[k] \/ (keys[i] = keys[k] /\ i <= k)
      BY <3>1, <3>2, <3>3
    <3> QED
      BY <3>1, <3>4
  <2>2. B(j) # B(k) /\ B(k) \in SUBSET (1..n)
    BY <1>4, <1>5
  <2> DEFINE S == B(j)
             T == B(k)
  <2>3. S \in SUBSET T /\ S # T /\ T \in SUBSET (1..n)
    BY <2>1, <2>2
  <2>4. Place(keys, j) = Cardinality(S) /\ Place(keys, k) = Cardinality(T)
    BY <1>2
  <2> HIDE DEF S, T, B
  <2>5. IsFiniteSet(T)
    BY <1>3, <2>3, FS_Subset
  <2>6. /\ IsFiniteSet(S) /\ Cardinality(S) <= Cardinality(T)
        /\ Cardinality(S) # Cardinality(T)
    BY <2>3, <2>5, FS_Subset
  <2>7. Cardinality(S) \in Nat /\ Cardinality(T) \in Nat
    BY <2>5, <2>6, FS_CardinalityType
  <2> QED
    BY <2>4, <2>6, <2>7
<1>6. ASSUME NEW k \in 1..n PROVE Place(keys, k) \in 1..n
  <2> DEFINE T == B(k)
  <2>1. T \in SUBSET (1..n) /\ T # {} /\ Place(keys, k) = Cardinality(T)
    BY <1>2, <1>4
  <2> HIDE DEF T, B
  <2>2. IsFiniteSet(T) /\ Cardinality(T) <= n
    BY <1>3, <2>1, FS_Subset
  <2>3. Cardinality(T) \in Nat /\ Cardinality(T) # 0
    BY <2>1, <2>2, FS_CardinalityType, FS_EmptySet
  <2> QED
    BY <2>1, <2>2, <2>3
<1>7. ASSUME NEW j \in 1..n, NEW k \in 1..n, Place(keys, j) = Place(keys, k)
      PROVE  j = k
  <2>1. k \in B(j) /\ j \in B(k)
    <3>1. Place(keys, j) \in Int /\ Place(keys, k) \in Int
      BY <1>6
    <3>2. ~(Place(keys, j) < Place(keys, k)) /\ ~(Place(keys, k) < Place(keys, j))
      BY <1>7, <3>1
    <3> HIDE DEF B
    <3> QED
      BY <1>5, <3>2
  <2> QED
    BY <1>1, <2>1
<1>8. \A i \in 1..n : \E k \in 1..n : Place(keys, k) = i
  <2>1. \A j \in 1..n : \A k \in 1..n : f[j] = f[k] => j = k
    BY <1>2, <1>7
  <2>2. {f[k] : k \in 1..n} \in SUBSET (1..n)
    BY <1>2, <1>6
  <2>3. \A k \in 1..n : f[k] = Place(keys, k)
    BY <1>2
  <2> HIDE DEF f, B
  <2>4. Cardinality({f[k] : k \in 1..n}) = n
    BY <1>3, <2>1, InjectiveImage
  <2>5. {f[k] : k \in 1..n} = 1..n
    BY <1>3, <2>2, <2>4, FS_Subset
  <2> QED
    BY <2>3, <2>5
<1> QED
  BY <1>6, <1>7, <1>8

\* SortedBy returns the elements, each at its place.
LEMMA SortedElements ==
    ASSUME NEW D, NEW s \in Seq(D), NEW keys \in [1..Len(s) -> Int]
    PROVE  /\ SortedBy(s, keys) \in Seq(D) /\ Len(SortedBy(s, keys)) = Len(s)
           /\ ToSet(SortedBy(s, keys)) = ToSet(s)
           /\ \A k \in 1..Len(s) : /\ Place(keys, k) \in 1..Len(s)
                                   /\ SortedBy(s, keys)[Place(keys, k)] = s[k]
<1> DEFINE n == Len(s)
           k(i) == CHOOSE j \in DOMAIN s : Place(keys, j) = i
           t == SortedBy(s, keys)
<1>1. /\ n \in Nat /\ DOMAIN s = 1..n
      /\ \A j \in 1..n : Place(keys, j) \in 1..n
      /\ \A i, j \in 1..n : Place(keys, i) = Place(keys, j) => i = j
      /\ \A i \in 1..n : \E j \in 1..n : Place(keys, j) = i
  <2>1. n \in Nat /\ DOMAIN s = 1..n /\ keys \in [1..n -> Int]
    OBVIOUS
  <2> HIDE DEF n
  <2> QED
    BY <2>1, PlacesDiffer
<1>2. t = [i \in 1..n |-> s[k(i)]]
  <2>1. t = [i \in DOMAIN s |-> s[k(i)]]
    BY DEF SortedBy
  <2> QED
    BY <1>1, <2>1
<1>3. \A i \in 1..n : k(i) \in 1..n /\ Place(keys, k(i)) = i
  BY <1>1
<1>4. \A j \in 1..n : k(Place(keys, j)) = j
  BY <1>1, <1>3
<1> HIDE DEF k, t
<1>5. \A i \in 1..n : t[i] = s[k(i)] /\ s[k(i)] \in D
  BY <1>2, <1>3
<1>6. t \in Seq(D) /\ Len(t) = n
  BY <1>1, <1>2, <1>5
<1>7. \A j \in 1..n : t[Place(keys, j)] = s[j]
  BY <1>1, <1>4, <1>5
<1>8. ToSet(t) = ToSet(s)
  <2>1. ToSet(t) = {t[i] : i \in 1..n} /\ ToSet(s) = {s[i] : i \in 1..n}
    BY <1>1, <1>2 DEF ToSet
  <2>2. \A i \in 1..n : t[i] \in {s[j] : j \in 1..n}
    BY <1>3, <1>5
  <2>3. \A j \in 1..n : s[j] \in {t[i] : i \in 1..n}
    BY <1>1, <1>7
  <2> QED
    BY <2>1, <2>2, <2>3
<1> QED
  BY <1>1, <1>6, <1>7, <1>8 DEF t

-----------------------------------------------------------------------------
(* Division.                                                               *)

\* Multiplication by a positive number keeps the order.
LEMMA ScaleOrder ==
    ASSUME NEW n \in Nat \ {0}, NEW a \in Int, NEW b \in Int, n * a < n * b
    PROVE  a < b
<1> SUFFICES ASSUME b <= a PROVE FALSE
  OBVIOUS
<1>1. PICK c \in Nat : a = b + c
  <2>1. a - b \in Nat /\ a = b + (a - b)
    OBVIOUS
  <2> QED
    BY <2>1
<1>2. n * a = n * b + n * c
  BY <1>1
<1>3. n * c >= 0 /\ n * a \in Int /\ n * b \in Int /\ n * c \in Int
  BY <1>1
<1> QED
  BY <1>2, <1>3

\* Division with remainder.
LEMMA Division ==
    ASSUME NEW t \in Int, NEW n \in Nat \ {0}
    PROVE  /\ t \div n \in Int /\ t % n \in 0..(n - 1)
           /\ t = n * (t \div n) + (t % n)
  OBVIOUS

\* The floor of t to a multiple of n is the only one in reach below t.
LEMMA FloorUnique ==
    ASSUME NEW n \in Nat \ {0}, NEW t \in Int, NEW a \in Int,
           n * a <= t, t < n * a + n
    PROVE  t - (t % n) = n * a
<1> DEFINE d == t \div n
           e == t % n
<1>1. d \in Int /\ e \in 0..(n - 1) /\ t = n * d + e
  BY Division
<1> HIDE DEF d, e
<1>2. n * a \in Int /\ n * d \in Int
  BY <1>1
<1>3. n * (d + 1) = n * d + n /\ n * (a + 1) = n * a + n
  BY <1>1
<1>4. n * a < n * (d + 1) /\ n * d < n * (a + 1)
  BY <1>1, <1>2, <1>3
<1>5. a < d + 1 /\ d < a + 1
  BY <1>1, <1>4, ScaleOrder
<1>6. a = d
  BY <1>1, <1>5
<1>7. t - e = n * d
  BY <1>1, <1>2
<1> QED
  BY <1>6, <1>7 DEF e

\* Rounding down to a multiple keeps the order.
LEMMA FloorMonotone ==
    ASSUME NEW n \in Nat \ {0}, NEW t \in Int, NEW u \in Int, t <= u
    PROVE  /\ t - (t % n) \in Int /\ t - (t % n) <= t
           /\ t - (t % n) <= u - (u % n)
<1> DEFINE a == t \div n
           b == u \div n
           e == t % n
           f == u % n
<1>1. /\ a \in Int /\ e \in 0..(n - 1) /\ t = n * a + e
      /\ b \in Int /\ f \in 0..(n - 1) /\ u = n * b + f
  BY Division
<1> HIDE DEF a, b, e, f
<1>2. n * a \in Int /\ n * b \in Int /\ n * (b + 1) = n * b + n
  BY <1>1
<1>3. n * a < n * (b + 1)
  BY <1>1, <1>2
<1>4. a < b + 1
  BY <1>1, <1>3, ScaleOrder
<1>5. a = b \/ a < b
  BY <1>1, <1>4
<1>6. n * a <= n * b
  <2>1. CASE a = b
    BY <1>2, <2>1
  <2>2. CASE a < b
    <3>1. n * (b - a) >= 0 /\ n * b = n * a + n * (b - a)
      <4> DEFINE c == b - a
      <4>1. c \in Nat /\ b = a + c
        BY <1>1, <2>2
      <4> HIDE DEF c
      <4>2. n * b = n * a + n * c /\ n * c >= 0
        BY <1>1, <4>1
      <4> QED
        BY <4>2 DEF c
    <3> QED
      BY <1>1, <1>2, <3>1
  <2> QED
    BY <1>5, <2>1, <2>2
<1>7. t - e = n * a /\ u - f = n * b
  BY <1>1, <1>2
<1> QED
  BY <1>1, <1>2, <1>6, <1>7 DEF e, f

-----------------------------------------------------------------------------
(* Occurrences.                                                            *)

\* How often x occurs in s.
Occurrences(x, s) == Cardinality({k \in DOMAIN s : s[k] = x})

\* That is a number.
LEMMA OccurrencesType ==
    ASSUME NEW D, NEW s \in Seq(D), NEW x
    PROVE  Occurrences(x, s) \in Nat
<1> DEFINE n == Len(s)
           A == {k \in DOMAIN s : s[k] = x}
<1>1. n \in Nat /\ A \in SUBSET (1..n)
  OBVIOUS
<1> HIDE DEF n, A
<1>2. IsFiniteSet(1..n)
  BY <1>1, FS_Interval
<1>3. IsFiniteSet(A)
  BY <1>1, <1>2, FS_Subset
<1>4. Cardinality(A) \in Nat
  BY <1>3, FS_CardinalityType
<1> QED
  BY <1>4 DEF Occurrences, A

\* Occurrences add up in a concatenation.
LEMMA ConcatOccurrences ==
    ASSUME NEW D, NEW s \in Seq(D), NEW t \in Seq(D), NEW x
    PROVE  /\ Occurrences(x, s) \in Nat /\ Occurrences(x, t) \in Nat
           /\ Occurrences(x, s \o t) = Occurrences(x, s) + Occurrences(x, t)
<1> DEFINE n == Len(s)
           A == {k \in 1..n : s[k] = x}
           B == {k \in 1..Len(t) : t[k] = x}
           f == [k \in B |-> n + k]
           C == {f[k] : k \in B}
           E == {k \in 1..Len(s \o t) : (s \o t)[k] = x}
<1>1. n \in Nat /\ Len(t) \in Nat /\ Len(s \o t) = n + Len(t)
  OBVIOUS
<1>2. /\ Occurrences(x, s) = Cardinality(A) /\ Occurrences(x, t) = Cardinality(B)
      /\ Occurrences(x, s \o t) = Cardinality(E)
  <2>1. /\ DOMAIN s = 1..n /\ DOMAIN t = 1..Len(t)
        /\ DOMAIN (s \o t) = 1..Len(s \o t)
    OBVIOUS
  <2>2. /\ {k \in DOMAIN s : s[k] = x} = A /\ {k \in DOMAIN t : t[k] = x} = B
        /\ {k \in DOMAIN (s \o t) : (s \o t)[k] = x} = E
    BY <2>1
  <2> QED
    BY <2>2 DEF Occurrences
<1>3. IsFiniteSet(A) /\ IsFiniteSet(B)
  <2>1. IsFiniteSet(1..n)
    BY <1>1, FS_Interval
  <2>2. IsFiniteSet(1..Len(t))
    BY <1>1, FS_Interval
  <2>3. A \in SUBSET (1..n) /\ B \in SUBSET (1..Len(t))
    OBVIOUS
  <2> HIDE DEF A, B
  <2> QED
    BY <2>1, <2>2, <2>3, FS_Subset
<1>4. E = A \cup C
  <2>1. ASSUME NEW k \in E PROVE k \in A \cup C
    <3>1. k \in 1..(n + Len(t)) /\ (s \o t)[k] = x
      BY <1>1
    <3>2. CASE k <= n
      BY <1>1, <3>1, <3>2
    <3>3. CASE k > n
      <4>1. k - n \in 1..Len(t) /\ t[k - n] = x
        BY <1>1, <3>1, <3>3
      <4>2. k - n \in B /\ f[k - n] = k
        BY <1>1, <3>1, <4>1
      <4> QED
        BY <4>2
    <3> QED
      BY <1>1, <3>1, <3>2, <3>3
  <2>2. ASSUME NEW k \in A PROVE k \in E
    BY <1>1
  <2>3. ASSUME NEW k \in B PROVE n + k \in E
    <3>1. k \in 1..Len(t) /\ t[k] = x
      OBVIOUS
    <3>2. n + k \in 1..Len(s \o t) /\ (s \o t)[n + k] = t[k]
      BY <1>1, <3>1
    <3> QED
      BY <3>1, <3>2
  <2> QED
    BY <2>1, <2>2, <2>3
<1>5. Cardinality(C) = Cardinality(B) /\ IsFiniteSet(C)
  <2>1. \A j \in B : \A k \in B : f[j] = f[k] => j = k
    BY <1>1
  <2> HIDE DEF f, B
  <2> QED
    BY <1>3, <2>1, InjectiveImage, ImageCardinality
<1>6. A \cap C = {}
  <2>1. \A k \in A : k \in Int /\ k <= n
    BY <1>1
  <2>2. \A k \in B : k \in Nat \ {0} /\ f[k] = n + k
    BY <1>1
  <2>3. \A k \in B : f[k] > n
    BY <1>1, <2>2
  <2> HIDE DEF A, B, f
  <2> QED
    BY <1>1, <2>1, <2>2, <2>3
<1> HIDE DEF A, B, C, E, f
<1>7. Cardinality(A \cup C) = Cardinality(A) + Cardinality(C) - Cardinality(A \cap C)
  <2> HIDE DEF f
  <2> QED
    BY <1>3, <1>5, FS_Union
<1>8. Cardinality(A) \in Nat /\ Cardinality(B) \in Nat /\ Cardinality({}) = 0
  BY <1>3, FS_CardinalityType, FS_EmptySet
<1>9. Cardinality(A \cup C) = Cardinality(A) + Cardinality(C)
  <2> DEFINE K == A \cap C
  <2>1. K = {}
    BY <1>6
  <2> HIDE DEF K
  <2>2. Cardinality(K) = 0
    BY <1>8, <2>1
  <2> QED
    BY <1>5, <1>7, <1>8, <2>2 DEF K
<1>10. Cardinality(E) = Cardinality(A) + Cardinality(B)
  BY <1>4, <1>5, <1>9
<1> QED
  BY <1>2, <1>8, <1>10

\* And in what FlattenSeq returns.
LEMMA FlattenOccurrences ==
    ASSUME NEW D, NEW ss \in Seq(Seq(D)), NEW x, NEW c,
           \A i \in 1..Len(ss) : c[i] = Occurrences(x, ss[i])
    PROVE  Occurrences(x, FlattenSeq(ss)) = SumFunctionOnSet(c, 1..Len(ss))
<1>1. CASE Len(ss) = 0
  <2>1. FlattenSeq(ss) = <<>>
    BY <1>1 DEF FlattenSeq
  <2>2. {k \in DOMAIN <<>> : <<>>[k] = x} = {} /\ 1..Len(ss) = {}
    BY <1>1
  <2>3. Occurrences(x, FlattenSeq(ss)) = 0
    BY <2>1, <2>2, FS_EmptySet DEF Occurrences
  <2>4. SumFunctionOnSet(c, {}) = 0
    BY SumEmpty
  <2> QED
    BY <2>2, <2>3, <2>4
<1>2. CASE Len(ss) # 0
  <2> DEFINE n == Len(ss)
             it == CHOOSE it : Flattens(it, ss, n)
             Good(j) == Occurrences(x, it[j]) = SumFunctionOnSet(c, 1..j)
             Bad == {j \in 1..n : ~Good(j)}
  <2>1. n \in Nat /\ n \in 1..n
    BY <1>2
  <2>2. Flattens(it, ss, n)
    <3>1. \E i : Flattens(i, ss, n)
      BY <2>1, FlattensExist
    <3> QED
      BY <3>1
  <2>3. FlattenSeq(ss) = it[n]
    BY <1>2 DEF FlattenSeq, Flattens
  <2>4. \A k \in 1..n : it[k] \in Seq(D)
    BY <2>2, FlattensElements
  <2> HIDE DEF it
  <2>5. \A i \in 1..n : ss[i] \in Seq(D)
    OBVIOUS
  <2>6. \A i \in 1..n : c[i] \in Int
    <3> SUFFICES ASSUME NEW i \in 1..n PROVE Occurrences(x, ss[i]) \in Int
      OBVIOUS
    <3> DEFINE s == ss[i]
    <3>1. s \in Seq(D)
      BY <2>5
    <3> HIDE DEF s
    <3>2. Occurrences(x, s) \in Nat
      BY <3>1, OccurrencesType
    <3> QED
      BY <3>2 DEF s
  <2> SUFFICES ASSUME Bad # {} PROVE FALSE
    BY <2>1, <2>3
  <2>7. PICK j \in Bad : \A i \in Bad : j <= i
    <3>1. Bad \in SUBSET Nat
      OBVIOUS
    <3> HIDE DEF Bad
    <3> QED
      BY <3>1, LeastNumber
  <2>8. it[j] = IF j = 1 THEN ss[j] ELSE it[j - 1] \o ss[j]
    BY <2>2 DEF Flattens
  <2>9. SumFunctionOnSet(c, 1..j) = c[j] + SumFunctionOnSet(c, 1..(j - 1))
    <3> DEFINE I == 1..j
    <3>1. IsFiniteSet(I) /\ j \in I /\ I \ {j} = 1..(j - 1)
      <4>1. j \in Nat \ {0}
        OBVIOUS
      <4>2. IsFiniteSet(I)
        BY <4>1, FS_Interval
      <4> QED
        BY <4>1, <4>2
    <3>2. \A i \in I : c[i] \in Int
      BY <2>1, <2>6
    <3> HIDE DEF I
    <3>3. SumFunctionOnSet(c, I) = c[j] + SumFunctionOnSet(c, I \ {j})
      BY <3>1, <3>2, SumRemove
    <3> QED
      BY <3>1, <3>3 DEF I
  <2>10. c[j] = Occurrences(x, ss[j]) /\ c[j] \in Int
    BY <2>6
  <2>11. CASE j = 1
    <3>1. 1..(j - 1) = {}
      BY <2>11
    <3>2. SumFunctionOnSet(c, {}) = 0
      BY SumEmpty
    <3> QED
      BY <2>7, <2>8, <2>9, <2>10, <2>11, <3>1, <3>2
  <2>12. CASE j # 1
    <3>1. j - 1 \in 1..n /\ ~(j <= j - 1)
      BY <2>1, <2>12
    <3>2. Good(j - 1)
      BY <2>7, <3>1
    <3>3. it[j] = it[j - 1] \o ss[j] /\ it[j - 1] \in Seq(D) /\ ss[j] \in Seq(D)
      BY <2>4, <2>5, <2>8, <2>12, <3>1
    <3>4. /\ Occurrences(x, it[j]) = Occurrences(x, it[j - 1]) + Occurrences(x, ss[j])
          /\ Occurrences(x, it[j - 1]) \in Nat
      <4> DEFINE a == it[j - 1]
                 b == ss[j]
      <4>1. a \in Seq(D) /\ b \in Seq(D)
        BY <3>3
      <4> HIDE DEF a, b
      <4>2. /\ Occurrences(x, a \o b) = Occurrences(x, a) + Occurrences(x, b)
            /\ Occurrences(x, a) \in Nat
        BY <4>1, ConcatOccurrences
      <4> QED
        BY <3>3, <4>2 DEF a, b
    <3> QED
      BY <2>7, <2>9, <2>10, <3>2, <3>4
  <2> QED
    BY <2>11, <2>12
<1> QED
  BY <1>1, <1>2

=============================================================================
