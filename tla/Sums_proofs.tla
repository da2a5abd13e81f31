---------------------------- MODULE Sums_proofs ----------------------------
(***************************************************************************)
(* Lemmas about data that the proofs of several modules rest on: induction *)
(* over the natural numbers and over the subsets of a finite set, and what *)
(* SumFunctionOnSet of the community module Functions is.                  *)
(*                                                                         *)
(* The library states induction with an operator for the predicate.  Here  *)
(* the predicate is the set of what it holds for, and the step to all of   *)
(* them is the minimum of what is left, by WFMin.                          *)
(***************************************************************************)
EXTENDS Integers, FiniteSetsExt, FiniteSetTheorems, WellFoundedInduction, TLAPS

-----------------------------------------------------------------------------
(* Induction                                                               *)

\* Induction over the natural numbers, for a set instead of a predicate.
LEMMA SetOfNaturals ==
    ASSUME NEW S, 0 \in S, \A n \in Nat : n \in S => n + 1 \in S
    PROVE  Nat \subseteq S
<1> DEFINE Missing == Nat \ S
           Less == OpToRel(<, Nat)
<1>1. \A m, n \in Nat : m < n => <<m, n>> \in Less
  BY DEF OpToRel
<1> SUFFICES ASSUME Missing # {}
             PROVE  FALSE
  OBVIOUS
<1>2. \E n \in Missing : \A m \in Missing : ~(<<m, n>> \in Less)
  <2>1. IsWellFoundedOn(Less, Nat)
    BY NatLessThanWellFounded
  <2> HIDE DEF Less
  <2> QED BY <2>1, WFMin
<1>3. PICK n \in Missing : \A m \in Missing : ~(<<m, n>> \in Less)
  BY <1>2
<1>4. n \in Nat /\ n # 0 /\ n - 1 \in Nat /\ n - 1 < n /\ (n - 1) + 1 = n
  OBVIOUS
<1>5. n - 1 \notin Missing
  BY <1>1, <1>3, <1>4
<1> QED BY <1>4, <1>5

\* ... and over the subsets of a finite set.
LEMMA SetOfSubsets ==
    ASSUME NEW T, IsFiniteSet(T), NEW F, {} \in F,
           \A s \in SUBSET T : \A x \in T \ s : s \in F => s \cup {x} \in F
    PROVE  SUBSET T \subseteq F
<1> DEFINE N == {n \in Nat : \A s \in SUBSET T : Cardinality(s) = n => s \in F}
<1>1. \A s \in SUBSET T : IsFiniteSet(s) /\ Cardinality(s) \in Nat
  BY FS_Subset, FS_CardinalityType
<1>2. 0 \in N
  BY <1>1, FS_EmptySet
<1>3. ASSUME NEW n \in Nat, n \in N
      PROVE  n + 1 \in N
  <2> SUFFICES ASSUME NEW s \in SUBSET T, Cardinality(s) = n + 1
               PROVE  s \in F
    OBVIOUS
  <2>1. PICK x \in s : TRUE
    BY <1>1, FS_EmptySet
  <2>2. Cardinality(s \ {x}) = n
    <3>1. Cardinality(s \ {x}) = Cardinality(s) - 1
      BY <1>1, <2>1, FS_RemoveElement
    <3> QED BY <3>1
  <2>3. s \ {x} \in F
    BY <1>3, <2>2
  <2>4. s = (s \ {x}) \cup {x}
    BY <2>1
  <2> QED BY <2>1, <2>3, <2>4
<1>4. Nat \subseteq N
  <2> HIDE DEF N
  <2> QED BY <1>2, <1>3, SetOfNaturals
<1> QED BY <1>1, <1>4

-----------------------------------------------------------------------------
(* Sums                                                                    *)

Pick(s) == CHOOSE x \in s : TRUE

\* The recursion of a sum over a finite set.
SumsUp(g, f, T) ==
    g = [s \in SUBSET T |-> IF s = {} THEN 0 ELSE f[Pick(s)] + g[s \ {Pick(s)}]]

\* There is a function with this recursion: for one size of sets after the other.
LEMMA SumExists ==
    ASSUME NEW f, NEW T, IsFiniteSet(T)
    PROVE  \E g : SumsUp(g, f, T)
<1> DEFINE Level(n) == {s \in SUBSET T : Cardinality(s) <= n}
           UpTo(g, n) == g = [s \in Level(n) |-> IF s = {} THEN 0
                                                ELSE f[Pick(s)] + g[s \ {Pick(s)}]]
           N == {n \in Nat : \E g : UpTo(g, n)}
<1>1. \A s \in SUBSET T : IsFiniteSet(s) /\ Cardinality(s) \in Nat
  BY FS_Subset, FS_CardinalityType
<1>2. 0 \in N
  <2> DEFINE g == [s \in Level(0) |-> 0]
  <2>1. \A s \in Level(0) : s = {}
    BY <1>1, FS_EmptySet
  <2>2. UpTo(g, 0)
    BY <2>1
  <2> QED BY <2>2
<1>3. ASSUME NEW n \in Nat, n \in N
      PROVE  n + 1 \in N
  <2>1. PICK g : UpTo(g, n)
    BY <1>3
  <2> DEFINE h == [s \in Level(n + 1) |-> IF s = {} THEN 0
                                         ELSE f[Pick(s)] + g[s \ {Pick(s)}]]
  <2>2. ASSUME NEW s \in Level(n + 1), s # {}
        PROVE  s \ {Pick(s)} \in Level(n) /\ s \ {Pick(s)} \in Level(n + 1)
    <3>1. Pick(s) \in s
      BY <2>2 DEF Pick
    <3>2. Cardinality(s \ {Pick(s)}) = Cardinality(s) - 1
      BY <1>1, <3>1, FS_RemoveElement
    <3>3. Cardinality(s) \in Nat /\ Cardinality(s) <= n + 1
      BY <1>1
    <3> QED BY <3>2, <3>3
  <2>3. \A s \in Level(n) : h[s] = g[s]
    <3>1. \A s \in Level(n) : s \in Level(n + 1)
      BY <1>1
    <3>2. \A s \in Level(n) : g[s] = IF s = {} THEN 0 ELSE f[Pick(s)] + g[s \ {Pick(s)}]
      BY <2>1
    <3> QED BY <3>1, <3>2
  <2>4. \A s \in Level(n + 1) : s # {} => h[s \ {Pick(s)}] = g[s \ {Pick(s)}]
    <3> HIDE DEF h
    <3> QED BY <2>2, <2>3
  <2>5. UpTo(h, n + 1)
    BY <2>4
  <2>6. \E k : UpTo(k, n + 1)
    <3> HIDE DEF h, UpTo
    <3> QED BY <2>5
  <2> HIDE DEF h, UpTo
  <2> QED BY <2>6
<1>4. Nat \subseteq N
  <2> HIDE DEF N
  <2> QED BY <1>2, <1>3, SetOfNaturals
<1>5. PICK g : UpTo(g, Cardinality(T))
  BY <1>1, <1>4
<1>6. Level(Cardinality(T)) = SUBSET T
  BY <1>1, FS_Subset
<1> QED BY <1>5, <1>6 DEF SumsUp

\* ... and that is what SumFunctionOnSet takes.
LEMMA SumRecursion ==
    ASSUME NEW f, NEW T, IsFiniteSet(T)
    PROVE  \E g : SumsUp(g, f, T) /\ SumFunctionOnSet(f, T) = g[T]
<1> DEFINE g == CHOOSE h : SumsUp(h, f, T)
<1>1. SumsUp(g, f, T)
  BY SumExists
<1>2. SumFunctionOnSet(f, T) = g[T]
  BY DEF SumFunctionOnSet, FoldFunctionOnSet, MapThenFoldSet, SumsUp, Pick
<1> QED BY <1>1, <1>2

\* The order does not matter.
LEMMA SumsUpAny ==
    ASSUME NEW f, NEW T, IsFiniteSet(T), \A x \in T : f[x] \in Int,
           NEW g, SumsUp(g, f, T)
    PROVE  /\ g[{}] = 0
           /\ \A s \in SUBSET T : g[s] \in Int
           /\ \A s \in SUBSET T : \A x \in T \ s : g[s \cup {x}] = g[s] + f[x]
<1>1. \A s \in SUBSET T : IsFiniteSet(s) /\ Cardinality(s) \in Nat
  BY FS_Subset, FS_CardinalityType
<1>2. g[{}] = 0
  BY DEF SumsUp
<1>3. \A s \in SUBSET T : s # {} =>
          Pick(s) \in s /\ s \ {Pick(s)} \in SUBSET T /\ g[s] = f[Pick(s)] + g[s \ {Pick(s)}]
  <2>1. \A s : s # {} => Pick(s) \in s
    BY DEF Pick
  <2> QED BY <2>1 DEF SumsUp
<1> DEFINE Good(s) == /\ g[s] \in Int
                      /\ \A x \in T \ s : g[s \cup {x}] = g[s] + f[x]
           N == {n \in Nat : \A s \in SUBSET T : Cardinality(s) = n => Good(s)}
<1>4. 0 \in N
  <2> SUFFICES Good({})
    BY <1>1, FS_EmptySet
  <2> SUFFICES ASSUME NEW x \in T
               PROVE  g[{x}] = f[x]
    BY <1>2
  <2>1. Pick({x}) = x /\ {x} \ {x} = {}
    BY DEF Pick
  <2> QED BY <1>2, <1>3, <2>1
<1>5. ASSUME NEW n \in Nat, n \in N
      PROVE  n + 1 \in N
  <2> SUFFICES ASSUME NEW s \in SUBSET T, Cardinality(s) = n + 1
               PROVE  Good(s)
    OBVIOUS
  <2>1. \A p \in s : Good(s \ {p})
    <3>1. \A p \in s : Cardinality(s \ {p}) = Cardinality(s) - 1
      BY <1>1, FS_RemoveElement
    <3>2. \A p \in s : s \ {p} \in SUBSET T /\ Cardinality(s \ {p}) = n
      BY <3>1
    <3> HIDE DEF Good
    <3> QED BY <1>5, <3>2
  <2>2. s # {}
    BY <1>1, FS_EmptySet
  <2>3. g[s] \in Int
    <3> DEFINE p == Pick(s)
    <3>1. p \in s /\ g[s] = f[p] + g[s \ {p}]
      BY <1>3, <2>2
    <3>2. g[s \ {p}] \in Int /\ f[p] \in Int
      BY <2>1, <3>1
    <3> QED BY <3>1, <3>2
  <2>4. ASSUME NEW x \in T \ s
        PROVE  g[s \cup {x}] = g[s] + f[x]
    <3> DEFINE u == s \cup {x}
               p == Pick(u)
    <3>1. u \in SUBSET T /\ u # {}
      OBVIOUS
    <3>2. p \in u /\ g[u] = f[p] + g[u \ {p}]
      BY <1>3, <3>1
    <3>3. CASE p = x
      <4>1. u \ {p} = s
        BY <3>3
      <4>2. g[s \cup {x}] = f[x] + g[s] /\ f[x] \in Int
        BY <3>2, <3>3, <4>1
      <4> QED BY <2>3, <4>2
    <3>4. CASE p # x
      <4>1. p \in s /\ u \ {p} = (s \ {p}) \cup {x} /\ s = (s \ {p}) \cup {p}
        BY <3>2, <3>4
      <4>2. g[s \ {p}] \in Int /\ g[u \ {p}] = g[s \ {p}] + f[x]
        BY <2>1, <4>1
      <4>3. g[s] = g[s \ {p}] + f[p]
        BY <2>1, <4>1
      <4> HIDE DEF p
      <4> QED BY <3>2, <4>1, <4>2, <4>3
    <3> QED BY <3>3, <3>4
  <2> QED BY <2>3, <2>4
<1>6. Nat \subseteq N
  <2> HIDE DEF N
  <2> QED BY <1>4, <1>5, SetOfNaturals
<1>7. \A s \in SUBSET T : Good(s)
  BY <1>1, <1>6
<1> QED BY <1>2, <1>7

\* Two recursions agree where both are defined.
LEMMA SumsAgree ==
    ASSUME NEW T, IsFiniteSet(T), NEW S \in SUBSET T,
           NEW f, \A x \in T : f[x] \in Int,
           NEW e, \A x \in S : e[x] = f[x],
           NEW g, SumsUp(g, f, T), NEW h, SumsUp(h, e, S)
    PROVE  g[S] = h[S]
<1> DEFINE F == {s \in SUBSET S : g[s] = h[s]}
<1>1. IsFiniteSet(S) /\ \A x \in S : e[x] \in Int
  BY FS_Subset
<1>2. {} \in F
  BY <1>1, SumsUpAny
<1>3. ASSUME NEW s \in SUBSET S, NEW x \in S \ s, s \in F
      PROVE  s \cup {x} \in F
  <2>1. g[s \cup {x}] = g[s] + f[x]
    BY SumsUpAny
  <2>2. h[s \cup {x}] = h[s] + e[x]
    BY <1>1, SumsUpAny
  <2> QED BY <1>3, <2>1, <2>2
<1>4. SUBSET S \subseteq F
  <2> HIDE DEF F
  <2> QED BY <1>1, <1>2, <1>3, SetOfSubsets
<1> QED BY <1>4

-----------------------------------------------------------------------------
(* What the modules use                                                    *)

\* The sum of nothing, the type of a sum, and that it depends on the values only.
LEMMA SumOfNone ==
    ASSUME NEW f
    PROVE  SumFunctionOnSet(f, {}) = 0
<1>1. IsFiniteSet({})
  BY FS_EmptySet
<1> QED BY <1>1, SumRecursion DEF SumsUp

LEMMA SumIsInt ==
    ASSUME NEW S, IsFiniteSet(S), NEW f, \A x \in S : f[x] \in Int
    PROVE  SumFunctionOnSet(f, S) \in Int
BY SumRecursion, SumsUpAny

LEMMA SumOfSame ==
    ASSUME NEW S, IsFiniteSet(S), NEW f, \A x \in S : f[x] \in Int,
           NEW e, \A x \in S : e[x] = f[x]
    PROVE  SumFunctionOnSet(e, S) = SumFunctionOnSet(f, S)
<1>1. PICK g : SumsUp(g, f, S) /\ SumFunctionOnSet(f, S) = g[S]
  BY SumRecursion
<1>2. PICK h : SumsUp(h, e, S) /\ SumFunctionOnSet(e, S) = h[S]
  BY SumRecursion
<1> QED BY <1>1, <1>2, SumsAgree

\* A set with one element more.
LEMMA SumWithOneMore ==
    ASSUME NEW S, IsFiniteSet(S), NEW x, x \notin S,
           NEW f, \A y \in S \cup {x} : f[y] \in Int
    PROVE  SumFunctionOnSet(f, S \cup {x}) = SumFunctionOnSet(f, S) + f[x]
<1> DEFINE T == S \cup {x}
<1>1. IsFiniteSet(T)
  BY FS_AddElement
<1>2. PICK g : SumsUp(g, f, T) /\ SumFunctionOnSet(f, T) = g[T]
  BY <1>1, SumRecursion
<1>3. PICK h : SumsUp(h, f, S) /\ SumFunctionOnSet(f, S) = h[S]
  BY SumRecursion
<1>4. g[S] = h[S]
  BY <1>1, <1>2, <1>3, SumsAgree
<1>5. g[S \cup {x}] = g[S] + f[x]
  <2>1. S \in SUBSET T /\ x \in T \ S /\ \A y \in T : f[y] \in Int
    OBVIOUS
  <2> HIDE DEF T
  <2> QED BY <1>1, <1>2, <2>1, SumsUpAny
<1> QED BY <1>2, <1>3, <1>4, <1>5

LEMMA SumWithout ==
    ASSUME NEW S, IsFiniteSet(S), NEW x \in S, NEW f, \A y \in S : f[y] \in Int
    PROVE  SumFunctionOnSet(f, S) = SumFunctionOnSet(f, S \ {x}) + f[x]
<1>1. IsFiniteSet(S \ {x}) /\ S = (S \ {x}) \cup {x}
  BY FS_RemoveElement
<1> DEFINE R == S \ {x}
<1>2. IsFiniteSet(R) /\ x \notin R /\ \A y \in R \cup {x} : f[y] \in Int
  BY <1>1
<1>3. SumFunctionOnSet(f, R \cup {x}) = SumFunctionOnSet(f, R) + f[x]
  <2> HIDE DEF R
  <2> QED BY <1>2, SumWithOneMore
<1> QED BY <1>1, <1>3

\* Two functions that differ in one element.
LEMMA SumWithChange ==
    ASSUME NEW S, IsFiniteSet(S), NEW x \in S,
           NEW f, \A y \in S : f[y] \in Int,
           NEW e, \A y \in S \ {x} : e[y] = f[y], e[x] \in Int
    PROVE  SumFunctionOnSet(e, S) = SumFunctionOnSet(f, S) - f[x] + e[x]
<1>1. IsFiniteSet(S \ {x})
  BY FS_RemoveElement
<1>2. SumFunctionOnSet(e, S \ {x}) = SumFunctionOnSet(f, S \ {x})
  BY <1>1, SumOfSame
<1>3. SumFunctionOnSet(f, S \ {x}) \in Int
  BY <1>1, SumIsInt
<1>4. \A y \in S : e[y] \in Int
  OBVIOUS
<1>5. SumFunctionOnSet(f, S) = SumFunctionOnSet(f, S \ {x}) + f[x]
  BY SumWithout
<1>6. SumFunctionOnSet(e, S) = SumFunctionOnSet(e, S \ {x}) + e[x]
  BY <1>4, SumWithout
<1> QED BY <1>2, <1>3, <1>5, <1>6

\* The sum over disjoint sets.
LEMMA SumOfUnion ==
    ASSUME NEW S, IsFiniteSet(S), NEW R, IsFiniteSet(R), R \cap S = {},
           NEW f, \A y \in R \cup S : f[y] \in Int
    PROVE  SumFunctionOnSet(f, R \cup S) = SumFunctionOnSet(f, R) + SumFunctionOnSet(f, S)
<1> DEFINE Sum(s) == SumFunctionOnSet(f, s)
           F == {s \in SUBSET S : Sum(R \cup s) = Sum(R) + Sum(s)}
<1>1. Sum({}) = 0 /\ Sum(R) \in Int
  BY SumOfNone, SumIsInt
<1>2. {} \in F
  <2>1. R \cup {} = R
    OBVIOUS
  <2> QED BY <1>1, <2>1
<1>3. ASSUME NEW s \in SUBSET S, NEW x \in S \ s, s \in F
      PROVE  s \cup {x} \in F
  <2>1. IsFiniteSet(s) /\ IsFiniteSet(R \cup s)
    BY FS_Subset, FS_Union
  <2>2. Sum(s) \in Int
    BY <2>1, SumIsInt
  <2>3. Sum(s \cup {x}) = Sum(s) + f[x]
    BY <2>1, SumWithOneMore
  <2>4. Sum(R \cup (s \cup {x})) = Sum(R \cup s) + f[x]
    <3> DEFINE r == R \cup s
    <3>1. x \notin r /\ \A y \in r \cup {x} : f[y] \in Int
      OBVIOUS
    <3>2. r \cup {x} = R \cup (s \cup {x})
      OBVIOUS
    <3>3. Sum(r \cup {x}) = Sum(r) + f[x]
      <4> HIDE DEF r
      <4> QED BY <2>1, <3>1, SumWithOneMore DEF r
    <3> QED BY <3>2, <3>3
  <2>5. f[x] \in Int /\ Sum(R \cup s) = Sum(R) + Sum(s)
    BY <1>3
  <2> HIDE DEF Sum
  <2>6. Sum(R \cup (s \cup {x})) = Sum(R) + Sum(s \cup {x})
    BY <1>1, <2>2, <2>3, <2>4, <2>5
  <2> QED BY <2>6
<1>4. SUBSET S \subseteq F
  <2> HIDE DEF F
  <2> QED BY <1>2, <1>3, SetOfSubsets
<1> QED BY <1>4

\* Sums of natural numbers.
LEMMA SumOfNats ==
    ASSUME NEW S, IsFiniteSet(S), NEW f, \A x \in S : f[x] \in Nat
    PROVE  SumFunctionOnSet(f, S) \in Nat
<1> DEFINE F == {s \in SUBSET S : SumFunctionOnSet(f, s) \in Nat}
<1>1. {} \in F
  BY SumOfNone
<1>2. ASSUME NEW s \in SUBSET S, NEW x \in S \ s, s \in F
      PROVE  s \cup {x} \in F
  <2>1. IsFiniteSet(s) /\ \A y \in s \cup {x} : f[y] \in Int
    BY FS_Subset
  <2>2. SumFunctionOnSet(f, s \cup {x}) = SumFunctionOnSet(f, s) + f[x]
    BY <2>1, SumWithOneMore
  <2> QED BY <1>2, <2>2
<1>3. SUBSET S \subseteq F
  <2> HIDE DEF F
  <2> QED BY <1>1, <1>2, SetOfSubsets
<1> QED BY <1>3

LEMMA SumIsAtLeast ==
    ASSUME NEW S, IsFiniteSet(S), NEW f, \A x \in S : f[x] \in Nat, NEW x \in S
    PROVE  f[x] <= SumFunctionOnSet(f, S)
<1>1. IsFiniteSet(S \ {x}) /\ \A y \in S : f[y] \in Int
  BY FS_RemoveElement
<1>2. SumFunctionOnSet(f, S) = SumFunctionOnSet(f, S \ {x}) + f[x]
  BY <1>1, SumWithout
<1>3. SumFunctionOnSet(f, S \ {x}) \in Nat
  BY <1>1, SumOfNats
<1> QED BY <1>2, <1>3

LEMMA SumOfSubset ==
    ASSUME NEW S, IsFiniteSet(S), NEW R \in SUBSET S, NEW f, \A x \in S : f[x] \in Nat
    PROVE  SumFunctionOnSet(f, R) <= SumFunctionOnSet(f, S)
<1>1. IsFiniteSet(R) /\ IsFiniteSet(S \ R)
  BY FS_Subset
<1>2. SumFunctionOnSet(f, S \ R) \in Nat /\ SumFunctionOnSet(f, R) \in Nat
  BY <1>1, SumOfNats
<1>3. R \cap (S \ R) = {} /\ R \cup (S \ R) = S /\ \A y \in R \cup (S \ R) : f[y] \in Int
  OBVIOUS
<1>4. SumFunctionOnSet(f, S) = SumFunctionOnSet(f, R) + SumFunctionOnSet(f, S \ R)
  BY <1>1, <1>3, SumOfUnion
<1> QED BY <1>2, <1>4

LEMMA SumOfZeros ==
    ASSUME NEW S, IsFiniteSet(S), NEW f, \A x \in S : f[x] = 0
    PROVE  SumFunctionOnSet(f, S) = 0
<1> DEFINE F == {s \in SUBSET S : SumFunctionOnSet(f, s) = 0}
<1>1. {} \in F
  BY SumOfNone
<1>2. ASSUME NEW s \in SUBSET S, NEW x \in S \ s, s \in F
      PROVE  s \cup {x} \in F
  <2>1. IsFiniteSet(s) /\ f[x] = 0 /\ \A y \in s \cup {x} : f[y] \in Int
    BY FS_Subset
  <2>2. SumFunctionOnSet(f, s \cup {x}) = SumFunctionOnSet(f, s) + f[x]
    BY <2>1, SumWithOneMore
  <2> QED BY <1>2, <2>1, <2>2
<1>3. SUBSET S \subseteq F
  <2> HIDE DEF F
  <2> QED BY <1>1, <1>2, SetOfSubsets
<1> QED BY <1>3

LEMMA SumOfSuccessors ==
    ASSUME NEW S, IsFiniteSet(S), NEW f, \A x \in S : f[x] \in Int,
           NEW e, \A x \in S : e[x] = f[x] + 1
    PROVE  SumFunctionOnSet(e, S) = SumFunctionOnSet(f, S) + Cardinality(S)
<1> DEFINE F == {s \in SUBSET S : SumFunctionOnSet(e, s) = SumFunctionOnSet(f, s) + Cardinality(s)}
<1>1. {} \in F
  <2>1. SumFunctionOnSet(e, {}) = 0 /\ SumFunctionOnSet(f, {}) = 0 /\ Cardinality({}) = 0
    BY SumOfNone, FS_EmptySet
  <2> QED BY <2>1
<1>2. ASSUME NEW s \in SUBSET S, NEW x \in S \ s, s \in F
      PROVE  s \cup {x} \in F
  <2>1. IsFiniteSet(s) /\ \A y \in s \cup {x} : f[y] \in Int /\ e[y] \in Int
    BY FS_Subset
  <2>2. /\ SumFunctionOnSet(f, s \cup {x}) = SumFunctionOnSet(f, s) + f[x]
        /\ SumFunctionOnSet(e, s \cup {x}) = SumFunctionOnSet(e, s) + e[x]
    BY <2>1, SumWithOneMore
  <2>3. Cardinality(s \cup {x}) = Cardinality(s) + 1 /\ Cardinality(s) \in Nat
    BY <2>1, FS_AddElement, FS_CardinalityType
  <2>4. SumFunctionOnSet(f, s) \in Int /\ f[x] \in Int /\ e[x] = f[x] + 1
    BY <2>1, SumIsInt
  <2>5. SumFunctionOnSet(e, s) = SumFunctionOnSet(f, s) + Cardinality(s)
    BY <1>2
  <2>6. SumFunctionOnSet(e, s \cup {x}) = SumFunctionOnSet(f, s \cup {x}) + Cardinality(s \cup {x})
    BY <2>2, <2>3, <2>4, <2>5
  <2> QED BY <2>6
<1>3. SUBSET S \subseteq F
  <2> HIDE DEF F
  <2> QED BY <1>1, <1>2, SetOfSubsets
<1> QED BY <1>3

\* One of the values of a function is counted up.
LEMMA SumOneMore ==
    ASSUME NEW D, IsFiniteSet(D), NEW f \in [D -> Nat], NEW x \in D,
           NEW e \in [D -> Nat], e[x] = f[x] + 1, \A y \in D \ {x} : e[y] = f[y]
    PROVE  /\ SumFunction(f) \in Nat
           /\ SumFunction(e) = SumFunction(f) + 1
           /\ \A R \in SUBSET D :
                  SumFunctionOnSet(e, R) = SumFunctionOnSet(f, R) + (IF x \in R THEN 1 ELSE 0)
<1>1. DOMAIN f = D /\ DOMAIN e = D
  OBVIOUS
<1>2. \A R \in SUBSET D : IsFiniteSet(R) /\ SumFunctionOnSet(f, R) \in Nat
  BY FS_Subset, SumOfNats
<1>3. ASSUME NEW R \in SUBSET D
      PROVE  SumFunctionOnSet(e, R) = SumFunctionOnSet(f, R) + (IF x \in R THEN 1 ELSE 0)
  <2>1. CASE x \in R
    <3> DEFINE d == e
    <3>1. (\A y \in R : f[y] \in Int) /\ (\A y \in R \ {x} : d[y] = f[y]) /\ d[x] \in Int
      OBVIOUS
    <3>2. IsFiniteSet(R)
      BY <1>2
    <3>3. SumFunctionOnSet(d, R) = SumFunctionOnSet(f, R) - f[x] + d[x]
      <4> HIDE DEF d
      <4> QED BY <2>1, <3>1, <3>2, SumWithChange
    <3>4. f[x] \in Nat /\ SumFunctionOnSet(f, R) \in Nat
      BY <1>2
    <3> QED BY <2>1, <3>3, <3>4
  <2>2. CASE x \notin R
    <3>1. \A y \in R : e[y] = f[y] /\ f[y] \in Int
      BY <2>2
    <3>2. SumFunctionOnSet(e, R) = SumFunctionOnSet(f, R)
      BY <1>2, <3>1, SumOfSame
    <3> QED BY <1>2, <2>2, <3>2
  <2> QED BY <2>1, <2>2
<1>4. SumFunction(f) = SumFunctionOnSet(f, D) /\ SumFunction(e) = SumFunctionOnSet(e, D)
  BY <1>1 DEF SumFunction
<1>5. SumFunctionOnSet(e, D) = SumFunctionOnSet(f, D) + 1
  BY <1>3
<1> QED BY <1>2, <1>3, <1>4, <1>5

\* A sequence gets one element more.
LEMMA SumAppended ==
    ASSUME NEW n \in Nat,
           NEW f, DOMAIN f = 1..n, \A i \in 1..n : f[i] \in Int,
           NEW e, DOMAIN e = 1..(n + 1), \A i \in 1..n : e[i] = f[i], e[n + 1] \in Int
    PROVE  SumFunction(e) = SumFunction(f) + e[n + 1]
<1>1. IsFiniteSet(1..n)
  BY FS_Interval
<1>2. n + 1 \notin 1..n /\ 1..(n + 1) = (1..n) \cup {n + 1}
  OBVIOUS
<1>3. \A i \in (1..n) \cup {n + 1} : e[i] \in Int
  OBVIOUS
<1>4. SumFunctionOnSet(e, (1..n) \cup {n + 1}) = SumFunctionOnSet(e, 1..n) + e[n + 1]
  BY <1>1, <1>2, <1>3, SumWithOneMore
<1>5. SumFunctionOnSet(e, 1..n) = SumFunctionOnSet(f, 1..n)
  BY <1>1, SumOfSame
<1> QED BY <1>2, <1>4, <1>5 DEF SumFunction
=============================================================================
