----------------------------- MODULE Inductions -----------------------------
(***************************************************************************)
(* Induction over the natural numbers and over the subsets of a finite     *)
(* set, stated of sets (the ones of the library are about operators), and  *)
(* what follows from it for the sum of a function.                         *)
(***************************************************************************)
EXTENDS Integers, FiniteSets, Functions, FiniteSetTheorems,
        WellFoundedInduction, TLAPS

\* A set of subsets of a finite set that contains a subset as soon as it
\* contains all smaller ones contains all.
LEMMA SubsetInduction ==
  ASSUME NEW S, IsFiniteSet(S), NEW D \in SUBSET SUBSET S,
         \A s \in SUBSET S : (\A r \in SUBSET s : r # s => r \in D) => s \in D
  PROVE  \A s \in SUBSET S : s \in D
<1> DEFINE T == (SUBSET S) \ D
<1> SUFFICES ASSUME T # {} PROVE FALSE
  OBVIOUS
<1>1. IsWellFoundedOn(StrictSubsetOrdering(S), FiniteSubsetsOf(S))
  BY FS_StrictSubsetOrderingWellFounded
<1>2. T \subseteq FiniteSubsetsOf(S)
  BY FS_Subset DEF FiniteSubsetsOf
<1>3. PICK s \in T : \A r \in T : ~(<<r, s>> \in StrictSubsetOrdering(S))
  <2> HIDE DEF T
  <2> QED
    BY <1>1, <1>2, WFMin
<1>4. ASSUME NEW r \in SUBSET s, r # s PROVE r \in D
  <2>1. <<r, s>> \in StrictSubsetOrdering(S)
    BY <1>4 DEF StrictSubsetOrdering
  <2>2. r \notin T
    BY <2>1, <1>3
  <2> QED
    BY <2>2
<1> QED
  BY <1>3, <1>4

\* Induction on the natural numbers.
LEMMA NatInd ==
  ASSUME NEW N \in SUBSET Nat, 0 \in N, \A n \in N : n + 1 \in N
  PROVE  \A n \in Nat : n \in N
<1> DEFINE T == Nat \ N
           R == OpToRel(<, Nat)
<1> SUFFICES ASSUME T # {} PROVE FALSE
  OBVIOUS
<1>1. PICK n \in T : \A m \in T : ~(<<m, n>> \in R)
  <2>1. IsWellFoundedOn(R, Nat)
    BY NatLessThanWellFounded
  <2> HIDE DEF T, R
  <2>2. T \subseteq Nat
    BY DEF T
  <2> QED
    BY <2>1, <2>2, WFMin
<1>2. n # 0 /\ n - 1 \in Nat
  OBVIOUS
<1>3. n - 1 \in T
  OBVIOUS
<1>4. <<n - 1, n>> \in R
  BY <1>2 DEF OpToRel
<1> QED
  BY <1>1, <1>3, <1>4

\* A sum over a finite set: g gives the sum of f over every subset of S.
Pick(s) == CHOOSE x \in s : TRUE
Sums(f, S, g) ==
    /\ g \in [SUBSET S -> Int]
    /\ g = [s \in SUBSET S |-> IF s = {} THEN 0 ELSE f[Pick(s)] + g[s \ {Pick(s)}]]

\* There is one.
LEMMA SumsExist ==
  ASSUME NEW S, IsFiniteSet(S), NEW f \in [S -> Int]
  PROVE  \E g : Sums(f, S, g)
<1> DEFINE Small(n) == {s \in SUBSET S : Cardinality(s) <= n}
           Right(g, n) == 
              /\ g \in [Small(n) -> Int]
              /\ \A s \in Small(n) :
                   g[s] = IF s = {} THEN 0 ELSE f[Pick(s)] + g[s \ {Pick(s)}]
           N == {n \in Nat : \E g : Right(g, n)}
<1>0. \A s \in SUBSET S : IsFiniteSet(s) /\ Cardinality(s) \in Nat
  BY FS_Subset, FS_CardinalityType
<1>1. 0 \in N
  <2>1. Small(0) = {{}}
    BY <1>0, FS_EmptySet
  <2>2. Right([s \in Small(0) |-> 0], 0)
    BY <2>1
  <2> QED
    BY <2>2
<1>2. ASSUME NEW n \in N PROVE n + 1 \in N
  <2>1. PICK g : Right(g, n)
    OBVIOUS
  <2> DEFINE h == [s \in Small(n + 1) |->
                     IF s \in Small(n) THEN g[s] ELSE f[Pick(s)] + g[s \ {Pick(s)}]]
  <2>2. ASSUME NEW s \in Small(n + 1), s # {}
        PROVE  Pick(s) \in s /\ Pick(s) \in S /\ s \ {Pick(s)} \in Small(n)
    <3>1. Pick(s) \in s
      BY <2>2 DEF Pick
    <3>2. Cardinality(s \ {Pick(s)}) = Cardinality(s) - 1
      BY <1>0, <3>1, FS_RemoveElement
    <3> QED
      BY <1>0, <3>1, <3>2
  <2>3. {} \in Small(n)
    BY FS_EmptySet
  <2>4. Small(n) \subseteq Small(n + 1)
    BY <1>0
  <2> HIDE DEF Small
  <2>5. ASSUME NEW s \in Small(n + 1)
        PROVE  (IF s \in Small(n) THEN g[s] ELSE f[Pick(s)] + g[s \ {Pick(s)}]) \in Int
    <3>1. CASE s \in Small(n)
      BY <2>1, <3>1
    <3>2. CASE s \notin Small(n)
      <4>1. f[Pick(s)] \in Int /\ g[s \ {Pick(s)}] \in Int
        BY <2>1, <2>2, <2>3, <3>2
      <4> QED
        BY <3>2, <4>1
    <3> QED
      BY <3>1, <3>2
  <2>6. ASSUME NEW s \in Small(n + 1)
        PROVE  h[s] = IF s = {} THEN 0 ELSE f[Pick(s)] + h[s \ {Pick(s)}]
    BY <2>1, <2>2, <2>3, <2>4
  <2>7. Right(h, n + 1)
    <3>1. h \in [Small(n + 1) -> Int]
      BY <2>5
    <3> QED
      BY <2>6, <3>1
  <2>8. n + 1 \in Nat
    OBVIOUS
  <2> HIDE DEF Right, h
  <2> QED
    BY <2>7, <2>8
<1>3. Cardinality(S) \in N
  <2>1. N \in SUBSET Nat
    OBVIOUS
  <2> HIDE DEF N
  <2> QED
    BY <1>0, <1>1, <1>2, <2>1, NatInd
<1>4. PICK g : Right(g, Cardinality(S))
  BY <1>3
<1>5. Small(Cardinality(S)) = SUBSET S
  BY <1>0, FS_Subset
<1> QED
  BY <1>4, <1>5 DEF Sums

LEMMA SumIs ==
  ASSUME NEW S, IsFiniteSet(S), NEW f \in [S -> Int]
  PROVE  \E g : Sums(f, S, g) /\ SumFunction(f) = g[S]
<1> DEFINE Q(g) == g = [s \in SUBSET S |-> IF s = {} THEN 0 ELSE f[Pick(s)] + g[s \ {Pick(s)}]]
           it == CHOOSE g : Q(g)
<1>1. SumFunction(f) = it[S]
  BY DEF SumFunction, SumFunctionOnSet, FoldFunctionOnSet, MapThenFoldSet, Pick
<1>2. it = [s \in SUBSET S |-> IF s = {} THEN 0 ELSE f[Pick(s)] + it[s \ {Pick(s)}]]
  <2>1. PICK g : Sums(f, S, g)
    BY SumsExist
  <2>2. Q(g)
    BY <2>1 DEF Sums
  <2>3. Q(it)
    <3> HIDE DEF Q
    <3> QED
      BY <2>2
  <2> QED
    BY <2>3
<1>3. \A s \in SUBSET S : it[s] \in Int
  <2> DEFINE D == {r \in SUBSET S : it[r] \in Int}
  <2> HIDE DEF it
  <2>1. ASSUME NEW r \in SUBSET S, \A u \in SUBSET r : u # r => u \in D
        PROVE  r \in D
    <3>1. CASE r = {}
      BY <1>2, <3>1
    <3>2. CASE r # {}
      <4>1. Pick(r) \in r
        BY <3>2 DEF Pick
      <4>2. r \ {Pick(r)} \in D
        BY <2>1, <4>1
      <4>3. it[r] = f[Pick(r)] + it[r \ {Pick(r)}]
        BY <1>2, <3>2
      <4>4. f[Pick(r)] \in Int
        BY <4>1
      <4> QED
        BY <4>2, <4>3, <4>4
    <3> QED
      BY <3>1, <3>2
  <2>2. D \in SUBSET SUBSET S
    OBVIOUS
  <2>3. \A r \in SUBSET S : r \in D
    <3> HIDE DEF D
    <3> QED
      BY <2>1, <2>2, SubsetInduction
  <2> QED
    BY <2>3
<1>4. it \in [SUBSET S -> Int]
  <2> HIDE DEF it
  <2> QED
    BY <1>2, <1>3
<1> QED
  BY <1>1, <1>2, <1>4 DEF Sums

\* Any element may be taken out first.
LEMMA SumRemove ==
  ASSUME NEW S, IsFiniteSet(S), NEW f \in [S -> Int], NEW g, Sums(f, S, g),
         NEW T \in SUBSET S, NEW z \in T
  PROVE  g[T] = f[z] + g[T \ {z}]
<1> DEFINE D == {s \in SUBSET S : \A y \in s : g[s] = f[y] + g[s \ {y}]}
<1>1. ASSUME NEW s \in SUBSET S, \A r \in SUBSET s : r # s => r \in D
      PROVE  s \in D
  <2> SUFFICES ASSUME NEW y \in s PROVE g[s] = f[y] + g[s \ {y}]
    OBVIOUS
  <2> DEFINE x == Pick(s)
  <2>1. x \in s
    BY DEF Pick
  <2>2. g[s] = f[x] + g[s \ {x}]
    BY <2>1 DEF Sums
  <2> HIDE DEF x
  <2>3. CASE x # y
    <3>1. g[s \ {x}] = f[y] + g[(s \ {x}) \ {y}]
      <4>1. s \ {x} \in D /\ y \in s \ {x}
        BY <1>1, <2>1, <2>3
      <4> QED
        BY <4>1
    <3>2. g[s \ {y}] = f[x] + g[(s \ {y}) \ {x}]
      <4>1. s \ {y} \in D /\ x \in s \ {y}
        BY <1>1, <2>1, <2>3
      <4> QED
        BY <4>1
    <3>3. (s \ {y}) \ {x} = (s \ {x}) \ {y}
      OBVIOUS
    <3>4. f[x] \in Int /\ f[y] \in Int /\ g[(s \ {x}) \ {y}] \in Int
      BY <2>1 DEF Sums
    <3> DEFINE u == s \ {x}
               v == s \ {y}
               w == u \ {y}
    <3>5. /\ g[s] = f[x] + g[u] /\ g[u] = f[y] + g[w] /\ g[v] = f[x] + g[w]
          /\ g[w] \in Int
      BY <2>2, <3>1, <3>2, <3>3, <3>4
    <3> HIDE DEF u, v, w
    <3>6. g[s] = f[y] + g[v]
      BY <3>4, <3>5
    <3> QED
      BY <3>6 DEF v
  <2> QED
    BY <2>2, <2>3
<1>2. D \in SUBSET SUBSET S
  OBVIOUS
<1>3. \A s \in SUBSET S : s \in D
  <2> HIDE DEF D
  <2> QED
    BY <1>1, <1>2, SubsetInduction
<1> QED
  BY <1>3

\* Functions that agree on a set have the same sum over it.
LEMMA SumAgree ==
  ASSUME NEW S, IsFiniteSet(S), NEW f \in [S -> Int], NEW g, Sums(f, S, g),
         NEW R, NEW e \in [R -> Int], NEW h, Sums(e, R, h),
         NEW T \in SUBSET (S \cap R), \A x \in T : f[x] = e[x]
  PROVE  g[T] = h[T]
<1> DEFINE D == {s \in SUBSET T : g[s] = h[s]}
<1>1. ASSUME NEW s \in SUBSET T, \A r \in SUBSET s : r # s => r \in D
      PROVE  s \in D
  <2>1. CASE s = {}
    BY <2>1 DEF Sums
  <2>2. CASE s # {}
    <3> DEFINE x == Pick(s)
    <3>1. x \in s
      BY <2>2 DEF Pick
    <3>2. g[s] = f[x] + g[s \ {x}] /\ h[s] = e[x] + h[s \ {x}]
      BY <2>2 DEF Sums
    <3>3. g[s \ {x}] = h[s \ {x}]
      BY <1>1, <3>1
    <3> QED
      BY <3>1, <3>2, <3>3
  <2> QED
    BY <2>1, <2>2
<1>2. D \in SUBSET SUBSET T
  OBVIOUS
<1>3. IsFiniteSet(T)
  BY FS_Subset
<1>4. \A s \in SUBSET T : s \in D
  <2> HIDE DEF D
  <2> QED
    BY <1>1, <1>2, <1>3, SubsetInduction
<1> QED
  BY <1>4

LEMMA SumSplit ==
  ASSUME NEW S, IsFiniteSet(S), NEW f \in [S -> Int], NEW y \in S
  PROVE  \E g : /\ Sums(f, S, g) /\ SumFunction(f) = g[S]
                /\ g[S] = f[y] + g[S \ {y}]
                /\ g[S] \in Int /\ g[S \ {y}] \in Int
<1>1. PICK g : Sums(f, S, g) /\ SumFunction(f) = g[S]
  BY SumIs
<1>2. g[S] = f[y] + g[S \ {y}]
  BY <1>1, SumRemove
<1> QED
  BY <1>1, <1>2 DEF Sums

\* A value is changed.
LEMMA SumChange ==
  ASSUME NEW S, IsFiniteSet(S), NEW f \in [S -> Int], NEW e \in [S -> Int],
         NEW y \in S, \A x \in S \ {y} : e[x] = f[x]
  PROVE  /\ SumFunction(f) \in Int
         /\ SumFunction(e) = SumFunction(f) - f[y] + e[y]
<1>1. PICK g : /\ Sums(f, S, g) /\ SumFunction(f) = g[S]
               /\ g[S] = f[y] + g[S \ {y}]
               /\ g[S] \in Int /\ g[S \ {y}] \in Int
  BY SumSplit
<1>2. PICK h : /\ Sums(e, S, h) /\ SumFunction(e) = h[S]
               /\ h[S] = e[y] + h[S \ {y}]
               /\ h[S] \in Int /\ h[S \ {y}] \in Int
  BY SumSplit
<1>3. h[S \ {y}] = g[S \ {y}]
  BY <1>1, <1>2, SumAgree
<1> QED
  BY <1>1, <1>2, <1>3

\* A value is added.
LEMMA SumMore ==
  ASSUME NEW S, IsFiniteSet(S), NEW f \in [S -> Int], NEW y, y \notin S,
         NEW e \in [S \cup {y} -> Int], \A x \in S : e[x] = f[x]
  PROVE  SumFunction(e) = SumFunction(f) + e[y]
<1> DEFINE R == S \cup {y}
<1>1. IsFiniteSet(R)
  BY FS_AddElement
<1>2. PICK g : Sums(f, S, g) /\ SumFunction(f) = g[S]
  BY SumIs
<1>3. PICK h : Sums(e, R, h) /\ SumFunction(e) = h[R]
  BY <1>1, SumIs
<1>4. h[R] = e[y] + h[R \ {y}]
  BY <1>1, <1>3, SumRemove
<1>5. R \ {y} = S
  OBVIOUS
<1>6. h[S] = g[S]
  BY <1>1, <1>2, <1>3, SumAgree
<1>7. g[S] \in Int /\ e[y] \in Int
  BY <1>2 DEF Sums
<1>8. h[R] = e[y] + g[S]
  BY <1>4, <1>5, <1>6
<1>9. e[y] + g[S] = g[S] + e[y]
  BY <1>7
<1> HIDE DEF R
<1> QED
  BY <1>2, <1>3, <1>8, <1>9

\* A sum of zeros.
LEMMA SumZero ==
  ASSUME NEW S, IsFiniteSet(S)
  PROVE  SumFunction([x \in S |-> 0]) = 0
<1> DEFINE f == [x \in S |-> 0]
<1>1. PICK g : Sums(f, S, g) /\ SumFunction(f) = g[S]
  BY SumIs
<1> DEFINE D == {s \in SUBSET S : g[s] = 0}
<1>2. ASSUME NEW s \in SUBSET S, \A r \in SUBSET s : r # s => r \in D
      PROVE  s \in D
  <2>1. CASE s = {}
    BY <1>1, <2>1 DEF Sums
  <2>2. CASE s # {}
    <3>1. PICK x \in s : TRUE
      BY <2>2
    <3>2. g[s] = f[x] + g[s \ {x}]
      BY <1>1, SumRemove
    <3>3. g[s \ {x}] = 0 /\ f[x] = 0
      BY <1>2
    <3> QED
      BY <3>2, <3>3
  <2> QED
    BY <2>1, <2>2
<1>3. D \in SUBSET SUBSET S
  OBVIOUS
<1>4. \A s \in SUBSET S : s \in D
  <2> HIDE DEF D
  <2> QED
    BY <1>2, <1>3, SubsetInduction
<1> QED
  BY <1>1, <1>4

-----------------------------------------------------------------------------
(* A function defined by recursion: f[s] is res[s] at an end, and f[op[s]] *)
(* elsewhere, where op goes down.                                          *)

Descends(f, S, End, res, op) ==
    f = [s \in S |-> IF s \in End THEN res[s] ELSE f[op[s]]]

\* There is one.
LEMMA DescentEnds ==
  ASSUME NEW S, NEW M, NEW End, NEW res, NEW op, NEW depth \in [S -> Nat],
         \A s \in S : IF s \in End THEN res[s] \in M
                      ELSE op[s] \in S /\ depth[op[s]] < depth[s]
  PROVE  \E f \in [S -> M] : Descends(f, S, End, res, op)
<1> DEFINE Low(m) == {s \in S : depth[s] < m}
           Good(f, m) ==
              /\ f \in [Low(m) -> M]
              /\ \A s \in Low(m) : f[s] = IF s \in End THEN res[s] ELSE f[op[s]]
           N == {m \in Nat : \E f : Good(f, m)}
<1>1. 0 \in N
  <2>1. Low(0) = {}
    OBVIOUS
  <2>2. Good([s \in {} |-> s], 0)
    BY <2>1
  <2> HIDE DEF Good
  <2> QED
    BY <2>2
<1>2. ASSUME NEW m \in N PROVE m + 1 \in N
  <2>1. PICK f : Good(f, m)
    OBVIOUS
  <2> DEFINE h == [s \in Low(m + 1) |-> IF s \in End THEN res[s] ELSE f[op[s]]]
  <2>2. ASSUME NEW s \in Low(m + 1), s \notin End PROVE op[s] \in Low(m)
    <3>1. op[s] \in S /\ depth[op[s]] < depth[s]
      BY <2>2
    <3>2. depth[op[s]] \in Nat /\ depth[s] \in Nat
      BY <3>1
    <3> QED
      BY <3>1, <3>2
  <2>3. Low(m) \subseteq Low(m + 1)
    OBVIOUS
  <2>4. \A s \in Low(m + 1) : (IF s \in End THEN res[s] ELSE f[op[s]]) \in M
    BY <2>1, <2>2
  <2>5. \A s \in Low(m) : h[s] = f[s]
    BY <2>1, <2>3
  <2>6. ASSUME NEW s \in Low(m + 1)
        PROVE  h[s] = IF s \in End THEN res[s] ELSE h[op[s]]
    BY <2>2, <2>5
  <2>7. Good(h, m + 1)
    BY <2>4, <2>6
  <2>8. m + 1 \in Nat
    OBVIOUS
  <2> HIDE DEF Good, h
  <2> QED
    BY <2>7, <2>8
<1>3. \A m \in Nat : m \in N
  <2>1. N \in SUBSET Nat
    OBVIOUS
  <2> HIDE DEF N
  <2> QED
    BY <1>1, <1>2, <2>1, NatInd
<1> DEFINE f(m) == CHOOSE g : Good(g, m)
           F == [s \in S |-> f(depth[s] + 1)[s]]
<1>4. ASSUME NEW m \in Nat PROVE Good(f(m), m)
  <2>1. \E g : Good(g, m)
    BY <1>3
  <2> HIDE DEF Good
  <2> QED
    BY <2>1
<1>5. ASSUME NEW m \in Nat, NEW n \in Nat
      PROVE  \A s \in Low(m) \cap Low(n) : f(m)[s] = f(n)[s]
  <2> DEFINE K == {k \in Nat : \A s \in Low(k) : s \in Low(m) \cap Low(n) => f(m)[s] = f(n)[s]}
  <2> HIDE DEF f
  <2>1. 0 \in K
    OBVIOUS
  <2>2. ASSUME NEW k \in K PROVE k + 1 \in K
    <3> SUFFICES ASSUME NEW s \in Low(k + 1), s \in Low(m) \cap Low(n)
                 PROVE  f(m)[s] = f(n)[s]
      OBVIOUS
    <3>1. CASE s \in End
      BY <1>4, <3>1
    <3>2. CASE s \notin End
      <4>1. op[s] \in Low(k) /\ op[s] \in Low(m) \cap Low(n)
        <5>1. op[s] \in S /\ depth[op[s]] < depth[s]
          BY <3>2
        <5>2. depth[op[s]] \in Nat /\ depth[s] \in Nat
          BY <5>1
        <5> QED
          BY <5>1, <5>2
      <4> QED
        BY <1>4, <3>2, <4>1
    <3> QED
      BY <3>1, <3>2
  <2>3. \A k \in Nat : k \in K
    <3>1. K \in SUBSET Nat
      OBVIOUS
    <3> HIDE DEF K
    <3> QED
      BY <2>1, <2>2, <3>1, NatInd
  <2>4. \A s \in Low(m) : m \in K => (s \in Low(n) => f(m)[s] = f(n)[s])
    OBVIOUS
  <2> QED
    BY <2>3, <2>4
<1> HIDE DEF f
<1>6. \A s \in S : depth[s] + 1 \in Nat /\ s \in Low(depth[s] + 1)
  OBVIOUS
<1>7. ASSUME NEW s \in S
      PROVE  F[s] \in M /\ F[s] = IF s \in End THEN res[s] ELSE F[op[s]]
  <2> DEFINE m == depth[s] + 1
  <2>1. Good(f(m), m) /\ s \in Low(m)
    BY <1>4, <1>6
  <2>2. ASSUME s \notin End PROVE op[s] \in Low(m) /\ op[s] \in S
    <3>1. op[s] \in S /\ depth[op[s]] < depth[s]
      BY <2>2
    <3>2. depth[op[s]] \in Nat /\ depth[s] \in Nat
      BY <3>1
    <3> QED
      BY <3>1, <3>2
  <2>3. ASSUME s \notin End PROVE f(m)[op[s]] = F[op[s]]
    BY <1>5, <1>6, <2>2, <2>3
  <2> HIDE DEF m, Low
  <2>4. F[s] = f(m)[s]
    BY DEF m
  <2> HIDE DEF F
  <2> QED
    BY <2>1, <2>3, <2>4
<1>8. F \in [S -> M] /\ Descends(F, S, End, res, op)
  <2>1. F \in [S -> M]
    <3> HIDE DEF F
    <3>1. F = [s \in S |-> F[s]]
      BY DEF F
    <3> QED
      BY <1>7, <3>1
  <2> HIDE DEF F
  <2> QED
    BY <1>7, <2>1 DEF Descends
<1> HIDE DEF F
<1> QED
  BY <1>8

\* What op keeps true is true at the end that f comes to.
LEMMA DescentKeeps ==
  ASSUME NEW S, NEW End, NEW res, NEW op, NEW depth \in [S -> Nat],
         \A s \in S \ End : op[s] \in S /\ depth[op[s]] < depth[s],
         NEW f, Descends(f, S, End, res, op),
         NEW T \in SUBSET S, \A s \in T \ End : op[s] \in T
  PROVE  \A s \in T : \E e \in T \cap End : f[s] = res[e]
<1> DEFINE Fine(s) == \E e \in T \cap End : f[s] = res[e]
           N == {m \in Nat : \A s \in T : depth[s] < m => Fine(s)}
<1> HIDE DEF Fine
<1>1. 0 \in N
  OBVIOUS
<1>2. ASSUME NEW m \in N PROVE m + 1 \in N
  <2> SUFFICES ASSUME NEW s \in T, depth[s] < m + 1 PROVE Fine(s)
    OBVIOUS
  <2>1. CASE s \in End
    BY <2>1 DEF Descends, Fine
  <2>2. CASE s \notin End
    <3>1. op[s] \in T /\ depth[op[s]] < depth[s] /\ depth[op[s]] \in Nat
      BY <2>2
    <3>2. Fine(op[s])
      BY <3>1
    <3>3. f[s] = f[op[s]]
      BY <2>2 DEF Descends
    <3> QED
      BY <3>2, <3>3 DEF Fine
  <2> QED
    BY <2>1, <2>2
<1>3. \A m \in Nat : m \in N
  <2>1. N \in SUBSET Nat
    OBVIOUS
  <2> HIDE DEF N
  <2> QED
    BY <1>1, <1>2, <2>1, NatInd
<1>4. ASSUME NEW s \in T PROVE Fine(s)
  <2>1. depth[s] + 1 \in N /\ depth[s] < depth[s] + 1
    BY <1>3
  <2> QED
    BY <2>1
<1> QED
  BY <1>4 DEF Fine
=============================================================================
