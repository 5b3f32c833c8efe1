--------------------------- MODULE ClosingsProofs ---------------------------
(***************************************************************************)
(* Proofs about Closings, for any printers, months, requests and terms:    *)
(*   - unless two writers of the fee overlapped or one failed half way,    *)
(*     each applied readjustment raised the fee once;                      *)
(*   - the figures of a frozen closing change only when the request that   *)
(*     generates it looked before;                                         *)
(*   - no page is charged for in two months, whatever is read and when;    *)
(*   - a closing charges the pages it counts at the prices of its terms.   *)
(***************************************************************************)
EXTENDS Closings, FiniteSetTheorems, SequenceTheorems, WellFoundedInduction, TLAPS

-----------------------------------------------------------------------------
(* Sums over a finite set.                                                 *)

LEMMA NumbersAll ==
    ASSUME NEW S, 0 \in S, \A n \in Nat : n \in S => n + 1 \in S
    PROVE  Nat \subseteq S
<1>. SUFFICES ASSUME Nat \ S # {} PROVE FALSE
  OBVIOUS
<1>1. PICK n \in Nat \ S : \A k \in Nat \ S : ~(<<k, n>> \in OpToRel(<, Nat))
  BY NatLessThanWellFounded, WFMin
<1>2. \A k \in Nat \ S : ~(k < n)
  BY <1>1 DEF OpToRel
<1>3. n # 0 /\ n - 1 \in Nat
  OBVIOUS
<1>4. n - 1 \in S
  BY <1>2, <1>3
<1>. QED  BY <1>3, <1>4

\* Induction over the subsets of a finite set.
LEMMA SubsetsAll ==
    ASSUME NEW S, IsFiniteSet(S), NEW T, {} \in T,
           \A s \in SUBSET S : (\A x \in s : s \ {x} \in T) => s \in T
    PROVE  SUBSET S \subseteq T
<1>. DEFINE N == {n \in Nat : \A s \in SUBSET S : Cardinality(s) = n => s \in T}
<1>1. \A s \in SUBSET S : IsFiniteSet(s) /\ Cardinality(s) \in Nat
  BY FS_Subset, FS_CardinalityType
<1>2. 0 \in N
  <2>1. ASSUME NEW s \in SUBSET S, Cardinality(s) = 0 PROVE s = {}
    BY <1>1, <2>1, FS_EmptySet
  <2>. QED  BY <2>1
<1>3. ASSUME NEW n \in Nat, n \in N PROVE n + 1 \in N
  <2>1. ASSUME NEW s \in SUBSET S, Cardinality(s) = n + 1 PROVE s \in T
    <3>1. ASSUME NEW x \in s PROVE s \ {x} \in T
      <4>1. Cardinality(s \ {x}) = Cardinality(s) - 1
        BY <1>1, FS_RemoveElement
      <4>2. s \ {x} \in SUBSET S /\ Cardinality(s \ {x}) = n
        BY <2>1, <4>1
      <4>. QED  BY <1>3, <4>2
    <3>. QED  BY <3>1
  <2>. QED  BY <2>1
<1>. HIDE DEF N
<1>4. Nat \subseteq N
  BY <1>2, <1>3, NumbersAll
<1>. QED  BY <1>1, <1>4 DEF N

Some(s) == CHOOSE x \in s : TRUE
Rest(s) == s \ {Some(s)}

\* What MapThenSumSet computes, as a function of the set.
Adds(f, S, g) == g = [s \in SUBSET S |-> IF s = {} THEN 0 ELSE f[Some(s)] + g[Rest(s)]]

\* A sum, in whatever order the elements are taken.
Sums(f, S, g) ==
    /\ g[{}] = 0
    /\ \A s \in SUBSET S : g[s] \in Int /\ \A x \in s : g[s] = f[x] + g[s \ {x}]

LEMMA SomeIsOne == ASSUME NEW s, s # {} PROVE Some(s) \in s /\ Rest(s) \subseteq s
BY DEF Some, Rest

LEMMA AddsExists == ASSUME NEW S, IsFiniteSet(S), NEW f PROVE \E g : Adds(f, S, g)
<1>. DEFINE Small(n) == {s \in SUBSET S : Cardinality(s) <= n}
            Body(h, s) == IF s = {} THEN 0 ELSE f[Some(s)] + h[Rest(s)]
            N == {n \in Nat : \E g : g = [s \in Small(n) |-> Body(g, s)]}
<1>1. \A s \in SUBSET S : IsFiniteSet(s) /\ Cardinality(s) \in Nat /\ (Cardinality(s) = 0 <=> s = {})
  BY FS_Subset, FS_CardinalityType, FS_EmptySet
<1>2. \A s \in SUBSET S : s # {} => Rest(s) \in SUBSET S /\ Cardinality(Rest(s)) = Cardinality(s) - 1
  <2>1. ASSUME NEW s \in SUBSET S, s # {} PROVE Rest(s) \in SUBSET S /\ Cardinality(Rest(s)) = Cardinality(s) - 1
    BY <1>1, <2>1, SomeIsOne, FS_RemoveElement DEF Rest
  <2>. QED  BY <2>1
<1>3. 0 \in N
  <2>1. \A s \in Small(0) : s = {}
    BY <1>1
  <2>2. [s \in Small(0) |-> 0] = [s \in Small(0) |-> Body([t \in Small(0) |-> 0], s)]
    BY <2>1
  <2>. QED  BY <2>2
<1>4. ASSUME NEW n \in Nat, n \in N PROVE n + 1 \in N
  <2>1. PICK g : g = [s \in Small(n) |-> Body(g, s)]
    BY <1>4
  <2>. DEFINE h == [s \in Small(n + 1) |-> IF s \in Small(n) THEN g[s] ELSE Body(g, s)]
  <2>2. \A s \in Small(n) : g[s] = Body(g, s)
    BY <2>1
  <2>3. ASSUME NEW s \in Small(n + 1) PROVE h[s] = Body(h, s)
    <3>1. h[s] = Body(g, s)
      BY <2>2
    <3>2. CASE s = {}
      BY <3>1, <3>2
    <3>3. CASE s # {}
      <4>1. Rest(s) \in Small(n) /\ Rest(s) \in Small(n + 1)
        BY <1>1, <1>2, <3>3
      <4>2. h[Rest(s)] = g[Rest(s)]
        BY <4>1
      <4>. HIDE DEF h
      <4>. QED  BY <3>1, <3>3, <4>2
    <3>. QED  BY <3>2, <3>3
  <2>4. h = [s \in Small(n + 1) |-> Body(h, s)]
    <3>1. h = [s \in Small(n + 1) |-> h[s]]
      OBVIOUS
    <3>. HIDE DEF h
    <3>. QED  BY <2>3, <3>1
  <2>. HIDE DEF h, Body, Small
  <2>5. \E e : e = [s \in Small(n + 1) |-> Body(e, s)]
    BY <2>4
  <2>. QED  BY <2>5
<1>5. Nat \subseteq N
  <2>. HIDE DEF N
  <2>. QED  BY <1>3, <1>4, NumbersAll
<1>6. Cardinality(S) \in Nat /\ SUBSET S = Small(Cardinality(S))
  BY <1>1, FS_CardinalityType, FS_Subset
<1>7. PICK g : g = [s \in Small(Cardinality(S)) |-> Body(g, s)]
  BY <1>5, <1>6
<1>8. g = [s \in SUBSET S |-> Body(g, s)]
  BY <1>6, <1>7
<1>. QED  BY <1>8 DEF Adds

LEMMA AddsSums ==
    ASSUME NEW S, IsFiniteSet(S), NEW f \in [S -> Int], NEW g, Adds(f, S, g)
    PROVE  Sums(f, S, g)
<1>1. /\ g[{}] = 0
      /\ \A s \in SUBSET S : s # {} => g[s] = f[Some(s)] + g[s \ {Some(s)}]
  BY DEF Adds, Rest
<1>2. \A s \in SUBSET S : s # {} => Some(s) \in s
  BY SomeIsOne
<1>3. \A x \in S : f[x] \in Int
  OBVIOUS
<1>4. \A s \in SUBSET S : g[s] \in Int
  <2>. DEFINE T == {s \in SUBSET S : g[s] \in Int}
  <2>1. {} \in T
    BY <1>1
  <2>2. ASSUME NEW s \in SUBSET S, \A x \in s : s \ {x} \in T PROVE s \in T
    <3>1. CASE s = {}
      BY <2>1, <3>1
    <3>2. CASE s # {}
      <4>1. Some(s) \in s /\ g[s] = f[Some(s)] + g[s \ {Some(s)}]
        BY <1>1, <1>2, <3>2
      <4>2. g[s \ {Some(s)}] \in Int /\ f[Some(s)] \in Int
        BY <1>3, <2>2, <4>1
      <4>. QED  BY <4>1, <4>2
    <3>. QED  BY <3>1, <3>2
  <2>3. SUBSET S \subseteq T
    <3>. HIDE DEF T
    <3>. QED  BY <2>1, <2>2, SubsetsAll
  <2>. QED  BY <2>3
<1>. DEFINE T == {s \in SUBSET S : \A x \in s : g[s] = f[x] + g[s \ {x}]}
<1>5. {} \in T
  OBVIOUS
<1>6. ASSUME NEW s \in SUBSET S, \A x \in s : s \ {x} \in T PROVE s \in T
  <2>. DEFINE c == Some(s)
  <2>1. ASSUME NEW x \in s PROVE g[s] = f[x] + g[s \ {x}]
    <3>1. c \in s /\ g[s] = f[c] + g[s \ {c}]
      BY <1>1, <1>2
    <3>. HIDE DEF c
    <3>2. CASE x = c
      BY <3>1, <3>2
    <3>3. CASE x # c
      <4>. DEFINE u == (s \ {c}) \ {x}
      <4>1. (s \ {x}) \ {c} = u /\ u \in SUBSET S
        OBVIOUS
      <4>2. g[s \ {c}] = f[x] + g[u]
        BY <1>6, <3>1, <3>3
      <4>3. g[s \ {x}] = f[c] + g[u]
        BY <1>6, <3>1, <3>3, <4>1
      <4>4. g[u] \in Int /\ f[x] \in Int /\ f[c] \in Int
        BY <1>3, <1>4, <3>1, <4>1
      <4>. HIDE DEF u
      <4>. QED  BY <3>1, <4>2, <4>3, <4>4
    <3>. QED  BY <3>2, <3>3
  <2>. QED  BY <2>1
<1>7. SUBSET S \subseteq T
  <2>. HIDE DEF T
  <2>. QED  BY <1>5, <1>6, SubsetsAll
<1>. QED  BY <1>1, <1>4, <1>7 DEF Sums

\* A sum of terms that are at most other terms is at most their sum.
LEMMA SumsCompare ==
    ASSUME NEW S, IsFiniteSet(S), NEW f \in [S -> Int], NEW e \in [S -> Int], NEW g, NEW h,
           Sums(f, S, g), Sums(e, S, h), \A x \in S : f[x] <= e[x]
    PROVE  g[S] <= h[S]
<1>1. /\ g[{}] = 0 /\ h[{}] = 0
      /\ \A s \in SUBSET S : g[s] \in Int /\ h[s] \in Int
      /\ \A s \in SUBSET S : \A x \in s : g[s] = f[x] + g[s \ {x}] /\ h[s] = e[x] + h[s \ {x}]
  BY DEF Sums
<1>. DEFINE T == {s \in SUBSET S : g[s] <= h[s]}
<1>2. {} \in T
  BY <1>1
<1>3. ASSUME NEW s \in SUBSET S, \A x \in s : s \ {x} \in T PROVE s \in T
  <2>1. CASE s = {}
    BY <1>2, <2>1
  <2>2. CASE s # {}
    <3>1. PICK x : x \in s
      BY <2>2
    <3>2. g[s \ {x}] <= h[s \ {x}] /\ g[s \ {x}] \in Int /\ h[s \ {x}] \in Int
      BY <1>1, <1>3, <3>1
    <3>3. f[x] <= e[x] /\ f[x] \in Int /\ e[x] \in Int
      BY <3>1
    <3>4. g[s] = f[x] + g[s \ {x}] /\ h[s] = e[x] + h[s \ {x}]
      BY <1>1, <3>1
    <3>. QED  BY <3>2, <3>3, <3>4
  <2>. QED  BY <2>1, <2>2
<1>4. SUBSET S \subseteq T
  <2>. HIDE DEF T
  <2>. QED  BY <1>2, <1>3, SubsetsAll
<1>. QED  BY <1>4

LEMMA SumFunctionSums ==
    ASSUME NEW S, IsFiniteSet(S), NEW f \in [S -> Int]
    PROVE  \E g : Sums(f, S, g) /\ SumFunction(f) = g[S]
<1>. DEFINE G == CHOOSE g : Adds(f, S, g)
<1>1. Adds(f, S, G)
  BY AddsExists
<1>2. SumFunction(f) = G[S]
  <2>1. DOMAIN f = S
    OBVIOUS
  <2>. QED  BY <2>1, Zenon DEF SumFunction, SumFunctionOnSet, FoldFunctionOnSet, MapThenFoldSet, Adds, Some, Rest
<1>. HIDE DEF G
<1>3. Sums(f, S, G)
  BY <1>1, AddsSums
<1>. QED  BY <1>2, <1>3

LEMMA SumIsInt ==
    ASSUME NEW S, IsFiniteSet(S), NEW f \in [S -> Int]
    PROVE  SumFunction(f) \in Int
<1>1. PICK g : Sums(f, S, g) /\ SumFunction(f) = g[S]
  BY SumFunctionSums
<1>. QED  BY <1>1 DEF Sums

LEMMA SumAtMost ==
    ASSUME NEW S, IsFiniteSet(S), NEW f \in [S -> Int], NEW e \in [S -> Int], \A x \in S : f[x] <= e[x]
    PROVE  SumFunction(f) <= SumFunction(e)
<1>1. PICK g : Sums(f, S, g) /\ SumFunction(f) = g[S]
  BY SumFunctionSums
<1>2. PICK h : Sums(e, S, h) /\ SumFunction(e) = h[S]
  BY SumFunctionSums
<1>. QED  BY <1>1, <1>2, SumsCompare

LEMMA SumPlus ==
    ASSUME NEW S, IsFiniteSet(S), NEW f \in [S -> Int], NEW e \in [S -> Int], NEW k \in [S -> Int],
           \A x \in S : k[x] = f[x] + e[x]
    PROVE  SumFunction(k) = SumFunction(f) + SumFunction(e)
<1>1. PICK g : Sums(f, S, g) /\ SumFunction(f) = g[S]
  BY SumFunctionSums
<1>2. PICK h : Sums(e, S, h) /\ SumFunction(e) = h[S]
  BY SumFunctionSums
<1>3. PICK j : Sums(k, S, j) /\ SumFunction(k) = j[S]
  BY SumFunctionSums
<1>. DEFINE T == {s \in SUBSET S : j[s] = g[s] + h[s]}
<1>4. /\ g[{}] = 0 /\ h[{}] = 0 /\ j[{}] = 0
      /\ \A s \in SUBSET S : g[s] \in Int /\ h[s] \in Int /\ j[s] \in Int
      /\ \A s \in SUBSET S : \A x \in s :
            g[s] = f[x] + g[s \ {x}] /\ h[s] = e[x] + h[s \ {x}] /\ j[s] = k[x] + j[s \ {x}]
  BY <1>1, <1>2, <1>3 DEF Sums
<1>5. {} \in T
  BY <1>4
<1>6. ASSUME NEW s \in SUBSET S, \A x \in s : s \ {x} \in T PROVE s \in T
  <2>1. CASE s = {}
    BY <1>5, <2>1
  <2>2. CASE s # {}
    <3>1. PICK x : x \in s
      BY <2>2
    <3>2. j[s \ {x}] = g[s \ {x}] + h[s \ {x}] /\ g[s \ {x}] \in Int /\ h[s \ {x}] \in Int
      BY <1>4, <1>6, <3>1
    <3>3. k[x] = f[x] + e[x] /\ f[x] \in Int /\ e[x] \in Int
      BY <3>1
    <3>4. g[s] = f[x] + g[s \ {x}] /\ h[s] = e[x] + h[s \ {x}] /\ j[s] = k[x] + j[s \ {x}]
      BY <1>4, <3>1
    <3>. QED  BY <3>2, <3>3, <3>4
  <2>. QED  BY <2>1, <2>2
<1>7. SUBSET S \subseteq T
  <2>. HIDE DEF T
  <2>. QED  BY <1>5, <1>6, SubsetsAll
<1>. QED  BY <1>1, <1>2, <1>3, <1>7

LEMMA SumZero ==
    ASSUME NEW S, IsFiniteSet(S), NEW f \in [S -> Int], \A x \in S : f[x] = 0
    PROVE  SumFunction(f) = 0
<1>1. PICK g : Sums(f, S, g) /\ SumFunction(f) = g[S]
  BY SumFunctionSums
<1>. DEFINE T == {s \in SUBSET S : g[s] = 0}
<1>2. {} \in T
  BY <1>1 DEF Sums
<1>3. ASSUME NEW s \in SUBSET S, \A x \in s : s \ {x} \in T PROVE s \in T
  <2>1. CASE s = {}
    BY <1>2, <2>1
  <2>2. CASE s # {}
    <3>1. PICK x : x \in s
      BY <2>2
    <3>2. g[s \ {x}] = 0 /\ f[x] = 0
      BY <1>3, <3>1
    <3>3. g[s] = f[x] + g[s \ {x}]
      BY <1>1, <3>1 DEF Sums
    <3>. QED  BY <3>2, <3>3
  <2>. QED  BY <2>1, <2>2
<1>4. SUBSET S \subseteq T
  <2>. HIDE DEF T
  <2>. QED  BY <1>2, <1>3, SubsetsAll
<1>. QED  BY <1>1, <1>4

LEMMA Distributes == ASSUME NEW a \in Int, NEW b \in Int, NEW c \in Int PROVE (a + b) * c = a * c + b * c
OBVIOUS

LEMMA SumTimes ==
    ASSUME NEW S, IsFiniteSet(S), NEW c \in Int, NEW f \in [S -> Int], NEW e \in [S -> Int],
           \A x \in S : e[x] = f[x] * c
    PROVE  SumFunction(e) = SumFunction(f) * c
<1>1. PICK g : Sums(f, S, g) /\ SumFunction(f) = g[S]
  BY SumFunctionSums
<1>2. PICK h : Sums(e, S, h) /\ SumFunction(e) = h[S]
  BY SumFunctionSums
<1>. DEFINE T == {s \in SUBSET S : h[s] = g[s] * c}
<1>3. /\ g[{}] = 0 /\ h[{}] = 0
      /\ \A s \in SUBSET S : g[s] \in Int
      /\ \A s \in SUBSET S : \A x \in s : g[s] = f[x] + g[s \ {x}] /\ h[s] = e[x] + h[s \ {x}]
  BY <1>1, <1>2 DEF Sums
<1>4. {} \in T
  <2>1. 0 * c = 0
    OBVIOUS
  <2>. QED  BY <1>3, <2>1
<1>5. ASSUME NEW s \in SUBSET S, \A x \in s : s \ {x} \in T PROVE s \in T
  <2>1. CASE s = {}
    BY <1>4, <2>1
  <2>2. CASE s # {}
    <3>1. PICK x : x \in s
      BY <2>2
    <3>2. h[s \ {x}] = g[s \ {x}] * c /\ g[s \ {x}] \in Int
      BY <1>3, <1>5, <3>1
    <3>3. e[x] = f[x] * c /\ f[x] \in Int
      BY <3>1
    <3>4. g[s] = f[x] + g[s \ {x}] /\ h[s] = e[x] + h[s \ {x}]
      BY <1>3, <3>1
    <3>5. h[s] = g[s] * c
      BY <3>2, <3>3, <3>4, Distributes
    <3>. QED  BY <3>5
  <2>. QED  BY <2>1, <2>2
<1>6. SUBSET S \subseteq T
  <2>. HIDE DEF T
  <2>. QED  BY <1>4, <1>5, SubsetsAll
<1>. QED  BY <1>1, <1>2, <1>6

\* Terms each of which is a number of hundredths rounded to the nearest.
LEMMA SumRounded ==
    ASSUME NEW S, IsFiniteSet(S), NEW f \in [S -> Int], NEW e \in [S -> Int],
           \A x \in S : 100 * f[x] - e[x] <= 50 /\ e[x] - 100 * f[x] <= 50
    PROVE  /\ 100 * SumFunction(f) - SumFunction(e) <= 50 * Cardinality(S)
           /\ SumFunction(e) - 100 * SumFunction(f) <= 50 * Cardinality(S)
<1>1. PICK g : Sums(f, S, g) /\ SumFunction(f) = g[S]
  BY SumFunctionSums
<1>2. PICK h : Sums(e, S, h) /\ SumFunction(e) = h[S]
  BY SumFunctionSums
<1>. DEFINE Near(s) == /\ 100 * g[s] - h[s] <= 50 * Cardinality(s)
                       /\ h[s] - 100 * g[s] <= 50 * Cardinality(s)
            T == {s \in SUBSET S : Near(s)}
<1>3. /\ g[{}] = 0 /\ h[{}] = 0
      /\ \A s \in SUBSET S : g[s] \in Int /\ h[s] \in Int
      /\ \A s \in SUBSET S : \A x \in s : g[s] = f[x] + g[s \ {x}] /\ h[s] = e[x] + h[s \ {x}]
  BY <1>1, <1>2 DEF Sums
<1>4. {} \in T
  <2>1. Cardinality({}) = 0
    BY FS_EmptySet
  <2>. QED  BY <1>3, <2>1
<1>5. ASSUME NEW s \in SUBSET S, \A x \in s : s \ {x} \in T PROVE s \in T
  <2>1. CASE s = {}
    BY <1>4, <2>1
  <2>2. CASE s # {}
    <3>1. PICK x : x \in s
      BY <2>2
    <3>2. Near(s \ {x}) /\ g[s \ {x}] \in Int /\ h[s \ {x}] \in Int
      BY <1>3, <1>5, <3>1
    <3>3. 100 * f[x] - e[x] <= 50 /\ e[x] - 100 * f[x] <= 50 /\ f[x] \in Int /\ e[x] \in Int
      BY <3>1
    <3>4. g[s] = f[x] + g[s \ {x}] /\ h[s] = e[x] + h[s \ {x}]
      BY <1>3, <3>1
    <3>5. IsFiniteSet(s) /\ Cardinality(s) \in Nat /\ Cardinality(s \ {x}) = Cardinality(s) - 1
      BY <3>1, FS_Subset, FS_CardinalityType, FS_RemoveElement
    <3>6. Near(s)
      BY <3>2, <3>3, <3>4, <3>5
    <3>. QED  BY <3>6
  <2>. QED  BY <2>1, <2>2
<1>6. SUBSET S \subseteq T
  <2>. HIDE DEF T
  <2>. QED  BY <1>4, <1>5, SubsetsAll
<1>7. Near(S)
  BY <1>6
<1>. QED  BY <1>1, <1>2, <1>7

\* A sum over the numbers up to n, by what each of them adds.
LEMMA SumUpTo ==
    ASSUME NEW n \in Nat, NEW f \in [1..n -> Int], NEW F, F[0] = 0,
           \A k \in 0..(n - 1) : F[k + 1] = F[k] + f[k + 1]
    PROVE  SumFunction(f) = F[n]
<1>1. PICK g : Sums(f, 1..n, g) /\ SumFunction(f) = g[1..n]
  <2>1. IsFiniteSet(1..n)
    BY FS_Interval
  <2>. QED  BY <2>1, SumFunctionSums
<1>. DEFINE N == {k \in Nat : k \in 0..n => g[1..k] = F[k]}
<1>2. 0 \in N
  <2>1. 1..0 = {}
    OBVIOUS
  <2>. QED  BY <1>1, <2>1 DEF Sums
<1>3. ASSUME NEW k \in Nat, k \in N PROVE k + 1 \in N
  <2>. SUFFICES ASSUME k + 1 \in 0..n PROVE g[1..(k + 1)] = F[k + 1]
    OBVIOUS
  <2>1. k \in 0..(n - 1) /\ k \in 0..n /\ k + 1 \in 1..(k + 1) /\ (1..(k + 1)) \ {k + 1} = 1..k
        /\ 1..(k + 1) \in SUBSET (1..n) /\ 1..k \in SUBSET (1..n) /\ k + 1 \in 1..n
    OBVIOUS
  <2>2. g[1..(k + 1)] = f[k + 1] + g[1..k]
    <3>1. g[1..(k + 1)] = f[k + 1] + g[(1..(k + 1)) \ {k + 1}]
      BY <1>1, <2>1 DEF Sums
    <3>. QED  BY <2>1, <3>1
  <2>3. g[1..k] = F[k]
    BY <1>3, <2>1
  <2>4. g[1..k] \in Int /\ f[k + 1] \in Int
    BY <1>1, <2>1 DEF Sums
  <2>5. F[k + 1] = F[k] + f[k + 1]
    BY <2>1
  <2>. QED  BY <2>2, <2>3, <2>4, <2>5
<1>4. Nat \subseteq N
  <2>. HIDE DEF N
  <2>. QED  BY <1>2, <1>3, NumbersAll
<1>. QED  BY <1>1, <1>4

-----------------------------------------------------------------------------
(* Months.                                                                 *)

LEMMA MonthsInOrder ==
    ASSUME NEW i \in 1..(Months + 1), NEW j \in 1..(Months + 1), i <= j
    PROVE  MonthStart[i] \in Int /\ MonthStart[j] \in Int /\ MonthStart[i] <= MonthStart[j]
<1>1. /\ Months \in Nat \ {0} /\ MonthStart \in [1..(Months + 1) -> Int]
      /\ \A m \in Month : MonthStart[m] < MonthStart[m + 1]
  BY ClosingsAssumption
<1>. DEFINE S == {d \in Nat : i + d \in 1..(Months + 1) => MonthStart[i] <= MonthStart[i + d]}
<1>2. 0 \in S
  BY <1>1
<1>3. ASSUME NEW d \in Nat, d \in S PROVE d + 1 \in S
  <2>. SUFFICES ASSUME i + (d + 1) \in 1..(Months + 1) PROVE MonthStart[i] <= MonthStart[i + (d + 1)]
    OBVIOUS
  <2>1. i + d \in Month /\ i + d \in 1..(Months + 1) /\ i + (d + 1) = (i + d) + 1
    BY <1>1 DEF Month
  <2>2. MonthStart[i] <= MonthStart[i + d] /\ MonthStart[i + d] < MonthStart[(i + d) + 1]
    BY <1>1, <1>3, <2>1
  <2>3. MonthStart[i] \in Int /\ MonthStart[i + d] \in Int /\ MonthStart[(i + d) + 1] \in Int
    BY <1>1, <2>1
  <2>. QED  BY <2>1, <2>2, <2>3
<1>4. Nat \subseteq S
  <2>. HIDE DEF S
  <2>. QED  BY <1>2, <1>3, NumbersAll
<1>5. j - i \in Nat /\ i + (j - i) = j
  OBVIOUS
<1>6. MonthStart[i] <= MonthStart[j]
  BY <1>4, <1>5
<1>. QED  BY <1>1, <1>6

LEMMA MonthTimes ==
    /\ Time \subseteq Int
    /\ \A m \in Month : From(m) \in Time /\ To(m) \in Time /\ From(m) < To(m)
<1>1. Months \in Nat \ {0} /\ 1 \in 1..(Months + 1) /\ Months + 1 \in 1..(Months + 1)
  BY ClosingsAssumption
<1>2. \A i \in 1..(Months + 1) : MonthStart[i] \in Time
  <2>. TAKE i \in 1..(Months + 1)
  <2>1. 1 <= i /\ i <= Months + 1
    BY <1>1
  <2>2. MonthStart[1] <= MonthStart[i] /\ MonthStart[i] \in Int /\ MonthStart[1] \in Int
    BY <1>1, <2>1, MonthsInOrder
  <2>3. MonthStart[i] <= MonthStart[Months + 1] /\ MonthStart[Months + 1] \in Int
    BY <1>1, <2>1, MonthsInOrder
  <2>. QED  BY <2>2, <2>3 DEF Time
<1>3. \A m \in Month : m \in 1..(Months + 1) /\ m + 1 \in 1..(Months + 1)
  BY <1>1 DEF Month
<1>. QED  BY <1>2, <1>3, ClosingsAssumption DEF From, To, Time

-----------------------------------------------------------------------------
(* The fee.                                                                *)

\* A request to apply a readjustment is under way.
Busy(a) == applying[a].step # "idle"
NotMarked == \A a \in Appliers : applying[a].step # "mark"

\* What the steps of the fee rely on.
FeeTypes ==
    /\ contract \in Contract
    /\ adjustments \in [Readjustments -> {"none", "SCHEDULED", "APPLIED"}]
    /\ applying \in [Appliers -> Apply]
    /\ \A a \in Appliers : Busy(a) => applying[a].id \in Readjustments
    /\ applied \in Seq(Readjustments)
    /\ torn \in BOOLEAN

\* What was applied since the fee was set is marked.  Unless two writers of
\* the fee overlapped or one failed half way: nothing was applied twice, one
\* request is under way at a time, the readjustment it applies is not marked
\* yet, it knows the fee as it is, and between the two writes the fee is
\* raised and the mark is still to come.
AppliedAreMarked == \A i \in DOMAIN applied : adjustments[applied[i]] = "APPLIED"
AppliedOnce == \A i, j \in DOMAIN applied : applied[i] = applied[j] => i = j
OneAtATime == \A a, b \in Appliers : Busy(a) /\ Busy(b) => a = b
NotMarkedYet == \A a \in Appliers : Busy(a) => adjustments[applying[a].id] # "APPLIED"
FeeAsRead == \A a \in Appliers : applying[a].step = "fee" => applying[a].fee = contract.fee
FeeAsRaised ==
    \A a \in Appliers : applying[a].step = "mark" => contract.fee = Append(applied, applying[a].id)

FeeIInv ==
    /\ FeeTypes
    /\ AppliedAreMarked
    /\ ~torn => /\ AppliedOnce /\ OneAtATime /\ NotMarkedYet /\ FeeAsRead /\ FeeAsRaised
                /\ NotMarked => contract.fee = applied

LEMMA InitFee == Init => FeeIInv
<1>. SUFFICES ASSUME Init PROVE FeeIInv
  OBVIOUS
<1>1. applied = <<>> /\ applied \in Seq(Readjustments) /\ DOMAIN applied = {}
  BY DEF Init
<1>2. contract \in Contract /\ contract.fee = <<>>
  <2>1. contract \in [active : {TRUE}, printers : {Printers}, tiers : {{}, Tiers},
                     franchise : Franchises, fee : {<<>>}]
    BY DEF Init
  <2>2. <<>> \in Seq(Readjustments)
    OBVIOUS
  <2>. QED  BY <2>1, <2>2 DEF Contract
<1>3. \A a \in Appliers : applying[a] = NoApply /\ applying[a].step = "idle"
  BY DEF Init, NoApply
<1>4. NoApply \in Apply
  BY DEF NoApply, Apply
<1>5. FeeTypes
  BY <1>1, <1>2, <1>3, <1>4 DEF Init, FeeTypes, Busy
<1>. QED  BY <1>1, <1>2, <1>3, <1>5 DEF FeeIInv, AppliedAreMarked, AppliedOnce, OneAtATime, NotMarkedYet,
                 FeeAsRead, FeeAsRaised, NotMarked, Busy

\* Steps that leave the fee and its readjustments alone.
LEMMA EditFee ==
    ASSUME FeeIInv, contract' \in Contract, contract'.fee = contract.fee, UNCHANGED feeVars
    PROVE  FeeIInv'
<1>1. FeeTypes' /\ AppliedAreMarked'
  BY DEF FeeIInv, feeVars, FeeTypes, AppliedAreMarked, Busy
<1>2. ~torn => AppliedOnce' /\ OneAtATime' /\ NotMarkedYet' /\ FeeAsRead' /\ FeeAsRaised'
  BY DEF FeeIInv, feeVars, AppliedOnce, OneAtATime, NotMarkedYet, FeeAsRead, FeeAsRaised, Busy
<1>. QED  BY <1>1, <1>2 DEF FeeIInv, feeVars, NotMarked

LEMMA SetFeeFee == ASSUME FeeIInv, SetFee PROVE FeeIInv'
<1>1. /\ contract' = [contract EXCEPT !.fee = <<>>] /\ applied' = <<>>
      /\ torn' = (torn \/ \E a \in Appliers : Busy(a))
      /\ UNCHANGED <<adjustments, applying>>
  BY DEF SetFee, Busy
<1>2. contract' \in Contract /\ contract'.fee = <<>>
  <2>1. contract \in Contract
    BY DEF FeeIInv, FeeTypes
  <2>2. <<>> \in Seq(Readjustments)
    OBVIOUS
  <2>. QED  BY <1>1, <2>1, <2>2 DEF Contract
<1>3. applied' \in Seq(Readjustments) /\ DOMAIN applied' = {}
  BY <1>1
<1>4. torn' \in BOOLEAN
  BY <1>1 DEF FeeIInv, FeeTypes
<1>5. FeeTypes' /\ AppliedAreMarked' /\ AppliedOnce'
  BY <1>1, <1>2, <1>3, <1>4 DEF FeeIInv, FeeTypes, AppliedAreMarked, AppliedOnce, Busy
<1>6. ~torn' => \A a \in Appliers : ~Busy(a)'
  BY <1>1 DEF Busy
<1>7. ~torn' => OneAtATime' /\ NotMarkedYet' /\ FeeAsRead' /\ FeeAsRaised'
  BY <1>6 DEF OneAtATime, NotMarkedYet, FeeAsRead, FeeAsRaised, Busy
<1>. QED  BY <1>1, <1>2, <1>5, <1>7 DEF FeeIInv

LEMMA CreateReadjustmentFee ==
    ASSUME FeeIInv, NEW id \in Readjustments, CreateReadjustment(id)
    PROVE  FeeIInv'
<1>1. /\ adjustments[id] = "none" /\ adjustments' = [adjustments EXCEPT ![id] = "SCHEDULED"]
      /\ UNCHANGED <<contract, applying, applied, torn>>
  BY DEF CreateReadjustment
<1>2. /\ adjustments' \in [Readjustments -> {"none", "SCHEDULED", "APPLIED"}]
      /\ \A r \in Readjustments : adjustments'[r] = "APPLIED" <=> adjustments[r] = "APPLIED"
  BY <1>1 DEF FeeIInv, FeeTypes
<1>3. FeeTypes'
  BY <1>1, <1>2 DEF FeeIInv, FeeTypes, Busy
<1>4. \A i \in DOMAIN applied : applied[i] \in Readjustments
  BY DEF FeeIInv, FeeTypes
<1>5. AppliedAreMarked'
  BY <1>1, <1>2, <1>4 DEF FeeIInv, AppliedAreMarked
<1>6. ~torn => AppliedOnce' /\ OneAtATime' /\ FeeAsRead' /\ FeeAsRaised'
  BY <1>1 DEF FeeIInv, AppliedOnce, OneAtATime, FeeAsRead, FeeAsRaised, Busy
<1>7. ~torn => NotMarkedYet'
  BY <1>1, <1>2 DEF FeeIInv, FeeTypes, NotMarkedYet, Busy
<1>. QED  BY <1>1, <1>3, <1>5, <1>6, <1>7 DEF FeeIInv, NotMarked

LEMMA StartApplyFee ==
    ASSUME FeeIInv, NEW a \in Appliers, NEW id \in Readjustments, NEW now_ \in BOOLEAN,
           StartApply(a, id, now_)
    PROVE  FeeIInv'
<1>. DEFINE new == [step |-> "fee", id |-> id, fee |-> contract.fee, now |-> now_]
<1>1. /\ applying[a].step = "idle" /\ MayApply(id, now_)
      /\ applying' = [applying EXCEPT ![a] = new]
      /\ torn' = (torn \/ \E b \in Appliers : Busy(b))
      /\ UNCHANGED <<contract, adjustments, applied>>
  BY DEF StartApply, Busy
<1>2. new \in Apply /\ contract.fee \in Seq(Readjustments)
  BY DEF FeeIInv, FeeTypes, Contract, Apply
<1>3. new.step = "fee" /\ new.id = id /\ new.fee = contract.fee
  OBVIOUS
<1>. HIDE DEF new
<1>4. /\ applying' \in [Appliers -> Apply]
      /\ \A b \in Appliers : applying'[b] = IF b = a THEN new ELSE applying[b]
      /\ torn' \in BOOLEAN
  BY <1>1, <1>2 DEF FeeIInv, FeeTypes
<1>5. FeeTypes'
  BY <1>1, <1>3, <1>4 DEF FeeIInv, FeeTypes, Busy
<1>6. AppliedAreMarked' /\ (~torn' => AppliedOnce')
  BY <1>1 DEF FeeIInv, AppliedAreMarked, AppliedOnce
<1>7. ~torn' => \A b \in Appliers : Busy(b)' <=> b = a
  BY <1>1, <1>3, <1>4 DEF Busy
<1>8. adjustments[id] # "APPLIED"
  BY <1>1 DEF MayApply
<1>9. ~torn' => OneAtATime' /\ NotMarkedYet' /\ FeeAsRead' /\ FeeAsRaised' /\ NotMarked'
  <2>. SUFFICES ASSUME ~torn' PROVE OneAtATime' /\ NotMarkedYet' /\ FeeAsRead' /\ FeeAsRaised' /\ NotMarked'
    OBVIOUS
  <2>1. OneAtATime'
    BY <1>7 DEF OneAtATime
  <2>2. \A b \in Appliers : b # a => applying'[b].step = "idle"
    BY <1>7 DEF Busy
  <2>3. applying'[a] = new
    BY <1>4
  <2>. QED  BY <1>1, <1>3, <1>8, <2>1, <2>2, <2>3 DEF NotMarkedYet, FeeAsRead, FeeAsRaised, NotMarked, Busy
<1>10. ~torn' => ~torn /\ NotMarked
  BY <1>1 DEF Busy, NotMarked
<1>. QED  BY <1>1, <1>5, <1>6, <1>9, <1>10 DEF FeeIInv

LEMMA WriteFeeFee == ASSUME FeeIInv, NEW a \in Appliers, WriteFee(a) PROVE FeeIInv'
<1>. DEFINE new == [applying[a] EXCEPT !.step = "mark"]
<1>1. /\ applying[a].step = "fee"
      /\ contract' = [contract EXCEPT !.fee = Append(applying[a].fee, applying[a].id)]
      /\ applying' = [applying EXCEPT ![a] = new]
      /\ UNCHANGED <<adjustments, applied, torn>>
  BY DEF WriteFee
<1>2. applying[a] \in Apply /\ applying[a].id \in Readjustments /\ applying[a].fee \in Seq(Readjustments)
  BY <1>1 DEF FeeIInv, FeeTypes, Apply, Busy
<1>3. new \in Apply /\ new.step = "mark" /\ new.id = applying[a].id
  BY <1>2 DEF Apply
<1>. HIDE DEF new
<1>4. /\ contract' \in Contract
      /\ contract'.fee = Append(applying[a].fee, applying[a].id)
  <2>. DEFINE fee == Append(applying[a].fee, applying[a].id)
  <2>1. contract \in Contract
    BY DEF FeeIInv, FeeTypes
  <2>2. fee \in Seq(Readjustments) /\ contract' = [contract EXCEPT !.fee = fee]
    BY <1>1, <1>2
  <2>. HIDE DEF fee
  <2>3. contract' \in Contract /\ contract'.fee = fee
    BY <2>1, <2>2 DEF Contract
  <2>. QED  BY <2>3 DEF fee
<1>5. /\ applying' \in [Appliers -> Apply]
      /\ \A b \in Appliers : applying'[b] = IF b = a THEN new ELSE applying[b]
  BY <1>1, <1>3 DEF FeeIInv, FeeTypes
<1>6. \A b \in Appliers : (Busy(b)' <=> Busy(b)) /\ applying'[b].id = applying[b].id
  BY <1>1, <1>3, <1>5 DEF Busy
<1>7. FeeTypes'
  BY <1>1, <1>4, <1>5, <1>6 DEF FeeIInv, FeeTypes
<1>8. AppliedAreMarked' /\ (~torn' => AppliedOnce')
  BY <1>1 DEF FeeIInv, AppliedAreMarked, AppliedOnce
<1>9. ~torn' => OneAtATime' /\ NotMarkedYet' /\ FeeAsRead' /\ FeeAsRaised' /\ ~NotMarked'
  <2>. SUFFICES ASSUME ~torn PROVE OneAtATime' /\ NotMarkedYet' /\ FeeAsRead' /\ FeeAsRaised' /\ ~NotMarked'
    BY <1>1
  <2>1. OneAtATime' /\ NotMarkedYet'
    BY <1>1, <1>6 DEF FeeIInv, OneAtATime, NotMarkedYet
  <2>2. \A b \in Appliers : b # a => applying'[b].step = "idle"
    BY <1>1, <1>6 DEF FeeIInv, OneAtATime, Busy
  <2>3. applying[a].fee = contract.fee /\ NotMarked
    BY <1>1 DEF FeeIInv, FeeAsRead, OneAtATime, Busy, NotMarked
  <2>4. contract'.fee = Append(applied, applying[a].id)
    BY <1>4, <2>3 DEF FeeIInv
  <2>5. applying'[a] = new
    BY <1>5
  <2>. QED  BY <1>1, <1>3, <2>1, <2>2, <2>4, <2>5 DEF FeeAsRead, FeeAsRaised, NotMarked
<1>. QED  BY <1>7, <1>8, <1>9 DEF FeeIInv

LEMMA MarkAppliedFee == ASSUME FeeIInv, NEW a \in Appliers, MarkApplied(a) PROVE FeeIInv'
<1>. DEFINE id == applying[a].id
<1>1. /\ applying[a].step = "mark"
      /\ adjustments' = [adjustments EXCEPT ![id] = "APPLIED"]
      /\ applied' = Append(applied, id)
      /\ applying' = [applying EXCEPT ![a] = NoApply]
      /\ UNCHANGED <<contract, torn>>
  BY DEF MarkApplied
<1>2. id \in Readjustments
  BY <1>1 DEF FeeIInv, FeeTypes, Busy
<1>3. NoApply \in Apply /\ NoApply.step = "idle"
  BY DEF NoApply, Apply
<1>. HIDE DEF id
<1>4. /\ applying' \in [Appliers -> Apply]
      /\ \A b \in Appliers : applying'[b] = IF b = a THEN NoApply ELSE applying[b]
  BY <1>1, <1>3 DEF FeeIInv, FeeTypes
<1>5. /\ adjustments' \in [Readjustments -> {"none", "SCHEDULED", "APPLIED"}]
      /\ \A r \in Readjustments : adjustments'[r] = IF r = id THEN "APPLIED" ELSE adjustments[r]
  BY <1>1, <1>2 DEF FeeIInv, FeeTypes
<1>6. /\ applied \in Seq(Readjustments) /\ Len(applied) \in Nat /\ DOMAIN applied = 1..Len(applied)
      /\ applied' \in Seq(Readjustments) /\ Len(applied') = Len(applied) + 1
      /\ DOMAIN applied' = 1..(Len(applied) + 1)
      /\ \A i \in 1..Len(applied) : applied'[i] = applied[i] /\ applied[i] \in Readjustments
      /\ applied'[Len(applied) + 1] = id
  <2>1. applied \in Seq(Readjustments)
    BY DEF FeeIInv, FeeTypes
  <2>. QED  BY <1>1, <1>2, <2>1, AppendProperties
<1>7. FeeTypes'
  BY <1>1, <1>3, <1>4, <1>5, <1>6 DEF FeeIInv, FeeTypes, Busy
<1>8. \A i \in 1..Len(applied) : adjustments[applied[i]] = "APPLIED"
  BY <1>6 DEF FeeIInv, AppliedAreMarked
<1>9. AppliedAreMarked'
  BY <1>5, <1>6, <1>8 DEF AppliedAreMarked
<1>10. ~torn' => AppliedOnce' /\ OneAtATime' /\ NotMarkedYet' /\ FeeAsRead' /\ FeeAsRaised' /\ contract'.fee = applied'
  <2>. SUFFICES ASSUME ~torn PROVE AppliedOnce' /\ OneAtATime' /\ NotMarkedYet' /\ FeeAsRead' /\ FeeAsRaised' /\ contract'.fee = applied'
    BY <1>1
  <2>1. \A b \in Appliers : applying'[b].step = "idle"
    BY <1>1, <1>3, <1>4 DEF FeeIInv, OneAtATime, Busy
  <2>2. OneAtATime' /\ NotMarkedYet' /\ FeeAsRead' /\ FeeAsRaised'
    BY <2>1 DEF OneAtATime, NotMarkedYet, FeeAsRead, FeeAsRaised, Busy
  <2>3. contract'.fee = applied'
    BY <1>1 DEF FeeIInv, FeeAsRaised, id
  <2>4. adjustments[id] # "APPLIED"
    BY <1>1 DEF FeeIInv, NotMarkedYet, Busy, id
  <2>5. \A i \in 1..Len(applied) : applied[i] # id
    BY <1>8, <2>4
  <2>6. \A i, j \in 1..Len(applied) : applied[i] = applied[j] => i = j
    BY <1>6 DEF FeeIInv, AppliedOnce
  <2>7. AppliedOnce'
    BY <1>6, <2>5, <2>6 DEF AppliedOnce
  <2>. QED  BY <2>2, <2>3, <2>7
<1>. QED  BY <1>7, <1>9, <1>10 DEF FeeIInv

LEMMA ApplyFailsFee == ASSUME FeeIInv, NEW a \in Appliers, ApplyFails(a) PROVE FeeIInv'
<1>1. /\ torn' = (torn \/ applying[a].step = "mark")
      /\ applying' = [applying EXCEPT ![a] = NoApply]
      /\ UNCHANGED <<contract, adjustments, applied>>
  BY DEF ApplyFails
<1>2. NoApply \in Apply /\ NoApply.step = "idle"
  BY DEF NoApply, Apply
<1>3. /\ applying' \in [Appliers -> Apply]
      /\ \A b \in Appliers : applying'[b] = IF b = a THEN NoApply ELSE applying[b]
      /\ torn' \in BOOLEAN
  BY <1>1, <1>2 DEF FeeIInv, FeeTypes
<1>4. FeeTypes'
  BY <1>1, <1>2, <1>3 DEF FeeIInv, FeeTypes, Busy
<1>5. AppliedAreMarked' /\ (~torn' => AppliedOnce')
  BY <1>1 DEF FeeIInv, AppliedAreMarked, AppliedOnce
<1>6. ~torn' => OneAtATime' /\ NotMarkedYet' /\ FeeAsRead' /\ FeeAsRaised'
  BY <1>1, <1>2, <1>3 DEF FeeIInv, OneAtATime, NotMarkedYet, FeeAsRead, FeeAsRaised, Busy
<1>7. ~torn' /\ NotMarked' => NotMarked
  BY <1>1, <1>3 DEF NotMarked
<1>. QED  BY <1>1, <1>4, <1>5, <1>6, <1>7 DEF FeeIInv

LEMMA NextFee == FeeIInv /\ [Next]_vars => FeeIInv'
<1>. SUFFICES ASSUME FeeIInv, [Next]_vars PROVE FeeIInv'
  OBVIOUS
<1>0. contract \in Contract
  BY DEF FeeIInv, FeeTypes
<1>1. ASSUME UNCHANGED <<contract, feeVars>> PROVE FeeIInv'
  BY <1>0, <1>1, EditFee
<1>2. CASE UNCHANGED vars
  BY <1>1, <1>2 DEF vars
<1>3. CASE Tick
  BY <1>1, <1>3 DEF Tick
<1>4. ASSUME NEW p \in Printers,
             PrintPage(p) \/ ResetCounter(p) \/ Collect(p) \/ Delay(p) \/ CollectDelayed(p)
      PROVE  FeeIInv'
  BY <1>1, <1>4 DEF PrintPage, ResetCounter, Collect, Delay, CollectDelayed, Record
<1>5. ASSUME NEW p \in Printers, AddPrinter(p) \/ RemovePrinter(p) PROVE FeeIInv'
  <2>1. contract' \in Contract /\ contract'.fee = contract.fee
    BY <1>0, <1>5 DEF AddPrinter, RemovePrinter, Edit, Contract
  <2>. QED  BY <1>5, <2>1, EditFee DEF AddPrinter, RemovePrinter, Edit
<1>6. CASE SetStatus \/ \E n \in Franchises : SetFranchise(n)
  <2>1. contract' \in Contract /\ contract'.fee = contract.fee
    BY <1>0, <1>6 DEF SetStatus, SetFranchise, Edit, Contract
  <2>. QED  BY <1>6, <2>1, EditFee DEF SetStatus, SetFranchise, Edit
<1>7. ASSUME NEW t \in Tiers, AddPricingTier(t) \/ RemovePricingTier(t) PROVE FeeIInv'
  <2>1. contract' \in Contract /\ contract'.fee = contract.fee
    BY <1>0, <1>7 DEF AddPricingTier, RemovePricingTier, Edit, Contract
  <2>. QED  BY <1>7, <2>1, EditFee DEF AddPricingTier, RemovePricingTier, Edit
<1>8. CASE SetFee
  BY <1>8, SetFeeFee
<1>9. ASSUME NEW id \in Readjustments, CreateReadjustment(id) PROVE FeeIInv'
  BY <1>9, CreateReadjustmentFee
<1>10. ASSUME NEW a \in Appliers, NEW id \in Readjustments, NEW now_ \in BOOLEAN, StartApply(a, id, now_)
       PROVE  FeeIInv'
  BY <1>10, StartApplyFee
<1>11. ASSUME NEW a \in Appliers, WriteFee(a) \/ MarkApplied(a) \/ ApplyFails(a) PROVE FeeIInv'
  BY <1>11, WriteFeeFee, MarkAppliedFee, ApplyFailsFee
<1>12. ASSUME NEW g \in Generators, NEW m \in Month, StartGenerate(g, m) PROVE FeeIInv'
  BY <1>1, <1>12 DEF StartGenerate
<1>13. ASSUME NEW g \in Generators, ReadContract(g) \/ ReadingsDone(g) \/ WriteClosing(g) PROVE FeeIInv'
  BY <1>1, <1>13 DEF ReadContract, ReadingsDone, WriteClosing
<1>14. ASSUME NEW g \in Generators, NEW p \in Printers, ReadReadings(g, p) PROVE FeeIInv'
  BY <1>1, <1>14 DEF ReadReadings
<1>15. ASSUME NEW m \in Month, Freeze(m) \/ Unfreeze(m) PROVE FeeIInv'
  BY <1>1, <1>15 DEF Freeze, Unfreeze
<1>. QED
  BY <1>2, <1>3, <1>4, <1>5, <1>6, <1>7, <1>8, <1>9, <1>10, <1>11, <1>12, <1>13, <1>14, <1>15 DEF Next

\* Unless two writers of the fee overlapped or one failed half way, the fee
\* was raised once by each readjustment marked APPLIED, and by no other.
THEOREM FeeRaisedOnce == Spec => []RaisedOnce
<1>1. FeeIInv => RaisedOnce
  <2>. SUFFICES ASSUME FeeIInv, ~torn PROVE RaisedOnce
    BY DEF RaisedOnce
  <2>1. CASE NotMarked
    BY <2>1 DEF FeeIInv, AppliedOnce, RaisedOnce, NotMarked
  <2>2. CASE ~NotMarked
    <3>1. PICK a \in Appliers : applying[a].step = "mark"
      BY <2>2 DEF NotMarked
    <3>. DEFINE id == applying[a].id
    <3>2. contract.fee = Append(applied, id) /\ id \in Readjustments /\ adjustments[id] # "APPLIED"
      BY <3>1 DEF FeeIInv, FeeTypes, FeeAsRaised, NotMarkedYet, Busy
    <3>. HIDE DEF id
    <3>3. applied \in Seq(Readjustments)
      BY DEF FeeIInv, FeeTypes
    <3>4. /\ Len(applied) \in Nat /\ DOMAIN contract.fee = 1..(Len(applied) + 1)
          /\ \A i \in 1..Len(applied) : contract.fee[i] = applied[i]
          /\ contract.fee[Len(applied) + 1] = id
      BY <3>2, <3>3, AppendProperties
    <3>5. \A i \in 1..Len(applied) : applied[i] # id
      BY <3>2, <3>3 DEF FeeIInv, AppliedAreMarked
    <3>6. \A i, j \in 1..Len(applied) : applied[i] = applied[j] => i = j
      BY <3>3 DEF FeeIInv, AppliedOnce
    <3>7. \A i, j \in DOMAIN contract.fee : contract.fee[i] = contract.fee[j] => i = j
      BY <3>4, <3>5, <3>6
    <3>. QED  BY <3>1, <3>7 DEF RaisedOnce
  <2>. QED  BY <2>1, <2>2
<1>. QED  BY <1>1, InitFee, NextFee, PTL DEF Spec

-----------------------------------------------------------------------------
(* The printers.                                                           *)

PrinterTypes ==
    /\ now \in Time
    /\ printed \in [Printers -> Nat]
    /\ counter \in [Printers -> Nat]
    /\ delayed \in [Printers -> Nat \cup {None}]
    /\ readings \in [Printers -> SUBSET Reading]
    /\ quota \in [Kinds -> Nat]

LEMMA SpendTypes ==
    ASSUME PrinterTypes, NEW kind \in Kinds, Spend(kind)
    PROVE  quota' \in [Kinds -> Nat]
<1>1. quota \in [Kinds -> Nat] /\ quota[kind] \in Nat /\ quota[kind] > 0
      /\ quota' = [quota EXCEPT ![kind] = quota[kind] - 1]
  BY DEF PrinterTypes, Spend
<1>2. quota[kind] - 1 \in Nat
  BY <1>1
<1>. QED  BY <1>1, <1>2

LEMMA InitPrinter == Init => PrinterTypes
<1>. SUFFICES ASSUME Init PROVE PrinterTypes
  OBVIOUS
<1>1. /\ Months \in Nat \ {0} /\ MonthStart \in [1..(Months + 1) -> Int]
      /\ \A m \in Month : MonthStart[m] < MonthStart[m + 1]
      /\ Quotas \subseteq [Kinds -> Nat]
  BY ClosingsAssumption
<1>2. MonthStart[1] \in Time
  <2>1. 1 \in Month
    BY <1>1 DEF Month
  <2>. QED  BY <2>1, MonthTimes DEF From
<1>3. /\ now = MonthStart[1] /\ quota \in Quotas
      /\ printed = [p \in Printers |-> 0] /\ counter = [p \in Printers |-> 0]
      /\ delayed = [p \in Printers |-> None] /\ readings = [p \in Printers |-> {}]
  BY DEF Init
<1>4. quota \in [Kinds -> Nat]
  BY <1>1, <1>3
<1>. QED  BY <1>2, <1>3, <1>4 DEF PrinterTypes

LEMMA NextPrinter == PrinterTypes /\ [Next]_vars => PrinterTypes'
<1>. SUFFICES ASSUME PrinterTypes, [Next]_vars PROVE PrinterTypes'
  OBVIOUS
<1>. USE DEF Kinds
<1>0. ASSUME UNCHANGED printerVars, quota' = quota \/ \E k \in Kinds : Spend(k) PROVE PrinterTypes'
  BY <1>0, SpendTypes DEF PrinterTypes, printerVars
<1>1. CASE UNCHANGED vars
  BY <1>0, <1>1 DEF vars
<1>2. CASE Tick
  BY <1>2 DEF Tick, PrinterTypes
<1>3. ASSUME NEW p \in Printers, PrintPage(p) PROVE PrinterTypes'
  <2>1. printed[p] + 1 \in Nat /\ counter[p] + 1 \in Nat /\ quota' \in [Kinds -> Nat]
    BY <1>3, SpendTypes DEF PrinterTypes, PrintPage
  <2>. QED  BY <1>3, <2>1 DEF PrinterTypes, PrintPage
<1>4. ASSUME NEW p \in Printers, ResetCounter(p) PROVE PrinterTypes'
  <2>1. quota' \in [Kinds -> Nat]
    BY <1>4, SpendTypes DEF ResetCounter
  <2>. QED  BY <1>4, <2>1 DEF PrinterTypes, ResetCounter
<1>5. ASSUME NEW p \in Printers, NEW total \in Nat, NEW late \in BOOLEAN, Record(p, total, late),
             delayed' \in [Printers -> Nat \cup {None}]
      PROVE  PrinterTypes'
  <2>. DEFINE new == [at |-> now, total |-> total, late |-> late]
  <2>1. quota' \in [Kinds -> Nat]
    BY <1>5, SpendTypes DEF Record
  <2>2. new \in Reading /\ readings' = [readings EXCEPT ![p] = readings[p] \cup {new}]
    BY <1>5 DEF PrinterTypes, Reading, Record
  <2>. HIDE DEF new
  <2>3. readings' \in [Printers -> SUBSET Reading]
    BY <2>2 DEF PrinterTypes
  <2>. QED  BY <1>5, <2>1, <2>3 DEF PrinterTypes, Record
<1>6. ASSUME NEW p \in Printers, Collect(p) \/ CollectDelayed(p) PROVE PrinterTypes'
  <2>1. counter[p] \in Nat /\ delayed[p] \in Nat \cup {None}
        /\ delayed \in [Printers -> Nat \cup {None}]
    BY DEF PrinterTypes
  <2>. QED  BY <1>5, <1>6, <2>1 DEF Collect, CollectDelayed
<1>7. ASSUME NEW p \in Printers, Delay(p) PROVE PrinterTypes'
  <2>1. quota' \in [Kinds -> Nat] /\ counter[p] \in Nat
    BY <1>7, SpendTypes DEF Delay, PrinterTypes
  <2>. QED  BY <1>7, <2>1 DEF PrinterTypes, Delay
<1>8. ASSUME NEW c, Edit(c) PROVE PrinterTypes'
  BY <1>0, <1>8 DEF Edit
<1>9. CASE SetFee
  BY <1>0, <1>9 DEF SetFee
<1>10. ASSUME NEW id \in Readjustments, CreateReadjustment(id) PROVE PrinterTypes'
  BY <1>0, <1>10 DEF CreateReadjustment
<1>11. ASSUME NEW a \in Appliers, NEW id \in Readjustments, NEW now_ \in BOOLEAN, StartApply(a, id, now_)
       PROVE  PrinterTypes'
  BY <1>0, <1>11 DEF StartApply
<1>12. ASSUME NEW a \in Appliers, WriteFee(a) \/ MarkApplied(a) \/ ApplyFails(a) PROVE PrinterTypes'
  BY <1>0, <1>12 DEF WriteFee, MarkApplied, ApplyFails
<1>13. ASSUME NEW g \in Generators, NEW m \in Month, StartGenerate(g, m) PROVE PrinterTypes'
  BY <1>0, <1>13 DEF StartGenerate
<1>14. ASSUME NEW g \in Generators, ReadContract(g) \/ ReadingsDone(g) \/ WriteClosing(g) PROVE PrinterTypes'
  BY <1>0, <1>14 DEF ReadContract, ReadingsDone, WriteClosing
<1>15. ASSUME NEW g \in Generators, NEW p \in Printers, ReadReadings(g, p) PROVE PrinterTypes'
  BY <1>0, <1>15 DEF ReadReadings
<1>16. ASSUME NEW m \in Month, Freeze(m) \/ Unfreeze(m) PROVE PrinterTypes'
  BY <1>0, <1>16 DEF Freeze, Unfreeze
<1>. QED
  BY <1>1, <1>2, <1>3, <1>4, <1>6, <1>7, <1>8, <1>9, <1>10, <1>11, <1>12, <1>13, <1>14, <1>15, <1>16
  DEF Next, AddPrinter, RemovePrinter, SetStatus, SetFranchise, AddPricingTier, RemovePricingTier

-----------------------------------------------------------------------------
(* The closings.                                                           *)

\* A closing's amount is a sum, about which see PagesChargedAsPriced.
ClosingTypes ==
    /\ closings = [m \in Month |-> closings[m]]
    /\ \A m \in Month : closings[m] # None =>
            closings[m] \in [status : {"PENDING", "FROZEN"}, terms : Contract \cup {None},
                            pages : Pages, amount : {closings[m].amount}, exact : BOOLEAN]
    /\ generating \in [Generators -> Generate]
    /\ freezes \in [Month -> Nat]

\* A request that is overtaken by a freeze knows an older count of freezes;
\* one that is not found its month unfrozen, and it still is.
LooksBeforeFreeze ==
    \A g \in Generators : generating[g].step # "idle" =>
        /\ generating[g].month \in Month
        /\ generating[g].freezes <= freezes[generating[g].month]
        /\ Frozen(generating[g].month) => generating[g].freezes # freezes[generating[g].month]

ClosingIInv == PrinterTypes /\ FeeTypes /\ ClosingTypes /\ LooksBeforeFreeze

LEMMA InitClosing == Init => ClosingTypes /\ LooksBeforeFreeze
<1>. SUFFICES ASSUME Init PROVE ClosingTypes /\ LooksBeforeFreeze
  OBVIOUS
<1>1. NoGenerate \in Generate /\ NoGenerate.step = "idle"
  BY DEF NoGenerate, Generate, NoPages, Pages
<1>2. closings = [m \in Month |-> None] /\ freezes = [m \in Month |-> 0]
      /\ generating = [g \in Generators |-> NoGenerate]
  BY DEF Init
<1>. QED  BY <1>1, <1>2 DEF ClosingTypes, LooksBeforeFreeze

\* Another state of a request, with the same month and count of freezes or
\* with the month's count now.
LEMMA RequestStep ==
    ASSUME ClosingIInv, NEW g \in Generators, NEW new \in Generate,
           generating' = [generating EXCEPT ![g] = new], UNCHANGED <<closings, freezes>>,
           \/ new.step = "idle"
           \/ generating[g].step # "idle" /\ new.month = generating[g].month /\ new.freezes = generating[g].freezes
           \/ new.month \in Month /\ new.freezes = freezes[new.month] /\ ~Frozen(new.month)
    PROVE  ClosingTypes' /\ LooksBeforeFreeze'
<1>1. /\ generating' \in [Generators -> Generate]
      /\ \A h \in Generators : generating'[h] = IF h = g THEN new ELSE generating[h]
  BY DEF ClosingIInv, ClosingTypes
<1>2. ClosingTypes'
  BY <1>1 DEF ClosingIInv, ClosingTypes
<1>3. \A m : Frozen(m)' <=> Frozen(m)
  BY DEF Frozen
<1>4. \A m \in Month : freezes[m] \in Nat
  BY DEF ClosingIInv, ClosingTypes
<1>5. LooksBeforeFreeze'
  <2>. SUFFICES ASSUME NEW h \in Generators, generating'[h].step # "idle"
                PROVE  /\ generating'[h].month \in Month
                       /\ generating'[h].freezes <= freezes[generating'[h].month]
                       /\ Frozen(generating'[h].month) => generating'[h].freezes # freezes[generating'[h].month]
    BY <1>3 DEF LooksBeforeFreeze
  <2>1. CASE h # g
    BY <1>1, <2>1 DEF ClosingIInv, LooksBeforeFreeze
  <2>2. CASE h = g
    <3>1. generating'[h] = new
      BY <1>1, <2>2
    <3>2. CASE generating[g].step # "idle" /\ new.month = generating[g].month /\ new.freezes = generating[g].freezes
      BY <3>1, <3>2 DEF ClosingIInv, LooksBeforeFreeze
    <3>3. CASE new.month \in Month /\ new.freezes = freezes[new.month] /\ ~Frozen(new.month)
      BY <1>4, <3>1, <3>3
    <3>. QED  BY <2>2, <3>1, <3>2, <3>3
  <2>. QED  BY <2>1, <2>2
<1>. QED  BY <1>2, <1>5

\* A closing that is written unfrozen, and requests that go on as they were.
LEMMA UnfrozenStep ==
    ASSUME ClosingIInv, NEW m \in Month, NEW new,
           new \in [status : {"PENDING"}, terms : Contract \cup {None},
                    pages : Pages, amount : {new.amount}, exact : BOOLEAN],
           closings' = [closings EXCEPT ![m] = new], UNCHANGED freezes,
           \/ UNCHANGED generating
           \/ \E g \in Generators : generating' = [generating EXCEPT ![g] = NoGenerate]
    PROVE  ClosingTypes' /\ LooksBeforeFreeze'
<1>1. closings' = [n \in Month |-> IF n = m THEN new ELSE closings[n]]
  BY DEF ClosingIInv, ClosingTypes
<1>2. new.status = "PENDING"
  OBVIOUS
<1>3. \A n \in Month : Frozen(n)' => Frozen(n)
  BY <1>1, <1>2 DEF Frozen
<1>4. NoGenerate \in Generate /\ NoGenerate.step = "idle"
  BY DEF NoGenerate, Generate, NoPages, Pages
<1>5. /\ generating' \in [Generators -> Generate]
      /\ \A h \in Generators : generating'[h] = generating[h] \/ generating'[h] = NoGenerate
  BY <1>4 DEF ClosingIInv, ClosingTypes
<1>6. \A n \in Month : closings'[n] # None =>
            closings'[n] \in [status : {"PENDING", "FROZEN"}, terms : Contract \cup {None},
                             pages : Pages, amount : {closings'[n].amount}, exact : BOOLEAN]
  <2>. SUFFICES ASSUME NEW n \in Month, closings'[n] # None
                PROVE  closings'[n] \in [status : {"PENDING", "FROZEN"}, terms : Contract \cup {None},
                             pages : Pages, amount : {closings'[n].amount}, exact : BOOLEAN]
    OBVIOUS
  <2>1. CASE n = m
    BY <1>1, <2>1
  <2>2. CASE n # m
    BY <1>1, <2>2 DEF ClosingIInv, ClosingTypes
  <2>. QED  BY <2>1, <2>2
<1>7. closings' = [n \in Month |-> closings'[n]]
  BY <1>1
<1>8. ClosingTypes'
  BY <1>5, <1>6, <1>7 DEF ClosingIInv, ClosingTypes
<1>9. LooksBeforeFreeze'
  BY <1>3, <1>4, <1>5 DEF ClosingIInv, LooksBeforeFreeze
<1>. QED  BY <1>8, <1>9

LEMMA FreezeStep ==
    ASSUME ClosingIInv, NEW m \in Month, Freeze(m)
    PROVE  ClosingTypes' /\ LooksBeforeFreeze'
<1>. DEFINE new == [closings[m] EXCEPT !.status = "FROZEN"]
<1>1. /\ closings[m] # None /\ ~Frozen(m)
      /\ closings' = [closings EXCEPT ![m] = new]
      /\ freezes' = [freezes EXCEPT ![m] = freezes[m] + 1] /\ UNCHANGED generating
  BY DEF Freeze
<1>2. new \in [status : {"PENDING", "FROZEN"}, terms : Contract \cup {None},
               pages : Pages, amount : {new.amount}, exact : BOOLEAN]
  BY <1>1 DEF ClosingIInv, ClosingTypes
<1>. HIDE DEF new
<1>3. closings' = [n \in Month |-> IF n = m THEN new ELSE closings[n]]
  BY <1>1 DEF ClosingIInv, ClosingTypes
<1>4. /\ freezes' \in [Month -> Nat]
      /\ \A n \in Month : freezes'[n] = IF n = m THEN freezes[n] + 1 ELSE freezes[n]
      /\ \A n \in Month : freezes[n] \in Nat
  BY <1>1 DEF ClosingIInv, ClosingTypes
<1>5. \A n \in Month : closings'[n] # None =>
            closings'[n] \in [status : {"PENDING", "FROZEN"}, terms : Contract \cup {None},
                             pages : Pages, amount : {closings'[n].amount}, exact : BOOLEAN]
  <2>. SUFFICES ASSUME NEW n \in Month, closings'[n] # None
                PROVE  closings'[n] \in [status : {"PENDING", "FROZEN"}, terms : Contract \cup {None},
                             pages : Pages, amount : {closings'[n].amount}, exact : BOOLEAN]
    OBVIOUS
  <2>1. CASE n = m
    BY <1>2, <1>3, <2>1
  <2>2. CASE n # m
    BY <1>3, <2>2 DEF ClosingIInv, ClosingTypes
  <2>. QED  BY <2>1, <2>2
<1>6. ClosingTypes'
  BY <1>1, <1>3, <1>4, <1>5 DEF ClosingIInv, ClosingTypes
<1>7. \A n \in Month : n # m => (Frozen(n)' <=> Frozen(n))
  BY <1>3 DEF Frozen
<1>8. ASSUME NEW h \in Generators, NEW n \in Month, NEW f \in Nat,
             f <= freezes[n], Frozen(n) => f # freezes[n]
      PROVE  f <= freezes'[n] /\ (Frozen(n)' => f # freezes'[n])
  BY <1>4, <1>7, <1>8
<1>9. \A h \in Generators : generating[h].freezes \in Nat
  BY DEF ClosingIInv, ClosingTypes, Generate
<1>10. LooksBeforeFreeze'
  BY <1>1, <1>8, <1>9 DEF ClosingIInv, LooksBeforeFreeze
<1>. QED  BY <1>6, <1>10

\* What is read of a printer's pages is a number of pages or nothing.
LEMMA LeastReading ==
    ASSUME NEW W, W # {}, W \subseteq Reading
    PROVE  /\ \E r \in W : \A q \in W : r.at <= q.at
           /\ \E r \in W : \A q \in W : q.at <= r.at
<1>1. MonthStart[1] \in Int /\ MonthStart[Months + 1] \in Int
  <2>1. 1 \in 1..(Months + 1) /\ Months + 1 \in 1..(Months + 1)
    BY ClosingsAssumption
  <2>. QED  BY <2>1, ClosingsAssumption
<1>2. \A r \in W : r.at \in Int /\ r.at - MonthStart[1] \in Nat /\ MonthStart[Months + 1] - r.at \in Nat
  BY <1>1 DEF Reading, Time
<1>. DEFINE Up == {r.at - MonthStart[1] : r \in W}
            Down == {MonthStart[Months + 1] - r.at : r \in W}
<1>3. Up \subseteq Nat /\ Up # {} /\ Down \subseteq Nat /\ Down # {}
  BY <1>2
<1>4. PICK u \in Up : \A k \in Up : ~ (<<k, u>> \in OpToRel(<, Nat))
  <2>. HIDE DEF Up
  <2>. QED  BY <1>3, NatLessThanWellFounded, WFMin
<1>5. PICK d \in Down : \A k \in Down : ~ (<<k, d>> \in OpToRel(<, Nat))
  <2>. HIDE DEF Down
  <2>. QED  BY <1>3, NatLessThanWellFounded, WFMin
<1>6. (\A k \in Up : ~(k < u)) /\ (\A k \in Down : ~(k < d))
  BY <1>3, <1>4, <1>5 DEF OpToRel
<1>7. PICK r \in W : u = r.at - MonthStart[1]
  OBVIOUS
<1>8. ASSUME NEW q \in W PROVE r.at <= q.at
  <2>1. q.at - MonthStart[1] \in Up
    OBVIOUS
  <2>2. ~(q.at - MonthStart[1] < u)
    BY <1>6, <2>1
  <2>3. r.at \in Int /\ q.at \in Int /\ MonthStart[1] \in Int
    BY <1>1, <1>2
  <2>. QED  BY <1>7, <2>2, <2>3
<1>9. PICK s \in W : d = MonthStart[Months + 1] - s.at
  OBVIOUS
<1>10. ASSUME NEW q \in W PROVE q.at <= s.at
  <2>1. MonthStart[Months + 1] - q.at \in Down
    OBVIOUS
  <2>2. ~(MonthStart[Months + 1] - q.at < d)
    BY <1>6, <2>1
  <2>3. s.at \in Int /\ q.at \in Int /\ MonthStart[Months + 1] \in Int
    BY <1>1, <1>2
  <2>. QED  BY <1>9, <2>2, <2>3
<1>. QED  BY <1>8, <1>10

LEMMA UsageType ==
    ASSUME NEW rs, rs \subseteq Reading, NEW from, NEW to
    PROVE  UsageBetween(rs, from, to) \in Nat \cup {None}
<1>. DEFINE W == Within(rs, from, to)
<1>1. CASE Cardinality(W) < 2
  BY <1>1 DEF UsageBetween
<1>2. CASE ~(Cardinality(W) < 2)
  <2>1. W # {}
    BY <1>2, FS_EmptySet
  <2>2. W \subseteq Reading
    BY DEF Within
  <2>. HIDE DEF W
  <2>3. (\E r \in W : \A q \in W : r.at <= q.at) /\ (\E r \in W : \A q \in W : q.at <= r.at)
    BY <2>1, <2>2, LeastReading
  <2>4. Earliest(W) \in W /\ Latest(W) \in W
    BY <2>3 DEF Earliest, Latest
  <2>5. Earliest(W).total \in Nat /\ Latest(W).total \in Nat
    BY <2>2, <2>4 DEF Reading
  <2>. USE DEF W
  <2>6. UsageBetween(rs, from, to) = IF Latest(W).total < Earliest(W).total THEN Latest(W).total
                                     ELSE Latest(W).total - Earliest(W).total
    BY <1>2 DEF UsageBetween
  <2>. HIDE DEF W
  <2>. QED  BY <2>5, <2>6
<1>. QED  BY <1>1, <1>2

LEMMA ReadReadingsStep ==
    ASSUME ClosingIInv, NEW g \in Generators, NEW p \in Printers, ReadReadings(g, p)
    PROVE  ClosingTypes' /\ LooksBeforeFreeze'
<1>. DEFINE gen == generating[g]
            rs == Within(readings[p], From(gen.month), To(gen.month))
            n == UsageBetween(readings[p], From(gen.month), To(gen.month))
            ok == gen.exact /\ \A r \in rs : ~r.late
            new == [gen EXCEPT !.left = gen.left \ {p}, !.pages = [gen.pages EXCEPT ![p] = n], !.exact = ok]
<1>1. gen \in Generate /\ gen.step = "readings"
  BY DEF ReadReadings, ClosingIInv, ClosingTypes
<1>2. n \in Nat \cup {None}
  <2>1. readings[p] \subseteq Reading
    BY DEF ClosingIInv, PrinterTypes
  <2>. QED  BY <2>1, UsageType
<1>3. ok \in BOOLEAN
  BY <1>1 DEF Generate
<1>4. generating' = [generating EXCEPT ![g] = new]
  BY DEF ReadReadings
<1>. HIDE DEF n, ok
<1>5. new \in Generate /\ new.month = gen.month /\ new.freezes = gen.freezes
  BY <1>1, <1>2, <1>3 DEF Generate, Pages
<1>6. UNCHANGED <<closings, freezes>>
  BY DEF ReadReadings
<1>. HIDE DEF new
<1>. QED  BY <1>1, <1>4, <1>5, <1>6, RequestStep

LEMMA NextClosing == ClosingIInv /\ [Next]_vars => ClosingTypes' /\ LooksBeforeFreeze'
<1>. SUFFICES ASSUME ClosingIInv, [Next]_vars PROVE ClosingTypes' /\ LooksBeforeFreeze'
  OBVIOUS
<1>1. ASSUME UNCHANGED closingVars PROVE ClosingTypes' /\ LooksBeforeFreeze'
  BY <1>1 DEF ClosingIInv, closingVars, ClosingTypes, LooksBeforeFreeze, Frozen
<1>2. CASE UNCHANGED vars
  BY <1>1, <1>2 DEF vars
<1>3. CASE Tick
  BY <1>1, <1>3 DEF Tick
<1>4. ASSUME NEW p \in Printers,
             PrintPage(p) \/ ResetCounter(p) \/ Collect(p) \/ Delay(p) \/ CollectDelayed(p)
      PROVE  ClosingTypes' /\ LooksBeforeFreeze'
  BY <1>1, <1>4 DEF PrintPage, ResetCounter, Collect, Delay, CollectDelayed, Record
<1>5. ASSUME NEW c, Edit(c) PROVE ClosingTypes' /\ LooksBeforeFreeze'
  BY <1>1, <1>5 DEF Edit
<1>6. CASE SetFee
  BY <1>1, <1>6 DEF SetFee
<1>7. ASSUME NEW id \in Readjustments, CreateReadjustment(id) PROVE ClosingTypes' /\ LooksBeforeFreeze'
  BY <1>1, <1>7 DEF CreateReadjustment
<1>8. ASSUME NEW a \in Appliers, NEW id \in Readjustments, NEW now_ \in BOOLEAN, StartApply(a, id, now_)
      PROVE  ClosingTypes' /\ LooksBeforeFreeze'
  BY <1>1, <1>8 DEF StartApply
<1>9. ASSUME NEW a \in Appliers, WriteFee(a) \/ MarkApplied(a) \/ ApplyFails(a)
      PROVE  ClosingTypes' /\ LooksBeforeFreeze'
  BY <1>1, <1>9 DEF WriteFee, MarkApplied, ApplyFails
<1>10. ASSUME NEW g \in Generators, NEW m \in Month, StartGenerate(g, m)
       PROVE  ClosingTypes' /\ LooksBeforeFreeze'
  <2>. DEFINE new == [NoGenerate EXCEPT !.step = "contract", !.month = m, !.freezes = freezes[m]]
  <2>1. freezes[m] \in Nat
    BY DEF ClosingIInv, ClosingTypes
  <2>2. new \in Generate /\ new.month = m /\ new.freezes = freezes[m]
    BY <2>1 DEF NoGenerate, Generate, NoPages, Pages
  <2>3. generating' = [generating EXCEPT ![g] = new] /\ ~Frozen(m) /\ UNCHANGED <<closings, freezes>>
    BY <1>10 DEF StartGenerate, MayGenerate
  <2>. HIDE DEF new
  <2>. QED  BY <2>2, <2>3, RequestStep
<1>11. ASSUME NEW g \in Generators, ReadContract(g) PROVE ClosingTypes' /\ LooksBeforeFreeze'
  <2>. DEFINE new == IF contract.active
                     THEN [generating[g] EXCEPT !.step = "readings", !.terms = contract, !.left = contract.printers]
                     ELSE [generating[g] EXCEPT !.step = "write"]
  <2>1. generating[g] \in Generate /\ contract \in Contract
    BY DEF ClosingIInv, ClosingTypes, FeeTypes
  <2>2. new \in Generate /\ new.month = generating[g].month /\ new.freezes = generating[g].freezes
    BY <2>1 DEF Generate, Contract
  <2>3. generating' = [generating EXCEPT ![g] = new] /\ generating[g].step # "idle" /\ UNCHANGED <<closings, freezes>>
    BY <1>11 DEF ReadContract
  <2>. HIDE DEF new
  <2>. QED  BY <2>2, <2>3, RequestStep
<1>12. ASSUME NEW g \in Generators, NEW p \in Printers, ReadReadings(g, p)
       PROVE  ClosingTypes' /\ LooksBeforeFreeze'
  BY <1>12, ReadReadingsStep
<1>13. ASSUME NEW g \in Generators, ReadingsDone(g) PROVE ClosingTypes' /\ LooksBeforeFreeze'
  <2>. DEFINE new == [generating[g] EXCEPT !.step = "write"]
  <2>1. generating[g] \in Generate
    BY DEF ClosingIInv, ClosingTypes
  <2>2. new \in Generate /\ new.month = generating[g].month /\ new.freezes = generating[g].freezes
    BY <2>1 DEF Generate
  <2>3. generating' = [generating EXCEPT ![g] = new] /\ generating[g].step # "idle" /\ UNCHANGED <<closings, freezes>>
    BY <1>13 DEF ReadingsDone
  <2>. HIDE DEF new
  <2>. QED  BY <2>2, <2>3, RequestStep
<1>14. ASSUME NEW g \in Generators, WriteClosing(g) PROVE ClosingTypes' /\ LooksBeforeFreeze'
  <2>. DEFINE gen == generating[g]
              amount == ComputeContractPageCost(gen.terms, gen.pages)
              new == [status |-> "PENDING", terms |-> gen.terms, pages |-> gen.pages,
                      amount |-> amount, exact |-> gen.exact]
  <2>1. gen \in Generate /\ gen.step = "write" /\ gen.month \in Month
    BY <1>14 DEF WriteClosing, ClosingIInv, ClosingTypes, LooksBeforeFreeze
  <2>2. /\ closings' = [closings EXCEPT ![gen.month] = new]
        /\ generating' = [generating EXCEPT ![g] = NoGenerate] /\ UNCHANGED freezes
    BY <1>14 DEF WriteClosing
  <2>. HIDE DEF amount
  <2>3. new \in [status : {"PENDING"}, terms : Contract \cup {None},
                 pages : Pages, amount : {new.amount}, exact : BOOLEAN]
    BY <2>1 DEF Generate
  <2>. HIDE DEF new, gen
  <2>. QED  BY <2>1, <2>2, <2>3, UnfrozenStep
<1>15. ASSUME NEW m \in Month, Unfreeze(m) PROVE ClosingTypes' /\ LooksBeforeFreeze'
  <2>. DEFINE new == [closings[m] EXCEPT !.status = "PENDING"]
  <2>1. new \in [status : {"PENDING"}, terms : Contract \cup {None},
                 pages : Pages, amount : {new.amount}, exact : BOOLEAN]
    BY <1>15 DEF Unfreeze, ClosingIInv, ClosingTypes
  <2>2. closings' = [closings EXCEPT ![m] = new] /\ UNCHANGED <<generating, freezes>>
    BY <1>15 DEF Unfreeze
  <2>. HIDE DEF new
  <2>. QED  BY <2>1, <2>2, UnfrozenStep
<1>16. ASSUME NEW m \in Month, Freeze(m) PROVE ClosingTypes' /\ LooksBeforeFreeze'
  BY <1>16, FreezeStep
<1>. QED
  BY <1>2, <1>3, <1>4, <1>5, <1>6, <1>7, <1>8, <1>9, <1>10, <1>11, <1>12, <1>13, <1>14, <1>15, <1>16
  DEF Next, AddPrinter, RemovePrinter, SetStatus, SetFranchise, AddPricingTier, RemovePricingTier

LEMMA StepKeepsFrozen == ClosingIInv /\ [Next]_vars => [\A m \in Month : FrozenKept(m)]_vars
<1>. SUFFICES ASSUME ClosingIInv, Next, NEW m \in Month, Frozen(m) PROVE FrozenKept(m)
  BY DEF FrozenKept
<1>1. ASSUME UNCHANGED closings PROVE FrozenKept(m)
  BY <1>1 DEF FrozenKept
<1>2. closings = [n \in Month |-> closings[n]]
  BY DEF ClosingIInv, ClosingTypes
<1>3. ASSUME NEW n \in Month, Freeze(n) PROVE FrozenKept(m)
  <2>1. n # m
    BY <1>3 DEF Freeze
  <2>. QED  BY <1>2, <1>3, <2>1 DEF Freeze, FrozenKept
<1>4. ASSUME NEW n \in Month, Unfreeze(n) PROVE FrozenKept(m)
  BY <1>2, <1>4 DEF Unfreeze, FrozenKept
<1>5. ASSUME NEW g \in Generators, WriteClosing(g) PROVE FrozenKept(m)
  <2>1. generating[g].step = "write"
    BY <1>5 DEF WriteClosing
  <2>2. CASE generating[g].month = m
    <3>1. generating[g].freezes <= freezes[m] /\ generating[g].freezes # freezes[m]
      BY <2>1, <2>2 DEF ClosingIInv, LooksBeforeFreeze
    <3>2. generating[g].freezes \in Nat /\ freezes[m] \in Nat
      BY DEF ClosingIInv, ClosingTypes, Generate
    <3>. QED  BY <2>1, <2>2, <3>1, <3>2 DEF FrozenKept, Overtaken
  <2>3. CASE generating[g].month # m
    BY <1>2, <1>5, <2>3 DEF WriteClosing, FrozenKept
  <2>. QED  BY <2>2, <2>3
<1>6. \/ UNCHANGED closings
      \/ \E n \in Month : Freeze(n) \/ Unfreeze(n)
      \/ \E g \in Generators : WriteClosing(g)
  BY DEF Next, AddPrinter, RemovePrinter, SetStatus, SetFranchise, AddPricingTier, RemovePricingTier,
     Tick, PrintPage, ResetCounter, Collect, Delay, CollectDelayed, Record, Edit, SetFee, closingVars,
     CreateReadjustment, StartApply, WriteFee, MarkApplied, ApplyFails, StartGenerate, ReadContract,
     ReadingsDone, ReadReadings
<1>. QED  BY <1>1, <1>3, <1>4, <1>5, <1>6

\* The figures of a frozen closing change only through a request that looked
\* before it was frozen.
THEOREM FrozenClosingsKept == Spec => FrozenIsKept
<1>1. Init => ClosingIInv
  BY InitPrinter, InitFee, InitClosing DEF ClosingIInv, FeeIInv
<1>2. FeeIInv /\ ClosingIInv /\ [Next]_vars => FeeIInv' /\ ClosingIInv'
  BY NextPrinter, NextFee, NextClosing DEF ClosingIInv, FeeIInv
<1>. QED  BY <1>1, <1>2, InitFee, StepKeepsFrozen, PTL DEF Spec, FrozenIsKept

-----------------------------------------------------------------------------
(* No more pages than were printed.                                        *)

\* What calculatePeriodUsage makes of two readings.
Usage(first, last) == IF last < first THEN last ELSE last - first

\* Readings are of the past, and no two of one printer are of one instant.
ReadingsInOrder(p) ==
    /\ \A r \in readings[p] : r.at <= now
    /\ \A r, q \in readings[p] : r.at = q.at => r = q

\* h: the pages printer p had printed by each tick, as far as readings that
\* were not late tell.
History(p, h) ==
    /\ h \in [Time -> Nat]
    /\ \A t, u \in Time : t <= u => h[t] <= h[u]
    /\ \A t \in Time : h[t] <= printed[p]

\* Between two readings in time, and from one of them to now, the counter
\* shows no more than was printed.
ReadingsTell(p, h) ==
    /\ \A r \in readings[p] : ~r.late => Usage(r.total, counter[p]) <= printed[p] - h[r.at]
    /\ \A r, q \in readings[p] :
          ~r.late /\ ~q.late /\ r.at < q.at => Usage(r.total, q.total) <= h[q.at] - h[r.at]

\* The pages of a month that has begun are no more than were printed from
\* its first tick to its last; so are those of closings and of requests.
PagesBounded(n, m, h) ==
    n # None => m \in Month /\ From(m) < now /\ n <= h[To(m)] - h[From(m)]

ClosingsBounded(p, h) ==
    \A m \in Month : closings[m] # None /\ closings[m].exact => PagesBounded(closings[m].pages[p], m, h)
RequestsBounded(p, h) ==
    \A g \in Generators : generating[g].exact => PagesBounded(generating[g].pages[p], generating[g].month, h)

Traced(p, h) ==
    History(p, h) /\ ReadingsTell(p, h) /\ ClosingsBounded(p, h) /\ RequestsBounded(p, h)

PagesIInv == \A p \in Printers : ReadingsInOrder(p) /\ \E h : Traced(p, h)

LEMMA InitPages == Init => PagesIInv
<1>. SUFFICES ASSUME Init, NEW p \in Printers PROVE ReadingsInOrder(p) /\ \E h : Traced(p, h)
  BY DEF PagesIInv
<1>1. /\ readings[p] = {} /\ printed[p] = 0
      /\ \A m \in Month : closings[m] = None
      /\ \A g \in Generators : generating[g].pages[p] = None
  BY DEF Init, NoGenerate, NoPages
<1>. DEFINE h == [t \in Time |-> 0]
<1>2. History(p, h)
  BY <1>1 DEF History
<1>3. Traced(p, h)
  BY <1>1, <1>2 DEF Traced, ReadingsTell, ClosingsBounded, RequestsBounded, PagesBounded
<1>. QED  BY <1>1, <1>3 DEF ReadingsInOrder

\* A step of a request, or of a user on a closing.
LEMMA ClosingPages ==
    ASSUME PagesIInv, UNCHANGED printerVars,
           \A p \in Printers : \A h : Traced(p, h) => ClosingsBounded(p, h)' /\ RequestsBounded(p, h)'
    PROVE  PagesIInv'
<1>. SUFFICES ASSUME NEW p \in Printers PROVE ReadingsInOrder(p)' /\ (\E h : Traced(p, h))'
  BY DEF PagesIInv
<1>1. PICK h : Traced(p, h)
  BY DEF PagesIInv
<1>2. History(p, h)' /\ ReadingsTell(p, h)'
  BY <1>1 DEF Traced, History, ReadingsTell, printerVars
<1>3. Traced(p, h)'
  BY <1>1, <1>2 DEF Traced
<1>4. ReadingsInOrder(p)'
  BY DEF PagesIInv, ReadingsInOrder, printerVars
<1>. QED  BY <1>3, <1>4

\* A request that keeps what it has read, or begins with nothing.
LEMMA RequestPages ==
    ASSUME ClosingIInv, PagesIInv, UNCHANGED <<printerVars, closings>>, NEW g \in Generators, NEW new,
           generating' = [generating EXCEPT ![g] = new],
           \/ new.pages = NoPages
           \/ /\ new.pages = generating[g].pages /\ new.month = generating[g].month
              /\ new.exact = generating[g].exact
    PROVE  PagesIInv'
<1>1. \A i \in Generators : generating'[i] = IF i = g THEN new ELSE generating[i]
  BY DEF ClosingIInv, ClosingTypes
<1>2. ASSUME NEW p \in Printers, NEW h, Traced(p, h) PROVE ClosingsBounded(p, h)' /\ RequestsBounded(p, h)'
  <2>1. ClosingsBounded(p, h)'
    BY <1>2 DEF Traced, ClosingsBounded, PagesBounded, printerVars
  <2>2. \A i \in Generators : generating[i].exact =>
            PagesBounded(generating[i].pages[p], generating[i].month, h)
    BY <1>2 DEF Traced, RequestsBounded
  <2>3. now' = now
    BY DEF printerVars
  <2>4. \A i \in Generators : generating'[i].exact =>
            PagesBounded(generating'[i].pages[p], generating'[i].month, h)
    BY <1>1, <2>2 DEF PagesBounded, NoPages
  <2>. QED  BY <2>1, <2>3, <2>4 DEF RequestsBounded, PagesBounded
<1>. QED  BY <1>2, ClosingPages DEF printerVars

\* A closing is written with what a request read, or keeps its figures.
LEMMA WrittenPages ==
    ASSUME ClosingIInv, PagesIInv, UNCHANGED printerVars, NEW m \in Month, NEW new,
           closings' = [closings EXCEPT ![m] = new],
           \/ /\ UNCHANGED generating /\ closings[m] # None
              /\ new.pages = closings[m].pages /\ new.exact = closings[m].exact
           \/ \E g \in Generators :
                 /\ generating' = [generating EXCEPT ![g] = NoGenerate]
                 /\ new.pages = generating[g].pages /\ m = generating[g].month
                 /\ new.exact = generating[g].exact
    PROVE  PagesIInv'
<1>1. \A n \in Month : closings'[n] = IF n = m THEN new ELSE closings[n]
  BY DEF ClosingIInv, ClosingTypes
<1>2. \A i \in Generators : generating'[i] = generating[i] \/ generating'[i].pages = NoPages
  BY DEF ClosingIInv, ClosingTypes, NoGenerate
<1>3. ASSUME NEW p \in Printers, NEW h, Traced(p, h) PROVE ClosingsBounded(p, h)' /\ RequestsBounded(p, h)'
  <2>1. now' = now
    BY DEF printerVars
  <2>2. \A i \in Generators : generating[i].exact =>
            PagesBounded(generating[i].pages[p], generating[i].month, h)
    BY <1>3 DEF Traced, RequestsBounded
  <2>3. \A n \in Month : closings[n] # None /\ closings[n].exact => PagesBounded(closings[n].pages[p], n, h)
    BY <1>3 DEF Traced, ClosingsBounded
  <2>4. \A i \in Generators : generating'[i].exact =>
            PagesBounded(generating'[i].pages[p], generating'[i].month, h)
    BY <1>2, <2>2 DEF PagesBounded, NoPages
  <2>5. new.exact => PagesBounded(new.pages[p], m, h)
    BY <2>2, <2>3
  <2>6. \A n \in Month : closings'[n] # None /\ closings'[n].exact => PagesBounded(closings'[n].pages[p], n, h)
    BY <1>1, <2>3, <2>5
  <2>. QED  BY <2>1, <2>4, <2>6 DEF RequestsBounded, ClosingsBounded, PagesBounded
<1>. QED  BY <1>3, ClosingPages

LEMMA UsageTraced ==
    ASSUME ClosingIInv, NEW p \in Printers, ReadingsInOrder(p), NEW h, Traced(p, h), NEW m \in Month,
           \A r \in Within(readings[p], From(m), To(m)) : ~r.late
    PROVE  PagesBounded(UsageBetween(readings[p], From(m), To(m)), m, h)
<1>. DEFINE W == Within(readings[p], From(m), To(m))
            n == UsageBetween(readings[p], From(m), To(m))
<1>. SUFFICES ASSUME n # None PROVE From(m) < now /\ n <= h[To(m)] - h[From(m)]
  BY DEF PagesBounded
<1>1. ~(Cardinality(W) < 2)
  BY DEF UsageBetween
<1>2. W # {}
  BY <1>1, FS_EmptySet
<1>3. W \subseteq readings[p] /\ readings[p] \subseteq Reading
      /\ \A r \in W : From(m) <= r.at /\ r.at <= To(m) /\ ~r.late
  BY DEF Within, ClosingIInv, PrinterTypes
<1>. HIDE DEF W
<1>4. (\E r \in W : \A q \in W : r.at <= q.at) /\ (\E r \in W : \A q \in W : q.at <= r.at)
  BY <1>2, <1>3, LeastReading
<1>. DEFINE first == Earliest(W)
            last == Latest(W)
<1>5. /\ first \in W /\ (\A q \in W : first.at <= q.at)
      /\ last \in W /\ (\A q \in W : q.at <= last.at)
  BY <1>4 DEF Earliest, Latest
<1>6. n = Usage(first.total, last.total)
  BY <1>1 DEF UsageBetween, Usage, W
<1>. HIDE DEF first, last, n
<1>7. /\ first.at \in Time /\ last.at \in Time /\ first.at \in Int /\ last.at \in Int
      /\ From(m) \in Time /\ To(m) \in Time /\ From(m) \in Int /\ To(m) \in Int
  BY <1>3, <1>5, MonthTimes DEF Reading
<1>8. first.at < last.at
  <2>. SUFFICES ASSUME ~(first.at < last.at) PROVE FALSE
    OBVIOUS
  <2>1. \A r \in W : r.at = first.at
    <3>1. \A r \in W : r.at \in Int
      BY <1>3, MonthTimes DEF Reading
    <3>. QED  BY <1>5, <1>7, <3>1
  <2>2. \A r \in W : r = first
    BY <1>3, <1>5, <2>1 DEF ReadingsInOrder
  <2>3. W = {first}
    BY <1>5, <2>2
  <2>4. Cardinality(W) = 1
    BY <2>3, FS_Singleton, Zenon
  <2>. QED  BY <1>1, <2>4
<1>9. n <= h[last.at] - h[first.at]
  BY <1>3, <1>5, <1>6, <1>8 DEF Traced, ReadingsTell
<1>10. h \in [Time -> Nat] /\ \A t, u \in Time : t <= u => h[t] <= h[u]
  BY DEF Traced, History
<1>11. h[last.at] <= h[To(m)] /\ h[From(m)] <= h[first.at]
  BY <1>3, <1>5, <1>7, <1>10
<1>12. From(m) < now
  <2>1. last.at <= now /\ now \in Int
    BY <1>3, <1>5, MonthTimes DEF ReadingsInOrder, ClosingIInv, PrinterTypes
  <2>. QED  BY <1>3, <1>5, <1>7, <1>8, <2>1
<1>13. n \in Int
  <2>1. n \in Nat \cup {None}
    BY <1>3, UsageType DEF n
  <2>. QED  BY <2>1
<1>14. h[last.at] \in Int /\ h[first.at] \in Int /\ h[To(m)] \in Int /\ h[From(m)] \in Int
  BY <1>7, <1>10
<1>. QED  BY <1>9, <1>11, <1>12, <1>13, <1>14

LEMMA ReadReadingsPages ==
    ASSUME ClosingIInv, PagesIInv, NEW g \in Generators, NEW q \in Printers, ReadReadings(g, q)
    PROVE  PagesIInv'
<1>. DEFINE gen == generating[g]
            rs == Within(readings[q], From(gen.month), To(gen.month))
            n == UsageBetween(readings[q], From(gen.month), To(gen.month))
            ok == gen.exact /\ \A r \in rs : ~r.late
            new == [gen EXCEPT !.left = gen.left \ {q}, !.pages = [gen.pages EXCEPT ![q] = n], !.exact = ok]
<1>1. gen \in Generate /\ gen.step = "readings" /\ gen.month \in Month
  BY DEF ReadReadings, ClosingIInv, ClosingTypes, LooksBeforeFreeze
<1>2. generating' = [generating EXCEPT ![g] = new] /\ UNCHANGED <<printerVars, closings>>
  BY DEF ReadReadings
<1>3. ok => gen.exact /\ \A r \in rs : ~r.late
  OBVIOUS
<1>. HIDE DEF n, ok
<1>4. /\ new.month = gen.month /\ new.exact = ok
      /\ \A p \in Printers : new.pages[p] = IF p = q THEN n ELSE gen.pages[p]
  BY <1>1 DEF Generate, Pages
<1>. HIDE DEF new
<1>5. \A i \in Generators : generating'[i] = IF i = g THEN new ELSE generating[i]
  BY <1>2 DEF ClosingIInv, ClosingTypes
<1>6. ASSUME NEW p \in Printers, NEW h, Traced(p, h) PROVE ClosingsBounded(p, h)' /\ RequestsBounded(p, h)'
  <2>1. now' = now
    BY <1>2 DEF printerVars
  <2>2. ClosingsBounded(p, h)'
    BY <1>2, <1>6, <2>1 DEF Traced, ClosingsBounded, PagesBounded
  <2>3. \A i \in Generators : generating[i].exact =>
            PagesBounded(generating[i].pages[p], generating[i].month, h)
    BY <1>6 DEF Traced, RequestsBounded
  <2>4. new.exact => PagesBounded(new.pages[p], new.month, h)
    <3>1. CASE p = q
      <4>1. ReadingsInOrder(p)
        BY DEF PagesIInv
      <4>2. ok => PagesBounded(n, gen.month, h)
        BY <1>1, <1>3, <1>6, <3>1, <4>1, UsageTraced DEF n
      <4>. QED  BY <1>4, <3>1, <4>2
    <3>2. CASE p # q
      BY <1>3, <1>4, <2>3, <3>2
    <3>. QED  BY <3>1, <3>2
  <2>5. \A i \in Generators : generating'[i].exact =>
            PagesBounded(generating'[i].pages[p], generating'[i].month, h)
    BY <1>5, <2>3, <2>4
  <2>. QED  BY <2>1, <2>2, <2>5 DEF RequestsBounded, PagesBounded
<1>. QED  BY <1>2, <1>6, ClosingPages DEF printerVars

-----------------------------------------------------------------------------
(* The printers' steps.                                                    *)

LEMMA TickPages == ASSUME ClosingIInv, PagesIInv, Tick PROVE PagesIInv'
<1>. SUFFICES ASSUME NEW p \in Printers PROVE ReadingsInOrder(p)' /\ (\E h : Traced(p, h))'
  BY DEF PagesIInv
<1>1. now' = now + 1 /\ now \in Int /\ UNCHANGED <<printed, counter, readings, closings, generating>>
  BY MonthTimes DEF Tick, closingVars, ClosingIInv, PrinterTypes
<1>2. PICK h : Traced(p, h)
  BY DEF PagesIInv
<1>3. History(p, h)' /\ ReadingsTell(p, h)'
  BY <1>1, <1>2 DEF Traced, History, ReadingsTell
<1>4. ASSUME NEW n, NEW m, PagesBounded(n, m, h)
      PROVE  n # None => m \in Month /\ From(m) < now + 1 /\ n <= h[To(m)] - h[From(m)]
  <2>. SUFFICES ASSUME n # None PROVE m \in Month /\ From(m) < now + 1 /\ n <= h[To(m)] - h[From(m)]
    OBVIOUS
  <2>1. m \in Month /\ From(m) < now /\ n <= h[To(m)] - h[From(m)]
    BY <1>4 DEF PagesBounded
  <2>2. From(m) \in Int
    BY <2>1, MonthTimes
  <2>. QED  BY <1>1, <2>1, <2>2
<1>5. ClosingsBounded(p, h)'
  <2>1. \A m \in Month : closings[m] # None /\ closings[m].exact => PagesBounded(closings[m].pages[p], m, h)
    BY <1>2 DEF Traced, ClosingsBounded
  <2>. QED  BY <1>1, <1>4, <2>1 DEF ClosingsBounded, PagesBounded
<1>6. RequestsBounded(p, h)'
  <2>1. \A g \in Generators : generating[g].exact =>
            PagesBounded(generating[g].pages[p], generating[g].month, h)
    BY <1>2 DEF Traced, RequestsBounded
  <2>. QED  BY <1>1, <1>4, <2>1 DEF RequestsBounded, PagesBounded
<1>7. ReadingsInOrder(p)'
  <2>1. \A r \in readings[p] : r.at \in Int /\ r.at <= now
    <3>1. readings[p] \subseteq Reading /\ \A r \in readings[p] : r.at <= now
      BY DEF PagesIInv, ReadingsInOrder, ClosingIInv, PrinterTypes
    <3>. QED  BY <3>1, MonthTimes DEF Reading
  <2>. QED  BY <1>1, <2>1 DEF PagesIInv, ReadingsInOrder
<1>. QED  BY <1>3, <1>5, <1>6, <1>7 DEF Traced

\* A page printed adds one to what a reading may be followed by, a counter
\* that starts again takes from it.
LEMMA CounterPages ==
    ASSUME ClosingIInv, PagesIInv, UNCHANGED <<now, readings, closings, generating>>,
           NEW q \in Printers,
           \/ /\ printed' = [printed EXCEPT ![q] = @ + 1]
              /\ counter' = [counter EXCEPT ![q] = @ + 1]
           \/ UNCHANGED printed /\ counter' = [counter EXCEPT ![q] = 0]
           \/ UNCHANGED <<printed, counter>>
    PROVE  PagesIInv'
<1>. SUFFICES ASSUME NEW p \in Printers PROVE ReadingsInOrder(p)' /\ (\E h : Traced(p, h))'
  BY DEF PagesIInv
<1>1. PICK h : Traced(p, h)
  BY DEF PagesIInv
<1>2. /\ printed[p] \in Nat /\ counter[p] \in Nat
      /\ \/ printed'[p] = printed[p] + 1 /\ counter'[p] = counter[p] + 1
         \/ printed'[p] = printed[p] /\ counter'[p] = 0
         \/ printed'[p] = printed[p] /\ counter'[p] = counter[p]
  BY DEF ClosingIInv, PrinterTypes
<1>3. h \in [Time -> Nat] /\ \A r \in readings[p] : r.at \in Time /\ r.total \in Nat
  BY <1>1 DEF Traced, History, ClosingIInv, PrinterTypes, Reading
<1>4. History(p, h)'
  <2>1. \A t \in Time : h[t] \in Nat /\ h[t] <= printed[p]
    BY <1>1 DEF Traced, History
  <2>2. \A t \in Time : h[t] <= printed'[p]
    BY <1>2, <2>1
  <2>. QED  BY <1>1, <2>2 DEF Traced, History
<1>5. ReadingsTell(p, h)'
  <2>1. ASSUME NEW r \in readings[p], ~r.late PROVE Usage(r.total, counter'[p]) <= printed'[p] - h[r.at]
    <3>1. Usage(r.total, counter[p]) <= printed[p] - h[r.at]
      BY <1>1, <2>1 DEF Traced, ReadingsTell
    <3>2. h[r.at] \in Nat /\ h[r.at] <= printed[p]
      BY <1>1, <1>3 DEF Traced, History
    <3>. QED  BY <1>2, <1>3, <3>1, <3>2 DEF Usage
  <2>. QED  BY <1>1, <2>1 DEF Traced, ReadingsTell
<1>6. ClosingsBounded(p, h)' /\ RequestsBounded(p, h)'
  BY <1>1 DEF Traced, ClosingsBounded, RequestsBounded, PagesBounded
<1>7. ReadingsInOrder(p)'
  BY DEF PagesIInv, ReadingsInOrder
<1>. QED  BY <1>4, <1>5, <1>6, <1>7 DEF Traced

\* A reading that is not late tells how many pages were printed by now.
LEMMA RecordPages ==
    ASSUME ClosingIInv, PagesIInv, NEW q \in Printers, NEW total \in Nat, NEW late \in BOOLEAN,
           Record(q, total, late), late \/ total = counter[q]
    PROVE  PagesIInv'
<1>. SUFFICES ASSUME NEW p \in Printers PROVE ReadingsInOrder(p)' /\ (\E h : Traced(p, h))'
  BY DEF PagesIInv
<1>. DEFINE new == [at |-> now, total |-> total, late |-> late]
<1>1. /\ \A r \in readings[q] : r.at < now
      /\ readings'[p] = IF p = q THEN readings[p] \cup {new} ELSE readings[p]
      /\ UNCHANGED <<now, printed, counter, closings, generating>>
  BY DEF Record, closingVars, ClosingIInv, PrinterTypes
<1>2. new.at = now /\ new.total = total /\ new.late = late
  OBVIOUS
<1>. HIDE DEF new
<1>3. PICK h : Traced(p, h)
  BY DEF PagesIInv
<1>4. now \in Time /\ Time \subseteq Int /\ printed[p] \in Nat /\ counter[p] \in Nat
      /\ \A r \in readings[p] : r.at \in Time /\ r.total \in Nat
  BY MonthTimes DEF ClosingIInv, PrinterTypes, Reading
<1>5. ReadingsInOrder(p)'
  <2>1. (\A r \in readings[p] : r.at <= now) /\ \A r, s \in readings[p] : r.at = s.at => r = s
    BY DEF PagesIInv, ReadingsInOrder
  <2>2. CASE p # q
    BY <1>1, <2>1, <2>2 DEF ReadingsInOrder
  <2>3. CASE p = q
    <3>1. \A r \in readings'[p] : (r \in readings[p] /\ r.at < now) \/ r = new
      BY <1>1, <2>3
    <3>. QED  BY <1>1, <1>2, <1>4, <2>1, <3>1 DEF ReadingsInOrder
  <2>. QED  BY <2>2, <2>3
<1>6. CASE p # q
  <2>1. Traced(p, h)'
    BY <1>1, <1>3, <1>6 DEF Traced, History, ReadingsTell, ClosingsBounded, RequestsBounded, PagesBounded
  <2>. QED  BY <1>5, <2>1
<1>7. CASE p = q /\ late
  <2>1. \A r \in readings'[p] : ~r.late => r \in readings[p]
    BY <1>1, <1>2, <1>7
  <2>2. ReadingsTell(p, h)'
    BY <1>1, <1>3, <2>1 DEF Traced, ReadingsTell
  <2>3. Traced(p, h)'
    BY <1>1, <1>3, <2>2 DEF Traced, History, ClosingsBounded, RequestsBounded, PagesBounded
  <2>. QED  BY <1>5, <2>3
<1>8. CASE p = q /\ ~late
  <2>0. PICK e : e = [t \in Time |-> IF t < now THEN h[t] ELSE printed[p]]
    OBVIOUS
  <2>1. /\ h \in [Time -> Nat] /\ \A t \in Time : h[t] \in Nat /\ h[t] <= printed[p]
        /\ \A t, u \in Time : t <= u => h[t] <= h[u]
    BY <1>3 DEF Traced, History
  <2>2. /\ e \in [Time -> Nat] /\ \A t \in Time : e[t] = IF t < now THEN h[t] ELSE printed[p]
        /\ \A t \in Time : h[t] <= e[t]
    BY <1>4, <2>0, <2>1
  <2>3. History(p, e)'
    <3>1. \A t \in Time : e[t] <= printed[p]
      BY <1>4, <2>1, <2>2
    <3>2. ASSUME NEW t \in Time, NEW u \in Time, t <= u PROVE e[t] <= e[u]
      <4>1. t \in Int /\ u \in Int /\ now \in Int
        BY <1>4
      <4>2. h[t] <= h[u] /\ h[t] <= printed[p] /\ h[t] \in Nat /\ h[u] \in Nat
        BY <2>1, <3>2
      <4>. QED  BY <1>4, <2>2, <3>2, <4>1, <4>2
    <3>. QED  BY <1>1, <2>2, <3>1, <3>2 DEF History
  <2>4. ReadingsTell(p, e)'
    <3>1. /\ \A r \in readings[p] : ~r.late => Usage(r.total, counter[p]) <= printed[p] - h[r.at]
          /\ \A r, s \in readings[p] :
                ~r.late /\ ~s.late /\ r.at < s.at => Usage(r.total, s.total) <= h[s.at] - h[r.at]
      BY <1>3 DEF Traced, ReadingsTell
    <3>2. \A r \in readings[p] : r.at < now /\ e[r.at] = h[r.at]
      BY <1>1, <1>4, <1>8, <2>2
    <3>3. e[now] = printed[p]
      BY <1>4, <2>2
    <3>4. total = counter[p] /\ Usage(total, total) = 0
      BY <1>8 DEF Usage
    <3>5. \A r \in readings'[p] : r \in readings[p] \/ r = new
      BY <1>1, <1>8
    <3>6. ASSUME NEW r \in readings'[p], ~r.late PROVE Usage(r.total, counter[p]) <= printed[p] - e[r.at]
      BY <1>2, <1>4, <3>1, <3>2, <3>3, <3>4, <3>5, <3>6
    <3>7. ASSUME NEW r \in readings'[p], NEW s \in readings'[p], ~r.late, ~s.late, r.at < s.at
          PROVE  Usage(r.total, s.total) <= e[s.at] - e[r.at]
      <4>1. r \in readings[p]
        <5>. SUFFICES ASSUME r = new PROVE FALSE
          BY <3>5
        <5>1. s.at \in Int /\ s.at <= now /\ now \in Int
          <6>1. \A x \in readings[p] : x.at \in Int /\ x.at < now
            BY <1>4, <3>2
          <6>. QED  BY <1>2, <1>4, <3>5, <6>1
        <5>. QED  BY <1>2, <3>7, <5>1
      <4>2. CASE s \in readings[p]
        BY <3>1, <3>2, <3>7, <4>1, <4>2
      <4>3. CASE s = new
        BY <1>2, <3>1, <3>2, <3>3, <3>4, <3>7, <4>1, <4>3
      <4>. QED  BY <3>5, <4>2, <4>3
    <3>8. UNCHANGED <<counter, printed>>
      BY <1>1
    <3>. QED  BY <3>6, <3>7, <3>8 DEF ReadingsTell
  <2>5. ASSUME NEW n, NEW m, PagesBounded(n, m, h), n \in Nat \cup {None} PROVE PagesBounded(n, m, e)
    <3>. SUFFICES ASSUME n # None PROVE m \in Month /\ From(m) < now /\ n <= e[To(m)] - e[From(m)]
      BY DEF PagesBounded
    <3>1. m \in Month /\ From(m) < now /\ n <= h[To(m)] - h[From(m)] /\ n \in Nat
      BY <2>5 DEF PagesBounded
    <3>2. From(m) \in Time /\ To(m) \in Time
      BY <3>1, MonthTimes
    <3>3. /\ e[From(m)] = h[From(m)] /\ h[To(m)] <= e[To(m)]
          /\ h[From(m)] \in Nat /\ h[To(m)] \in Nat /\ e[To(m)] \in Nat
      BY <2>1, <2>2, <3>1, <3>2
    <3>. QED  BY <3>1, <3>3
  <2>6. ClosingsBounded(p, e)'
    <3>1. \A m \in Month : closings[m] # None /\ closings[m].exact => PagesBounded(closings[m].pages[p], m, h)
      BY <1>3 DEF Traced, ClosingsBounded
    <3>2. \A m \in Month : closings[m] # None => closings[m].pages[p] \in Nat \cup {None}
      BY DEF ClosingIInv, ClosingTypes, Pages
    <3>3. \A m \in Month : closings[m] # None /\ closings[m].exact => PagesBounded(closings[m].pages[p], m, e)
      BY <2>5, <3>1, <3>2
    <3>4. UNCHANGED <<now, closings, generating>>
      BY <1>1
    <3>. QED  BY <3>3, <3>4 DEF ClosingsBounded, PagesBounded
  <2>7. RequestsBounded(p, e)'
    <3>1. \A g \in Generators : generating[g].exact =>
              PagesBounded(generating[g].pages[p], generating[g].month, h)
      BY <1>3 DEF Traced, RequestsBounded
    <3>2. \A g \in Generators : generating[g].pages[p] \in Nat \cup {None}
      BY DEF ClosingIInv, ClosingTypes, Generate, Pages
    <3>3. \A g \in Generators : generating[g].exact =>
              PagesBounded(generating[g].pages[p], generating[g].month, e)
      BY <2>5, <3>1, <3>2
    <3>4. UNCHANGED <<now, closings, generating>>
      BY <1>1
    <3>. QED  BY <3>3, <3>4 DEF RequestsBounded, PagesBounded
  <2>8. Traced(p, e)'
    BY <2>3, <2>4, <2>6, <2>7 DEF Traced
  <2>. QED  BY <1>5, <2>8
<1>. QED  BY <1>6, <1>7, <1>8

LEMMA NextPages == ClosingIInv /\ PagesIInv /\ [Next]_vars => PagesIInv'
<1>. SUFFICES ASSUME ClosingIInv, PagesIInv, [Next]_vars PROVE PagesIInv'
  OBVIOUS
<1>1. ASSUME UNCHANGED <<printerVars, closingVars>> PROVE PagesIInv'
  <2>1. UNCHANGED <<printerVars, closings, generating>>
    BY <1>1 DEF closingVars
  <2>2. \A p \in Printers : \A h : Traced(p, h) => ClosingsBounded(p, h)' /\ RequestsBounded(p, h)'
    BY <2>1 DEF Traced, ClosingsBounded, RequestsBounded, PagesBounded, printerVars
  <2>. QED  BY <2>1, <2>2, ClosingPages
<1>2. CASE UNCHANGED vars
  BY <1>1, <1>2 DEF vars
<1>3. CASE Tick
  BY <1>3, TickPages
<1>4. ASSUME NEW p \in Printers, PrintPage(p) \/ ResetCounter(p) \/ Delay(p) PROVE PagesIInv'
  <2>1. UNCHANGED <<now, readings, closings, generating>>
    BY <1>4 DEF PrintPage, ResetCounter, Delay, closingVars
  <2>. QED  BY <1>4, <2>1, CounterPages DEF PrintPage, ResetCounter, Delay
<1>5. ASSUME NEW p \in Printers, Collect(p) PROVE PagesIInv'
  <2>1. counter[p] \in Nat
    BY DEF ClosingIInv, PrinterTypes
  <2>. QED  BY <1>5, <2>1, RecordPages DEF Collect
<1>6. ASSUME NEW p \in Printers, CollectDelayed(p) PROVE PagesIInv'
  <2>1. delayed[p] \in Nat
    BY <1>6 DEF CollectDelayed, ClosingIInv, PrinterTypes
  <2>. QED  BY <1>6, <2>1, RecordPages DEF CollectDelayed
<1>7. ASSUME NEW c, Edit(c) PROVE PagesIInv'
  BY <1>1, <1>7 DEF Edit
<1>8. CASE SetFee
  BY <1>1, <1>8 DEF SetFee
<1>9. ASSUME NEW id \in Readjustments, CreateReadjustment(id) PROVE PagesIInv'
  BY <1>1, <1>9 DEF CreateReadjustment
<1>10. ASSUME NEW a \in Appliers, NEW id \in Readjustments, NEW now_ \in BOOLEAN, StartApply(a, id, now_)
       PROVE  PagesIInv'
  BY <1>1, <1>10 DEF StartApply
<1>11. ASSUME NEW a \in Appliers, WriteFee(a) \/ MarkApplied(a) \/ ApplyFails(a) PROVE PagesIInv'
  BY <1>1, <1>11 DEF WriteFee, MarkApplied, ApplyFails
<1>12. ASSUME NEW g \in Generators, NEW m \in Month, StartGenerate(g, m) PROVE PagesIInv'
  <2>. DEFINE new == [NoGenerate EXCEPT !.step = "contract", !.month = m, !.freezes = freezes[m]]
  <2>1. new.pages = NoPages
    BY DEF NoGenerate
  <2>2. generating' = [generating EXCEPT ![g] = new] /\ UNCHANGED <<printerVars, closings>>
    BY <1>12 DEF StartGenerate
  <2>. HIDE DEF new
  <2>. QED  BY <2>1, <2>2, RequestPages
<1>13. ASSUME NEW g \in Generators, ReadContract(g) PROVE PagesIInv'
  <2>. DEFINE new == IF contract.active
                     THEN [generating[g] EXCEPT !.step = "readings", !.terms = contract, !.left = contract.printers]
                     ELSE [generating[g] EXCEPT !.step = "write"]
  <2>1. generating[g] \in Generate
    BY DEF ClosingIInv, ClosingTypes
  <2>2. /\ new.pages = generating[g].pages /\ new.month = generating[g].month
        /\ new.exact = generating[g].exact
    BY <2>1 DEF Generate
  <2>3. generating' = [generating EXCEPT ![g] = new] /\ UNCHANGED <<printerVars, closings>>
    BY <1>13 DEF ReadContract
  <2>. HIDE DEF new
  <2>. QED  BY <2>2, <2>3, RequestPages
<1>14. ASSUME NEW g \in Generators, NEW p \in Printers, ReadReadings(g, p) PROVE PagesIInv'
  BY <1>14, ReadReadingsPages
<1>15. ASSUME NEW g \in Generators, ReadingsDone(g) PROVE PagesIInv'
  <2>. DEFINE new == [generating[g] EXCEPT !.step = "write"]
  <2>1. generating[g] \in Generate
    BY DEF ClosingIInv, ClosingTypes
  <2>2. /\ new.pages = generating[g].pages /\ new.month = generating[g].month
        /\ new.exact = generating[g].exact
    BY <2>1 DEF Generate
  <2>3. generating' = [generating EXCEPT ![g] = new] /\ UNCHANGED <<printerVars, closings>>
    BY <1>15 DEF ReadingsDone
  <2>. HIDE DEF new
  <2>. QED  BY <2>2, <2>3, RequestPages
<1>16. ASSUME NEW g \in Generators, WriteClosing(g) PROVE PagesIInv'
  <2>. DEFINE gen == generating[g]
              amount == ComputeContractPageCost(gen.terms, gen.pages)
              new == [status |-> "PENDING", terms |-> gen.terms, pages |-> gen.pages,
                      amount |-> amount, exact |-> gen.exact]
  <2>1. gen.month \in Month
    BY <1>16 DEF WriteClosing, ClosingIInv, LooksBeforeFreeze
  <2>2. /\ closings' = [closings EXCEPT ![gen.month] = new]
        /\ generating' = [generating EXCEPT ![g] = NoGenerate] /\ UNCHANGED printerVars
    BY <1>16 DEF WriteClosing
  <2>. HIDE DEF amount
  <2>3. new.pages = gen.pages /\ new.exact = gen.exact
    OBVIOUS
  <2>. HIDE DEF new
  <2>. QED  BY <2>1, <2>2, <2>3, WrittenPages
<1>17. ASSUME NEW m \in Month, Unfreeze(m) \/ Freeze(m) PROVE PagesIInv'
  <2>1. PICK status : closings' = [closings EXCEPT ![m] = [closings[m] EXCEPT !.status = status]]
    BY <1>17 DEF Freeze, Unfreeze
  <2>. DEFINE new == [closings[m] EXCEPT !.status = status]
  <2>2. closings[m] # None /\ UNCHANGED <<printerVars, generating>>
    BY <1>17 DEF Freeze, Unfreeze
  <2>3. new.pages = closings[m].pages /\ new.exact = closings[m].exact
    BY <2>2 DEF ClosingIInv, ClosingTypes
  <2>. HIDE DEF new
  <2>. QED  BY <2>1, <2>2, <2>3, WrittenPages DEF new
<1>. QED
  BY <1>2, <1>3, <1>4, <1>5, <1>6, <1>7, <1>8, <1>9, <1>10, <1>11, <1>12, <1>13, <1>14, <1>15, <1>16, <1>17
  DEF Next, AddPrinter, RemovePrinter, SetStatus, SetFranchise, AddPricingTier, RemovePricingTier

\* What is printed in the months one after the other is what is printed from
\* the first to the last.
LEMMA MonthsAddUp ==
    ASSUME NEW h \in [Time -> Nat]
    PROVE  SumFunction([m \in Month |-> h[To(m)] - h[From(m)]]) = h[To(Months)] - h[From(1)]
<1>. DEFINE f == [m \in Month |-> h[To(m)] - h[From(m)]]
            F == [k \in 0..Months |-> h[MonthStart[k + 1]] - h[MonthStart[1]]]
<1>1. Months \in Nat \ {0} /\ 1 \in Month /\ Months \in Month
  BY ClosingsAssumption DEF Month
<1>2. \A m \in Month : h[To(m)] \in Int /\ h[From(m)] \in Int
  <2>. TAKE m \in Month
  <2>1. From(m) \in Time /\ To(m) \in Time
    BY MonthTimes
  <2>. QED  BY <2>1
<1>3. f \in [1..Months -> Int]
  BY <1>2 DEF Month
<1>4. F[0] = 0
  <2>1. F[0] = h[From(1)] - h[From(1)]
    BY <1>1 DEF From
  <2>. QED  BY <1>1, <1>2, <2>1
<1>5. ASSUME NEW k \in 0..(Months - 1) PROVE F[k + 1] = F[k] + f[k + 1]
  <2>1. k \in 0..Months /\ k + 1 \in 0..Months /\ k + 1 \in Month
    BY <1>1 DEF Month
  <2>2. /\ F[k] = h[From(k + 1)] - h[From(1)] /\ F[k + 1] = h[To(k + 1)] - h[From(1)]
        /\ f[k + 1] = h[To(k + 1)] - h[From(k + 1)]
    BY <2>1 DEF From, To
  <2>. HIDE DEF F, f
  <2>. QED  BY <1>1, <1>2, <2>1, <2>2
<1>6. F[Months] = h[To(Months)] - h[From(1)]
  BY <1>1 DEF From, To
<1>. HIDE DEF F, f
<1>7. SumFunction(f) = F[Months]
  BY <1>1, <1>3, <1>4, <1>5, SumUpTo
<1>. QED  BY <1>6, <1>7 DEF f

\* The closings of all the months together, those without late readings, are
\* for no more pages than the printer printed.
THEOREM NoPageChargedTwice == Spec => []NeverOvercharged
<1>1. Init => ClosingIInv /\ FeeIInv /\ PagesIInv
  BY InitPrinter, InitFee, InitClosing, InitPages DEF ClosingIInv, FeeIInv
<1>2. FeeIInv /\ ClosingIInv /\ PagesIInv /\ [Next]_vars => FeeIInv' /\ ClosingIInv' /\ PagesIInv'
  BY NextPrinter, NextFee, NextClosing, NextPages DEF ClosingIInv, FeeIInv
<1>3. ClosingIInv /\ PagesIInv => NeverOvercharged
  <2>. SUFFICES ASSUME ClosingIInv, PagesIInv, NEW p \in Printers
                PROVE  SumFunction([m \in Month |-> ExactPages(m, p)]) <= printed[p]
    BY DEF NeverOvercharged
  <2>1. PICK h : Traced(p, h)
    BY DEF PagesIInv
  <2>2. /\ h \in [Time -> Nat] /\ \A t \in Time : h[t] <= printed[p]
        /\ \A t, u \in Time : t <= u => h[t] <= h[u]
        /\ printed[p] \in Nat
    BY <2>1 DEF Traced, History, ClosingIInv, PrinterTypes
  <2>. DEFINE f == [m \in Month |-> ExactPages(m, p)]
              e == [m \in Month |-> h[To(m)] - h[From(m)]]
  <2>3. \A m \in Month : /\ From(m) \in Time /\ To(m) \in Time
                         /\ h[From(m)] \in Nat /\ h[To(m)] \in Nat /\ h[From(m)] <= h[To(m)]
    <3>1. \A m \in Month : From(m) \in Time /\ To(m) \in Time /\ From(m) <= To(m)
      <4>. TAKE m \in Month
      <4>1. From(m) \in Time /\ To(m) \in Time /\ From(m) < To(m)
        BY MonthTimes
      <4>2. From(m) \in Int /\ To(m) \in Int
        BY <4>1, MonthTimes
      <4>. QED  BY <4>1, <4>2
    <3>. QED  BY <2>2, <3>1
  <2>4. ASSUME NEW m \in Month
        PROVE  ExactPages(m, p) \in Int /\ ExactPages(m, p) <= h[To(m)] - h[From(m)]
    <3>1. closings[m] # None => closings[m].pages[p] \in Nat \cup {None}
      BY DEF ClosingIInv, ClosingTypes, Pages
    <3>2. closings[m] # None /\ closings[m].exact => PagesBounded(closings[m].pages[p], m, h)
      BY <2>1 DEF Traced, ClosingsBounded
    <3>. QED  BY <2>3, <3>1, <3>2 DEF ExactPages, Known, PagesBounded
  <2>5. f \in [Month -> Int] /\ e \in [Month -> Int] /\ \A m \in Month : f[m] <= e[m]
    BY <2>3, <2>4
  <2>6. IsFiniteSet(Month) /\ Months \in Month /\ 1 \in Month
    <3>1. Months \in Nat \ {0}
      BY ClosingsAssumption
    <3>2. 1 \in Int /\ Months \in Int /\ Months \in 1..Months /\ 1 \in 1..Months
      BY <3>1
    <3>3. IsFiniteSet(1..Months)
      BY <3>2, FS_Interval
    <3>. QED  BY <3>2, <3>3 DEF Month
  <2>7. SumFunction(e) = h[To(Months)] - h[From(1)]
    BY <2>2, MonthsAddUp
  <2>. HIDE DEF e, f
  <2>8. SumFunction(f) <= SumFunction(e) /\ SumFunction(f) \in Int
    BY <2>5, <2>6, SumAtMost, SumIsInt
  <2>9. SumFunction(f) <= printed[p]
    BY <2>2, <2>3, <2>6, <2>7, <2>8
  <2>. QED  BY <2>9 DEF f
<1>. QED  BY <1>1, <1>2, <1>3, PTL DEF Spec

-----------------------------------------------------------------------------
(* What a closing charges.                                                 *)

LEMMA CentsRound ==
    ASSUME NEW n \in Nat, NEW x \in Nat
    PROVE  /\ Cents(n, x) \in Nat
           /\ 100 * Cents(n, x) - n * x <= 50 /\ n * x - 100 * Cents(n, x) <= 50
<1>. DEFINE y == n * x
<1>1. y \in Nat
  OBVIOUS
<1>2. Cents(n, x) = (y + 50) \div 100
  BY DEF Cents
<1>. HIDE DEF y
<1>3. (y + 50) \div 100 \in Nat /\ 100 * ((y + 50) \div 100) <= y + 50 /\ y + 50 < 100 * ((y + 50) \div 100) + 100
  BY <1>1
<1>4. 100 * Cents(n, x) - y <= 50 /\ y - 100 * Cents(n, x) <= 50 /\ Cents(n, x) \in Nat
  BY <1>1, <1>2, <1>3
<1>. QED  BY <1>4 DEF y

LEMMA OneMore == ASSUME NEW n \in Nat, NEW x \in Nat PROVE (n + 1) * x = n * x + x
OBVIOUS

LEMMA TierTypes ==
    ASSUME NEW t \in Tiers
    PROVE  t.from \in Nat /\ t.to \in Nat \cup {None} /\ t.price \in Nat /\ None \notin Int
BY ClosingsAssumption

LEMMA TierPages ==
    ASSUME NEW t \in Tiers, NEW n \in Nat
    PROVE  PagesInTier(n, t) \in Nat
BY TierTypes DEF PagesInTier, LeastOf

\* One page more is in the tier whose bracket holds it.
LEMMA TierStep ==
    ASSUME NEW t \in Tiers, t.from >= 1, NEW n \in Nat
    PROVE  PagesInTier(n + 1, t) = PagesInTier(n, t)
                + (IF t.from <= n + 1 /\ (t.to = None \/ n + 1 <= t.to) THEN 1 ELSE 0)
BY TierTypes DEF PagesInTier, LeastOf

LEMMA TierNone ==
    ASSUME NEW t \in Tiers, t.from >= 1
    PROVE  PagesInTier(0, t) = 0
BY TierTypes DEF PagesInTier, LeastOf

LEMMA TotalIsNat ==
    ASSUME NEW pages \in Pages
    PROVE  /\ TotalPages(pages) \in Nat
           /\ \A p \in Printers : Known(pages[p]) \in Nat
<1>. DEFINE f == [p \in Printers |-> Known(pages[p])]
            zero == [p \in Printers |-> 0]
<1>1. \A p \in Printers : Known(pages[p]) \in Nat
  BY DEF Pages, Known
<1>2. f \in [Printers -> Int] /\ zero \in [Printers -> Int] /\ \A p \in Printers : zero[p] <= f[p]
  BY <1>1
<1>3. IsFiniteSet(Printers)
  BY ClosingsAssumption
<1>4. TotalPages(pages) = SumFunction(f)
  BY DEF TotalPages
<1>6. SumFunction(zero) = 0
  BY <1>2, <1>3, SumZero
<1>. HIDE DEF f, zero
<1>5. SumFunction(zero) \in Int /\ SumFunction(f) \in Int /\ SumFunction(zero) <= SumFunction(f)
  BY <1>2, <1>3, SumIsInt, SumAtMost
<1>. QED  BY <1>1, <1>4, <1>5, <1>6

\* What page i costs in each bracket.
PricesAt(tiers, i) == [t \in tiers |-> IF t.from <= i /\ (t.to = None \/ i <= t.to) THEN t.price ELSE 0]

\* What n pages cost in each bracket, before rounding.
CostsOf(tiers, n) == [t \in tiers |-> PagesInTier(n, t) * t.price]

LEMMA TieredStep ==
    ASSUME NEW tiers \in SUBSET Tiers, \A t \in tiers : t.from >= 1
    PROVE  /\ SumFunction(CostsOf(tiers, 0)) = 0
           /\ \A k \in Nat : SumFunction(CostsOf(tiers, k + 1))
                                = SumFunction(CostsOf(tiers, k)) + SumFunction(PricesAt(tiers, k + 1))
<1>1. IsFiniteSet(tiers)
  BY ClosingsAssumption, FS_Subset
<1>2. \A t \in tiers : t \in Tiers /\ t.price \in Nat
  BY TierTypes
<1>3. \A k \in Nat : CostsOf(tiers, k) \in [tiers -> Int]
  <2>. TAKE k \in Nat
  <2>1. \A t \in tiers : PagesInTier(k, t) * t.price \in Int
    <3>. TAKE t \in tiers
    <3>1. PagesInTier(k, t) \in Int /\ t.price \in Int
      BY <1>2, TierPages
    <3>. QED  BY <3>1
  <2>. QED  BY <2>1 DEF CostsOf
<1>4. \A k \in Nat : PricesAt(tiers, k) \in [tiers -> Int]
  BY <1>2 DEF PricesAt
<1>5. ASSUME NEW k \in Nat
      PROVE  SumFunction(CostsOf(tiers, k + 1))
                = SumFunction(CostsOf(tiers, k)) + SumFunction(PricesAt(tiers, k + 1))
  <2>1. \A t \in tiers : CostsOf(tiers, k + 1)[t] = CostsOf(tiers, k)[t] + PricesAt(tiers, k + 1)[t]
    <3>. TAKE t \in tiers
    <3>1. t.price \in Nat /\ PagesInTier(k, t) \in Nat /\ PagesInTier(k + 1, t) \in Nat
      BY <1>2, TierPages
    <3>2. PagesInTier(k + 1, t) = PagesInTier(k, t)
                + (IF t.from <= k + 1 /\ (t.to = None \/ k + 1 <= t.to) THEN 1 ELSE 0)
      BY <1>2, TierStep
    <3>3. CASE t.from <= k + 1 /\ (t.to = None \/ k + 1 <= t.to)
      <4>1. PagesInTier(k + 1, t) = PagesInTier(k, t) + 1
        BY <3>2, <3>3
      <4>2. PagesInTier(k + 1, t) * t.price = PagesInTier(k, t) * t.price + t.price
        BY <3>1, <4>1, OneMore
      <4>. QED  BY <3>3, <4>2 DEF CostsOf, PricesAt
    <3>4. CASE ~(t.from <= k + 1 /\ (t.to = None \/ k + 1 <= t.to))
      <4>1. PagesInTier(k + 1, t) = PagesInTier(k, t)
        BY <3>1, <3>2, <3>4
      <4>2. PagesInTier(k, t) * t.price \in Int
        BY <3>1
      <4>. QED  BY <3>4, <4>1, <4>2 DEF CostsOf, PricesAt
    <3>. QED  BY <3>3, <3>4
  <2>2. /\ CostsOf(tiers, k) \in [tiers -> Int] /\ CostsOf(tiers, k + 1) \in [tiers -> Int]
        /\ PricesAt(tiers, k + 1) \in [tiers -> Int]
    BY <1>3, <1>4
  <2>. QED  BY <1>1, <2>1, <2>2, SumPlus
<1>6. SumFunction(CostsOf(tiers, 0)) = 0
  <2>1. \A t \in tiers : CostsOf(tiers, 0)[t] = 0
    <3>. TAKE t \in tiers
    <3>1. PagesInTier(0, t) = 0 /\ t.price \in Nat
      BY <1>2, TierNone
    <3>2. 0 * t.price = 0
      BY <3>1
    <3>. QED  BY <3>1, <3>2 DEF CostsOf
  <2>2. CostsOf(tiers, 0) \in [tiers -> Int]
    BY <1>3
  <2>. QED  BY <1>1, <2>1, <2>2, SumZero
<1>. QED  BY <1>5, <1>6

\* By brackets: the sum over the pages of their prices is the sum over the
\* brackets of their pages at their price.
LEMMA TieredPrice ==
    ASSUME NEW tiers \in SUBSET Tiers, \A t \in tiers : t.from >= 1, NEW n \in Nat,
           NEW price \in [1..n -> Int],
           \A i \in 1..n : price[i] = SumFunction(PricesAt(tiers, i))
    PROVE  SumFunction(price) = SumFunction(CostsOf(tiers, n))
<1>. DEFINE F == [k \in 0..n |-> SumFunction(CostsOf(tiers, k))]
<1>1. \A k \in 0..n : F[k] = SumFunction(CostsOf(tiers, k))
  OBVIOUS
<1>. HIDE DEF F
<1>2. F[0] = 0 /\ F[n] = SumFunction(CostsOf(tiers, n))
  BY <1>1, TieredStep
<1>3. ASSUME NEW k \in 0..(n - 1) PROVE F[k + 1] = F[k] + price[k + 1]
  <2>1. k \in Nat /\ k + 1 \in 1..n /\ k \in 0..n /\ k + 1 \in 0..n
    OBVIOUS
  <2>. QED  BY <1>1, <2>1, TieredStep
<1>. QED  BY <1>2, <1>3, SumUpTo

\* What the pages used cost one by one is what is charged, but for rounding.
Priced(terms, n) == SumFunction([i \in 1..n |-> PriceOf(terms, i)])
Near(a, b, s) == 100 * a - b <= s /\ b - 100 * a <= s

LEMMA TieredType ==
    ASSUME NEW tiers \in SUBSET Tiers, NEW n \in Nat
    PROVE  CalculateTieredBilling(n, tiers) \in Int
<1>. DEFINE amount == [t \in tiers |-> Cents(PagesInTier(n, t), t.price)]
<1>1. IsFiniteSet(tiers)
  BY ClosingsAssumption, FS_Subset
<1>2. \A t \in tiers : amount[t] \in Int
  <2>. TAKE t \in tiers
  <2>1. t.price \in Nat /\ PagesInTier(n, t) \in Nat
    BY TierTypes, TierPages
  <2>2. Cents(PagesInTier(n, t), t.price) \in Nat
    BY <2>1, CentsRound
  <2>. QED  BY <2>2
<1>3. amount \in [tiers -> Int]
  BY <1>2
<1>4. CalculateTieredBilling(n, tiers) = SumFunction(amount)
  BY DEF CalculateTieredBilling
<1>. HIDE DEF amount
<1>. QED  BY <1>1, <1>3, <1>4, SumIsInt

LEMMA TieredCharge ==
    ASSUME NEW terms \in Contract, terms.tiers # {}, FromPageOne(terms), NEW n \in Nat
    PROVE  /\ Near(CalculateTieredBilling(n, terms.tiers), Priced(terms, n), 50 * Cardinality(terms.tiers))
           /\ CalculateTieredBilling(n, terms.tiers) \in Int /\ Priced(terms, n) \in Int
<1>. DEFINE tiers == terms.tiers
            amount == [t \in tiers |-> Cents(PagesInTier(n, t), t.price)]
            exactly == CostsOf(tiers, n)
            price == [i \in 1..n |-> PriceOf(terms, i)]
<1>1. tiers \in SUBSET Tiers /\ IsFiniteSet(tiers)
  <2>1. tiers \in SUBSET Tiers
    BY DEF Contract
  <2>. QED  BY <2>1, ClosingsAssumption, FS_Subset
<1>2. \A t \in tiers : t.price \in Nat /\ PagesInTier(n, t) \in Nat /\ t.from >= 1
  BY <1>1, TierTypes, TierPages DEF FromPageOne
<1>3. \A t \in tiers : /\ amount[t] \in Int /\ exactly[t] \in Int
                       /\ 100 * amount[t] - exactly[t] <= 50 /\ exactly[t] - 100 * amount[t] <= 50
  <2>. TAKE t \in tiers
  <2>1. t.price \in Nat /\ PagesInTier(n, t) \in Nat
    BY <1>2
  <2>2. exactly[t] = PagesInTier(n, t) * t.price /\ exactly[t] \in Int
    BY <2>1 DEF CostsOf
  <2>3. PICK a, x : a = PagesInTier(n, t) /\ x = t.price
    OBVIOUS
  <2>4. /\ Cents(a, x) \in Nat
        /\ 100 * Cents(a, x) - a * x <= 50 /\ a * x - 100 * Cents(a, x) <= 50
    BY <2>1, <2>3, CentsRound
  <2>5. amount[t] = Cents(a, x) /\ exactly[t] = a * x
    BY <2>2, <2>3
  <2>. QED  BY <2>2, <2>4, <2>5
<1>4. amount \in [tiers -> Int] /\ exactly \in [tiers -> Int]
  BY <1>3 DEF CostsOf
<1>5. \A i \in 1..n : price[i] = SumFunction(PricesAt(tiers, i)) /\ price[i] \in Int
  <2>. TAKE i \in 1..n
  <2>1. PricesAt(tiers, i) \in [tiers -> Int]
    BY <1>2 DEF PricesAt
  <2>2. PriceOf(terms, i) = SumFunction(PricesAt(tiers, i))
    BY DEF PriceOf, PricesAt
  <2>3. SumFunction(PricesAt(tiers, i)) \in Int
    BY <1>1, <2>1, SumIsInt
  <2>. QED  BY <2>2, <2>3
<1>6. price \in [1..n -> Int]
  BY <1>5
<1>. HIDE DEF price
<1>7. SumFunction(price) = SumFunction(exactly)
  BY <1>1, <1>2, <1>5, <1>6, TieredPrice
<1>. HIDE DEF amount, exactly, tiers
<1>8. /\ 100 * SumFunction(amount) - SumFunction(exactly) <= 50 * Cardinality(tiers)
      /\ SumFunction(exactly) - 100 * SumFunction(amount) <= 50 * Cardinality(tiers)
      /\ SumFunction(amount) \in Int /\ SumFunction(exactly) \in Int
  BY <1>1, <1>3, <1>4, SumRounded, SumIsInt
<1>9. CalculateTieredBilling(n, terms.tiers) = SumFunction(amount) /\ Priced(terms, n) = SumFunction(price)
  BY DEF CalculateTieredBilling, Priced, amount, price, tiers
<1>10. tiers = terms.tiers
  BY DEF tiers
<1>. QED  BY <1>7, <1>8, <1>9, <1>10 DEF Near

\* What n pages cost above a franchise.
OverCost(n, franchise) == IF n <= franchise THEN 0 ELSE (n - franchise) * OveragePrice

LEMMA OverStep ==
    ASSUME NEW k \in Nat, NEW over \in Nat
    PROVE  OverCost(k + 1, over) = OverCost(k, over) + (IF k + 1 > over THEN OveragePrice ELSE 0)
<1>1. OveragePrice \in Nat
  BY ClosingsAssumption
<1>2. CASE k + 1 <= over
  BY <1>1, <1>2 DEF OverCost
<1>3. CASE k = over
  <2>1. OverCost(k, over) = 0 /\ OverCost(k + 1, over) = (k + 1 - over) * OveragePrice
    BY <1>3 DEF OverCost
  <2>2. k + 1 - over = 1 /\ 1 * OveragePrice = OveragePrice
    BY <1>1, <1>3
  <2>3. OverCost(k + 1, over) = OveragePrice
    BY <2>1, <2>2
  <2>. QED  BY <1>1, <1>3, <2>1, <2>3
<1>4. CASE k > over
  <2>1. PICK j \in Nat : k = over + j /\ k - over = j /\ k + 1 - over = j + 1
    <3>1. k - over \in Nat /\ k = over + (k - over) /\ k + 1 - over = (k - over) + 1
      BY <1>4
    <3>. QED  BY <3>1
  <2>2. OverCost(k, over) = j * OveragePrice /\ OverCost(k + 1, over) = (j + 1) * OveragePrice
    BY <1>4, <2>1 DEF OverCost
  <2>. QED  BY <1>1, <1>4, <2>2, OneMore
<1>. QED  BY <1>2, <1>3, <1>4

LEMMA FranchiseCharge ==
    ASSUME NEW terms \in Contract, terms.tiers = {}, terms.franchise > 0, NEW n \in Nat
    PROVE  /\ Near(FranchiseOverage(n, terms.franchise, OveragePrice), Priced(terms, n), IF n = 0 THEN 0 ELSE 50)
           /\ FranchiseOverage(n, terms.franchise, OveragePrice) \in Int /\ Priced(terms, n) \in Int
<1>. DEFINE over == terms.franchise
            price == [i \in 1..n |-> PriceOf(terms, i)]
            F == [k \in 0..n |-> OverCost(k, over)]
<1>1. over \in Nat /\ over > 0 /\ OveragePrice \in Nat
  BY ClosingsAssumption DEF Contract
<1>2. \A i \in 1..n : price[i] = IF i > over THEN OveragePrice ELSE 0
  BY DEF PriceOf
<1>3. price \in [1..n -> Int]
  BY <1>1, <1>2
<1>. HIDE DEF over, price
<1>4. \A k \in 0..n : F[k] = OverCost(k, over)
  OBVIOUS
<1>. HIDE DEF F
<1>5. F[0] = 0 /\ F[n] = OverCost(n, over)
  BY <1>1, <1>4 DEF OverCost
<1>6. ASSUME NEW k \in 0..(n - 1) PROVE F[k + 1] = F[k] + price[k + 1]
  <2>1. k \in Nat /\ k + 1 \in 1..n /\ k \in 0..n /\ k + 1 \in 0..n
    OBVIOUS
  <2>. QED  BY <1>1, <1>2, <1>4, <2>1, OverStep
<1>7. SumFunction(price) = F[n]
  BY <1>3, <1>5, <1>6, SumUpTo
<1>8. Priced(terms, n) = OverCost(n, over)
  BY <1>5, <1>7 DEF Priced, price
<1>9. FranchiseOverage(n, terms.franchise, OveragePrice) = IF n <= over THEN 0 ELSE Cents(n - over, OveragePrice)
  BY DEF FranchiseOverage, over
<1>10. CASE n <= over
  BY <1>8, <1>9, <1>10 DEF Near, OverCost
<1>11. CASE ~(n <= over)
  <2>1. n - over \in Nat /\ n # 0
    BY <1>1, <1>11
  <2>2. PICK j \in Nat : j = n - over
    BY <2>1
  <2>3. Priced(terms, n) = j * OveragePrice /\ j * OveragePrice \in Int
    BY <1>1, <1>8, <1>11, <2>2 DEF OverCost
  <2>4. /\ Cents(j, OveragePrice) \in Nat
        /\ 100 * Cents(j, OveragePrice) - j * OveragePrice <= 50
        /\ j * OveragePrice - 100 * Cents(j, OveragePrice) <= 50
    BY <1>1, CentsRound
  <2>5. FranchiseOverage(n, terms.franchise, OveragePrice) = Cents(j, OveragePrice)
    BY <1>9, <1>11, <2>2
  <2>6. Near(Cents(j, OveragePrice), j * OveragePrice, IF n = 0 THEN 0 ELSE 50)
    BY <2>1, <2>4 DEF Near
  <2>. QED  BY <2>3, <2>4, <2>5, <2>6
<1>. QED  BY <1>10, <1>11

LEMMA FlatStep ==
    ASSUME NEW terms \in Contract, terms.tiers = {}, ~(terms.franchise > 0), NEW n \in Nat
    PROVE  Priced(terms, n) = n * Price
<1>. DEFINE price == [i \in 1..n |-> PriceOf(terms, i)]
            F == [k \in 0..n |-> k * Price]
<1>1. Price \in Nat
  BY ClosingsAssumption
<1>2. price \in [1..n -> Int] /\ \A i \in 1..n : price[i] = Price
  BY <1>1 DEF PriceOf
<1>3. \A k \in 0..n : F[k] = k * Price
  OBVIOUS
<1>4. Priced(terms, n) = SumFunction(price)
  BY DEF Priced
<1>. HIDE DEF price, F
<1>5. F[0] = 0 /\ F[n] = n * Price
  <2>1. 0 * Price = 0
    BY <1>1
  <2>. QED  BY <1>3, <2>1
<1>6. ASSUME NEW k \in 0..(n - 1) PROVE F[k + 1] = F[k] + price[k + 1]
  <2>1. k \in Nat /\ k + 1 \in 1..n /\ k \in 0..n
    OBVIOUS
  <2>2. PICK j \in 0..n : j = k + 1
    OBVIOUS
  <2>3. F[j] = j * Price /\ F[k] = k * Price /\ price[j] = Price
    BY <1>2, <1>3, <2>1, <2>2
  <2>4. j * Price = k * Price + Price
    BY <1>1, <2>1, <2>2, OneMore
  <2>. QED  BY <2>2, <2>3, <2>4
<1>. QED  BY <1>2, <1>4, <1>5, <1>6, SumUpTo

LEMMA FlatCharge ==
    ASSUME NEW terms \in Contract, terms.tiers = {}, ~(terms.franchise > 0), NEW pages \in Pages
    PROVE  LET amount == SumFunction([p \in Printers |-> Cents(Known(pages[p]), Price)])
           IN  /\ Near(amount, Priced(terms, TotalPages(pages)), 50 * Cardinality(Printers))
               /\ amount \in Int /\ Priced(terms, TotalPages(pages)) \in Int
<1>. DEFINE known == [p \in Printers |-> Known(pages[p])]
            amount == [p \in Printers |-> Cents(Known(pages[p]), Price)]
            exactly == [p \in Printers |-> Known(pages[p]) * Price]
<1>1. Price \in Nat /\ IsFiniteSet(Printers)
  BY ClosingsAssumption
<1>2. \A p \in Printers : Known(pages[p]) \in Nat
  BY TotalIsNat
<1>3. /\ TotalPages(pages) = SumFunction(known) /\ TotalPages(pages) \in Nat
  BY TotalIsNat DEF TotalPages
<1>4. \A p \in Printers : /\ amount[p] \in Int /\ exactly[p] \in Int
                          /\ exactly[p] = known[p] * Price /\ known[p] \in Int
                          /\ 100 * amount[p] - exactly[p] <= 50 /\ exactly[p] - 100 * amount[p] <= 50
  <2>. TAKE p \in Printers
  <2>1. PICK a \in Nat : a = Known(pages[p])
    BY <1>2
  <2>2. amount[p] = Cents(a, Price) /\ exactly[p] = a * Price /\ known[p] = a
    BY <2>1
  <2>3. a * Price \in Int
    BY <1>1
  <2>4. /\ Cents(a, Price) \in Nat
        /\ 100 * Cents(a, Price) - a * Price <= 50 /\ a * Price - 100 * Cents(a, Price) <= 50
    BY <1>1, CentsRound
  <2>. HIDE DEF amount, exactly, known
  <2>. QED  BY <2>2, <2>3, <2>4
<1>5. known \in [Printers -> Int] /\ amount \in [Printers -> Int] /\ exactly \in [Printers -> Int]
  BY <1>4
<1>6. SumFunction([p \in Printers |-> Cents(Known(pages[p]), Price)]) = SumFunction(amount)
  OBVIOUS
<1>. HIDE DEF amount, exactly, known
<1>7. SumFunction(exactly) = SumFunction(known) * Price
  <2>1. \A p \in Printers : exactly[p] = known[p] * Price
    BY <1>4
  <2>2. Price \in Int
    BY <1>1
  <2>. QED  BY <1>1, <1>5, <2>1, <2>2, SumTimes
<1>8. /\ 100 * SumFunction(amount) - SumFunction(exactly) <= 50 * Cardinality(Printers)
      /\ SumFunction(exactly) - 100 * SumFunction(amount) <= 50 * Cardinality(Printers)
      /\ SumFunction(amount) \in Int /\ SumFunction(exactly) \in Int
  BY <1>1, <1>4, <1>5, SumRounded, SumIsInt
<1>9. Priced(terms, TotalPages(pages)) = SumFunction(exactly)
  BY <1>3, <1>7, FlatStep
<1>. QED  BY <1>6, <1>8, <1>9 DEF Near

LEMMA CostType ==
    ASSUME NEW terms \in Contract \cup {None}, NEW pages \in Pages
    PROVE  ComputeContractPageCost(terms, pages) \in Int
<1>. DEFINE n == TotalPages(pages)
            flat == SumFunction([p \in Printers |-> Cents(Known(pages[p]), Price)])
<1>1. n \in Nat
  BY TotalIsNat
<1>2. CASE terms = None
  BY <1>2 DEF ComputeContractPageCost
<1>3. CASE terms # None /\ terms.tiers # {}
  <2>1. ComputeContractPageCost(terms, pages) = CalculateTieredBilling(n, terms.tiers)
    BY <1>3 DEF ComputeContractPageCost
  <2>2. terms.tiers \in SUBSET Tiers
    BY <1>3 DEF Contract
  <2>. QED  BY <1>1, <2>1, <2>2, TieredType
<1>4. CASE terms # None /\ terms.tiers = {} /\ terms.franchise > 0
  <2>1. ComputeContractPageCost(terms, pages) = FranchiseOverage(n, terms.franchise, OveragePrice)
    BY <1>4 DEF ComputeContractPageCost
  <2>2. terms \in Contract
    BY <1>4
  <2>. QED  BY <1>1, <1>4, <2>1, <2>2, FranchiseCharge
<1>5. CASE terms # None /\ terms.tiers = {} /\ ~(terms.franchise > 0)
  <2>1. ComputeContractPageCost(terms, pages) = flat
    BY <1>5 DEF ComputeContractPageCost
  <2>2. terms \in Contract
    BY <1>5
  <2>. QED  BY <1>5, <2>1, <2>2, FlatCharge
<1>. QED  BY <1>2, <1>3, <1>4, <1>5

LEMMA Charge ==
    ASSUME NEW terms \in Contract, terms # None, FromPageOne(terms), NEW pages \in Pages
    PROVE  /\ Priced(terms, TotalPages(pages)) \in Int
           /\ Near(ComputeContractPageCost(terms, pages), Priced(terms, TotalPages(pages)),
                   50 * (Cardinality(terms.tiers) + Cardinality(Printers)))
<1>. DEFINE n == TotalPages(pages)
            cost == ComputeContractPageCost(terms, pages)
<1>1. n \in Nat
  BY TotalIsNat
<1>2. cost \in Int
  BY CostType
<1>3. /\ Cardinality(terms.tiers) \in Nat /\ Cardinality(Printers) \in Nat
      /\ Cardinality(Printers) = 0 => Printers = {}
  <2>1. terms.tiers \in SUBSET Tiers
    BY DEF Contract
  <2>2. IsFiniteSet(terms.tiers) /\ IsFiniteSet(Printers)
    BY <2>1, ClosingsAssumption, FS_Subset
  <2>. QED  BY <2>2, FS_CardinalityType, FS_EmptySet
<1>4. ASSUME NEW s \in Int, NEW u \in Int, s <= u, NEW a \in Int, NEW b \in Int, Near(a, b, s)
      PROVE  Near(a, b, u)
  BY <1>4 DEF Near
<1>5. CASE terms.tiers # {}
  <2>1. cost = CalculateTieredBilling(n, terms.tiers)
    BY <1>5 DEF ComputeContractPageCost
  <2>2. Near(cost, Priced(terms, n), 50 * Cardinality(terms.tiers)) /\ Priced(terms, n) \in Int
    BY <1>1, <1>5, <2>1, TieredCharge
  <2>3. /\ 50 * Cardinality(terms.tiers) \in Int
        /\ 50 * (Cardinality(terms.tiers) + Cardinality(Printers)) \in Int
        /\ 50 * Cardinality(terms.tiers) <= 50 * (Cardinality(terms.tiers) + Cardinality(Printers))
    BY <1>3
  <2>. QED  BY <1>2, <1>4, <2>2, <2>3
<1>6. CASE terms.tiers = {} /\ terms.franchise > 0
  <2>1. cost = FranchiseOverage(n, terms.franchise, OveragePrice)
    BY <1>6 DEF ComputeContractPageCost
  <2>2. Near(cost, Priced(terms, n), IF n = 0 THEN 0 ELSE 50) /\ Priced(terms, n) \in Int
    BY <1>1, <1>6, <2>1, FranchiseCharge
  <2>3. Printers = {} => n = 0
    <3>. SUFFICES ASSUME Printers = {} PROVE n = 0
      OBVIOUS
    <3>. DEFINE known == [p \in Printers |-> Known(pages[p])]
    <3>1. known \in [Printers -> Int] /\ \A p \in Printers : known[p] = 0
      OBVIOUS
    <3>2. n = SumFunction(known)
      BY DEF TotalPages
    <3>. HIDE DEF known
    <3>. QED  BY <3>1, <3>2, SumZero, ClosingsAssumption
  <2>4. /\ (IF n = 0 THEN 0 ELSE 50) \in Int
        /\ 50 * (Cardinality(terms.tiers) + Cardinality(Printers)) \in Int
        /\ (IF n = 0 THEN 0 ELSE 50) <= 50 * (Cardinality(terms.tiers) + Cardinality(Printers))
    BY <1>3, <2>3
  <2>. QED  BY <1>2, <1>4, <2>2, <2>4
<1>7. CASE terms.tiers = {} /\ ~(terms.franchise > 0)
  <2>1. cost = SumFunction([p \in Printers |-> Cents(Known(pages[p]), Price)])
    BY <1>7 DEF ComputeContractPageCost
  <2>2. Near(cost, Priced(terms, n), 50 * Cardinality(Printers)) /\ Priced(terms, n) \in Int
    BY <1>7, <2>1, FlatCharge
  <2>3. /\ 50 * Cardinality(Printers) \in Int
        /\ 50 * (Cardinality(terms.tiers) + Cardinality(Printers)) \in Int
        /\ 50 * Cardinality(Printers) <= 50 * (Cardinality(terms.tiers) + Cardinality(Printers))
    BY <1>3
  <2>. QED  BY <1>2, <1>4, <2>2, <2>3
<1>. QED  BY <1>5, <1>6, <1>7

\* A closing's amount is what its terms make of its pages.
AmountsAsComputed ==
    \A m \in Month : closings[m] # None =>
        closings[m].amount = ComputeContractPageCost(closings[m].terms, closings[m].pages)

LEMMA NextAmounts == ClosingIInv /\ AmountsAsComputed /\ [Next]_vars => AmountsAsComputed'
<1>. SUFFICES ASSUME ClosingIInv, AmountsAsComputed, [Next]_vars PROVE AmountsAsComputed'
  OBVIOUS
<1>1. ASSUME UNCHANGED closings PROVE AmountsAsComputed'
  BY <1>1 DEF AmountsAsComputed
<1>2. closings = [n \in Month |-> closings[n]]
  BY DEF ClosingIInv, ClosingTypes
<1>3. ASSUME NEW m \in Month, Freeze(m) \/ Unfreeze(m) PROVE AmountsAsComputed'
  <2>1. PICK status : closings' = [closings EXCEPT ![m] = [closings[m] EXCEPT !.status = status]]
    BY <1>3 DEF Freeze, Unfreeze
  <2>. DEFINE new == [closings[m] EXCEPT !.status = status]
  <2>2. closings[m] # None
    BY <1>3 DEF Freeze, Unfreeze
  <2>3. /\ new.pages = closings[m].pages /\ new.terms = closings[m].terms
        /\ new.amount = closings[m].amount
    BY <2>2 DEF ClosingIInv, ClosingTypes
  <2>. HIDE DEF new
  <2>4. \A n \in Month : closings'[n] = IF n = m THEN new ELSE closings[n]
    BY <1>2, <2>1 DEF new
  <2>. QED  BY <2>2, <2>3, <2>4 DEF AmountsAsComputed
<1>4. ASSUME NEW g \in Generators, WriteClosing(g) PROVE AmountsAsComputed'
  <2>. DEFINE gen == generating[g]
              amount == ComputeContractPageCost(gen.terms, gen.pages)
              new == [status |-> "PENDING", terms |-> gen.terms, pages |-> gen.pages,
                      amount |-> amount, exact |-> gen.exact]
  <2>1. closings' = [closings EXCEPT ![gen.month] = new]
    BY <1>4 DEF WriteClosing
  <2>2. new.amount = ComputeContractPageCost(new.terms, new.pages)
    <3>. HIDE DEF amount
    <3>1. new.amount = amount /\ new.terms = gen.terms /\ new.pages = gen.pages
      OBVIOUS
    <3>. QED  BY <3>1 DEF amount
  <2>. HIDE DEF new, gen
  <2>3. \A n \in Month : closings'[n] = new \/ closings'[n] = closings[n]
    BY <1>2, <2>1
  <2>. QED  BY <2>2, <2>3 DEF AmountsAsComputed
<1>5. \/ UNCHANGED closings
      \/ \E n \in Month : Freeze(n) \/ Unfreeze(n)
      \/ \E g \in Generators : WriteClosing(g)
  BY DEF Next, AddPrinter, RemovePrinter, SetStatus, SetFranchise, AddPricingTier, RemovePricingTier,
     Tick, PrintPage, ResetCounter, Collect, Delay, CollectDelayed, Record, Edit, SetFee, closingVars,
     CreateReadjustment, StartApply, WriteFee, MarkApplied, ApplyFails, StartGenerate, ReadContract,
     ReadingsDone, ReadReadings, vars
<1>. QED  BY <1>1, <1>3, <1>4, <1>5

\* Every value is of its type, and a closing charges the pages it counts at
\* the prices of the terms it read.
THEOREM ClosingsConsistent == Spec => []Consistent
<1>1. Init => FeeIInv /\ ClosingIInv /\ AmountsAsComputed
  <2>1. Init => AmountsAsComputed
    BY DEF Init, AmountsAsComputed
  <2>. QED  BY <2>1, InitPrinter, InitFee, InitClosing DEF ClosingIInv, FeeIInv
<1>2. FeeIInv /\ ClosingIInv /\ AmountsAsComputed /\ [Next]_vars => FeeIInv' /\ ClosingIInv' /\ AmountsAsComputed'
  BY NextPrinter, NextFee, NextClosing, NextAmounts DEF ClosingIInv, FeeIInv
<1>3. ClosingIInv /\ AmountsAsComputed => Consistent
  <2>. SUFFICES ASSUME ClosingIInv, AmountsAsComputed PROVE TypeOK /\ PagesChargedAsPriced
    BY DEF Consistent
  <2>1. ASSUME NEW m \in Month, closings[m] # None
        PROVE  /\ closings[m].terms \in Contract \cup {None} /\ closings[m].pages \in Pages
               /\ closings[m].amount = ComputeContractPageCost(closings[m].terms, closings[m].pages)
               /\ closings[m].amount \in Int
    <3>1. closings[m].terms \in Contract \cup {None} /\ closings[m].pages \in Pages
      BY <2>1 DEF ClosingIInv, ClosingTypes
    <3>2. closings[m].amount = ComputeContractPageCost(closings[m].terms, closings[m].pages)
      BY <2>1 DEF AmountsAsComputed
    <3>. QED  BY <3>1, <3>2, CostType
  <2>2. TypeOK
    <3>1. \A m \in Month : closings[m] \in Closing \cup {None}
      <4>. SUFFICES ASSUME NEW m \in Month, closings[m] # None PROVE closings[m] \in Closing
        OBVIOUS
      <4>1. closings[m] \in [status : {"PENDING", "FROZEN"}, terms : Contract \cup {None},
                            pages : Pages, amount : {closings[m].amount}, exact : BOOLEAN]
        BY DEF ClosingIInv, ClosingTypes
      <4>2. closings[m].amount \in Int
        BY <2>1
      <4>. QED  BY <4>1, <4>2 DEF Closing
    <3>2. closings \in [Month -> Closing \cup {None}]
      BY <3>1 DEF ClosingIInv, ClosingTypes
    <3>. QED  BY <3>2 DEF ClosingIInv, PrinterTypes, FeeTypes, ClosingTypes, TypeOK
  <2>3. PagesChargedAsPriced
    <3>. SUFFICES ASSUME NEW m \in Month, closings[m] # None, closings[m].terms # None,
                         FromPageOne(closings[m].terms)
                  PROVE  LET c == closings[m]
                             priced == SumFunction([i \in 1..TotalPages(c.pages) |-> PriceOf(c.terms, i)])
                             slack == 50 * (Cardinality(c.terms.tiers) + Cardinality(Printers))
                         IN  c.amount * 100 - priced \in (-slack)..slack
      BY DEF PagesChargedAsPriced
    <3>. DEFINE c == closings[m]
                priced == Priced(c.terms, TotalPages(c.pages))
                slack == 50 * (Cardinality(c.terms.tiers) + Cardinality(Printers))
    <3>1. c.terms \in Contract /\ c.pages \in Pages /\ c.amount \in Int
          /\ c.amount = ComputeContractPageCost(c.terms, c.pages)
      BY <2>1
    <3>2. priced \in Int /\ Near(c.amount, priced, slack)
      BY <3>1, Charge
    <3>3. slack \in Int
      <4>1. c.terms.tiers \in SUBSET Tiers
        BY <3>1 DEF Contract
      <4>2. IsFiniteSet(c.terms.tiers) /\ IsFiniteSet(Printers)
        BY <4>1, ClosingsAssumption, FS_Subset
      <4>3. Cardinality(c.terms.tiers) \in Nat /\ Cardinality(Printers) \in Nat
        BY <4>2, FS_CardinalityType
      <4>. QED  BY <4>3
    <3>4. priced = SumFunction([i \in 1..TotalPages(c.pages) |-> PriceOf(c.terms, i)])
      BY DEF Priced
    <3>. HIDE DEF priced, slack
    <3>5. c.amount * 100 - priced \in (-slack)..slack
      BY <3>1, <3>2, <3>3 DEF Near
    <3>. QED  BY <3>4, <3>5 DEF slack
  <2>. QED  BY <2>2, <2>3
<1>. QED  BY <1>1, <1>2, <1>3, PTL DEF Spec
=============================================================================
