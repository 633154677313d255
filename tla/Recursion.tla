------------------------------ MODULE Recursion ------------------------------
(***************************************************************************)
(* Induction and recursive definitions without operators as parameters, so *)
(* that the provers can use them: a property is the set of the numbers     *)
(* that have it, and a recursive function is one that a function `step'    *)
(* computes from its values at smaller arguments.                          *)
(***************************************************************************)
EXTENDS Integers, WellFoundedInduction, TLAPS

\* A set of numbers that is not empty has a least one.
LEMMA LeastNumber ==
    ASSUME NEW T \in SUBSET Nat, T # {}
    PROVE  \E x \in T : \A y \in T : x <= y
<1> DEFINE R == {p \in Nat \X Nat : p[1] < p[2]}
<1>1. IsWellFoundedOn(R, Nat)
  BY NatLessThanWellFounded, Zenon DEF OpToRel
<1>2. PICK x \in T : \A y \in T : <<y, x>> \notin R
  BY <1>1, WFMin, Zenon
<1>3. \A y \in T : ~(y < x)
  BY <1>2
<1> QED BY <1>3

\* Induction: the numbers that have a property are all numbers.
LEMMA Induction ==
    ASSUME NEW S, 0 \in S, \A n \in Nat : n \in S => n + 1 \in S
    PROVE  \A n \in Nat : n \in S
<1> DEFINE T == Nat \ S
<1>1. SUFFICES ASSUME T # {} PROVE FALSE
  OBVIOUS
<1>2. PICK x \in T : \A y \in T : x <= y
  BY <1>1, LeastNumber
<1>3. x # 0 /\ x - 1 \in Nat /\ x - 1 \in S
  BY <1>2
<1> QED BY <1>2, <1>3

\* The same for numbers up to a bound.
LEMMA BoundedInduction ==
    ASSUME NEW n \in Nat, NEW S, 0 \in S, \A k \in 1..n : k - 1 \in S => k \in S
    PROVE  \A k \in 0..n : k \in S
<1> DEFINE T == {k \in Nat : k <= n => k \in S}
<1>1. 0 \in T
  OBVIOUS
<1>2. ASSUME NEW k \in Nat, k \in T PROVE k + 1 \in T
  <2>1. k + 1 <= n => k + 1 \in 1..n /\ k + 1 - 1 = k
    OBVIOUS
  <2> QED BY <1>2, <2>1
<1>3. \A k \in Nat : k \in T
  <2> HIDE DEF T
  <2> QED BY <1>1, <1>2, Induction
<1> QED BY <1>3

\* A number has the property if all numbers below it have it.
Progressive(S, n) == \A k \in 0..n : (\A j \in 0..n : j < k => j \in S) => k \in S

\* Induction over all smaller numbers.
LEMMA StrongInduction ==
    ASSUME NEW n \in Nat, NEW S, Progressive(S, n)
    PROVE  \A k \in 0..n : k \in S
<1> DEFINE T == (0..n) \ S
<1>1. SUFFICES ASSUME T # {} PROVE FALSE
  OBVIOUS
<1>2. PICK k \in T : \A j \in T : k <= j
  <2>1. T \in SUBSET Nat
    OBVIOUS
  <2> HIDE DEF T
  <2> QED BY <1>1, <2>1, LeastNumber
<1>3. ASSUME NEW j \in 0..n, j < k PROVE j \in S
  <2>1. ~(k <= j)
    BY <1>3
  <2> QED BY <1>2, <2>1
<1> QED BY <1>2, <1>3 DEF Progressive

\* What step computes for d depends on the values below d only.
LooksBelow(step, D, V) ==
    \A d \in D : \A g, h \in [D -> V] :
        (\A e \in D : e < d => g[e] = h[e]) => step[d][g] = step[d][h]

\* A function that step computes from itself.
HasSolution(step, D, V) == \E f \in [D -> V] : \A d \in D : f[d] = step[d][f]

\* What a recursive definition over a finite set of numbers defines: there is
\* a function whose value at d follows from its values below d.
LEMMA RecursiveFunction ==
    ASSUME NEW V, NEW n \in Nat, NEW D \in SUBSET (0..n),
           NEW step \in [D -> [[D -> V] -> V]], NEW v \in V,
           LooksBelow(step, D, V)
    PROVE  HasSolution(step, D, V)
<1> DEFINE S == { m \in Nat : \E f \in [D -> V] : \A d \in D : d < m => f[d] = step[d][f] }
<1>1. 0 \in S
  <2>1. [d \in D |-> v] \in [D -> V]
    OBVIOUS
  <2>2. \A d \in D : ~(d < 0)
    OBVIOUS
  <2> QED BY <2>1, <2>2
<1>2. ASSUME NEW m \in Nat, m \in S PROVE m + 1 \in S
  <2>1. PICK f \in [D -> V] : \A d \in D : d < m => f[d] = step[d][f]
    BY <1>2
  <2>2. CASE m \notin D
    <3>1. ASSUME NEW d \in D PROVE d < m + 1 => d < m
      <4>1. d \in Int /\ d # m
        BY <2>2
      <4> QED BY <4>1
    <3> QED BY <2>1, <3>1
  <2>3. CASE m \in D
    <3> DEFINE h == [f EXCEPT ![m] = step[m][f]]
    <3>1. h \in [D -> V] /\ step[m][f] \in V
      BY <2>3
    <3>2. h[m] = step[m][f] /\ \A d \in D : d # m => h[d] = f[d]
      BY <2>3
    <3> HIDE DEF h
    <3>3. ASSUME NEW d \in D, d < m + 1 PROVE h[d] = step[d][h]
      <4>1. d \in Int /\ \A e \in D : e < d => e # m
        BY <3>3
      <4>2. \A e \in D : e < d => f[e] = h[e]
        BY <3>2, <4>1
      <4>3. step[d][f] = step[d][h]
        BY <3>1, <4>2 DEF LooksBelow
      <4>4. h[d] = step[d][f]
        <5>1. CASE d = m
          BY <3>2, <5>1
        <5>2. CASE d # m
          <6>1. d < m
            BY <3>3, <4>1, <5>2
          <6> QED BY <2>1, <3>2, <5>2, <6>1
        <5> QED BY <5>1, <5>2
      <4> QED BY <4>3, <4>4
    <3> QED BY <3>1, <3>3
  <2> QED BY <2>2, <2>3
<1>3. n + 1 \in S
  <2> HIDE DEF S
  <2>1. \A m \in Nat : m \in S
    BY <1>1, <1>2, Induction
  <2> QED BY <2>1
<1>4. PICK f \in [D -> V] : \A d \in D : d < n + 1 => f[d] = step[d][f]
  BY <1>3
<1>5. \A d \in D : d < n + 1
  OBVIOUS
<1> QED BY <1>4, <1>5 DEF HasSolution

\* A sequence that begins with v and in which each value follows from the one
\* before.
Follows(f, v, next, n) == f[0] = v /\ \A k \in 1..n : f[k] = next[k][f[k - 1]]

\* There is one for every rule.
LEMMA RecursiveSequence ==
    ASSUME NEW V, NEW n \in Nat, NEW v \in V, NEW next \in [1..n -> [V -> V]]
    PROVE  \E f \in [0..n -> V] : Follows(f, v, next, n)
<1> DEFINE D == 0..n
           step == [k \in D |-> [g \in [D -> V] |-> IF k = 0 THEN v ELSE next[k][g[k - 1]]]]
<1>1. \A k \in D : k # 0 => k \in 1..n /\ k - 1 \in D
  OBVIOUS
<1>2. step \in [D -> [[D -> V] -> V]]
  <2>1. ASSUME NEW k \in D, NEW g \in [D -> V]
        PROVE  (IF k = 0 THEN v ELSE next[k][g[k - 1]]) \in V
    BY <1>1
  <2> QED BY <2>1
<1>3. ASSUME NEW d \in D, NEW g \in [D -> V], NEW h \in [D -> V],
             \A e \in D : e < d => g[e] = h[e]
      PROVE  step[d][g] = step[d][h]
  <2>1. d # 0 => g[d - 1] = h[d - 1]
    BY <1>1, <1>3
  <2> QED BY <2>1
<1>4. HasSolution(step, D, V)
  <2>1. D \in SUBSET (0..n)
    OBVIOUS
  <2> HIDE DEF step, D
  <2>2. LooksBelow(step, D, V)
    BY <1>3 DEF LooksBelow
  <2> QED BY <1>2, <2>1, <2>2, RecursiveFunction
<1>5. PICK f \in [D -> V] : \A k \in D : f[k] = step[k][f]
  BY <1>4 DEF HasSolution
<1>6. \A k \in D : step[k][f] = IF k = 0 THEN v ELSE next[k][f[k - 1]]
  OBVIOUS
<1>7. 0 \in D /\ \A k \in 1..n : k \in D /\ k # 0
  OBVIOUS
<1>8. Follows(f, v, next, n)
  <2> HIDE DEF step, D
  <2> QED BY <1>5, <1>6, <1>7 DEF Follows
<1> QED BY <1>8
(***************************************************************************)
(* The same over any set whose elements have a rank.                       *)
(***************************************************************************)
LooksAtLowerRanks(step, D, V, rank) ==
    \A d \in D : \A g, h \in [D -> V] :
        (\A e \in D : rank[e] < rank[d] => g[e] = h[e]) => step[d][g] = step[d][h]

\* f is what step computes, as far as the ranks are less than m.
SolvesBelow(f, m, step, D, rank) == \A d \in D : rank[d] < m => f[d] = step[d][f]

LEMMA RankedFunction ==
    ASSUME NEW V, NEW D, NEW rank \in [D -> Nat], NEW step \in [D -> [[D -> V] -> V]],
           NEW v \in V, LooksAtLowerRanks(step, D, V, rank)
    PROVE  HasSolution(step, D, V)
<1>0. ASSUME NEW g \in [D -> V], NEW h \in [D -> V], NEW l \in Nat,
             SolvesBelow(g, l, step, D, rank), SolvesBelow(h, l, step, D, rank)
      PROVE  \A d \in D : rank[d] < l => g[d] = h[d]
  <2> DEFINE S == { m \in Nat : \A d \in D : rank[d] < m /\ rank[d] < l => g[d] = h[d] }
  <2>1. 0 \in S
    OBVIOUS
  <2>2. ASSUME NEW m \in Nat, m \in S PROVE m + 1 \in S
    <3> SUFFICES ASSUME NEW d \in D, rank[d] < m + 1, rank[d] < l PROVE g[d] = h[d]
      OBVIOUS
    <3>1. \A e \in D : rank[e] < rank[d] => g[e] = h[e]
      BY <2>2
    <3>2. step[d][g] = step[d][h]
      BY <3>1 DEF LooksAtLowerRanks
    <3> QED BY <1>0, <3>2 DEF SolvesBelow
  <2>3. \A m \in Nat : m \in S
    <3> HIDE DEF S
    <3> QED BY <2>1, <2>2, Induction
  <2> QED BY <2>3
<1> DEFINE Solves(f, m) == SolvesBelow(f, m, step, D, rank)
           S == { m \in Nat : \E f \in [D -> V] : Solves(f, m) }
<1>1. 0 \in S
  <2>1. [d \in D |-> v] \in [D -> V] /\ \A d \in D : ~(rank[d] < 0)
    OBVIOUS
  <2> QED BY <2>1 DEF SolvesBelow
<1>2. ASSUME NEW m \in Nat, m \in S PROVE m + 1 \in S
  <2>1. PICK f \in [D -> V] : Solves(f, m)
    BY <1>2
  <2> DEFINE h == [d \in D |-> step[d][f]]
  <2>2. h \in [D -> V] /\ \A d \in D : h[d] = step[d][f]
    OBVIOUS
  <2> HIDE DEF h
  <2>3. ASSUME NEW d \in D, rank[d] < m + 1 PROVE h[d] = step[d][h]
    <3>1. \A e \in D : rank[e] < rank[d] => f[e] = h[e]
      BY <2>1, <2>2, <2>3 DEF SolvesBelow
    <3>2. step[d][f] = step[d][h]
      BY <2>2, <3>1 DEF LooksAtLowerRanks
    <3> QED BY <2>2, <3>2
  <2> QED BY <2>2, <2>3 DEF SolvesBelow
<1>3. \A m \in Nat : \E f \in [D -> V] : Solves(f, m)
  <2> HIDE DEF S, Solves
  <2>1. \A m \in Nat : m \in S
    BY <1>1, <1>2, Induction
  <2> QED BY <2>1 DEF S
<1> DEFINE part == [m \in Nat |-> CHOOSE f \in [D -> V] : Solves(f, m)]
           g == [d \in D |-> part[rank[d] + 1][d]]
<1>4. \A m \in Nat : part[m] \in [D -> V] /\ Solves(part[m], m)
  BY <1>3
<1> HIDE DEF part
<1>5. g \in [D -> V] /\ \A d \in D : g[d] = part[rank[d] + 1][d]
  BY <1>4
<1> HIDE DEF g
<1>6. ASSUME NEW d \in D PROVE g[d] = step[d][g]
  <2> DEFINE f == part[rank[d] + 1]
  <2>1. rank[d] \in Nat /\ f \in [D -> V] /\ Solves(f, rank[d] + 1) /\ g[d] = f[d]
    BY <1>4, <1>5
  <2> HIDE DEF f
  <2>2. f[d] = step[d][f]
    BY <2>1 DEF SolvesBelow
  <2>3. ASSUME NEW e \in D, rank[e] < rank[d] PROVE f[e] = g[e]
    <3>1. PICK h, l : h = part[l] /\ l = rank[e] + 1
      OBVIOUS
    <3>2. l \in Nat /\ h \in [D -> V] /\ Solves(h, l) /\ g[e] = h[e] /\ rank[e] < l
      BY <1>4, <1>5, <3>1
    <3>3. Solves(f, l)
      BY <2>1, <2>3, <3>1 DEF SolvesBelow
    <3>4. \A x \in D : rank[x] < l => f[x] = h[x]
      <4>1. SolvesBelow(f, l, step, D, rank) /\ SolvesBelow(h, l, step, D, rank)
        BY <3>2, <3>3
      <4> QED BY <1>0, <2>1, <3>2, <4>1
    <3> QED BY <3>2, <3>4
  <2>4. step[d][f] = step[d][g]
    BY <1>5, <2>1, <2>3 DEF LooksAtLowerRanks
  <2> QED BY <2>1, <2>2, <2>4
<1> QED BY <1>5, <1>6 DEF HasSolution
=============================================================================
