------------------------- MODULE VTableLayoutProofs -------------------------
(***************************************************************************)
(* Virtual tables for any number of classes, members and bases.  What is   *)
(* said of a class follows, by induction over its primary bases, from what *)
(* is said of its own layout; the invariant says that of every class.      *)
(***************************************************************************)
EXTENDS VTableLayout, Recursion, FiniteSetTheorems

BaseEntry == [base : Nat, virtual : BOOLEAN, offset : {0, 1}, voffset : Nat]
SlotMaps == UNION { [M -> Int] : M \in SUBSET Method }

\* Types of what is kept for each class.
Kept ==
    /\ size \in Seq(Nat) /\ total \in Seq(Nat) /\ primary \in Seq(Nat)
    /\ bases \in Seq(Seq(BaseEntry)) /\ vbases \in Seq(Seq(BaseEntry))
    /\ slot \in Seq(SlotMaps) /\ ivars \in Seq(Seq({"var", "vptr"}))
    /\ Len(total) = Len(size) /\ Len(primary) = Len(size) /\ Len(bases) = Len(size)
    /\ Len(vbases) = Len(size) /\ Len(slot) = Len(size) /\ Len(ivars) = Len(size)

\* The bases of a class are earlier classes, and the one base at offset 0 is
\* the first, whose table is shared.
SharesTable(c) ==
    /\ bases[c] # <<>> /\ bases[c][1].base = primary[c] /\ ~bases[c][1].virtual
    /\ bases[c][1].offset = 0 /\ bases[c][1].voffset = 0
    /\ size[primary[c]] > 0 /\ size[primary[c]] <= size[c]

BasesRight(c) ==
    /\ primary[c] \in 0..(c - 1)
    /\ \A i \in DOMAIN bases[c] : bases[c][i].base \in 1..(c - 1)
    /\ \A i \in DOMAIN vbases[c] : vbases[c][i].base \in 1..(c - 1)
    /\ \A i \in DOMAIN bases[c] :
          ~bases[c][i].virtual /\ bases[c][i].offset = 0 => i = 1 /\ primary[c] # 0
    /\ primary[c] # 0 => SharesTable(c)

\* The tables inside that of a class, and the room that the shared one takes.
TablesRight(c) ==
    /\ size[c] <= total[c]
    /\ \A i \in NonVirtual(c) : TableRange(bases[c][i]) \subseteq 0..(size[c] - 1)
    /\ \A i \in Tabled(vbases[c]) : TableRange(vbases[c][i]) \subseteq size[c]..(total[c] - 1)
    /\ \A i, j \in NonVirtual(c) :
          i # j => TableRange(bases[c][i]) \cap TableRange(bases[c][j]) = {}
    /\ \A i, j \in Tabled(vbases[c]) :
          i # j => TableRange(vbases[c][i]) \cap TableRange(vbases[c][j]) = {}
    /\ primary[c] # 0 => \A i \in NonVirtual(c) : i # 1 => size[primary[c]] <= bases[c][i].voffset

Find(c, m) == FindZeroVirtualBaseMember(c, m)

\* A new slot is behind the tables of the bases, and no other new one has it.
NewSlotRight(c, m) ==
    /\ slot[c][m] \in size[primary[c]]..(size[c] - 1)
    /\ \A i \in NonVirtual(c) : slot[c][m] \notin TableRange(bases[c][i])
    /\ \A k \in DOMAIN slot[c] :
          k # m /\ Find(primary[c], k) = 0 => slot[c][k] # slot[c][m]

SlotsRight(c) ==
    \A m \in DOMAIN slot[c] :
        /\ primary[c] = 0 => slot[c][m] = Unset
        /\ primary[c] # 0 =>
              IF Find(primary[c], m) = 0 THEN NewSlotRight(c, m)
              ELSE slot[c][m] = slot[Find(primary[c], m)][m]

VPtrRight(c) == HasVPtr(c) <=> primary[c] = 0 /\ HasTable(c)

BasesInv == Kept /\ \A c \in Classes : BasesRight(c)

LayoutInv ==
    BasesInv /\ \A c \in Classes : TablesRight(c) /\ SlotsRight(c) /\ VPtrRight(c)

-----------------------------------------------------------------------------
LEMMA ClassNumbers ==
    ASSUME BasesInv
    PROVE  /\ Len(size) \in Nat /\ Classes = 1..Len(size)
           /\ Classes \in SUBSET (0..Len(size)) /\ 0 \in 0..Len(size)
BY DEF BasesInv, Kept, Classes

LEMMA ClassNumber ==
    ASSUME BasesInv, NEW c \in Classes
    PROVE  /\ c \in Nat /\ c > 0 /\ c \in 1..Len(size) /\ c \in 0..Len(size) /\ size[c] \in Nat
           /\ primary[c] \in 0..(c - 1) /\ primary[c] \in Nat /\ primary[c] < c
           /\ primary[c] # 0 => primary[c] \in Classes /\ primary[c] \in 0..Len(size)
<1>1. Len(size) \in Nat /\ Classes = 1..Len(size) /\ size[c] \in Nat
  BY DEF BasesInv, Kept, Classes
<1>2. primary[c] \in 0..(c - 1)
  BY DEF BasesInv, BasesRight
<1> QED BY <1>1, <1>2

\* The same for one class.
LEMMA KeptFor ==
    ASSUME Kept, NEW c \in Classes
    PROVE  /\ size[c] \in Nat /\ total[c] \in Nat /\ primary[c] \in Nat
           /\ bases[c] \in Seq(BaseEntry) /\ vbases[c] \in Seq(BaseEntry)
           /\ slot[c] \in SlotMaps /\ ivars[c] \in Seq({"var", "vptr"})
<1>1. ASSUME NEW S, NEW s \in Seq(S), Len(s) = Len(size)
      PROVE  s[c] \in S
  BY <1>1 DEF Classes
<1>2. size \in Seq(Nat) /\ total \in Seq(Nat) /\ Len(total) = Len(size)
  BY DEF Kept
<1>3. primary \in Seq(Nat) /\ Len(primary) = Len(size)
  BY DEF Kept
<1>4. bases \in Seq(Seq(BaseEntry)) /\ Len(bases) = Len(size)
  BY DEF Kept
<1>5. vbases \in Seq(Seq(BaseEntry)) /\ Len(vbases) = Len(size)
  BY DEF Kept
<1>6. slot \in Seq(SlotMaps) /\ Len(slot) = Len(size)
  BY DEF Kept
<1>7. ivars \in Seq(Seq({"var", "vptr"})) /\ Len(ivars) = Len(size)
  BY DEF Kept
<1> QED BY <1>1, <1>2, <1>3, <1>4, <1>5, <1>6, <1>7

\* The bases in which FindZeroVirtualBaseMember looks: the primary one.
ZeroBases(d) ==
    { i \in DOMAIN bases[d] :
        /\ ~bases[d][i].virtual /\ bases[d][i].offset = 0
        /\ bases[d][i].voffset = 0 /\ HasTable(bases[d][i].base) }

LEMMA OnlyPrimary ==
    ASSUME BasesInv, NEW d \in Classes
    PROVE  /\ ZeroBases(d) = IF primary[d] = 0 THEN {} ELSE {1}
           /\ primary[d] # 0 => bases[d][1].base = primary[d]
<1>1. BasesRight(d) /\ bases[d] \in Seq(BaseEntry)
  BY DEF BasesInv, Kept, Classes
<1>2. CASE primary[d] = 0
  BY <1>1, <1>2 DEF BasesRight, ZeroBases
<1>3. CASE primary[d] # 0
  <2>1. SharesTable(d) /\ 1 \in DOMAIN bases[d]
    BY <1>1, <1>3 DEF BasesRight, SharesTable
  <2>2. 1 \in ZeroBases(d)
    BY <2>1 DEF SharesTable, ZeroBases, HasTable
  <2>3. \A i \in ZeroBases(d) : i = 1
    BY <1>1 DEF BasesRight, ZeroBases
  <2> QED BY <1>3, <2>1, <2>2, <2>3 DEF SharesTable
<1> QED BY <1>2, <1>3

\* What FindZeroVirtualBaseMember computes from its answers for the bases.
Nearest(f, m, d) ==
    IF m \in DOMAIN slot[d] THEN d
    ELSE LET found == { i \in ZeroBases(d) : f[bases[d][i].base] # 0 }
         IN  IF found = {} THEN 0
             ELSE f[bases[d][CHOOSE i \in found : \A j \in found : i <= j].base]

\* Since it looks in one base only, this is:
LEMMA NearestIs ==
    ASSUME BasesInv, NEW d \in Classes, NEW m, NEW f
    PROVE  Nearest(f, m, d) = IF m \in DOMAIN slot[d] THEN d
                              ELSE IF primary[d] = 0 THEN 0 ELSE f[primary[d]]
<1> DEFINE found == { i \in ZeroBases(d) : f[bases[d][i].base] # 0 }
<1>1. CASE primary[d] = 0
  BY <1>1, OnlyPrimary DEF Nearest
<1>2. CASE primary[d] # 0 /\ f[primary[d]] = 0
  <2>1. found = {}
    BY <1>2, OnlyPrimary
  <2> QED BY <1>2, <2>1 DEF Nearest
<1>3. CASE primary[d] # 0 /\ f[primary[d]] # 0
  <2>1. found = {1} /\ bases[d][1].base = primary[d]
    BY <1>3, OnlyPrimary
  <2>2. (CHOOSE i \in found : \A j \in found : i <= j) = 1
    BY <2>1
  <2> HIDE DEF found
  <2>3. (IF found = {} THEN 0
         ELSE f[bases[d][CHOOSE i \in found : \A j \in found : i <= j].base]) = f[primary[d]]
    BY <2>1, <2>2
  <2> QED BY <1>3, <2>3 DEF Nearest, found
<1> QED BY <1>1, <1>2, <1>3
\* FindZeroVirtualBaseMember as a function of the class.
FindFn(m) == CHOOSE f : f = [d \in Classes |-> Nearest(f, m, d)]

LEMMA FindIsFn ==
    ASSUME NEW c, NEW m
    PROVE  Find(c, m) = FindFn(m)[c]
BY DEF Find, FindZeroVirtualBaseMember, FindFn, Nearest, ZeroBases

\* It is the class itself, or what is found in the primary base.
FindRight ==
    \A d \in Classes : \A m :
        /\ Find(d, m) \in 0..Len(size)
        /\ Find(d, m) = IF m \in DOMAIN slot[d] THEN d
                        ELSE IF primary[d] = 0 THEN 0 ELSE Find(primary[d], m)

LEMMA FindExists ==
    ASSUME BasesInv, NEW m
    PROVE  /\ FindFn(m) = [d \in Classes |-> Nearest(FindFn(m), m, d)]
           /\ \A d \in Classes : FindFn(m)[d] \in 0..Len(size)
<1> DEFINE V == 0..Len(size)
           step == [d \in Classes |-> [f \in [Classes -> V] |->
                      IF m \in DOMAIN slot[d] THEN d
                      ELSE IF primary[d] = 0 THEN 0 ELSE f[primary[d]]]]
<1>1. step \in [Classes -> [[Classes -> V] -> V]]
  <2>1. ASSUME NEW d \in Classes, NEW f \in [Classes -> V]
        PROVE  (IF m \in DOMAIN slot[d] THEN d
                ELSE IF primary[d] = 0 THEN 0 ELSE f[primary[d]]) \in V
    <3>1. d \in V /\ 0 \in V
      BY ClassNumbers, ClassNumber
    <3>2. primary[d] # 0 => f[primary[d]] \in V
      BY ClassNumber
    <3> QED BY <3>1, <3>2
  <2> QED BY <2>1
<1>2. LooksBelow(step, Classes, V)
  <2>1. ASSUME NEW d \in Classes, NEW g \in [Classes -> V], NEW h \in [Classes -> V],
               \A e \in Classes : e < d => g[e] = h[e]
        PROVE  step[d][g] = step[d][h]
    <3>1. primary[d] # 0 => g[primary[d]] = h[primary[d]]
      BY <2>1, ClassNumber
    <3> QED BY <3>1
  <2> HIDE DEF step, V
  <2> QED BY <2>1 DEF LooksBelow
<1>3. HasSolution(step, Classes, V)
  <2>1. Len(size) \in Nat /\ Classes \in SUBSET (0..Len(size)) /\ 0 \in V
    BY ClassNumbers
  <2> HIDE DEF step, V
  <2> QED BY <1>1, <1>2, <2>1, RecursiveFunction
<1>4. PICK f \in [Classes -> V] : \A d \in Classes : f[d] = step[d][f]
  BY <1>3 DEF HasSolution
<1>5. \A d \in Classes : step[d][f] = Nearest(f, m, d)
  <2>1. ASSUME NEW d \in Classes PROVE step[d][f] = Nearest(f, m, d)
    <3>1. Nearest(f, m, d) = IF m \in DOMAIN slot[d] THEN d
                              ELSE IF primary[d] = 0 THEN 0 ELSE f[primary[d]]
      BY NearestIs
    <3> QED BY <3>1
  <2> QED BY <2>1
<1>6. f = [d \in Classes |-> Nearest(f, m, d)]
  <2> HIDE DEF step
  <2> QED BY <1>4, <1>5
<1>7. FindFn(m) = [d \in Classes |-> Nearest(FindFn(m), m, d)]
  BY <1>6 DEF FindFn
<1>8. \A d \in Classes : FindFn(m)[d] \in V
  <2> DEFINE F == FindFn(m)
             S == { k \in V : k \in Classes => F[k] \in V }
  <2>1. ASSUME NEW k \in V, \A j \in V : j < k => j \in S, k \in Classes
        PROVE  F[k] \in V
    <3>1. F[k] = IF k \in Classes THEN Nearest(F, m, k) ELSE F[k]
      BY <1>7
    <3>2. F[k] = IF m \in DOMAIN slot[k] THEN k
                 ELSE IF primary[k] = 0 THEN 0 ELSE F[primary[k]]
      <4> HIDE DEF F
      <4> QED BY <2>1, <3>1, NearestIs
    <3>3. primary[k] # 0 => primary[k] \in Classes /\ primary[k] \in V /\ primary[k] < k
      BY <2>1, ClassNumber
    <3>4. primary[k] # 0 => F[primary[k]] \in V
      <4> HIDE DEF F
      <4> QED BY <2>1, <3>3
    <3>5. 0 \in V
      BY ClassNumbers
    <3> HIDE DEF F, V
    <3> QED BY <3>2, <3>4, <3>5
  <2>2. Progressive(S, Len(size))
    <3> HIDE DEF F
    <3> QED BY <2>1 DEF Progressive
  <2>3. \A k \in 0..Len(size) : k \in S
    <3>1. Len(size) \in Nat
      BY ClassNumbers
    <3> HIDE DEF S
    <3> QED BY <2>2, <3>1, StrongInduction
  <2>4. \A d \in Classes : d \in V
    BY ClassNumber
  <2> QED BY <2>3, <2>4
<1> QED BY <1>7, <1>8

LEMMA FindIs == BasesInv => FindRight
<1> SUFFICES ASSUME BasesInv, NEW d \in Classes, NEW m
             PROVE  /\ Find(d, m) \in 0..Len(size)
                    /\ Find(d, m) = IF m \in DOMAIN slot[d] THEN d
                                    ELSE IF primary[d] = 0 THEN 0 ELSE Find(primary[d], m)
  BY DEF FindRight
<1>1. FindFn(m)[d] \in 0..Len(size) /\ FindFn(m)[d] = Nearest(FindFn(m), m, d)
  BY FindExists
<1>2. Nearest(FindFn(m), m, d) = IF m \in DOMAIN slot[d] THEN d
                                 ELSE IF primary[d] = 0 THEN 0 ELSE FindFn(m)[primary[d]]
  BY NearestIs
<1> QED BY <1>1, <1>2, FindIsFn
\* PrimaryChain as a function of the class.
ChainFn ==
    CHOOSE f : f = [d \in 0..Len(size) |-> IF d = 0 THEN {} ELSE {d} \cup f[primary[d]]]

LEMMA ChainIsFn ==
    ASSUME NEW c
    PROVE  PrimaryChain(c) = ChainFn[c]
BY DEF PrimaryChain, ChainFn

\* A chain is the class and the chain of its primary base.
ChainRight ==
    \A d \in Classes :
        /\ PrimaryChain(d) \subseteq Classes
        /\ PrimaryChain(d) = {d} \cup IF primary[d] = 0 THEN {} ELSE PrimaryChain(primary[d])

LEMMA ChainExists ==
    ASSUME BasesInv
    PROVE  /\ ChainFn = [d \in 0..Len(size) |-> IF d = 0 THEN {} ELSE {d} \cup ChainFn[primary[d]]]
           /\ \A d \in 0..Len(size) : ChainFn[d] \subseteq Classes
<1> DEFINE D == 0..Len(size)
           V == SUBSET Classes
           step == [d \in D |-> [f \in [D -> V] |->
                      IF d = 0 THEN {} ELSE {d} \cup f[primary[d]]]]
<1>1. ASSUME NEW d \in D, d # 0
      PROVE  d \in Classes /\ primary[d] \in D /\ primary[d] < d
  <2>1. d \in Classes
    BY <1>1, ClassNumbers
  <2>2. primary[d] \in Nat /\ primary[d] < d /\ d \in 0..Len(size)
    BY <2>1, ClassNumber
  <2> QED BY <2>1, <2>2, ClassNumbers
<1>2. step \in [D -> [[D -> V] -> V]]
  <2>1. ASSUME NEW d \in D, NEW f \in [D -> V]
        PROVE  (IF d = 0 THEN {} ELSE {d} \cup f[primary[d]]) \in V
    <3>1. d # 0 => d \in Classes /\ f[primary[d]] \in V
      BY <1>1
    <3> QED BY <3>1
  <2> QED BY <2>1
<1>3. LooksBelow(step, D, V)
  <2>1. ASSUME NEW d \in D, NEW g \in [D -> V], NEW h \in [D -> V],
               \A e \in D : e < d => g[e] = h[e]
        PROVE  step[d][g] = step[d][h]
    <3>1. d # 0 => g[primary[d]] = h[primary[d]]
      BY <2>1, <1>1
    <3> QED BY <3>1
  <2> HIDE DEF step, V, D
  <2> QED BY <2>1 DEF LooksBelow
<1>4. HasSolution(step, D, V)
  <2>1. Len(size) \in Nat /\ D \in SUBSET (0..Len(size)) /\ {} \in V
    BY ClassNumbers
  <2> HIDE DEF step, V, D
  <2> QED BY <1>2, <1>3, <2>1, RecursiveFunction
<1>5. PICK f \in [D -> V] : \A d \in D : f[d] = step[d][f]
  BY <1>4 DEF HasSolution
<1>6. \A d \in D : step[d][f] = IF d = 0 THEN {} ELSE {d} \cup f[primary[d]]
  OBVIOUS
<1>7. f = [d \in D |-> IF d = 0 THEN {} ELSE {d} \cup f[primary[d]]]
  <2> HIDE DEF step
  <2> QED BY <1>5, <1>6
<1>8. ChainFn = [d \in D |-> IF d = 0 THEN {} ELSE {d} \cup ChainFn[primary[d]]]
  BY <1>7 DEF ChainFn
<1>9. \A d \in D : ChainFn[d] \in V
  <2> DEFINE F == ChainFn
             S == { k \in D : F[k] \in V }
  <2>1. ASSUME NEW k \in D, \A j \in D : j < k => j \in S
        PROVE  F[k] \in V
    <3>1. F[k] = IF k = 0 THEN {} ELSE {k} \cup F[primary[k]]
      BY <1>8
    <3>2. CASE k = 0
      BY <3>1, <3>2
    <3>3. CASE k # 0
      <4>1. k \in Classes /\ F[primary[k]] \in V
        BY <1>1, <2>1, <3>3
      <4> QED BY <3>1, <3>3, <4>1
    <3> QED BY <3>2, <3>3
  <2>2. Progressive(S, Len(size))
    <3> HIDE DEF F
    <3> QED BY <2>1 DEF Progressive
  <2>3. Len(size) \in Nat
    BY ClassNumbers
  <2> HIDE DEF S
  <2>4. \A k \in D : k \in S
    BY <2>2, <2>3, StrongInduction
  <2> QED BY <2>4 DEF S
<1> QED BY <1>8, <1>9

LEMMA ChainIs == BasesInv => ChainRight
<1> SUFFICES ASSUME BasesInv, NEW d \in Classes
             PROVE  /\ PrimaryChain(d) \subseteq Classes
                    /\ PrimaryChain(d) =
                         {d} \cup IF primary[d] = 0 THEN {} ELSE PrimaryChain(primary[d])
  BY DEF ChainRight
<1>1. d \in 0..Len(size) /\ d # 0 /\ primary[d] \in 0..Len(size) /\ 0 \in 0..Len(size)
  BY ClassNumber, ClassNumbers
<1>2. ChainFn[d] = {d} \cup ChainFn[primary[d]] /\ ChainFn[0] = {} /\ ChainFn[d] \subseteq Classes
  BY <1>1, ChainExists
<1> QED BY <1>2, ChainIsFn
-----------------------------------------------------------------------------
\* A class has the property if its primary base has it.
PassedOn(S) == \A c \in Classes : (primary[c] # 0 => primary[c] \in S) => c \in S

LEMMA PrimaryInduction ==
    ASSUME BasesInv, NEW S, PassedOn(S)
    PROVE  Classes \subseteq S
<1> DEFINE T == { k \in 0..Len(size) : k \in Classes => k \in S }
<1>1. ASSUME NEW k \in 0..Len(size), \A j \in 0..Len(size) : j < k => j \in T
      PROVE  k \in T
  <2>1. CASE k \notin Classes
    BY <2>1
  <2>2. CASE k \in Classes
    <3>1. primary[k] # 0 => primary[k] \in S
      BY <1>1, <2>2, ClassNumber
    <3> QED BY <2>2, <3>1 DEF PassedOn
  <2> QED BY <2>1, <2>2
<1>2. Progressive(T, Len(size))
  <2> HIDE DEF T
  <2> QED BY <1>1 DEF Progressive
<1>3. \A k \in 0..Len(size) : k \in T
  <2>1. Len(size) \in Nat
    BY ClassNumbers
  <2> HIDE DEF T
  <2> QED BY <1>2, <2>1, StrongInduction
<1>4. \A c \in Classes : c \in 0..Len(size)
  BY ClassNumber
<1> QED BY <1>3, <1>4

\* The class found is the one in the chain that declares the function; if none
\* is found, no class of the chain declares it.
FoundInChain(c, m) ==
    IF Find(c, m) = 0 THEN \A b \in PrimaryChain(c) : m \notin DOMAIN slot[b]
    ELSE Find(c, m) \in PrimaryChain(c) /\ m \in DOMAIN slot[Find(c, m)]

LEMMA Found ==
    ASSUME BasesInv, NEW c \in Classes, NEW m
    PROVE  FoundInChain(c, m)
<1> DEFINE S == { d \in Classes : FoundInChain(d, m) }
<1>1. ASSUME NEW d \in Classes, primary[d] # 0 => FoundInChain(primary[d], m)
      PROVE  FoundInChain(d, m)
  <2>1. Find(d, m) = IF m \in DOMAIN slot[d] THEN d
                     ELSE IF primary[d] = 0 THEN 0 ELSE Find(primary[d], m)
    BY FindIs DEF FindRight
  <2>2. PrimaryChain(d) = {d} \cup IF primary[d] = 0 THEN {} ELSE PrimaryChain(primary[d])
    BY ChainIs DEF ChainRight
  <2>3. d # 0
    BY ClassNumber
  <2>4. CASE m \in DOMAIN slot[d]
    BY <2>1, <2>2, <2>3, <2>4 DEF FoundInChain
  <2>5. CASE m \notin DOMAIN slot[d] /\ primary[d] = 0
    BY <2>1, <2>2, <2>5 DEF FoundInChain
  <2>6. CASE m \notin DOMAIN slot[d] /\ primary[d] # 0
    BY <1>1, <2>1, <2>2, <2>6 DEF FoundInChain
  <2> QED BY <2>4, <2>5, <2>6
<1>2. PassedOn(S)
  BY <1>1 DEF PassedOn
<1>3. Classes \subseteq S
  <2> HIDE DEF S
  <2> QED BY <1>2, PrimaryInduction
<1> QED BY <1>3

\* The base tables lie apart: the invariant says it of each class.
LEMMA TablesFromLayout ==
    ASSUME LayoutInv
    PROVE  BaseTablesDisjoint
BY DEF LayoutInv, TablesRight, BaseTablesDisjoint

\* One vptr in the chain of each class with a table, none without one.
VPtrs(c) == { b \in PrimaryChain(c) : HasVPtr(b) }

LEMMA VPtrFromLayout ==
    ASSUME LayoutInv
    PROVE  OneVPtrPerChain
<1> DEFINE S == { c \in Classes : Cardinality(VPtrs(c)) = IF HasTable(c) THEN 1 ELSE 0 }
<1>1. ASSUME NEW c \in Classes, primary[c] # 0 => primary[c] \in S
      PROVE  Cardinality(VPtrs(c)) = IF HasTable(c) THEN 1 ELSE 0
  <2>1. BasesInv /\ VPtrRight(c) /\ BasesRight(c)
    BY DEF LayoutInv, BasesInv
  <2>2. PrimaryChain(c) = {c} \cup IF primary[c] = 0 THEN {} ELSE PrimaryChain(primary[c])
    BY <2>1, ChainIs DEF ChainRight
  <2>3. CASE primary[c] = 0 /\ HasTable(c)
    <3>1. VPtrs(c) = {c}
      BY <2>1, <2>2, <2>3 DEF VPtrs, VPtrRight
    <3> QED BY <2>3, <3>1, FS_Singleton
  <2>4. CASE primary[c] = 0 /\ ~HasTable(c)
    <3>1. VPtrs(c) = {}
      BY <2>1, <2>2, <2>4 DEF VPtrs, VPtrRight
    <3> QED BY <2>4, <3>1, FS_EmptySet
  <2>5. CASE primary[c] # 0
    <3>1. VPtrs(c) = VPtrs(primary[c])
      BY <2>1, <2>2, <2>5 DEF VPtrs, VPtrRight
    <3>2. size[primary[c]] > 0 /\ size[primary[c]] <= size[c]
      BY <2>1, <2>5 DEF BasesRight, SharesTable
    <3>3. primary[c] \in Classes /\ size[primary[c]] \in Nat /\ size[c] \in Nat
      BY <2>1, <2>5, ClassNumber
    <3>4. HasTable(primary[c]) /\ HasTable(c)
      BY <3>2, <3>3 DEF HasTable
    <3> QED BY <1>1, <2>5, <3>1, <3>4
  <2> QED BY <2>3, <2>4, <2>5
<1>2. PassedOn(S)
  BY <1>1 DEF PassedOn
<1>3. Classes \subseteq S
  <2>1. BasesInv
    BY DEF LayoutInv
  <2> HIDE DEF S
  <2> QED BY <1>2, <2>1, PrimaryInduction
<1> QED BY <1>3 DEF OneVPtrPerChain, VPtrs
\* What holds of the slots of the classes whose tables begin together: one slot
\* for a signature, one signature for a slot, and all inside the table.
OneSlot(c) ==
    \A a, b \in PrimaryChain(c) : \A m \in DOMAIN slot[a] \cap DOMAIN slot[b] :
        slot[a][m] = slot[b][m]

SlotsInside(c) ==
    \A b \in PrimaryChain(c) : \A m \in DOMAIN slot[b] :
        slot[b][m] \in {Unset} \cup 0..(size[c] - 1)

SlotsApart(c) ==
    \A a, b \in PrimaryChain(c) : \A m \in DOMAIN slot[a], n \in DOMAIN slot[b] :
        slot[a][m] # Unset /\ slot[a][m] = slot[b][n] => m = n

SlotsOfChain(c) == OneSlot(c) /\ SlotsInside(c) /\ SlotsApart(c)

\* A slot that a class adds, and one that it takes over from its primary base.
Added(c, m) ==
    /\ slot[c][m] \in size[primary[c]]..(size[c] - 1)
    /\ \A b \in PrimaryChain(primary[c]) : m \notin DOMAIN slot[b]

TakenOver(c, m) ==
    \E b \in PrimaryChain(primary[c]) : m \in DOMAIN slot[b] /\ slot[c][m] = slot[b][m]

LEMMA AddedOrTakenOver ==
    ASSUME LayoutInv, NEW c \in Classes, primary[c] # 0, NEW m \in DOMAIN slot[c]
    PROVE  /\ Added(c, m) \/ TakenOver(c, m)
           /\ Added(c, m) => NewSlotRight(c, m) /\ Find(primary[c], m) = 0
<1>1. SlotsRight(c) /\ BasesInv
  BY DEF LayoutInv
<1>2. FoundInChain(primary[c], m)
  <2>1. primary[c] \in Classes
    BY <1>1, ClassNumber
  <2> QED BY <1>1, <2>1, Found
<1>3. CASE Find(primary[c], m) = 0
  <2>1. NewSlotRight(c, m)
    BY <1>1, <1>3 DEF SlotsRight
  <2> QED BY <1>2, <1>3, <2>1 DEF NewSlotRight, Added, FoundInChain
<1>4. CASE Find(primary[c], m) # 0
  <2>1. slot[c][m] = slot[Find(primary[c], m)][m]
    BY <1>1, <1>4 DEF SlotsRight
  <2> QED BY <1>2, <1>4, <2>1 DEF TakenOver, Added, FoundInChain
<1> QED BY <1>3, <1>4

\* The slots of a class with a primary base, from those of the base.
LEMMA SlotsPassedOn ==
    ASSUME LayoutInv, NEW c \in Classes, primary[c] # 0, SlotsOfChain(primary[c])
    PROVE  SlotsOfChain(c)
<1> DEFINE p == primary[c]
           C == PrimaryChain(p)
<1>1. BasesInv /\ BasesRight(c)
  BY DEF LayoutInv, BasesInv
<1>2. p \in Classes /\ size[p] \in Nat /\ size[c] \in Nat /\ size[p] <= size[c]
  <2>1. size[p] <= size[c]
    BY <1>1 DEF BasesRight, SharesTable
  <2>2. p \in Classes
    BY <1>1, ClassNumber
  <2> QED BY <1>1, <2>1, <2>2, ClassNumber
<1>3. PrimaryChain(c) = {c} \cup C
  BY <1>1, ChainIs DEF ChainRight
<1>4. OneSlot(p) /\ SlotsInside(p) /\ SlotsApart(p)
  BY DEF SlotsOfChain
<1>5. \A b \in C : \A m \in DOMAIN slot[b] : slot[b][m] \in {Unset} \cup 0..(size[p] - 1)
  BY <1>4 DEF SlotsInside
<1>6. \A m \in DOMAIN slot[c] : Added(c, m) \/ TakenOver(c, m)
  BY AddedOrTakenOver
<1>7. ASSUME NEW b \in C, NEW m \in DOMAIN slot[c] \cap DOMAIN slot[b]
      PROVE  slot[c][m] = slot[b][m]
  <2>1. TakenOver(c, m)
    BY <1>6, <1>7 DEF Added
  <2>2. PICK d \in C : m \in DOMAIN slot[d] /\ slot[c][m] = slot[d][m]
    BY <2>1 DEF TakenOver
  <2> QED BY <1>4, <1>7, <2>2 DEF OneSlot
<1>8. OneSlot(c)
  <2>1. SUFFICES ASSUME NEW a \in {c} \cup C, NEW b \in {c} \cup C,
                        NEW m \in DOMAIN slot[a] \cap DOMAIN slot[b]
                 PROVE  slot[a][m] = slot[b][m]
    BY <1>3 DEF OneSlot
  <2>2. CASE a \in C /\ b \in C
    BY <1>4, <2>2 DEF OneSlot
  <2>3. CASE a = c \/ b = c
    BY <1>7, <2>3
  <2> QED BY <2>2, <2>3
<1>9. SlotsInside(c)
  <2>1. SUFFICES ASSUME NEW b \in {c} \cup C, NEW m \in DOMAIN slot[b]
                 PROVE  slot[b][m] \in {Unset} \cup 0..(size[c] - 1)
    BY <1>3 DEF SlotsInside
  <2>2. ASSUME NEW k \in {Unset} \cup 0..(size[p] - 1) PROVE k \in {Unset} \cup 0..(size[c] - 1)
    BY <1>2, <2>2
  <2>3. CASE b \in C
    BY <1>5, <2>2, <2>3
  <2>4. CASE b = c /\ TakenOver(c, m)
    BY <1>5, <2>2, <2>4 DEF TakenOver
  <2>5. CASE b = c /\ Added(c, m)
    <3>1. slot[b][m] \in size[p]..(size[c] - 1)
      BY <2>5 DEF Added
    <3> QED BY <1>2, <3>1
  <2> QED BY <1>6, <2>3, <2>4, <2>5
\* An added slot is none of those of the base's chain.
<1>10. ASSUME NEW m \in DOMAIN slot[c], Added(c, m), NEW b \in C, NEW n \in DOMAIN slot[b]
       PROVE  slot[c][m] # slot[b][n] /\ slot[c][m] # Unset
  <2>1. slot[c][m] \in size[p]..(size[c] - 1) /\ slot[b][n] \in {Unset} \cup 0..(size[p] - 1)
    BY <1>5, <1>10 DEF Added
  <2> HIDE DEF p
  <2> QED BY <1>2, <2>1 DEF Unset
<1>11. ASSUME NEW m \in DOMAIN slot[c], NEW b \in C, NEW n \in DOMAIN slot[b],
              slot[c][m] # Unset, slot[c][m] = slot[b][n]
       PROVE  m = n
  <2>1. TakenOver(c, m)
    BY <1>6, <1>10, <1>11
  <2>2. PICK d \in C : m \in DOMAIN slot[d] /\ slot[c][m] = slot[d][m]
    BY <2>1 DEF TakenOver
  <2> QED BY <1>4, <1>11, <2>2 DEF SlotsApart
<1>12. ASSUME NEW m \in DOMAIN slot[c], NEW n \in DOMAIN slot[c],
              slot[c][m] # Unset, slot[c][m] = slot[c][n]
       PROVE  m = n
  <2>1. CASE TakenOver(c, n)
    <3>1. PICK d \in C : n \in DOMAIN slot[d] /\ slot[c][n] = slot[d][n]
      BY <2>1 DEF TakenOver
    <3> QED BY <1>11, <1>12, <3>1
  <2>2. CASE TakenOver(c, m)
    <3>1. PICK d \in C : m \in DOMAIN slot[d] /\ slot[c][m] = slot[d][m]
      BY <2>2 DEF TakenOver
    <3> QED BY <1>11, <1>12, <3>1
  <2>3. CASE Added(c, m) /\ Added(c, n)
    <3>1. NewSlotRight(c, m) /\ Find(p, n) = 0
      BY <2>3, AddedOrTakenOver
    <3> QED BY <1>12, <3>1 DEF NewSlotRight
  <2> QED BY <1>6, <2>1, <2>2, <2>3
<1>13. SlotsApart(c)
  <2>1. SUFFICES ASSUME NEW a \in {c} \cup C, NEW b \in {c} \cup C,
                        NEW m \in DOMAIN slot[a], NEW n \in DOMAIN slot[b],
                        slot[a][m] # Unset, slot[a][m] = slot[b][n]
                 PROVE  m = n
    BY <1>3 DEF SlotsApart
  <2>2. CASE a \in C /\ b \in C
    BY <1>4, <2>1, <2>2 DEF SlotsApart
  <2>3. CASE a = c /\ b = c
    BY <1>12, <2>1, <2>3
  <2>4. CASE a = c /\ b \in C
    BY <1>11, <2>1, <2>4
  <2>5. CASE a \in C /\ b = c
    BY <1>11, <2>1, <2>5
  <2> QED BY <2>2, <2>3, <2>4, <2>5
<1> QED BY <1>8, <1>9, <1>13 DEF SlotsOfChain
\* The first class of a chain gives its functions no slots.
LEMMA SlotsOfRoot ==
    ASSUME LayoutInv, NEW c \in Classes, primary[c] = 0
    PROVE  SlotsOfChain(c)
<1>1. BasesInv /\ SlotsRight(c)
  BY DEF LayoutInv
<1>2. PrimaryChain(c) = {c}
  BY <1>1, ChainIs DEF ChainRight
<1>3. \A m \in DOMAIN slot[c] : slot[c][m] = Unset
  BY <1>1 DEF SlotsRight
<1> QED BY <1>2, <1>3 DEF SlotsOfChain, OneSlot, SlotsInside, SlotsApart

LEMMA ChainSlots ==
    ASSUME LayoutInv
    PROVE  \A c \in Classes : SlotsOfChain(c)
<1> DEFINE S == { c \in Classes : SlotsOfChain(c) }
<1>1. ASSUME NEW c \in Classes, primary[c] # 0 => primary[c] \in S
      PROVE  c \in S
  BY <1>1, SlotsOfRoot, SlotsPassedOn
<1>2. PassedOn(S)
  BY <1>1 DEF PassedOn
<1>3. Classes \subseteq S
  <2>1. BasesInv
    BY DEF LayoutInv
  <2> HIDE DEF S
  <2> QED BY <1>2, <2>1, PrimaryInduction
<1> QED BY <1>3

\* Slots agree: what the chains have, and what the invariant says of a class.
LEMMA SlotsFromLayout ==
    ASSUME LayoutInv
    PROVE  SlotsAgree
<1>1. BasesInv /\ Kept
  BY DEF LayoutInv, BasesInv
<1>2. ASSUME NEW c \in Classes
      PROVE  /\ SlotsOfChain(c) /\ c \in PrimaryChain(c)
             /\ TablesRight(c) /\ BasesRight(c) /\ SlotsRight(c)
  BY <1>1, ChainSlots, ChainIs DEF ChainRight, LayoutInv, BasesInv
<1>3. ASSUME NEW c \in Classes
      PROVE  /\ size[c] \in Nat /\ total[c] \in Nat /\ size[c] <= total[c]
             /\ primary[c] \in 0..(c - 1)
             /\ DOMAIN slot[c] \subseteq Method
             /\ \A m \in DOMAIN slot[c] : slot[c][m] \in {Unset} \cup 0..(size[c] - 1)
             /\ \A i \in DOMAIN bases[c] : bases[c][i].base \in 1..(c - 1)
  <2>1. size[c] \in Nat /\ total[c] \in Nat /\ slot[c] \in SlotMaps
    BY <1>1, KeptFor
  <2>2. DOMAIN slot[c] \subseteq Method
    BY <2>1 DEF SlotMaps
  <2>3. SlotsInside(c) /\ c \in PrimaryChain(c) /\ BasesRight(c) /\ size[c] <= total[c]
    BY <1>2 DEF SlotsOfChain, TablesRight
  <2> QED BY <2>1, <2>2, <2>3 DEF SlotsInside, BasesRight
<1>4. TypeOK
  BY <1>1, <1>3 DEF TypeOK, Kept
<1>5. OverrideKeepsSlot
  <2>1. \A c \in Classes : OneSlot(c) /\ c \in PrimaryChain(c)
    BY <1>2 DEF SlotsOfChain
  <2> QED BY <2>1 DEF OverrideKeepsSlot, OneSlot
<1>6. ASSUME NEW c \in Classes, NEW m \in DOMAIN slot[c], slot[c][m] # Unset,
             NEW i \in NonVirtual(c), bases[c][i].base # primary[c]
      PROVE  slot[c][m] \notin TableRange(bases[c][i])
  <2>1. primary[c] # 0
    BY <1>2, <1>6 DEF SlotsRight
  <2>2. CASE Added(c, m)
    <3>1. NewSlotRight(c, m)
      BY <2>1, <2>2, AddedOrTakenOver
    <3> QED BY <3>1 DEF NewSlotRight
  <2>3. CASE TakenOver(c, m)
    <3>1. PICK b \in PrimaryChain(primary[c]) : m \in DOMAIN slot[b] /\ slot[c][m] = slot[b][m]
      BY <2>3 DEF TakenOver
    <3>2. primary[c] \in Classes /\ size[primary[c]] \in Nat
      BY <1>1, <2>1, ClassNumber
    <3>3. SlotsInside(primary[c])
      BY <1>2, <3>2 DEF SlotsOfChain
    <3>4. slot[c][m] \in 0..(size[primary[c]] - 1)
      BY <1>6, <3>1, <3>3 DEF SlotsInside
    <3>5. i # 1
      BY <1>2, <1>6, <2>1 DEF BasesRight, SharesTable
    <3>6. size[primary[c]] <= bases[c][i].voffset
      BY <1>2, <1>6, <2>1, <3>5 DEF TablesRight
    <3>7. bases[c] \in Seq(BaseEntry) /\ i \in DOMAIN bases[c]
      BY <1>1, KeptFor DEF NonVirtual, Tabled
    <3>8. bases[c][i] \in BaseEntry
      BY <3>7
    <3>9. bases[c][i].voffset \in Nat
      BY <3>8 DEF BaseEntry
    <3> QED BY <3>2, <3>4, <3>6, <3>9 DEF TableRange
  <2> QED BY <2>1, <2>2, <2>3, AddedOrTakenOver
<1>7. AssignedSlotsDistinct
  <2>1. ASSUME NEW c \in Classes, NEW m \in DOMAIN slot[c], slot[c][m] # Unset,
               NEW b \in PrimaryChain(c), NEW n \in DOMAIN slot[b], slot[b][n] = slot[c][m]
        PROVE  n = m
    <3>1. SlotsApart(c) /\ c \in PrimaryChain(c)
      BY <1>2 DEF SlotsOfChain
    <3> QED BY <2>1, <3>1 DEF SlotsApart
  <2> QED BY <1>6, <2>1 DEF AssignedSlotsDistinct
<1> QED BY <1>4, <1>5, <1>7 DEF SlotsAgree
-----------------------------------------------------------------------------
\* A list of bases as the caller hands it in: complete classes, at voffset 0.
Listed(list) ==
    /\ list \in Seq(BaseEntry)
    /\ \A i \in 1..Len(list) : list[i].base \in Classes /\ list[i].voffset = 0

LEMMA ListEntry ==
    ASSUME BasesInv, NEW list, Listed(list), NEW i \in 1..Len(list)
    PROVE  /\ list[i] \in BaseEntry /\ list[i].base \in Classes /\ list[i].voffset = 0
           /\ Room(list[i]) \in Nat /\ Len(list) \in Nat
<1>1. list[i] \in BaseEntry /\ list[i].base \in Classes /\ list[i].voffset = 0
  BY DEF Listed
<1>2. size[list[i].base] \in Nat
  BY <1>1, ClassNumber
<1> QED BY <1>1, <1>2 DEF Room, Listed

\* RoomBefore as a function of the number of entries summed up.
SumFn(list) ==
    CHOOSE f : f = [k \in 0..Len(list) |-> IF k = 0 THEN 0 ELSE f[k - 1] + Room(list[k])]

LEMMA SumIsFn ==
    ASSUME NEW list, NEW i
    PROVE  RoomBefore(list, i) = SumFn(list)[i - 1]
BY DEF RoomBefore, SumFn

LEMMA SumIs ==
    ASSUME BasesInv, NEW list, Listed(list)
    PROVE  /\ SumFn(list) \in [0..Len(list) -> Nat] /\ SumFn(list)[0] = 0
           /\ \A k \in 1..Len(list) : SumFn(list)[k] = SumFn(list)[k - 1] + Room(list[k])
<1> DEFINE n == Len(list)
           next == [k \in 1..n |-> [x \in Nat |-> x + Room(list[k])]]
<1>1. n \in Nat
  BY DEF Listed
<1>2. \A k \in 1..n : Room(list[k]) \in Nat
  BY ListEntry
<1>3. next \in [1..n -> [Nat -> Nat]]
  <2> HIDE DEF n
  <2> QED BY <1>2
<1>4. PICK f \in [0..n -> Nat] : Follows(f, 0, next, n)
  <2> HIDE DEF n, next
  <2> QED BY <1>1, <1>3, RecursiveSequence
<1>5. \A k \in 1..n : k - 1 \in 0..n
  BY <1>1
<1>6. f[0] = 0 /\ \A k \in 1..n : f[k] = f[k - 1] + Room(list[k])
  <2>1. ASSUME NEW k \in 1..n PROVE f[k] = f[k - 1] + Room(list[k])
    <3>1. f[k] = next[k][f[k - 1]]
      BY <1>4 DEF Follows
    <3>2. f[k - 1] \in Nat
      BY <1>5
    <3> QED BY <3>1, <3>2
  <2> QED BY <1>4, <2>1 DEF Follows
<1>7. f = [k \in 0..n |-> IF k = 0 THEN 0 ELSE f[k - 1] + Room(list[k])]
  <2>1. \A k \in 0..n : k # 0 => k \in 1..n
    BY <1>1
  <2> HIDE DEF n
  <2> QED BY <1>6, <2>1
<1>8. SumFn(list) = [k \in 0..n |-> IF k = 0 THEN 0 ELSE SumFn(list)[k - 1] + Room(list[k])]
  BY <1>7 DEF SumFn
<1> DEFINE F == SumFn(list)
<1>9. F[0] = 0 /\ \A k \in 1..n : F[k] = F[k - 1] + Room(list[k])
  <2>1. 0 \in 0..n /\ \A k \in 1..n : k \in 0..n /\ k # 0
    BY <1>1
  <2> HIDE DEF F, n
  <2> QED BY <1>8, <2>1 DEF F
<1>10. \A k \in 0..n : F[k] \in Nat
  <2> DEFINE S == { k \in 0..n : F[k] \in Nat }
  <2>1. 0 \in S
    BY <1>1, <1>9
  <2>2. ASSUME NEW k \in 1..n, k - 1 \in S PROVE k \in S
    <3>1. F[k - 1] \in Nat /\ k \in 0..n
      BY <1>1, <2>2
    <3>2. F[k] = F[k - 1] + Room(list[k]) /\ Room(list[k]) \in Nat
      BY <1>2, <1>9
    <3> HIDE DEF F
    <3> QED BY <3>1, <3>2
  <2>3. \A k \in 0..n : k \in S
    <3> HIDE DEF S
    <3> QED BY <1>1, <2>1, <2>2, BoundedInduction
  <2> QED BY <2>3
<1>11. F \in [0..n -> Nat]
  <2>1. F = [k \in 0..n |-> F[k]]
    BY <1>8
  <2> HIDE DEF F
  <2> QED BY <1>10, <2>1
<1> QED BY <1>9, <1>11
\* Sums only grow.
LEMMA SumGrows ==
    ASSUME NEW n \in Nat, NEW f \in [0..n -> Nat], \A k \in 1..n : f[k - 1] <= f[k], NEW i \in 0..n
    PROVE  \A j \in 0..n : i <= j => f[i] <= f[j]
<1> DEFINE S == { j \in 0..n : i <= j => f[i] <= f[j] }
<1>1. 0 \in S
  OBVIOUS
<1>2. ASSUME NEW j \in 1..n, j - 1 \in S PROVE j \in S
  <2>1. f[j - 1] \in Nat /\ f[j] \in Nat /\ f[i] \in Nat /\ f[j - 1] <= f[j] /\ j \in 0..n
    <3>1. j - 1 \in 0..n /\ j \in 0..n
      OBVIOUS
    <3> QED BY <3>1
  <2>2. i <= j - 1 => f[i] <= f[j - 1]
    BY <1>2
  <2>3. i <= j => i <= j - 1 \/ i = j
    OBVIOUS
  <2>4. i <= j => f[i] <= f[j]
    BY <2>1, <2>2, <2>3
  <2> QED BY <2>1, <2>4
<1>3. \A j \in 0..n : j \in S
  <2> HIDE DEF S
  <2> QED BY <1>1, <1>2, BoundedInduction
<1> QED BY <1>3

\* RoomBefore adds up the room of the entries.
LEMMA RoomAddsUp ==
    ASSUME BasesInv, NEW list, Listed(list)
    PROVE  /\ RoomBefore(list, 1) = 0 /\ RoomOf(list) \in Nat
           /\ \A i \in 1..Len(list) :
                 /\ RoomBefore(list, i) \in Nat
                 /\ RoomBefore(list, i) + Room(list[i]) <= RoomOf(list)
           /\ \A i, j \in 1..Len(list) :
                 i < j => RoomBefore(list, i) + Room(list[i]) <= RoomBefore(list, j)
<1> DEFINE n == Len(list)
           F == SumFn(list)
<1>1. n \in Nat
  BY DEF Listed
<1>2. \A k \in 1..n : Room(list[k]) \in Nat
  BY ListEntry
<1>3. F \in [0..n -> Nat] /\ F[0] = 0 /\ \A k \in 1..n : F[k] = F[k - 1] + Room(list[k])
  BY SumIs
<1>4. \A k \in 1..n : F[k - 1] \in Nat /\ F[k] \in Nat /\ k - 1 \in 0..n /\ k \in 0..n
  <2>1. \A k \in 1..n : k - 1 \in 0..n /\ k \in 0..n
    BY <1>1
  <2> HIDE DEF F
  <2> QED BY <1>3, <2>1
<1>5. \A k \in 1..n : F[k - 1] <= F[k]
  <2> HIDE DEF F, n
  <2> QED BY <1>2, <1>3, <1>4
<1>6. ASSUME NEW i \in 0..n, NEW j \in 0..n, i <= j PROVE F[i] <= F[j]
  <2> HIDE DEF F, n
  <2> QED BY <1>1, <1>3, <1>5, <1>6, SumGrows
<1>7. \A i : RoomBefore(list, i) = F[i - 1]
  BY SumIsFn
<1>8. RoomOf(list) = F[n]
  <2>1. RoomOf(list) = F[n + 1 - 1] /\ n + 1 - 1 = n
    BY <1>1, <1>7 DEF RoomOf
  <2> HIDE DEF F, n
  <2> QED BY <2>1
<1>9. RoomBefore(list, 1) = 0
  <2>1. RoomBefore(list, 1) = F[1 - 1] /\ 1 - 1 = 0
    BY <1>7
  <2> HIDE DEF F
  <2> QED BY <1>3, <2>1
<1>10. ASSUME NEW i \in 1..n, NEW j \in 0..n, i <= j
       PROVE  RoomBefore(list, i) + Room(list[i]) <= F[j]
  <2>1. RoomBefore(list, i) + Room(list[i]) = F[i]
    BY <1>3, <1>7
  <2>2. F[i] <= F[j]
    BY <1>4, <1>6, <1>10
  <2> HIDE DEF F
  <2> QED BY <2>1, <2>2
<1>11. \A i \in 1..n : RoomBefore(list, i) + Room(list[i]) <= RoomOf(list)
  <2>1. n \in 0..n /\ \A i \in 1..n : i <= n
    BY <1>1
  <2> HIDE DEF n
  <2> QED BY <1>8, <1>10, <2>1
<1>12. ASSUME NEW i \in 1..n, NEW j \in 1..n, i < j
       PROVE  RoomBefore(list, i) + Room(list[i]) <= RoomBefore(list, j)
  <2>1. j - 1 \in 0..n /\ i <= j - 1
    BY <1>1, <1>12
  <2> HIDE DEF F, n
  <2> QED BY <1>7, <1>10, <2>1
<1>13. RoomOf(list) \in Nat /\ \A i \in 1..n : RoomBefore(list, i) \in Nat
  <2>1. n \in 0..n
    BY <1>1
  <2> HIDE DEF F, n
  <2> QED BY <1>3, <1>4, <1>7, <1>8, <2>1
<1> QED BY <1>9, <1>11, <1>12, <1>13
\* Placed gives voffsets and changes nothing else.
LEMMA PlacedIs ==
    ASSUME BasesInv, NEW list, Listed(list), NEW start \in Nat
    PROVE  /\ Placed(list, start) \in Seq(BaseEntry)
           /\ Len(Placed(list, start)) = Len(list) /\ Len(list) \in Nat
           /\ \A i \in 1..Len(list) :
                 /\ Placed(list, start)[i].base = list[i].base
                 /\ Placed(list, start)[i].virtual = list[i].virtual
                 /\ Placed(list, start)[i].offset = list[i].offset
                 /\ Placed(list, start)[i].voffset \in Nat
                 /\ ~HasTable(list[i].base) => Placed(list, start)[i].voffset = 0
                 /\ HasTable(list[i].base) =>
                       Placed(list, start)[i].voffset = start + RoomBefore(list, i)
<1> DEFINE P == Placed(list, start)
           Value(i) == IF HasTable(list[i].base)
                       THEN [list[i] EXCEPT !.voffset = start + RoomBefore(list, i)]
                       ELSE list[i]
<1>1. P = [i \in 1..Len(list) |-> Value(i)] /\ Len(list) \in Nat
  BY DEF Placed, Listed
<1>2. ASSUME NEW i \in 1..Len(list)
      PROVE  /\ Value(i) \in BaseEntry /\ Value(i).base = list[i].base
             /\ Value(i).virtual = list[i].virtual /\ Value(i).offset = list[i].offset
             /\ ~HasTable(list[i].base) => Value(i).voffset = 0
             /\ HasTable(list[i].base) => Value(i).voffset = start + RoomBefore(list, i)
             /\ Value(i).voffset \in Nat
  <2>1. list[i] \in BaseEntry /\ list[i].voffset = 0
    BY ListEntry
  <2>2. start + RoomBefore(list, i) \in Nat
    <3>1. RoomBefore(list, i) \in Nat
      BY RoomAddsUp
    <3> QED BY <3>1
  <2>3. CASE HasTable(list[i].base)
    BY <2>1, <2>2, <2>3 DEF BaseEntry
  <2>4. CASE ~HasTable(list[i].base)
    BY <2>1, <2>4 DEF BaseEntry
  <2> QED BY <2>3, <2>4
<1> HIDE DEF Value
<1>3. \A i \in 1..Len(list) : P[i] = Value(i)
  BY <1>1
<1>4. P \in Seq(BaseEntry) /\ Len(P) = Len(list)
  BY <1>1, <1>2
<1> HIDE DEF P
<1> QED BY <1>1, <1>2, <1>3, <1>4 DEF P

\* Placed tables lie one behind the other.
LEMMA PlacedApart ==
    ASSUME BasesInv, NEW list, Listed(list), NEW start \in Nat
    PROVE  /\ RoomOf(list) \in Nat
           /\ \A i \in 1..Len(list) : HasTable(list[i].base) =>
                 /\ start <= Placed(list, start)[i].voffset
                 /\ Placed(list, start)[i].voffset + size[list[i].base] <= start + RoomOf(list)
           /\ \A i, j \in 1..Len(list) :
                 i < j /\ HasTable(list[i].base) /\ HasTable(list[j].base) =>
                    Placed(list, start)[i].voffset + size[list[i].base]
                       <= Placed(list, start)[j].voffset
<1>1. \A i \in 1..Len(list) :
          HasTable(list[i].base) => Placed(list, start)[i].voffset = start + RoomBefore(list, i)
  BY PlacedIs
<1>2. \A i \in 1..Len(list) : RoomBefore(list, i) \in Nat /\ Room(list[i]) = size[list[i].base]
                              /\ Room(list[i]) \in Nat
  BY RoomAddsUp, ListEntry DEF Room
<1>3. RoomOf(list) \in Nat
  BY RoomAddsUp
<1>4. \A i \in 1..Len(list) : RoomBefore(list, i) + Room(list[i]) <= RoomOf(list)
  BY RoomAddsUp
<1>5. \A i, j \in 1..Len(list) :
          i < j => RoomBefore(list, i) + Room(list[i]) <= RoomBefore(list, j)
  BY RoomAddsUp
<1>6. ASSUME NEW a \in Nat, NEW r \in Nat, NEW b \in Nat, a + r <= b
      PROVE  start <= start + a /\ start + a + r <= start + b
  BY <1>6
<1>7. ASSUME NEW i \in 1..Len(list), HasTable(list[i].base)
      PROVE  /\ start <= Placed(list, start)[i].voffset
             /\ Placed(list, start)[i].voffset + size[list[i].base] <= start + RoomOf(list)
  BY <1>1, <1>2, <1>3, <1>4, <1>6, <1>7
<1>8. ASSUME NEW i \in 1..Len(list), NEW j \in 1..Len(list), i < j,
             HasTable(list[i].base), HasTable(list[j].base)
      PROVE  Placed(list, start)[i].voffset + size[list[i].base]
                <= Placed(list, start)[j].voffset
  <2>1. RoomBefore(list, i) + Room(list[i]) <= RoomBefore(list, j)
    BY <1>5, <1>8
  <2> QED BY <1>1, <1>2, <1>6, <1>8, <2>1
<1> QED BY <1>3, <1>7, <1>8
\* There is an increasing enumeration of S.
Enumerated(S) ==
    \E s \in [1..Cardinality(S) -> S] : \A i, j \in DOMAIN s : i < j => s[i] < s[j]

LEMMA Extended ==
    ASSUME NEW k \in Nat, NEW S \in SUBSET (1..(k + 1)), k + 1 \in S, Enumerated(S \ {k + 1})
    PROVE  Enumerated(S)
<1> DEFINE T == S \ {k + 1}
           n == Cardinality(T)
<1>1. IsFiniteSet(S) /\ IsFiniteSet(T)
  <2>1. IsFiniteSet(1..(k + 1))
    BY FS_Interval
  <2> QED BY <2>1, FS_Subset
<1>2. n \in Nat /\ Cardinality(S) = n + 1
  <2>1. S = T \cup {k + 1} /\ k + 1 \notin T
    OBVIOUS
  <2>2. Cardinality(T \cup {k + 1}) = Cardinality(T) + 1 /\ Cardinality(T) \in Nat
    BY <1>1, FS_AddElement, FS_CardinalityType
  <2> QED BY <2>1, <2>2
<1>3. PICK s \in [1..n -> T] : \A i, j \in DOMAIN s : i < j => s[i] < s[j]
  BY DEF Enumerated
<1> DEFINE t == [i \in 1..(n + 1) |-> IF i = n + 1 THEN k + 1 ELSE s[i]]
<1>4. \A i \in 1..(n + 1) : i # n + 1 => i \in 1..n
  BY <1>2
<1>5. ASSUME NEW i \in 1..(n + 1) PROVE t[i] \in S
  <2> HIDE DEF n
  <2> QED BY <1>3, <1>4
<1>6. ASSUME NEW i \in 1..(n + 1), NEW j \in 1..(n + 1), i < j
      PROVE  t[i] < t[j]
  <2>1. i \in 1..n
    BY <1>2, <1>6
  <2>2. t[i] = s[i] /\ s[i] \in T
    <3>1. i # n + 1
      BY <1>2, <2>1
    <3> HIDE DEF n
    <3> QED BY <1>3, <2>1, <3>1
  <2>3. CASE j = n + 1
    <3>1. t[j] = k + 1
      BY <2>3
    <3>2. s[i] \in 1..(k + 1) /\ s[i] # k + 1
      BY <2>2
    <3> HIDE DEF t
    <3> QED BY <2>2, <3>1, <3>2
  <2>4. CASE j # n + 1
    <3>1. t[j] = s[j] /\ j \in 1..n
      BY <1>4, <2>4
    <3> HIDE DEF t
    <3> QED BY <1>3, <1>6, <2>1, <2>2, <3>1
  <2> QED BY <2>3, <2>4
<1>7. t \in [1..Cardinality(S) -> S] /\ DOMAIN t = 1..(n + 1)
  BY <1>2, <1>5
<1> HIDE DEF t, n
<1> QED BY <1>6, <1>7 DEF Enumerated

LEMMA EverySetEnumerated ==
    ASSUME NEW n \in Nat, NEW S \in SUBSET (1..n)
    PROVE  Enumerated(S)
<1> DEFINE U == { k \in Nat : \A T \in SUBSET (1..k) : Enumerated(T) }
<1>1. 0 \in U
  <2>1. ASSUME NEW T \in SUBSET (1..0) PROVE Enumerated(T)
    <3>0. T = {}
      OBVIOUS
    <3>1. T = {} /\ Cardinality(T) = 0
      BY <3>0, FS_EmptySet, Zenon
    <3>2. [i \in 1..0 |-> i] \in [1..0 -> {}]
      OBVIOUS
    <3> QED BY <3>1, <3>2 DEF Enumerated
  <2> QED BY <2>1
<1>2. ASSUME NEW k \in Nat, k \in U PROVE k + 1 \in U
  <2>1. ASSUME NEW T \in SUBSET (1..(k + 1)) PROVE Enumerated(T)
    <3>1. CASE k + 1 \in T
      <4>1. T \ {k + 1} \in SUBSET (1..k)
        OBVIOUS
      <4> QED BY <1>2, <3>1, <4>1, Extended
    <3>2. CASE k + 1 \notin T
      <4>1. T \in SUBSET (1..k)
        BY <3>2
      <4> QED BY <1>2, <4>1
    <3> QED BY <3>1, <3>2
  <2> QED BY <2>1
<1>3. \A k \in Nat : k \in U
  <2> HIDE DEF U
  <2> QED BY <1>1, <1>2, Induction
<1> QED BY <1>3

LEMMA InOrderIs ==
    ASSUME BasesInv, NEW S \in SUBSET Classes
    PROVE  InOrder(S) \in [1..Cardinality(S) -> S] /\ Cardinality(S) \in Nat
<1>1. Enumerated(S)
  BY ClassNumbers, EverySetEnumerated
<1>2. InOrder(S) \in [1..Cardinality(S) -> S]
  BY <1>1 DEF Enumerated, InOrder
<1>3. IsFiniteSet(S)
  <2>1. IsFiniteSet(1..Len(size))
    BY ClassNumbers, FS_Interval
  <2> QED BY <2>1, ClassNumbers, FS_Subset
<1> QED BY <1>2, <1>3, FS_CardinalityType
-----------------------------------------------------------------------------
\* One more class is complete.
Appended(bs, vs, p, sl, sz, tot, iv) ==
    /\ bases' = Append(bases, bs) /\ vbases' = Append(vbases, vs)
    /\ primary' = Append(primary, p) /\ slot' = Append(slot, sl)
    /\ size' = Append(size, sz) /\ total' = Append(total, tot) /\ ivars' = Append(ivars, iv)

Typed(bs, vs, p, sl, sz, tot, iv) ==
    /\ bs \in Seq(BaseEntry) /\ vs \in Seq(BaseEntry) /\ p \in Nat /\ sl \in SlotMaps
    /\ sz \in Nat /\ tot \in Nat /\ iv \in Seq({"var", "vptr"})

NewClass == Len(size) + 1

\* What Append does to a sequence.
LEMMA AppendedTo ==
    ASSUME NEW S, NEW s \in Seq(S), NEW x \in S, NEW n, n = Len(s) + 1
    PROVE  /\ Append(s, x) \in Seq(S) /\ Len(Append(s, x)) = n /\ Append(s, x)[n] = x
           /\ \A c \in 1..Len(s) : Append(s, x)[c] = s[c]
OBVIOUS

LEMMA AfterAppend ==
    ASSUME BasesInv, NEW bs, NEW vs, NEW p, NEW sl, NEW sz, NEW tot, NEW iv,
           Typed(bs, vs, p, sl, sz, tot, iv), Appended(bs, vs, p, sl, sz, tot, iv)
    PROVE  /\ Kept' /\ Classes' = Classes \cup {NewClass} /\ NewClass \notin Classes
           /\ NewClass \in Nat /\ \A c \in Classes : c < NewClass
           /\ size'[NewClass] = sz /\ total'[NewClass] = tot /\ primary'[NewClass] = p
           /\ bases'[NewClass] = bs /\ vbases'[NewClass] = vs
           /\ slot'[NewClass] = sl /\ ivars'[NewClass] = iv
           /\ \A c \in Classes :
                 /\ size'[c] = size[c] /\ total'[c] = total[c] /\ primary'[c] = primary[c]
                 /\ bases'[c] = bases[c] /\ vbases'[c] = vbases[c]
                 /\ slot'[c] = slot[c] /\ ivars'[c] = ivars[c]
<1> DEFINE n == NewClass
           After(S, s, t, x) ==
               /\ t \in Seq(S) /\ Len(t) = n /\ t[n] = x
               /\ \A c \in Classes : t[c] = s[c]
<1>1. ASSUME NEW S, NEW s \in Seq(S), Len(s) = Len(size), NEW x \in S, NEW t, t = Append(s, x)
      PROVE  After(S, s, t, x)
  <2>1. n = Len(s) + 1 /\ Classes = 1..Len(s)
    BY <1>1 DEF Classes, NewClass
  <2>2. /\ Append(s, x) \in Seq(S) /\ Len(Append(s, x)) = n /\ Append(s, x)[n] = x
        /\ \A c \in 1..Len(s) : Append(s, x)[c] = s[c]
    <3> HIDE DEF n
    <3> QED BY <2>1, AppendedTo
  <2> QED BY <1>1, <2>1, <2>2
<1>2. Kept
  BY DEF BasesInv
<1> HIDE DEF After
<1>3. After(Nat, size, size', sz)
  BY <1>1, <1>2 DEF Kept, Typed, Appended
<1>4. After(Nat, total, total', tot)
  BY <1>1, <1>2 DEF Kept, Typed, Appended
<1>5. After(Nat, primary, primary', p)
  BY <1>1, <1>2 DEF Kept, Typed, Appended
<1>6. After(Seq(BaseEntry), bases, bases', bs)
  BY <1>1, <1>2 DEF Kept, Typed, Appended
<1>7. After(Seq(BaseEntry), vbases, vbases', vs)
  BY <1>1, <1>2 DEF Kept, Typed, Appended
<1>8. After(SlotMaps, slot, slot', sl)
  BY <1>1, <1>2 DEF Kept, Typed, Appended
<1>9. After(Seq({"var", "vptr"}), ivars, ivars', iv)
  BY <1>1, <1>2 DEF Kept, Typed, Appended
<1>10. ASSUME NEW S, NEW s, NEW t, NEW x, After(S, s, t, x)
       PROVE  t \in Seq(S) /\ Len(t) = n /\ t[n] = x /\ \A c \in Classes : t[c] = s[c]
  BY <1>10 DEF After
<1> HIDE DEF n
<1>11. Kept'
  BY <1>3, <1>4, <1>5, <1>6, <1>7, <1>8, <1>9, <1>10 DEF Kept
<1>12. Classes' = 1..n
  BY <1>3, <1>10 DEF Classes
<1>13. Classes' = Classes \cup {n} /\ n \notin Classes /\ n \in Nat /\ \A c \in Classes : c < n
  <2>1. Classes = 1..Len(size) /\ Len(size) \in Nat /\ n = Len(size) + 1
    BY ClassNumbers DEF n, NewClass
  <2> QED BY <1>12, <2>1
<1> QED BY <1>3, <1>4, <1>5, <1>6, <1>7, <1>8, <1>9, <1>10, <1>11, <1>13 DEF n
\* The invariant's parts for the new class, said of the classes there are.
Own(bs) == { i \in Tabled(bs) : ~bs[i].virtual }

FitsBases(bs, vs, p, sz) ==
    /\ p \in {0} \cup Classes
    /\ \A i \in DOMAIN bs : bs[i].base \in Classes
    /\ \A i \in DOMAIN vs : vs[i].base \in Classes
    /\ \A i \in DOMAIN bs : ~bs[i].virtual /\ bs[i].offset = 0 => i = 1 /\ p # 0
    /\ p # 0 => /\ bs # <<>> /\ bs[1].base = p /\ ~bs[1].virtual
                /\ bs[1].offset = 0 /\ bs[1].voffset = 0
                /\ size[p] > 0 /\ size[p] <= sz

FitsTables(bs, vs, p, sz, tot) ==
    /\ sz <= tot
    /\ \A i \in Own(bs) : TableRange(bs[i]) \subseteq 0..(sz - 1)
    /\ \A i \in Tabled(vs) : TableRange(vs[i]) \subseteq sz..(tot - 1)
    /\ \A i, j \in Own(bs) : i # j => TableRange(bs[i]) \cap TableRange(bs[j]) = {}
    /\ \A i, j \in Tabled(vs) : i # j => TableRange(vs[i]) \cap TableRange(vs[j]) = {}
    /\ p # 0 => \A i \in Own(bs) : i # 1 => size[p] <= bs[i].voffset

FitsSlots(bs, p, sl, sz) ==
    \A m \in DOMAIN sl :
        /\ p = 0 => sl[m] = Unset
        /\ p # 0 /\ Find(p, m) = 0 =>
              /\ sl[m] \in size[p]..(sz - 1)
              /\ \A i \in Own(bs) : sl[m] \notin TableRange(bs[i])
              /\ \A k \in DOMAIN sl : k # m /\ Find(p, k) = 0 => sl[k] # sl[m]
        /\ p # 0 /\ Find(p, m) # 0 => sl[m] = slot[Find(p, m)][m]

FitsVPtr(iv, p, sz) == (\E i \in DOMAIN iv : iv[i] = "vptr") <=> p = 0 /\ sz > 0

LEMMA BasesKept ==
    ASSUME BasesInv, NEW bs, NEW vs, NEW p, NEW sl, NEW sz, NEW tot, NEW iv,
           Typed(bs, vs, p, sl, sz, tot, iv), Appended(bs, vs, p, sl, sz, tot, iv),
           FitsBases(bs, vs, p, sz)
    PROVE  BasesInv'
<1> USE DEF FitsBases
<1>0. PICK n : n = NewClass
  OBVIOUS
<1>1. /\ Kept' /\ Classes' = Classes \cup {n} /\ n \in Nat
      /\ size'[n] = sz /\ primary'[n] = p /\ bases'[n] = bs /\ vbases'[n] = vs
  BY <1>0, AfterAppend
<1>2. ASSUME NEW c \in Classes
      PROVE  /\ size'[c] = size[c] /\ primary'[c] = primary[c] /\ c < n
             /\ bases'[c] = bases[c] /\ vbases'[c] = vbases[c]
  BY <1>0, AfterAppend
<1>3. ASSUME NEW c \in Classes PROVE BasesRight(c)'
  <2>1. BasesRight(c)
    BY DEF BasesInv
  <2>2. primary[c] # 0 => primary[c] \in Classes
    BY ClassNumber
  <2>3. primary[c] # 0 => size'[primary[c]] = size[primary[c]]
    BY <1>2, <2>2
  <2>4. primary[c] # 0 => SharesTable(c)'
    BY <1>2, <2>1, <2>3 DEF SharesTable, BasesRight
  <2> QED BY <1>2, <2>1, <2>4 DEF BasesRight
<1>4. BasesRight(n)'
  <2>1. \A c \in Classes : c \in 1..(n - 1) /\ c # 0
    BY <1>1, <1>2, ClassNumber
  <2>2. p \in 0..(n - 1)
    <3>1. 0 \in 0..(n - 1)
      BY <1>0, <1>1, ClassNumbers DEF NewClass
    <3>2. \A c \in 1..(n - 1) : c \in 0..(n - 1)
      BY <1>1
    <3> QED BY <2>1, <3>1, <3>2
  <2>3. p # 0 => size'[p] = size[p]
    BY <1>2
  <2>4. p # 0 => SharesTable(n)'
    BY <1>1, <2>3 DEF SharesTable
  <2>5. \A i \in DOMAIN bs : bs[i].base \in 1..(n - 1)
    BY <2>1
  <2>6. \A i \in DOMAIN vs : vs[i].base \in 1..(n - 1)
    BY <2>1
  <2> QED BY <1>1, <2>2, <2>4, <2>5, <2>6 DEF BasesRight
<1> QED BY <1>1, <1>3, <1>4 DEF BasesInv

\* What is found in a class does not change.
LEMMA FindKept ==
    ASSUME BasesInv, BasesInv', NEW bs, NEW vs, NEW p, NEW sl, NEW sz, NEW tot, NEW iv,
           Typed(bs, vs, p, sl, sz, tot, iv), Appended(bs, vs, p, sl, sz, tot, iv),
           NEW m
    PROVE  \A c \in Classes : Find(c, m)' = Find(c, m)
<1>1. FindRight /\ FindRight'
  BY FindIs, PTL
<1> DEFINE S == { c \in Classes : Find(c, m)' = Find(c, m) }
<1>2. ASSUME NEW c \in Classes, primary[c] # 0 => primary[c] \in S
      PROVE  c \in S
  <2>1. c \in Classes' /\ primary'[c] = primary[c] /\ slot'[c] = slot[c]
    BY AfterAppend
  <2>2. Find(c, m) = IF m \in DOMAIN slot[c] THEN c
                     ELSE IF primary[c] = 0 THEN 0 ELSE Find(primary[c], m)
    BY <1>1 DEF FindRight
  <2>3. Find(c, m)' = IF m \in DOMAIN slot'[c] THEN c
                      ELSE IF primary'[c] = 0 THEN 0 ELSE Find(primary[c], m)'
    BY <1>1, <2>1 DEF FindRight
  <2> QED BY <1>2, <2>1, <2>2, <2>3
<1>3. PassedOn(S)
  BY <1>2 DEF PassedOn
<1>4. Classes \subseteq S
  <2> HIDE DEF S
  <2> QED BY <1>3, PrimaryInduction
<1> QED BY <1>4
\* Nor do the tables of the classes there are, and so the places in the tables.
EarlierBases(list) == \A i \in DOMAIN list : list[i].base \in Classes

LEMMA PlacesKept ==
    ASSUME BasesInv, NEW bs, NEW vs, NEW p, NEW sl, NEW sz, NEW tot, NEW iv,
           Typed(bs, vs, p, sl, sz, tot, iv), Appended(bs, vs, p, sl, sz, tot, iv),
           NEW list, EarlierBases(list)
    PROVE  /\ Tabled(list)' = Tabled(list) /\ Own(list)' = Own(list)
           /\ \A i \in DOMAIN list : TableRange(list[i])' = TableRange(list[i])
<1>1. \A i \in DOMAIN list : size'[list[i].base] = size[list[i].base]
  <2>1. \A c \in Classes : size'[c] = size[c]
    BY AfterAppend
  <2> QED BY <2>1 DEF EarlierBases
<1>2. Tabled(list)' = Tabled(list)
  BY <1>1 DEF Tabled, HasTable
<1> QED BY <1>1, <1>2 DEF Own, TableRange

\* The tables are right in a class, an earlier one or the new one, for which
\* they fit.
Gets(c, B, W, q, z, t) ==
    /\ bases'[c] = B /\ vbases'[c] = W /\ primary'[c] = q /\ size'[c] = z /\ total'[c] = t

LEMMA TablesCarried ==
    ASSUME BasesInv, NEW bs, NEW vs, NEW p, NEW sl, NEW sz, NEW tot, NEW iv,
           Typed(bs, vs, p, sl, sz, tot, iv), Appended(bs, vs, p, sl, sz, tot, iv),
           NEW c, NEW B, NEW W, NEW q, NEW z, NEW t,
           Gets(c, B, W, q, z, t), EarlierBases(B), EarlierBases(W), q \in {0} \cup Classes,
           FitsTables(B, W, q, z, t)
    PROVE  TablesRight(c)'
<1>1. q # 0 => size'[q] = size[q]
  BY AfterAppend
<1>2. bases'[c] = B /\ vbases'[c] = W /\ primary'[c] = q /\ size'[c] = z /\ total'[c] = t
  BY DEF Gets
<1>3. /\ Own(B)' = Own(B) /\ \A i \in Own(B) : TableRange(B[i])' = TableRange(B[i])
      /\ Tabled(W)' = Tabled(W) /\ \A i \in Tabled(W) : TableRange(W[i])' = TableRange(W[i])
  <2>1. Own(B) \subseteq DOMAIN B /\ Tabled(W) \subseteq DOMAIN W
    BY DEF Own, Tabled
  <2> QED BY <2>1, PlacesKept
<1>4. /\ NonVirtual(c)' = Own(B) /\ \A i \in Own(B) : TableRange(bases[c][i])' = TableRange(B[i])
      /\ Tabled(vbases[c])' = Tabled(W)
      /\ \A i \in Tabled(W) : TableRange(vbases[c][i])' = TableRange(W[i])
  <2>1. \A i \in Own(B) : TableRange(bases[c][i])' = TableRange(B[i])'
    BY <1>2 DEF TableRange
  <2>2. \A i \in Tabled(W) : TableRange(vbases[c][i])' = TableRange(W[i])'
    BY <1>2 DEF TableRange
  <2>3. Tabled(vbases[c])' = Tabled(W)' /\ NonVirtual(c)' = Own(B)'
    BY <1>2 DEF Tabled, NonVirtual, Own
  <2> QED BY <1>3, <2>1, <2>2, <2>3
<1>5. /\ z <= t
      /\ \A i \in Own(B) : TableRange(B[i]) \subseteq 0..(z - 1)
      /\ \A i \in Tabled(W) : TableRange(W[i]) \subseteq z..(t - 1)
  BY DEF FitsTables
<1>6. /\ \A i, j \in Own(B) : i # j => TableRange(B[i]) \cap TableRange(B[j]) = {}
      /\ \A i, j \in Tabled(W) : i # j => TableRange(W[i]) \cap TableRange(W[j]) = {}
  BY DEF FitsTables
<1>7. q # 0 => \A i \in Own(B) : i # 1 => size[q] <= B[i].voffset
  BY DEF FitsTables
<1>8. (size[c] <= total[c])'
  BY <1>2, <1>5
<1>9. (\A i \in NonVirtual(c) : TableRange(bases[c][i]) \subseteq 0..(size[c] - 1))'
  BY <1>2, <1>4, <1>5
<1>10. (\A i \in Tabled(vbases[c]) : TableRange(vbases[c][i]) \subseteq size[c]..(total[c] - 1))'
  BY <1>2, <1>4, <1>5
<1>11. (\A i, j \in NonVirtual(c) :
           i # j => TableRange(bases[c][i]) \cap TableRange(bases[c][j]) = {})'
  BY <1>4, <1>6
<1>12. (\A i, j \in Tabled(vbases[c]) :
           i # j => TableRange(vbases[c][i]) \cap TableRange(vbases[c][j]) = {})'
  BY <1>4, <1>6
<1>13. (primary[c] # 0 =>
           \A i \in NonVirtual(c) : i # 1 => size[primary[c]] <= bases[c][i].voffset)'
  BY <1>1, <1>2, <1>4, <1>7
<1> QED BY <1>8, <1>9, <1>10, <1>11, <1>12, <1>13 DEF TablesRight

LEMMA TablesKept ==
    ASSUME BasesInv, NEW bs, NEW vs, NEW p, NEW sl, NEW sz, NEW tot, NEW iv,
           Typed(bs, vs, p, sl, sz, tot, iv), Appended(bs, vs, p, sl, sz, tot, iv),
           NEW c \in Classes, TablesRight(c)
    PROVE  TablesRight(c)'
<1> DEFINE B == bases[c]
           W == vbases[c]
<1>1. Gets(c, B, W, primary[c], size[c], total[c])
  BY AfterAppend DEF Gets
<1>2. primary[c] \in {0} \cup Classes
  BY ClassNumber
<1>3. EarlierBases(B) /\ EarlierBases(W)
  <2>1. BasesRight(c) /\ \A b \in 1..(c - 1) : b \in Classes
    BY ClassNumbers DEF BasesInv
  <2> QED BY <2>1 DEF BasesRight, EarlierBases
<1>4. FitsTables(B, W, primary[c], size[c], total[c])
  BY DEF TablesRight, FitsTables, NonVirtual, Own
<1> HIDE DEF B, W
<1> QED BY <1>1, <1>2, <1>3, <1>4, TablesCarried

\* The same for the slots.
LEMMA SlotsCarried ==
    ASSUME BasesInv, BasesInv', NEW bs, NEW vs, NEW p, NEW sl, NEW sz, NEW tot, NEW iv,
           Typed(bs, vs, p, sl, sz, tot, iv), Appended(bs, vs, p, sl, sz, tot, iv),
           NEW c, NEW B, NEW q, NEW z, NEW l,
           bases'[c] = B, primary'[c] = q, size'[c] = z, slot'[c] = l,
           EarlierBases(B), q \in {0} \cup Classes, FitsSlots(B, q, l, z)
    PROVE  SlotsRight(c)'
<1>1. q # 0 => q \in Classes /\ size'[q] = size[q]
  BY AfterAppend
<1>2. \A m : q # 0 => Find(q, m)' = Find(q, m)
  BY <1>1, FindKept
<1>3. \A m : Find(primary[c], m)' = Find(q, m)'
  BY DEF Find, FindZeroVirtualBaseMember
<1>4. /\ NonVirtual(c)' = Own(B) /\ \A i \in Own(B) : TableRange(bases[c][i])' = TableRange(B[i])
  <2>1. Own(B)' = Own(B) /\ \A i \in Own(B) : TableRange(B[i])' = TableRange(B[i])
    <3>1. Own(B) \subseteq DOMAIN B
      BY DEF Own, Tabled
    <3> QED BY <3>1, PlacesKept
  <2>2. NonVirtual(c)' = Own(B)' /\ \A i \in Own(B) : TableRange(bases[c][i])' = TableRange(B[i])'
    BY DEF TableRange, NonVirtual, Own
  <2> QED BY <2>1, <2>2
<1>5. ASSUME NEW m \in DOMAIN l, q # 0, Find(q, m) = 0
      PROVE  NewSlotRight(c, m)'
  <2>1. /\ l[m] \in size[q]..(z - 1)
        /\ \A i \in Own(B) : l[m] \notin TableRange(B[i])
        /\ \A k \in DOMAIN l : k # m /\ Find(q, k) = 0 => l[k] # l[m]
    BY <1>5 DEF FitsSlots
  <2>2. \A k : Find(primary[c], k)' = Find(q, k)
    BY <1>2, <1>3, <1>5
  <2> QED BY <1>1, <1>4, <1>5, <2>1, <2>2 DEF NewSlotRight
<1>6. ASSUME NEW m \in DOMAIN l, q # 0, Find(q, m) # 0
      PROVE  slot'[Find(q, m)][m] = slot[Find(q, m)][m]
  <2>1. Find(q, m) \in 0..Len(size)
    BY <1>1, <1>6, FindIs DEF FindRight
  <2>2. Find(q, m) \in Classes
    BY <1>6, <2>1, ClassNumbers
  <2>3. slot'[Find(q, m)] = slot[Find(q, m)]
    BY <2>2, AfterAppend
  <2> QED BY <2>3
<1>7. ASSUME NEW m \in DOMAIN l, q # 0, Find(q, m) # 0
      PROVE  l[m] = slot'[Find(primary[c], m)'][m]
  <2>1. l[m] = slot[Find(q, m)][m]
    BY <1>7 DEF FitsSlots
  <2>2. Find(primary[c], m)' = Find(q, m)
    BY <1>2, <1>3, <1>7
  <2> QED BY <1>6, <1>7, <2>1, <2>2
<1>8. \A m \in DOMAIN l : q = 0 => l[m] = Unset
  BY DEF FitsSlots
<1>9. \A m : q # 0 => Find(primary[c], m)' = Find(q, m)
  BY <1>2, <1>3
<1> QED BY <1>5, <1>7, <1>8, <1>9 DEF SlotsRight

LEMMA SlotsKept ==
    ASSUME BasesInv, BasesInv', NEW bs, NEW vs, NEW p, NEW sl, NEW sz, NEW tot, NEW iv,
           Typed(bs, vs, p, sl, sz, tot, iv), Appended(bs, vs, p, sl, sz, tot, iv),
           NEW c \in Classes, SlotsRight(c)
    PROVE  SlotsRight(c)'
<1> DEFINE B == bases[c]
<1>1. /\ bases'[c] = B /\ primary'[c] = primary[c] /\ size'[c] = size[c]
      /\ slot'[c] = slot[c]
  BY AfterAppend
<1>2. primary[c] \in {0} \cup Classes
  BY ClassNumber
<1>3. EarlierBases(B)
  <2>1. BasesRight(c) /\ \A b \in 1..(c - 1) : b \in Classes
    BY ClassNumbers DEF BasesInv
  <2> QED BY <2>1 DEF BasesRight, EarlierBases
<1>4. FitsSlots(B, primary[c], slot[c], size[c])
  BY DEF SlotsRight, NewSlotRight, FitsSlots, NonVirtual, Own
<1> HIDE DEF B
<1> QED BY <1>1, <1>2, <1>3, <1>4, SlotsCarried
\* A class that fits is one more for which the invariant holds.
Fits(bs, vs, p, sl, sz, tot, iv) ==
    /\ Typed(bs, vs, p, sl, sz, tot, iv) /\ FitsBases(bs, vs, p, sz)
    /\ FitsTables(bs, vs, p, sz, tot) /\ FitsSlots(bs, p, sl, sz) /\ FitsVPtr(iv, p, sz)

LEMMA LayoutKept ==
    ASSUME LayoutInv, NEW bs, NEW vs, NEW p, NEW sl, NEW sz, NEW tot, NEW iv,
           Fits(bs, vs, p, sl, sz, tot, iv), Appended(bs, vs, p, sl, sz, tot, iv)
    PROVE  LayoutInv'
<1>1. /\ Typed(bs, vs, p, sl, sz, tot, iv) /\ FitsBases(bs, vs, p, sz)
      /\ FitsTables(bs, vs, p, sz, tot) /\ FitsSlots(bs, p, sl, sz) /\ FitsVPtr(iv, p, sz)
  BY DEF Fits
<1>2. BasesInv /\ \A c \in Classes : TablesRight(c) /\ SlotsRight(c) /\ VPtrRight(c)
  BY DEF LayoutInv
<1>3. BasesInv'
  BY <1>1, <1>2, BasesKept
<1>4. PICK n : n = NewClass
  OBVIOUS
<1>5. /\ Classes' = Classes \cup {n} /\ size'[n] = sz /\ total'[n] = tot /\ primary'[n] = p
      /\ bases'[n] = bs /\ vbases'[n] = vs /\ slot'[n] = sl /\ ivars'[n] = iv
  BY <1>1, <1>2, <1>4, AfterAppend
<1>6. ASSUME NEW c \in Classes
      PROVE  TablesRight(c)' /\ SlotsRight(c)' /\ VPtrRight(c)'
  <2>1. TablesRight(c)'
    BY <1>1, <1>2, TablesKept
  <2>2. SlotsRight(c)'
    BY <1>1, <1>2, <1>3, SlotsKept
  <2>3. VPtrRight(c)'
    <3>1. ivars'[c] = ivars[c] /\ primary'[c] = primary[c] /\ size'[c] = size[c]
      BY <1>1, <1>2, AfterAppend
    <3>2. VPtrRight(c)
      BY <1>2
    <3> QED BY <3>1, <3>2 DEF VPtrRight, HasVPtr, HasTable
  <2> QED BY <2>1, <2>2, <2>3
<1>7. TablesRight(n)' /\ SlotsRight(n)' /\ VPtrRight(n)'
  <2>1. EarlierBases(bs) /\ EarlierBases(vs) /\ p \in {0} \cup Classes
    BY <1>1 DEF FitsBases, EarlierBases
  <2>2. TablesRight(n)'
    <3>1. Gets(n, bs, vs, p, sz, tot)
      BY <1>5 DEF Gets
    <3> QED BY <1>1, <1>2, <2>1, <3>1, TablesCarried
  <2>3. SlotsRight(n)'
    BY <1>1, <1>2, <1>3, <1>5, <2>1, SlotsCarried
  <2>4. VPtrRight(n)'
    BY <1>1, <1>5 DEF FitsVPtr, VPtrRight, HasVPtr, HasTable
  <2> QED BY <2>2, <2>3, <2>4
<1> QED BY <1>3, <1>5, <1>6, <1>7 DEF LayoutInv
-----------------------------------------------------------------------------
\* The lists that the caller hands in.
NonVirtualList(nonvirtual, shared) ==
    [i \in DOMAIN nonvirtual |->
        Entry(nonvirtual[i], FALSE, IF nonvirtual[i] = shared THEN 0 ELSE 1)]

VirtualList(S) == [i \in 1..Cardinality(S) |-> Entry(InOrder(S)[i], TRUE, 1)]

LEMMA EntryIs ==
    ASSUME NEW b \in Nat, NEW v \in BOOLEAN, NEW o \in {0, 1}
    PROVE  /\ Entry(b, v, o) \in BaseEntry /\ Entry(b, v, o).base = b
           /\ Entry(b, v, o).virtual = v /\ Entry(b, v, o).offset = o
           /\ Entry(b, v, o).voffset = 0
BY DEF Entry, BaseEntry

LEMMA NonVirtualListIs ==
    ASSUME BasesInv, NEW nonvirtual \in Seq(Classes), NEW shared
    PROVE  /\ Listed(NonVirtualList(nonvirtual, shared))
           /\ Len(NonVirtualList(nonvirtual, shared)) = Len(nonvirtual)
           /\ \A i \in 1..Len(nonvirtual) :
                 /\ NonVirtualList(nonvirtual, shared)[i].base = nonvirtual[i]
                 /\ ~NonVirtualList(nonvirtual, shared)[i].virtual
                 /\ NonVirtualList(nonvirtual, shared)[i].offset = 0 <=> nonvirtual[i] = shared
<1> DEFINE L == NonVirtualList(nonvirtual, shared)
           E(i) == Entry(nonvirtual[i], FALSE, IF nonvirtual[i] = shared THEN 0 ELSE 1)
<1>1. L = [i \in 1..Len(nonvirtual) |-> E(i)] /\ Len(nonvirtual) \in Nat
  BY DEF NonVirtualList
<1>2. ASSUME NEW i \in 1..Len(nonvirtual)
      PROVE  /\ E(i) \in BaseEntry /\ E(i).base = nonvirtual[i] /\ E(i).base \in Classes
             /\ E(i).virtual = FALSE /\ E(i).voffset = 0
             /\ (E(i).offset = 0) <=> (nonvirtual[i] = shared)
  <2>1. nonvirtual[i] \in Classes
    OBVIOUS
  <2>2. nonvirtual[i] \in Nat
    BY <2>1, ClassNumber
  <2> DEFINE o == IF nonvirtual[i] = shared THEN 0 ELSE 1
  <2>3. o \in {0, 1} /\ (o = 0 <=> nonvirtual[i] = shared)
    OBVIOUS
  <2> HIDE DEF o
  <2>4. /\ Entry(nonvirtual[i], FALSE, o) \in BaseEntry
        /\ Entry(nonvirtual[i], FALSE, o).base = nonvirtual[i]
        /\ Entry(nonvirtual[i], FALSE, o).virtual = FALSE
        /\ Entry(nonvirtual[i], FALSE, o).offset = o
        /\ Entry(nonvirtual[i], FALSE, o).voffset = 0
    BY <2>2, <2>3, EntryIs
  <2>5. E(i) = Entry(nonvirtual[i], FALSE, o)
    BY DEF o
  <2> HIDE DEF E
  <2> QED BY <2>1, <2>3, <2>4, <2>5
<1> HIDE DEF E
<1>3. \A i \in 1..Len(nonvirtual) : L[i] = E(i)
  BY <1>1
<1>4. L \in Seq(BaseEntry) /\ Len(L) = Len(nonvirtual)
  <2>1. ASSUME NEW n \in Nat, NEW f \in [1..n -> BaseEntry]
        PROVE  f \in Seq(BaseEntry) /\ Len(f) = n
    OBVIOUS
  <2>2. L \in [1..Len(nonvirtual) -> BaseEntry]
    BY <1>1, <1>2
  <2> HIDE DEF L
  <2> QED BY <1>1, <2>1, <2>2
<1> HIDE DEF L
<1>5. Listed(L)
  BY <1>2, <1>3, <1>4 DEF Listed
<1> QED BY <1>2, <1>3, <1>4, <1>5 DEF L

LEMMA VirtualListIs ==
    ASSUME BasesInv, NEW S \in SUBSET Classes
    PROVE  /\ Listed(VirtualList(S))
           /\ \A i \in DOMAIN VirtualList(S) :
                 VirtualList(S)[i].virtual /\ VirtualList(S)[i].base \in S
<1> DEFINE L == VirtualList(S)
           n == Cardinality(S)
           E(i) == Entry(InOrder(S)[i], TRUE, 1)
<1>1. L = [i \in 1..n |-> E(i)] /\ n \in Nat
  BY InOrderIs DEF VirtualList
<1>2. ASSUME NEW i \in 1..n
      PROVE  E(i) \in BaseEntry /\ E(i).base \in S /\ E(i).virtual /\ E(i).voffset = 0
  <2>1. InOrder(S)[i] \in S
    BY InOrderIs
  <2>2. InOrder(S)[i] \in Nat
    BY <2>1, ClassNumber
  <2>3. TRUE \in BOOLEAN /\ 1 \in {0, 1}
    OBVIOUS
  <2>4. /\ E(i) \in BaseEntry /\ E(i).base = InOrder(S)[i]
        /\ E(i).virtual = TRUE /\ E(i).voffset = 0
    BY <2>2, <2>3, EntryIs
  <2> QED BY <2>1, <2>4
<1> HIDE DEF E
<1>3. \A i \in 1..n : L[i] = E(i)
  BY <1>1
<1>4. L \in Seq(BaseEntry) /\ Len(L) = n /\ DOMAIN L = 1..n
  BY <1>1, <1>2
<1> HIDE DEF L, n
<1>5. Listed(L)
  BY <1>2, <1>3, <1>4 DEF Listed
<1> QED BY <1>2, <1>3, <1>4, <1>5 DEF L

\* The virtual bases of a class are among the classes.
AllVirtuals(nonvirtual, virtuals) ==
    LET direct == nonvirtual \o InOrder(virtuals)
    IN  virtuals \cup InheritedVBases({direct[i] : i \in DOMAIN direct})

LEMMA AllVirtualsAre ==
    ASSUME BasesInv, NEW nonvirtual \in Seq(Classes), NEW virtuals \in SUBSET Classes
    PROVE  AllVirtuals(nonvirtual, virtuals) \in SUBSET Classes
<1> DEFINE direct == nonvirtual \o InOrder(virtuals)
           T == {direct[i] : i \in DOMAIN direct}
<1>1. InOrder(virtuals) \in Seq(Classes)
  BY InOrderIs
<1>2. direct \in Seq(Classes)
  BY <1>1
<1>3. T \subseteq Classes
  <2> HIDE DEF direct
  <2> QED BY <1>2
<1>4. \A b \in Classes : \A i \in DOMAIN vbases[b] : vbases[b][i].base \in Classes
  <2>1. ASSUME NEW b \in Classes, NEW i \in DOMAIN vbases[b]
        PROVE  vbases[b][i].base \in Classes
    <3>1. vbases[b][i].base \in 1..(b - 1)
      BY DEF BasesInv, BasesRight
    <3> QED BY <3>1, ClassNumbers
  <2> QED BY <2>1
<1>5. InheritedVBases(T) \subseteq Classes
  <2> HIDE DEF T
  <2> QED BY <1>3, <1>4 DEF InheritedVBases
<1>6. AllVirtuals(nonvirtual, virtuals) = virtuals \cup InheritedVBases(T)
  BY DEF AllVirtuals
<1> QED BY <1>5, <1>6

LEMMA OrdersAre ==
    ASSUME NEW S, NEW s \in Orders(S), IsFiniteSet(S)
    PROVE  s \in Seq(S) /\ \A i, j \in 1..Len(s) : s[i] = s[j] => i = j
<1>1. PICK n \in 0..Cardinality(S) : s \in [1..n -> S] /\ \A i, j \in 1..n : s[i] = s[j] => i = j
  BY DEF Orders
<1>2. n \in Nat
  BY FS_CardinalityType
<1> QED BY <1>1, <1>2
-----------------------------------------------------------------------------
\* The slots of the functions that a class declares.
ObjList == Seq(Method \cup {"var"})
Declared(objlist) == {objlist[k] : k \in Virtuals(objlist)}

LEMMA VirtualsAre ==
    ASSUME NEW objlist \in ObjList
    PROVE  /\ Virtuals(objlist) \subseteq 1..Len(objlist) /\ IsFiniteSet(Virtuals(objlist))
           /\ Declared(objlist) \subseteq Method /\ Len(objlist) \in Nat
<1>1. Len(objlist) \in Nat /\ DOMAIN objlist = 1..Len(objlist)
  BY DEF ObjList
<1>2. Virtuals(objlist) \subseteq 1..Len(objlist)
  BY <1>1 DEF Virtuals
<1>3. IsFiniteSet(Virtuals(objlist))
  <2>1. IsFiniteSet(1..Len(objlist))
    BY <1>1, FS_Interval
  <2> QED BY <1>2, <2>1, FS_Subset
<1>4. Declared(objlist) \subseteq Method
  BY DEF Declared, Virtuals, ObjList
<1> QED BY <1>1, <1>2, <1>3, <1>4

\* A part without one of the elements has fewer.
LEMMA FewerElements ==
    ASSUME NEW T, IsFiniteSet(T), NEW S \in SUBSET T, NEW x \in T, x \notin S
    PROVE  Cardinality(S) \in Nat /\ Cardinality(T) \in Nat /\ Cardinality(S) < Cardinality(T)
<1>1. IsFiniteSet(S) /\ Cardinality(S) <= Cardinality(T) /\ Cardinality(S) # Cardinality(T)
  BY FS_Subset
<1>2. Cardinality(S) \in Nat /\ Cardinality(T) \in Nat
  BY <1>1, FS_CardinalityType
<1> QED BY <1>1, <1>2

\* The new functions before the k-th member; where a function stands.
NewBefore(objlist, shared, k) ==
    { j \in Virtuals(objlist) : j < k /\ IsNew(objlist[j], shared) }
At(objlist, m) == CHOOSE k \in Virtuals(objlist) : objlist[k] = m

LEMMA NewSlotIs ==
    ASSUME NEW objlist \in ObjList, NEW m, NEW shared, NEW start,
           m \in Declared(objlist), IsNew(m, shared)
    PROVE  LET k == At(objlist, m)
           IN  /\ k \in Virtuals(objlist) /\ k \in Nat /\ objlist[k] = m
               /\ IsFiniteSet(NewBefore(objlist, shared, k))
               /\ NewSlot(start, m, objlist, shared)
                     = start + Cardinality(NewBefore(objlist, shared, k))
<1>1. At(objlist, m) \in Virtuals(objlist) /\ objlist[At(objlist, m)] = m
  BY DEF At, Declared
<1>2. At(objlist, m) \in Nat
  BY <1>1, VirtualsAre
<1>3. IsFiniteSet(NewBefore(objlist, shared, At(objlist, m)))
  <2>1. NewBefore(objlist, shared, At(objlist, m)) \in SUBSET Virtuals(objlist)
    BY DEF NewBefore
  <2> QED BY <2>1, VirtualsAre, FS_Subset
<1>4. NewSlot(start, m, objlist, shared)
         = start + Cardinality(NewBefore(objlist, shared, At(objlist, m)))
  BY DEF NewSlot, NewBefore, At
<1> QED BY <1>1, <1>2, <1>3, <1>4

LEMMA NewSlotsAre ==
    ASSUME NEW objlist \in ObjList, NEW shared
    PROVE  NewSlots(objlist, shared) \in Nat
<1> DEFINE N == { k \in Virtuals(objlist) : shared = 0 \/ IsNew(objlist[k], shared) }
<1>1. IsFiniteSet(N)
  <2>1. N \in SUBSET Virtuals(objlist)
    OBVIOUS
  <2> QED BY <2>1, VirtualsAre, FS_Subset
<1> QED BY <1>1, FS_CardinalityType DEF NewSlots

LEMMA NewSlotInside ==
    ASSUME NEW objlist \in ObjList, NEW m, NEW shared, NEW start \in Nat,
           m \in Declared(objlist), IsNew(m, shared),
           NEW z, z = start + NewSlots(objlist, shared)
    PROVE  NewSlot(start, m, objlist, shared) \in start..(z - 1)
<1> DEFINE N == { k \in Virtuals(objlist) : shared = 0 \/ IsNew(objlist[k], shared) }
           k == At(objlist, m)
           B == NewBefore(objlist, shared, k)
<1>1. /\ k \in Virtuals(objlist) /\ k \in Nat /\ objlist[k] = m
      /\ NewSlot(start, m, objlist, shared) = start + Cardinality(B)
  BY NewSlotIs
<1>2. IsFiniteSet(N) /\ NewSlots(objlist, shared) = Cardinality(N)
  <2>1. N \in SUBSET Virtuals(objlist)
    OBVIOUS
  <2> QED BY <2>1, VirtualsAre, FS_Subset DEF NewSlots
<1>3. B \in SUBSET N /\ k \in N /\ k \notin B
  <2>1. ~(k < k)
    BY <1>1
  <2> HIDE DEF k
  <2> QED BY <1>1, <2>1 DEF NewBefore
<1>4. Cardinality(B) \in Nat /\ Cardinality(N) \in Nat /\ Cardinality(B) < Cardinality(N)
  <2> HIDE DEF B, N, k
  <2> QED BY <1>2, <1>3, FewerElements
<1> HIDE DEF B, N, k
<1> QED BY <1>1, <1>2, <1>4

\* Of two new functions the later one has the higher slot.
LEMMA NewSlotsApart ==
    ASSUME NEW objlist \in ObjList, NEW m, NEW n, NEW shared, NEW start \in Nat,
           m \in Declared(objlist), IsNew(m, shared),
           n \in Declared(objlist), IsNew(n, shared), m # n
    PROVE  NewSlot(start, m, objlist, shared) # NewSlot(start, n, objlist, shared)
<1> DEFINE B(k) == NewBefore(objlist, shared, k)
<1>1. ASSUME NEW i \in Virtuals(objlist), NEW j \in Virtuals(objlist), i < j,
             IsFiniteSet(B(j)), IsNew(objlist[i], shared)
      PROVE  /\ Cardinality(B(i)) \in Nat /\ Cardinality(B(j)) \in Nat
             /\ Cardinality(B(i)) < Cardinality(B(j))
  <2>1. \A k \in Virtuals(objlist) : k \in Int
    BY VirtualsAre
  <2>2. B(i) \in SUBSET B(j) /\ i \in B(j) /\ i \notin B(i)
    BY <1>1, <2>1 DEF NewBefore
  <2> HIDE DEF B
  <2> QED BY <1>1, <2>2, FewerElements
<1> DEFINE i == At(objlist, m)
           j == At(objlist, n)
<1>2. /\ i \in Virtuals(objlist) /\ i \in Nat /\ objlist[i] = m /\ IsFiniteSet(B(i))
      /\ NewSlot(start, m, objlist, shared) = start + Cardinality(B(i))
  BY NewSlotIs
<1>3. /\ j \in Virtuals(objlist) /\ j \in Nat /\ objlist[j] = n /\ IsFiniteSet(B(j))
      /\ NewSlot(start, n, objlist, shared) = start + Cardinality(B(j))
  BY NewSlotIs
<1> HIDE DEF i, j
<1>4. i < j \/ j < i
  BY <1>2, <1>3
<1>5. /\ Cardinality(B(i)) \in Nat /\ Cardinality(B(j)) \in Nat
      /\ Cardinality(B(i)) # Cardinality(B(j))
  <2>1. CASE i < j
    <3>1. /\ Cardinality(B(i)) \in Nat /\ Cardinality(B(j)) \in Nat
          /\ Cardinality(B(i)) < Cardinality(B(j))
      <4> HIDE DEF B
      <4> QED BY <1>1, <1>2, <1>3, <2>1
    <3> HIDE DEF B
    <3> QED BY <3>1
  <2>2. CASE j < i
    <3>1. /\ Cardinality(B(i)) \in Nat /\ Cardinality(B(j)) \in Nat
          /\ Cardinality(B(j)) < Cardinality(B(i))
      <4> HIDE DEF B
      <4> QED BY <1>1, <1>2, <1>3, <2>2
    <3> HIDE DEF B
    <3> QED BY <3>1
  <2> QED BY <1>4, <2>1, <2>2
<1> HIDE DEF B
<1> QED BY <1>2, <1>3, <1>5
\* Data members, with and without a vptr among them.
LEMMA DataMembersAre ==
    ASSUME NEW objlist, NEW upTo \in Nat
    PROVE  DataMembers(objlist, upTo) \in Seq({"var"})
<1> DEFINE D == {k \in 1..upTo : objlist[k] = "var"}
<1>1. Cardinality(D) \in Nat
  <2>1. IsFiniteSet(1..upTo)
    BY FS_Interval
  <2>2. IsFiniteSet(D)
    <3>1. D \in SUBSET (1..upTo)
      OBVIOUS
    <3> QED BY <2>1, <3>1, FS_Subset
  <2> QED BY <2>2, FS_CardinalityType
<1>2. DataMembers(objlist, upTo) = [i \in 1..Cardinality(D) |-> "var"]
  BY DEF DataMembers
<1> HIDE DEF D
<1> QED BY <1>1, <1>2

WithVPtr(front, all) == front \o <<"vptr">> \o SubSeq(all, Len(front) + 1, Len(all))

LEMMA WithVPtrIs ==
    ASSUME NEW front \in Seq({"var"}), NEW all \in Seq({"var"})
    PROVE  /\ WithVPtr(front, all) \in Seq({"var", "vptr"})
           /\ \E i \in DOMAIN WithVPtr(front, all) : WithVPtr(front, all)[i] = "vptr"
<1> DEFINE T == {"var", "vptr"}
           rest == SubSeq(all, Len(front) + 1, Len(all))
           head == front \o <<"vptr">>
<1>1. front \in Seq(T) /\ <<"vptr">> \in Seq(T)
  OBVIOUS
<1>2. rest \in Seq(T)
  OBVIOUS
<1>3. head \in Seq(T) /\ Len(head) = Len(front) + 1 /\ head[Len(front) + 1] = "vptr"
  BY <1>1
<1> HIDE DEF rest, head, T
<1>4. /\ head \o rest \in Seq(T) /\ Len(front) + 1 \in DOMAIN (head \o rest)
      /\ (head \o rest)[Len(front) + 1] = head[Len(front) + 1]
  BY <1>2, <1>3
<1>5. WithVPtr(front, all) = head \o rest
  BY DEF WithVPtr, head, rest
<1> QED BY <1>3, <1>4, <1>5 DEF T

\* Direct bases: the non-virtual ones, and after them the virtual ones.
AllVirtual(list) == \A i \in DOMAIN list : list[i].virtual

LEMMA JoinedIs ==
    ASSUME NEW A \in Seq(BaseEntry), NEW V \in Seq(BaseEntry),
           EarlierBases(A), EarlierBases(V), AllVirtual(V)
    PROVE  /\ A \o V \in Seq(BaseEntry) /\ EarlierBases(A \o V)
           /\ \A i \in DOMAIN A : i \in DOMAIN (A \o V) /\ (A \o V)[i] = A[i]
           /\ \A i \in DOMAIN (A \o V) : ~(A \o V)[i].virtual => i \in DOMAIN A
           /\ Own(A \o V) = Own(A)
<1> DEFINE B == A \o V
<1>1. /\ B \in Seq(BaseEntry) /\ Len(A) \in Nat /\ Len(V) \in Nat /\ Len(B) = Len(A) + Len(V)
      /\ DOMAIN B = 1..Len(B) /\ DOMAIN A = 1..Len(A) /\ DOMAIN V = 1..Len(V)
  OBVIOUS
<1>2. \A i \in DOMAIN A : i \in DOMAIN B /\ B[i] = A[i]
  OBVIOUS
<1>3. \A i \in DOMAIN B : i \notin DOMAIN A => i - Len(A) \in DOMAIN V /\ B[i] = V[i - Len(A)]
  OBVIOUS
<1> HIDE DEF B
<1>4. EarlierBases(B)
  BY <1>2, <1>3 DEF EarlierBases
<1>5. \A i \in DOMAIN B : ~B[i].virtual => i \in DOMAIN A
  BY <1>3 DEF AllVirtual
<1>6. Own(B) = Own(A)
  BY <1>2, <1>5 DEF Own, Tabled
<1> QED BY <1>1, <1>2, <1>4, <1>5, <1>6 DEF B
\* The tables of a placed list: inside the room, and apart.
LEMMA PlacedTables ==
    ASSUME BasesInv, NEW list, Listed(list), NEW start \in Nat, NEW P, P = Placed(list, start),
           NEW e, e = start + RoomOf(list)
    PROVE  /\ P \in Seq(BaseEntry) /\ EarlierBases(P) /\ DOMAIN P = 1..Len(list)
           /\ e \in Nat /\ start <= e
           /\ \A i \in Tabled(P) : TableRange(P[i]) \subseteq start..(e - 1)
           /\ \A i, j \in Tabled(P) : i # j => TableRange(P[i]) \cap TableRange(P[j]) = {}
<1>1. /\ P \in Seq(BaseEntry) /\ Len(P) = Len(list) /\ Len(list) \in Nat
  BY PlacedIs
<1>2. DOMAIN P = 1..Len(list)
  BY <1>1
<1>3. ASSUME NEW i \in 1..Len(list)
      PROVE  /\ P[i].base = list[i].base /\ P[i].base \in Classes /\ P[i].voffset \in Nat
             /\ size[P[i].base] \in Nat /\ i \in Nat
  <2>1. P[i].base = list[i].base /\ P[i].voffset \in Nat
    BY PlacedIs
  <2>2. list[i].base \in Classes
    BY ListEntry
  <2> QED BY <2>1, <2>2, ClassNumber
<1>4. EarlierBases(P)
  BY <1>2, <1>3 DEF EarlierBases
<1>5. e \in Nat /\ start <= e
  <2>1. RoomOf(list) \in Nat
    BY RoomAddsUp
  <2> QED BY <2>1
<1>6. \A i \in Tabled(P) : i \in 1..Len(list) /\ HasTable(list[i].base)
  BY <1>2, <1>3 DEF Tabled
<1>7. ASSUME NEW i \in Tabled(P)
      PROVE  TableRange(P[i]) \subseteq start..(e - 1)
  <2>1. /\ start <= Placed(list, start)[i].voffset
        /\ Placed(list, start)[i].voffset + size[list[i].base] <= start + RoomOf(list)
    BY <1>6, PlacedApart
  <2>2. PICK a, b : a = P[i].voffset /\ b = size[P[i].base]
    OBVIOUS
  <2>3. a \in Nat /\ b \in Nat /\ start <= a /\ a + b <= e
    BY <1>3, <1>6, <2>1, <2>2
  <2>4. a..(a + b - 1) \subseteq start..(e - 1)
    BY <1>5, <2>3
  <2>5. TableRange(P[i]) = a..(a + b - 1)
    BY <2>2 DEF TableRange
  <2> QED BY <2>4, <2>5
<1>8. ASSUME NEW i \in Tabled(P), NEW j \in Tabled(P), i < j
      PROVE  TableRange(P[i]) \cap TableRange(P[j]) = {}
  <2>1. i \in 1..Len(list) /\ j \in 1..Len(list)
        /\ HasTable(list[i].base) /\ HasTable(list[j].base)
    BY <1>6
  <2>2. Placed(list, start)[i].voffset + size[list[i].base] <= Placed(list, start)[j].voffset
    BY <1>8, <2>1, PlacedApart
  <2>3. P[i].voffset + size[P[i].base] <= P[j].voffset
    BY <1>3, <2>1, <2>2
  <2>4. ASSUME NEW a \in Nat, NEW b \in Nat, NEW d \in Nat, NEW w \in Nat, a + b <= d
        PROVE  (a..(a + b - 1)) \cap (d..(d + w - 1)) = {}
    BY <2>4
  <2>5. /\ P[i].voffset \in Nat /\ size[P[i].base] \in Nat
        /\ P[j].voffset \in Nat /\ size[P[j].base] \in Nat
    BY <1>3, <2>1
  <2> QED BY <2>3, <2>4, <2>5 DEF TableRange
<1>9. ASSUME NEW i \in Tabled(P), NEW j \in Tabled(P), i # j
      PROVE  TableRange(P[i]) \cap TableRange(P[j]) = {}
  <2>1. i < j \/ j < i
    BY <1>3, <1>6, <1>9
  <2> QED BY <1>8, <2>1
<1> QED BY <1>1, <1>2, <1>4, <1>5, <1>7, <1>9
\* What the caller chooses: its guard in CompleteClass.
Chosen(nonvirtual, virtuals, shared, objlist) ==
    /\ nonvirtual \in Seq(Classes) /\ virtuals \in SUBSET Classes
    /\ \A i, j \in 1..Len(nonvirtual) : nonvirtual[i] = nonvirtual[j] => i = j
    /\ shared \in {0} \cup Classes /\ objlist \in ObjList
    /\ shared # 0 => nonvirtual # <<>> /\ nonvirtual[1] = shared /\ HasTable(shared)

\* Non-virtual bases with their voffsets, or without.
Heads(A, nonvirtual, shared) ==
    /\ A \in Seq(BaseEntry) /\ Len(A) = Len(nonvirtual)
    /\ \A i \in 1..Len(nonvirtual) :
          /\ A[i].base = nonvirtual[i] /\ ~A[i].virtual
          /\ A[i].offset = 0 <=> nonvirtual[i] = shared

LEMMA HeadsAre ==
    ASSUME BasesInv, NEW nonvirtual \in Seq(Classes), NEW shared, NEW start \in Nat
    PROVE  /\ Heads(NonVirtualList(nonvirtual, shared), nonvirtual, shared)
           /\ Heads(Placed(NonVirtualList(nonvirtual, shared), start), nonvirtual, shared)
<1> DEFINE L == NonVirtualList(nonvirtual, shared)
           P == Placed(L, start)
<1>1. /\ Listed(L) /\ Len(L) = Len(nonvirtual)
      /\ \A i \in 1..Len(nonvirtual) :
            L[i].base = nonvirtual[i] /\ ~L[i].virtual /\ (L[i].offset = 0 <=> nonvirtual[i] = shared)
  BY NonVirtualListIs
<1> HIDE DEF L
<1>2. /\ P \in Seq(BaseEntry) /\ Len(P) = Len(L)
      /\ \A i \in 1..Len(L) :
            P[i].base = L[i].base /\ P[i].virtual = L[i].virtual /\ P[i].offset = L[i].offset
  BY <1>1, PlacedIs
<1> HIDE DEF P
<1>3. Heads(L, nonvirtual, shared)
  BY <1>1 DEF Heads, Listed
<1>4. Heads(P, nonvirtual, shared)
  BY <1>1, <1>2 DEF Heads
<1> QED BY <1>3, <1>4 DEF L, P

LEMMA HeadsFit ==
    ASSUME BasesInv, NEW nonvirtual, NEW virtuals, NEW shared, NEW objlist,
           Chosen(nonvirtual, virtuals, shared, objlist),
           NEW A, Heads(A, nonvirtual, shared), NEW V, V = VirtualList(virtuals),
           NEW W \in Seq(BaseEntry), EarlierBases(W), NEW z,
           shared # 0 => size[shared] <= z /\ A[1].voffset = 0
    PROVE  /\ A \o V \in Seq(BaseEntry) /\ EarlierBases(A) /\ EarlierBases(A \o V)
           /\ FitsBases(A \o V, W, shared, z) /\ Own(A \o V) = Own(A)
           /\ \A i \in DOMAIN A : (A \o V)[i] = A[i]
<1> USE DEF Chosen
<1>1. /\ A \in Seq(BaseEntry) /\ DOMAIN A = 1..Len(nonvirtual) /\ Len(nonvirtual) \in Nat
      /\ \A i \in 1..Len(nonvirtual) : nonvirtual[i] \in Classes
  BY DEF Heads
<1>2. EarlierBases(A)
  BY <1>1 DEF EarlierBases, Heads
<1>3. V \in Seq(BaseEntry) /\ EarlierBases(V) /\ AllVirtual(V)
  <2>1. Listed(V) /\ \A i \in DOMAIN V : V[i].virtual /\ V[i].base \in virtuals
    BY VirtualListIs
  <2> QED BY <2>1 DEF Listed, EarlierBases, AllVirtual
<1>4. /\ A \o V \in Seq(BaseEntry) /\ EarlierBases(A \o V)
      /\ \A i \in DOMAIN A : i \in DOMAIN (A \o V) /\ (A \o V)[i] = A[i]
      /\ \A i \in DOMAIN (A \o V) : ~(A \o V)[i].virtual => i \in DOMAIN A
      /\ Own(A \o V) = Own(A)
  BY <1>1, <1>2, <1>3, JoinedIs
<1>5. PICK B : B = A \o V
  OBVIOUS
<1>6. ASSUME NEW i \in DOMAIN B, ~B[i].virtual, B[i].offset = 0
      PROVE  i = 1 /\ shared # 0
  <2>1. i \in 1..Len(nonvirtual) /\ B[i] = A[i]
    BY <1>1, <1>4, <1>5, <1>6
  <2>2. nonvirtual[i] = shared
    BY <1>6, <2>1 DEF Heads
  <2>3. shared # 0
    BY <1>1, <2>1, <2>2, ClassNumber
  <2>4. nonvirtual[1] = shared /\ 1 \in 1..Len(nonvirtual)
    BY <1>1, <2>1, <2>3
  <2> QED BY <2>1, <2>2, <2>3, <2>4
<1>7. ASSUME shared # 0
      PROVE  /\ B # <<>> /\ B[1].base = shared /\ ~B[1].virtual
             /\ B[1].offset = 0 /\ B[1].voffset = 0
             /\ size[shared] > 0 /\ size[shared] <= z
  <2>1. 1 \in 1..Len(nonvirtual) /\ nonvirtual[1] = shared /\ HasTable(shared)
    BY <1>1, <1>7
  <2>2. 1 \in DOMAIN B /\ B[1] = A[1]
    BY <1>1, <1>4, <1>5, <2>1
  <2> QED BY <1>7, <2>1, <2>2 DEF Heads, HasTable
<1>8. FitsBases(B, W, shared, z)
  BY <1>4, <1>5, <1>6, <1>7 DEF FitsBases, EarlierBases
<1> QED BY <1>2, <1>4, <1>5, <1>8
\* The table of the new class: A are its placed non-virtual bases from hdr on, W
\* the virtual ones from the end of the table.
Laid(nonvirtual, virtuals, shared, objlist, hdr, A, own, z, vlist, W, tot) ==
    /\ hdr \in Nat /\ (shared # 0 => hdr = 0)
    /\ A = Placed(NonVirtualList(nonvirtual, shared), hdr)
    /\ own = hdr + RoomOf(NonVirtualList(nonvirtual, shared))
    /\ z = own + NewSlots(objlist, shared)
    /\ Listed(vlist) /\ W = Placed(vlist, z) /\ tot = z + RoomOf(vlist)

LEMMA LaidNumbers ==
    ASSUME BasesInv, NEW nonvirtual, NEW virtuals, NEW shared, NEW objlist,
           Chosen(nonvirtual, virtuals, shared, objlist),
           NEW hdr, NEW A, NEW own, NEW z, NEW vlist, NEW W, NEW tot,
           Laid(nonvirtual, virtuals, shared, objlist, hdr, A, own, z, vlist, W, tot)
    PROVE  /\ hdr \in Nat /\ own \in Nat /\ z \in Nat /\ tot \in Nat
           /\ hdr <= own /\ own <= z /\ z <= tot
           /\ A \in Seq(BaseEntry) /\ W \in Seq(BaseEntry) /\ EarlierBases(W)
           /\ \A i \in Tabled(A) : TableRange(A[i]) \subseteq hdr..(own - 1)
           /\ \A i, j \in Tabled(A) : i # j => TableRange(A[i]) \cap TableRange(A[j]) = {}
           /\ \A i \in Tabled(W) : TableRange(W[i]) \subseteq z..(tot - 1)
           /\ \A i, j \in Tabled(W) : i # j => TableRange(W[i]) \cap TableRange(W[j]) = {}
<1> DEFINE L == NonVirtualList(nonvirtual, shared)
<1>1. Listed(L)
  BY NonVirtualListIs DEF Chosen
<1>2. /\ hdr \in Nat /\ A = Placed(L, hdr) /\ own = hdr + RoomOf(L)
      /\ z = own + NewSlots(objlist, shared)
      /\ Listed(vlist) /\ W = Placed(vlist, z) /\ tot = z + RoomOf(vlist)
  BY DEF Laid
<1> HIDE DEF L
<1>3. /\ A \in Seq(BaseEntry) /\ own \in Nat /\ hdr <= own
      /\ \A i \in Tabled(A) : TableRange(A[i]) \subseteq hdr..(own - 1)
      /\ \A i, j \in Tabled(A) : i # j => TableRange(A[i]) \cap TableRange(A[j]) = {}
  BY <1>1, <1>2, PlacedTables
<1>4. z \in Nat /\ own <= z
  <2>1. NewSlots(objlist, shared) \in Nat
    BY NewSlotsAre DEF Chosen
  <2> QED BY <1>2, <1>3, <2>1
<1>5. /\ W \in Seq(BaseEntry) /\ EarlierBases(W) /\ tot \in Nat /\ z <= tot
      /\ \A i \in Tabled(W) : TableRange(W[i]) \subseteq z..(tot - 1)
      /\ \A i, j \in Tabled(W) : i # j => TableRange(W[i]) \cap TableRange(W[j]) = {}
  <2>1. z \in Nat /\ Listed(vlist) /\ W = Placed(vlist, z) /\ tot = z + RoomOf(vlist)
    BY <1>2, <1>4
  <2> QED BY <2>1, PlacedTables
<1> QED BY <1>2, <1>3, <1>4, <1>5

\* With a shared table the first base has it, and the others lie behind it.
LEMMA SharedFirst ==
    ASSUME BasesInv, NEW nonvirtual, NEW virtuals, NEW shared, NEW objlist,
           Chosen(nonvirtual, virtuals, shared, objlist), shared # 0,
           NEW A, NEW own,
           A = Placed(NonVirtualList(nonvirtual, shared), 0),
           own = 0 + RoomOf(NonVirtualList(nonvirtual, shared))
    PROVE  /\ A[1].voffset = 0 /\ size[shared] <= own /\ size[shared] \in Nat
           /\ \A i \in Tabled(A) : i # 1 => size[shared] <= A[i].voffset
<1> DEFINE L == NonVirtualList(nonvirtual, shared)
<1>1. /\ Listed(L) /\ Len(L) = Len(nonvirtual) /\ Len(L) \in Nat
      /\ \A i \in 1..Len(nonvirtual) : L[i].base = nonvirtual[i]
  BY NonVirtualListIs DEF Chosen, Listed
<1>2. 1 \in 1..Len(L) /\ L[1].base = shared /\ HasTable(shared) /\ shared \in Classes
  <2>1. nonvirtual \in Seq(Classes) /\ nonvirtual # <<>> /\ nonvirtual[1] = shared
        /\ HasTable(shared) /\ shared \in Classes
    BY DEF Chosen
  <2>2. 1 \in 1..Len(nonvirtual)
    BY <2>1
  <2> QED BY <1>1, <2>1, <2>2
<1> HIDE DEF L
<1>3. A = Placed(L, 0) /\ own = 0 + RoomOf(L)
  BY DEF L
<1>4. RoomBefore(L, 1) = 0 /\ RoomOf(L) \in Nat /\ RoomBefore(L, 1) + Room(L[1]) <= RoomOf(L)
  BY <1>1, <1>2, RoomAddsUp
<1>5. size[shared] \in Nat /\ Room(L[1]) = size[shared]
  BY <1>2, ClassNumber DEF Room
<1>6. A[1].voffset = 0 + RoomBefore(L, 1)
  BY <1>1, <1>2, <1>3, PlacedIs
<1>7. A[1].voffset = 0 /\ size[shared] <= own
  BY <1>3, <1>4, <1>5, <1>6
<1>8. ASSUME NEW i \in Tabled(A), i # 1 PROVE size[shared] <= A[i].voffset
  <2>1. A \in Seq(BaseEntry) /\ DOMAIN A = 1..Len(L)
    BY <1>1, <1>3, PlacedIs
  <2>2. i \in 1..Len(L) /\ 1 < i
    BY <1>8, <2>1 DEF Tabled
  <2>3. A[i].base = L[i].base /\ A[i].voffset \in Nat
    BY <1>1, <1>3, <2>2, PlacedIs
  <2>4. HasTable(L[i].base) /\ HasTable(L[1].base)
    BY <1>2, <2>3 DEF Tabled
  <2>5. Placed(L, 0)[1].voffset + size[L[1].base] <= Placed(L, 0)[i].voffset
    BY <1>1, <1>2, <2>2, <2>4, PlacedApart
  <2>6. 0 + size[shared] <= A[i].voffset
    BY <1>2, <1>3, <1>7, <2>5
  <2> QED BY <1>5, <2>3, <2>6
<1> QED BY <1>5, <1>7, <1>8
Joined(A, virtuals, B) == B = A \o VirtualList(virtuals)

LEMMA LaidFits ==
    ASSUME BasesInv, NEW nonvirtual, NEW virtuals, NEW shared, NEW objlist,
           Chosen(nonvirtual, virtuals, shared, objlist),
           NEW hdr, NEW A, NEW own, NEW z, NEW vlist, NEW W, NEW tot,
           Laid(nonvirtual, virtuals, shared, objlist, hdr, A, own, z, vlist, W, tot),
           NEW B, Joined(A, virtuals, B)
    PROVE  /\ FitsBases(B, W, shared, z) /\ FitsTables(B, W, shared, z, tot)
           /\ \A i \in Own(B) : i \in Tabled(A) /\ B[i] = A[i]
<1> DEFINE V == VirtualList(virtuals)
<1>1. /\ hdr \in Nat /\ own \in Nat /\ z \in Nat /\ tot \in Nat
      /\ hdr <= own /\ own <= z /\ z <= tot
      /\ A \in Seq(BaseEntry) /\ W \in Seq(BaseEntry) /\ EarlierBases(W)
  BY LaidNumbers
<1>2. /\ \A i \in Tabled(A) : TableRange(A[i]) \subseteq hdr..(own - 1)
      /\ \A i, j \in Tabled(A) : i # j => TableRange(A[i]) \cap TableRange(A[j]) = {}
  BY LaidNumbers
<1>3. /\ \A i \in Tabled(W) : TableRange(W[i]) \subseteq z..(tot - 1)
      /\ \A i, j \in Tabled(W) : i # j => TableRange(W[i]) \cap TableRange(W[j]) = {}
  BY LaidNumbers
<1>4. shared # 0 =>
         /\ A[1].voffset = 0 /\ size[shared] <= own /\ size[shared] \in Nat
         /\ \A i \in Tabled(A) : i # 1 => size[shared] <= A[i].voffset
  <2>1. ASSUME shared # 0
        PROVE  /\ A = Placed(NonVirtualList(nonvirtual, shared), 0)
               /\ own = 0 + RoomOf(NonVirtualList(nonvirtual, shared))
    BY <2>1 DEF Laid
  <2> QED BY <2>1, SharedFirst
<1>5. shared # 0 => size[shared] <= z /\ A[1].voffset = 0
  BY <1>1, <1>4
<1>6. Heads(A, nonvirtual, shared)
  BY HeadsAre DEF Chosen, Laid
<1>7. /\ EarlierBases(A) /\ FitsBases(B, W, shared, z) /\ Own(B) = Own(A)
      /\ \A i \in DOMAIN A : B[i] = A[i]
  <2> HIDE DEF V
  <2>1. V = VirtualList(virtuals) /\ B = A \o V
    BY DEF V, Joined
  <2> QED BY <1>1, <1>5, <1>6, <2>1, HeadsFit
<1>8. \A i \in Own(B) : i \in Tabled(A) /\ B[i] = A[i]
  <2>1. \A i \in Own(A) : i \in Tabled(A) /\ i \in DOMAIN A
    BY DEF Own, Tabled
  <2> QED BY <1>7, <2>1
<1>9. \A i \in Own(B) : TableRange(B[i]) \subseteq 0..(z - 1)
  <2>1. hdr..(own - 1) \subseteq 0..(z - 1)
    BY <1>1
  <2> QED BY <1>2, <1>8, <2>1
<1>10. \A i, j \in Own(B) : i # j => TableRange(B[i]) \cap TableRange(B[j]) = {}
  BY <1>2, <1>8
<1>11. shared # 0 => \A i \in Own(B) : i # 1 => size[shared] <= B[i].voffset
  BY <1>4, <1>8
<1>12. FitsTables(B, W, shared, z, tot)
  BY <1>1, <1>3, <1>9, <1>10, <1>11 DEF FitsTables
<1> QED BY <1>7, <1>8, <1>12

LEMMA LaidSlotsFit ==
    ASSUME BasesInv, NEW nonvirtual, NEW virtuals, NEW shared, NEW objlist,
           Chosen(nonvirtual, virtuals, shared, objlist),
           NEW hdr, NEW A, NEW own, NEW z, NEW vlist, NEW W, NEW tot,
           Laid(nonvirtual, virtuals, shared, objlist, hdr, A, own, z, vlist, W, tot),
           NEW B, Joined(A, virtuals, B),
           NEW l, l = MethodSlots(own, objlist, shared)
    PROVE  FitsSlots(B, shared, l, z) /\ l \in SlotMaps
<1> DEFINE M == Declared(objlist)
<1>1. own \in Nat /\ z \in Nat /\ own <= z
  BY LaidNumbers
<1>11. z = own + NewSlots(objlist, shared) /\ objlist \in ObjList
  BY DEF Laid, Chosen
<1>2. \A i \in Own(B) : TableRange(B[i]) \subseteq hdr..(own - 1)
  <2>1. \A i \in Tabled(A) : TableRange(A[i]) \subseteq hdr..(own - 1)
    BY LaidNumbers
  <2>2. \A i \in Own(B) : i \in Tabled(A) /\ B[i] = A[i]
    BY LaidFits
  <2> QED BY <2>1, <2>2
<1>3. DOMAIN l = M /\ \A m \in M :
         l[m] = IF shared = 0 THEN Unset
                ELSE IF IsNew(m, shared) THEN NewSlot(own, m, objlist, shared)
                ELSE slot[FindZeroVirtualBaseMember(shared, m)][m]
  BY DEF MethodSlots, Declared
<1>4. M \subseteq Method
  BY <1>11, VirtualsAre
<1>5. shared # 0 => size[shared] <= own /\ size[shared] \in Nat
  <2>1. ASSUME shared # 0
        PROVE  size[shared] <= own /\ size[shared] \in Nat
    <3>1. /\ A = Placed(NonVirtualList(nonvirtual, shared), 0)
          /\ own = 0 + RoomOf(NonVirtualList(nonvirtual, shared))
      BY <2>1 DEF Laid
    <3> QED BY <2>1, <3>1, SharedFirst
  <2> QED BY <2>1
<1>6. ASSUME NEW m \in M, shared # 0, Find(shared, m) = 0
      PROVE  /\ IsNew(m, shared) /\ l[m] = NewSlot(own, m, objlist, shared)
             /\ l[m] \in own..(z - 1)
  <2>1. IsNew(m, shared)
    BY <1>6 DEF IsNew, Find
  <2>2. l[m] = NewSlot(own, m, objlist, shared)
    BY <1>3, <1>6, <2>1
  <2>3. NewSlot(own, m, objlist, shared) \in own..(z - 1)
    BY <1>1, <1>11, <2>1, NewSlotInside
  <2>4. l[m] \in own..(z - 1)
    BY <2>2, <2>3
  <2> QED BY <2>1, <2>2, <2>4
<1>7. ASSUME NEW m \in M, shared # 0, Find(shared, m) # 0
      PROVE  l[m] = slot[Find(shared, m)][m] /\ l[m] \in Int
  <2>1. l[m] = slot[Find(shared, m)][m]
    BY <1>3, <1>7 DEF IsNew, Find
  <2>2. shared \in Classes
    BY <1>7 DEF Chosen
  <2>3. m \in DOMAIN slot[Find(shared, m)] /\ Find(shared, m) \in PrimaryChain(shared)
    BY <1>7, <2>2, Found DEF FoundInChain
  <2>4. Find(shared, m) \in Classes
    BY <2>2, <2>3, ChainIs DEF ChainRight
  <2>5. slot[Find(shared, m)] \in SlotMaps
    BY <2>4, KeptFor DEF BasesInv
  <2> QED BY <2>1, <2>3, <2>5 DEF SlotMaps
<1>8. l \in SlotMaps
  <2>1. \A m \in M : l[m] \in Int
    <3>1. ASSUME NEW m \in M PROVE l[m] \in Int
      <4>1. CASE shared = 0
        BY <1>3, <4>1 DEF Unset
      <4>2. CASE shared # 0
        BY <1>1, <1>6, <1>7, <4>2
      <4> QED BY <4>1, <4>2
    <3> QED BY <3>1
  <2>2. l = [m \in M |-> l[m]]
    BY DEF MethodSlots, Declared
  <2>3. l \in [M -> Int]
    <3> HIDE DEF M
    <3> QED BY <2>1, <2>2
  <2> QED BY <1>4, <2>3 DEF SlotMaps
<1>9. ASSUME NEW m \in DOMAIN l, shared # 0, Find(shared, m) = 0
      PROVE  /\ l[m] \in size[shared]..(z - 1)
             /\ \A i \in Own(B) : l[m] \notin TableRange(B[i])
             /\ \A k \in DOMAIN l : k # m /\ Find(shared, k) = 0 => l[k] # l[m]
  <2>1. m \in M /\ IsNew(m, shared) /\ l[m] = NewSlot(own, m, objlist, shared)
        /\ l[m] \in own..(z - 1)
    BY <1>3, <1>6, <1>9
  <2>2. l[m] \in size[shared]..(z - 1)
    BY <1>1, <1>5, <1>9, <2>1
  <2>3. l[m] \notin hdr..(own - 1)
    BY <1>1, <2>1
  <2>4. \A i \in Own(B) : l[m] \notin TableRange(B[i])
    BY <1>2, <2>3
  <2>5. ASSUME NEW k \in DOMAIN l, k # m, Find(shared, k) = 0 PROVE l[k] # l[m]
    <3>1. k \in M /\ IsNew(k, shared) /\ l[k] = NewSlot(own, k, objlist, shared)
      BY <1>3, <1>6, <1>9, <2>5
    <3>2. NewSlot(own, k, objlist, shared) # NewSlot(own, m, objlist, shared)
      BY <1>1, <1>11, <2>1, <2>5, <3>1, NewSlotsApart
    <3> QED BY <2>1, <3>1, <3>2
  <2> QED BY <2>2, <2>4, <2>5
<1>10. FitsSlots(B, shared, l, z)
  <2>1. \A m \in DOMAIN l : shared = 0 => l[m] = Unset
    BY <1>3
  <2>2. \A m \in DOMAIN l : shared # 0 /\ Find(shared, m) # 0 => l[m] = slot[Find(shared, m)][m]
    BY <1>3, <1>7
  <2> QED BY <1>9, <2>1, <2>2 DEF FitsSlots
<1> QED BY <1>8, <1>10
\* Data members of a class with a table.
NewMembers(shared, objlist, xA) ==
    IF shared # 0 THEN DataMembers(objlist, Len(objlist))
    ELSE WithVPtr(DataMembers(objlist, xA), DataMembers(objlist, Len(objlist)))

LEMMA NewMembersFit ==
    ASSUME NEW shared, NEW objlist \in ObjList, NEW xA \in 0..Len(objlist),
           NEW z \in Nat, shared = 0 => z > 0
    PROVE  /\ NewMembers(shared, objlist, xA) \in Seq({"var", "vptr"})
           /\ FitsVPtr(NewMembers(shared, objlist, xA), shared, z)
<1>1. Len(objlist) \in Nat /\ xA \in Nat
  BY DEF ObjList
<1>2. PICK front, all : /\ front = DataMembers(objlist, xA)
                        /\ all = DataMembers(objlist, Len(objlist))
  OBVIOUS
<1>3. front \in Seq({"var"}) /\ all \in Seq({"var"})
  BY <1>1, <1>2, DataMembersAre
<1>4. CASE shared # 0
  <2>1. NewMembers(shared, objlist, xA) = all
    BY <1>2, <1>4 DEF NewMembers
  <2>2. all \in Seq({"var", "vptr"}) /\ \A i \in DOMAIN all : all[i] # "vptr"
    BY <1>3
  <2> QED BY <1>4, <2>1, <2>2 DEF FitsVPtr
<1>5. CASE shared = 0
  <2>1. NewMembers(shared, objlist, xA) = WithVPtr(front, all)
    BY <1>2, <1>5 DEF NewMembers
  <2> QED BY <1>3, <1>5, <2>1, WithVPtrIs DEF FitsVPtr
<1> QED BY <1>4, <1>5

\* Without a table nothing is placed and the class gets no slots.
LEMMA NoTableFits ==
    ASSUME BasesInv, NEW nonvirtual, NEW virtuals, NEW shared, NEW objlist,
           Chosen(nonvirtual, virtuals, shared, objlist),
           NEW allV \in SUBSET Classes,
           \A b \in allV \cup {nonvirtual[i] : i \in DOMAIN nonvirtual} : ~HasTable(b)
    PROVE  Fits(NonVirtualList(nonvirtual, shared) \o VirtualList(virtuals), VirtualList(allV),
                shared, <<>>, 0, 0, DataMembers(objlist, Len(objlist)))
<1>1. PICK A, V, W, iv : /\ A = NonVirtualList(nonvirtual, shared)
                         /\ V = VirtualList(virtuals) /\ W = VirtualList(allV)
                         /\ iv = DataMembers(objlist, Len(objlist))
  OBVIOUS
<1>2. nonvirtual \in Seq(Classes) /\ virtuals \in SUBSET Classes
  BY DEF Chosen
<1>3. shared = 0
  <2>1. shared # 0 => nonvirtual # <<>> /\ nonvirtual[1] = shared /\ HasTable(shared)
    BY DEF Chosen
  <2>2. nonvirtual # <<>> => 1 \in DOMAIN nonvirtual
    BY <1>2
  <2> QED BY <2>1, <2>2
<1>4. Heads(A, nonvirtual, shared)
  <2>1. 0 \in Nat
    OBVIOUS
  <2> QED BY <1>1, <1>2, <2>1, HeadsAre
<1>5. /\ W \in Seq(BaseEntry) /\ EarlierBases(W) /\ \A i \in DOMAIN W : W[i].base \in allV
  BY <1>1, VirtualListIs DEF Listed, EarlierBases
<1>6. /\ A \o V \in Seq(BaseEntry) /\ FitsBases(A \o V, W, shared, 0) /\ Own(A \o V) = Own(A)
  BY <1>1, <1>3, <1>4, <1>5, HeadsFit
<1>7. Own(A) = {}
  <2>1. \A i \in DOMAIN A : i \in DOMAIN nonvirtual /\ A[i].base = nonvirtual[i]
    BY <1>2, <1>4 DEF Heads
  <2> QED BY <2>1 DEF Own, Tabled
<1>8. Tabled(W) = {}
  BY <1>5 DEF Tabled
<1>9. FitsTables(A \o V, W, shared, 0, 0)
  BY <1>6, <1>7, <1>8 DEF FitsTables
<1>10. DOMAIN <<>> = {} /\ <<>> \in SlotMaps
  <2>1. <<>> \in [{} -> Int] /\ {} \in SUBSET Method
    OBVIOUS
  <2> QED BY <2>1 DEF SlotMaps
<1>11. FitsSlots(A \o V, shared, <<>>, 0)
  BY <1>10 DEF FitsSlots
<1>12. iv \in Seq({"var", "vptr"}) /\ FitsVPtr(iv, shared, 0)
  <2>1. Len(objlist) \in Nat
    BY DEF Chosen, ObjList
  <2>2. iv \in Seq({"var"})
    BY <1>1, <2>1, DataMembersAre
  <2> QED BY <2>2 DEF FitsVPtr
<1>13. Typed(A \o V, W, shared, <<>>, 0, 0, iv)
  BY <1>3, <1>5, <1>6, <1>10, <1>12 DEF Typed
<1>14. Fits(A \o V, W, shared, <<>>, 0, 0, iv)
  BY <1>6, <1>9, <1>11, <1>12, <1>13 DEF Fits
<1> QED BY <1>1, <1>14

\* With one the parts fit as laid out.
LEMMA TableFits ==
    ASSUME BasesInv, NEW nonvirtual, NEW virtuals, NEW shared, NEW objlist,
           Chosen(nonvirtual, virtuals, shared, objlist),
           NEW hdr, NEW A, NEW own, NEW z, NEW vlist, NEW W, NEW tot,
           Laid(nonvirtual, virtuals, shared, objlist, hdr, A, own, z, vlist, W, tot),
           NEW B, Joined(A, virtuals, B),
           NEW l, l = MethodSlots(own, objlist, shared), NEW xA \in 0..Len(objlist),
           shared = 0 => hdr > 0
    PROVE  Fits(B, W, shared, l, z, tot, NewMembers(shared, objlist, xA))
<1>1. /\ hdr \in Nat /\ z \in Nat /\ tot \in Nat /\ hdr <= own /\ own <= z /\ own \in Nat
      /\ W \in Seq(BaseEntry)
  BY LaidNumbers
<1>2. FitsBases(B, W, shared, z) /\ FitsTables(B, W, shared, z, tot)
  BY LaidFits
<1>3. FitsSlots(B, shared, l, z) /\ l \in SlotMaps
  BY LaidSlotsFit
<1>4. objlist \in ObjList /\ shared \in Nat
  <2>1. objlist \in ObjList /\ shared \in {0} \cup Classes
    BY DEF Chosen
  <2>2. \A c \in Classes : c \in Nat
    BY ClassNumber
  <2> QED BY <2>1, <2>2
<1>5. shared = 0 => z > 0
  BY <1>1
<1>6. /\ NewMembers(shared, objlist, xA) \in Seq({"var", "vptr"})
      /\ FitsVPtr(NewMembers(shared, objlist, xA), shared, z)
  BY <1>1, <1>4, <1>5, NewMembersFit
<1>7. B \in Seq(BaseEntry)
  <2>1. A \in Seq(BaseEntry)
    BY LaidNumbers
  <2>2. VirtualList(virtuals) \in Seq(BaseEntry)
    BY VirtualListIs DEF Listed, Chosen
  <2> QED BY <2>1, <2>2 DEF Joined
<1> QED BY <1>1, <1>2, <1>3, <1>4, <1>6, <1>7 DEF Fits, Typed
-----------------------------------------------------------------------------
\* The invariant holds at first, and completing a class keeps it.
LEMMA LayoutAtFirst == Init => LayoutInv
<1> SUFFICES ASSUME Init PROVE LayoutInv
  OBVIOUS
<1>1. Classes = {}
  BY DEF Init, Classes
<1>2. Kept
  BY DEF Init, Kept
<1> QED BY <1>1, <1>2 DEF LayoutInv, BasesInv

LEMMA ChoiceIs ==
    ASSUME BasesInv, NEW virtuals \in SUBSET Classes, NEW nonvirtual \in Orders(Classes \ virtuals),
           NEW shared \in {0} \cup Classes, NEW objlist \in ObjLists,
           shared # 0 => nonvirtual # <<>> /\ nonvirtual[1] = shared /\ HasTable(shared)
    PROVE  Chosen(nonvirtual, virtuals, shared, objlist)
<1>1. IsFiniteSet(Classes \ virtuals)
  <2>1. IsFiniteSet(1..Len(size))
    BY ClassNumbers, FS_Interval
  <2>2. IsFiniteSet(Classes) /\ (Classes \ virtuals) \in SUBSET Classes
    BY <2>1, ClassNumbers
  <2> QED BY <2>2, FS_Subset
<1>2. /\ nonvirtual \in Seq(Classes \ virtuals)
      /\ \A i, j \in 1..Len(nonvirtual) : nonvirtual[i] = nonvirtual[j] => i = j
  BY <1>1, OrdersAre
<1>3. nonvirtual \in Seq(Classes)
  <2>1. ASSUME NEW S, NEW T \in SUBSET S, NEW s \in Seq(T) PROVE s \in Seq(S)
    BY <2>1
  <2> QED BY <1>2, <2>1
<1>4. objlist \in ObjList
  BY LayoutAssumption DEF ObjList
<1> QED BY <1>2, <1>3, <1>4 DEF Chosen

LEMMA CompletingKeeps ==
    ASSUME LayoutInv, NEW virtuals \in SUBSET Classes, NEW nonvirtual \in Orders(Classes \ virtuals),
           NEW shared \in {0} \cup Classes, NEW single \in BOOLEAN, NEW objlist \in ObjLists,
           NEW xA \in 0..Len(objlist),
           CompleteClass(nonvirtual, virtuals, shared, single, objlist, xA)
    PROVE  LayoutInv'
<1> DEFINE allV == AllVirtuals(nonvirtual, virtuals)
           list == NonVirtualList(nonvirtual, shared)
           ventries == VirtualList(virtuals)
           vlist == VirtualList(allV)
           none == Virtuals(objlist) = {}
                   /\ \A b \in allV \cup {nonvirtual[i] : i \in DOMAIN nonvirtual} : ~HasTable(b)
<1>1. BasesInv
  BY DEF LayoutInv
<1>2. /\ shared # 0 => nonvirtual # <<>> /\ nonvirtual[1] = shared /\ HasTable(shared)
      /\ single => shared = 0
      /\ primary' = Append(primary, shared)
      /\ IF none
         THEN /\ bases' = Append(bases, list \o ventries)
              /\ vbases' = Append(vbases, vlist)
              /\ slot' = Append(slot, <<>>) /\ size' = Append(size, 0)
              /\ total' = Append(total, 0)
              /\ ivars' = Append(ivars, DataMembers(objlist, Len(objlist)))
         ELSE /\ AllocateVTable(shared, objlist, xA)
              /\ MakeVTableLayout(shared, single, list, ventries, vlist, objlist)
  BY DEF CompleteClass, AllVirtuals, NonVirtualList, VirtualList
<1>3. Chosen(nonvirtual, virtuals, shared, objlist)
  BY <1>1, <1>2, ChoiceIs
<1>4. allV \in SUBSET Classes
  BY <1>1, <1>3, AllVirtualsAre DEF Chosen
<1>5. CASE none
  <2>1. Fits(list \o ventries, vlist, shared, <<>>, 0, 0, DataMembers(objlist, Len(objlist)))
    <3> HIDE DEF allV
    <3> QED BY <1>1, <1>3, <1>4, <1>5, NoTableFits
  <2>2. Appended(list \o ventries, vlist, shared, <<>>, 0, 0, DataMembers(objlist, Len(objlist)))
    BY <1>2, <1>5 DEF Appended
  <2> QED BY <2>1, <2>2, LayoutKept
<1>6. CASE ~none
  <2>1. PICK hdr, A, own, z, W, tot, B, l :
            /\ hdr = IF shared # 0 THEN 0 ELSE IF single THEN PtrSize ELSE Header
            /\ A = Placed(list, hdr) /\ own = hdr + RoomOf(list)
            /\ z = own + NewSlots(objlist, shared) /\ W = Placed(vlist, z)
            /\ tot = z + RoomOf(vlist) /\ B = A \o ventries
            /\ l = MethodSlots(own, objlist, shared)
    OBVIOUS
  <2>2. Listed(vlist)
    BY <1>1, <1>4, VirtualListIs
  <2>3. hdr \in Nat /\ (shared # 0 => hdr = 0) /\ (shared = 0 => hdr > 0)
    BY <2>1, LayoutAssumption
  <2>4. Laid(nonvirtual, virtuals, shared, objlist, hdr, A, own, z, vlist, W, tot)
    BY <2>1, <2>2, <2>3 DEF Laid
  <2>5. Joined(A, virtuals, B)
    BY <2>1 DEF Joined
  <2>6. Fits(B, W, shared, l, z, tot, NewMembers(shared, objlist, xA))
    BY <1>1, <1>3, <2>1, <2>3, <2>4, <2>5, TableFits
  <2>7. Appended(B, W, shared, l, z, tot, NewMembers(shared, objlist, xA))
    <3>1. /\ AllocateVTable(shared, objlist, xA)
          /\ MakeVTableLayout(shared, single, list, ventries, vlist, objlist)
      BY <1>2, <1>6
    <3>2. ivars' = Append(ivars, NewMembers(shared, objlist, xA))
      BY <3>1 DEF AllocateVTable, NewMembers, WithVPtr
    <3>3. /\ bases' = Append(bases, B) /\ slot' = Append(slot, l) /\ size' = Append(size, z)
          /\ vbases' = Append(vbases, W) /\ total' = Append(total, tot)
      BY <2>1, <3>1 DEF MakeVTableLayout
    <3> QED BY <1>2, <3>2, <3>3 DEF Appended
  <2> QED BY <2>6, <2>7, LayoutKept
<1> QED BY <1>5, <1>6

\* Nothing changes.
LEMMA LayoutStutters == LayoutInv /\ UNCHANGED vars => LayoutInv'
<1> SUFFICES ASSUME LayoutInv, UNCHANGED vars PROVE LayoutInv'
  OBVIOUS
<1> USE DEF vars
<1>1. Classes' = Classes /\ (Kept' <=> Kept)
  BY DEF Classes, Kept
<1>2. ASSUME NEW c PROVE BasesRight(c)' <=> BasesRight(c)
  BY DEF BasesRight, SharesTable
<1>3. ASSUME NEW c PROVE TablesRight(c)' <=> TablesRight(c)
  BY DEF TablesRight, NonVirtual, Tabled, HasTable, TableRange
<1>4. ASSUME NEW c, NEW m PROVE Find(c, m)' = Find(c, m)
  BY <1>1 DEF Find, FindZeroVirtualBaseMember, HasTable
<1>5. ASSUME NEW c PROVE SlotsRight(c)' <=> SlotsRight(c)
  <2>1. ASSUME NEW m PROVE NewSlotRight(c, m)' <=> NewSlotRight(c, m)
    BY DEF NewSlotRight, NonVirtual, Tabled, HasTable, TableRange, Find,
           FindZeroVirtualBaseMember, Classes
  <2>2. ASSUME NEW m PROVE Find(primary[c], m)' = Find(primary[c], m)
    BY <1>1 DEF Find, FindZeroVirtualBaseMember, HasTable
  <2> QED BY <2>1, <2>2 DEF SlotsRight
<1>6. ASSUME NEW c PROVE VPtrRight(c)' <=> VPtrRight(c)
  BY DEF VPtrRight, HasVPtr, HasTable
<1> QED BY <1>1, <1>2, <1>3, <1>5, <1>6 DEF LayoutInv, BasesInv

LEMMA LayoutStep == LayoutInv /\ [Next]_vars => LayoutInv'
<1> SUFFICES ASSUME LayoutInv, [Next]_vars PROVE LayoutInv'
  OBVIOUS
<1>1. CASE Next
  <2>1. PICK virtuals \in SUBSET Classes :
            \E nonvirtual \in Orders(Classes \ virtuals),
               shared \in {0} \cup Classes, single \in BOOLEAN, objlist \in ObjLists :
                  \E xA \in 0..Len(objlist) :
                      CompleteClass(nonvirtual, virtuals, shared, single, objlist, xA)
    BY <1>1 DEF Next
  <2>2. PICK nonvirtual \in Orders(Classes \ virtuals), shared \in {0} \cup Classes,
             single \in BOOLEAN, objlist \in ObjLists :
                \E xA \in 0..Len(objlist) :
                    CompleteClass(nonvirtual, virtuals, shared, single, objlist, xA)
    BY <2>1
  <2>3. PICK xA \in 0..Len(objlist) :
            CompleteClass(nonvirtual, virtuals, shared, single, objlist, xA)
    BY <2>2
  <2> QED BY <2>3, CompletingKeeps
<1>2. CASE UNCHANGED vars
  BY <1>2, LayoutStutters
<1> QED BY <1>1, <1>2

LEMMA LayoutAlways == Spec => []LayoutInv
BY LayoutAtFirst, LayoutStep, PTL DEF Spec

(***************************************************************************)
(* For every number of classes the tables inside a table lie apart: CABI_  *)
(* MakeVTableLayout gives each base its own range.                         *)
(***************************************************************************)
THEOREM TablesLieApart == Spec => []BaseTablesDisjoint
<1>1. LayoutInv => BaseTablesDisjoint
  BY TablesFromLayout
<1> QED BY <1>1, LayoutAlways, PTL

(***************************************************************************)
(* For every depth of inheritance and every list of methods, the classes   *)
(* that share a table agree on the slot of each function, and no two       *)
(* functions share one: what a call through any of the bases relies on.    *)
(***************************************************************************)
THEOREM SlotsAlwaysAgree == Spec => []SlotsAgree
<1>1. LayoutInv => SlotsAgree
  BY SlotsFromLayout
<1> QED BY <1>1, LayoutAlways, PTL

(***************************************************************************)
(* Along every chain of primary bases CABI_AllocateVTable linked in one    *)
(* vptr, and none where there is no table.                                 *)
(***************************************************************************)
THEOREM OneVPtr == Spec => []OneVPtrPerChain
<1>1. LayoutInv => OneVPtrPerChain
  BY VPtrFromLayout
<1> QED BY <1>1, LayoutAlways, PTL
=============================================================================
