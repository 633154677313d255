-------------------------- MODULE SliceFileProofs --------------------------
(***************************************************************************)
(* What load_slice_file returns, proved for every configuration and any    *)
(* number of sections and slices: the ranges of a section chain, whatever  *)
(* the order, and they partition the sections if the configuration is in   *)
(* order.  The invariant adds to the chain that a position is always the   *)
(* end of a configured range, never that of a filler.                      *)
(*                                                                         *)
(* Then what slice_exe makes of it: the slices partition the program, each *)
(* object file is whole, and linking them gives the program back.  The     *)
(* invariant (CutInv) says what an object file in the making stands for:   *)
(* the ranges done so far, with every operand either as it was or replaced *)
(* by a relocation that has the value of the operand.                      *)
(***************************************************************************)
EXTENDS Slicing, Recursion, FiniteSetTheorems, TLAPS

Parsed == UNION { [name : Source \cup Nat, source : Source \cup {Filler},
                   nonMatching : BOOLEAN, secs : [S -> IntRange]] : S \in SUBSET Used }

PositionsOfConfig ==
    \A s \in Used :
        \/ positions[s] = Addr[s]
        \/ \E i \in DOMAIN parsed :
              IsConfigured(parsed, i, s) /\ parsed[i].secs[s].end = positions[s]

\* The inductive invariant.
IInv ==
    /\ phase \in {"loading", "loaded", "failed"}
    /\ fillers \in Nat /\ loaded \in 0..MaxSlices
    /\ positions \in [Used -> Int] /\ parsed \in Seq(Parsed)
    /\ phase = "loading" => PositionsOfConfig
    /\ Chained /\ SlicesPartition

-----------------------------------------------------------------------------
\* The sections and the ranges of an entry.
LEMMA EntryType ==
    ASSUME NEW x \in Parsed
    PROVE  /\ x.source \in Source \cup {Filler} /\ DOMAIN x.secs \subseteq Used
           /\ \A s \in DOMAIN x.secs :
                 x.secs[s].begin \in Int /\ x.secs[s].end \in Int /\ x.secs[s] \in IntRange
<1>1. PICK S \in SUBSET Used :
         x \in [name : Source \cup Nat, source : Source \cup {Filler},
                nonMatching : BOOLEAN, secs : [S -> IntRange]]
  BY DEF Parsed
<1>2. x.secs \in [S -> IntRange] /\ x.source \in Source \cup {Filler}
  BY <1>1
<1> QED BY <1>2 DEF IntRange

LEMMA SectionNumbers ==
    ASSUME NEW s \in Section
    PROVE  Addr[s] \in Nat /\ Size[s] \in Nat /\ SectionEnd(s) \in Nat
               /\ Addr[s] <= SectionEnd(s)
BY SliceAssumption DEF SectionEnd

\* Appending an entry changes nothing before it.
LEMMA AppendEntry ==
    ASSUME NEW p \in Seq(Parsed), NEW x \in Parsed
    PROVE  /\ Append(p, x) \in Seq(Parsed) /\ Len(Append(p, x)) = Len(p) + 1
           /\ Append(p, x)[Len(p) + 1] = x
           /\ \A i \in 1..Len(p) : Append(p, x)[i] = p[i]
           /\ Len(p) \in Nat /\ DOMAIN p = 1..Len(p)
           /\ DOMAIN Append(p, x) = 1..(Len(p) + 1)
OBVIOUS

-----------------------------------------------------------------------------
Between(p, s, i, j) == \E k \in (i + 1)..(j - 1) : Has(p, k, s)

LEMMA ChainDef ==
    ASSUME NEW p, NEW s, NEW r
    PROVE  Chain(p, s, r) <=>
              /\ \A i \in DOMAIN p : Has(p, i, s) =>
                    /\ ~Between(p, s, 0, i) => p[i].secs[s].begin = Addr[s]
                    /\ ~Between(p, s, i, Len(p) + 1) => p[i].secs[s].end = r
                    /\ \A j \in DOMAIN p : i < j /\ Has(p, j, s) /\ ~Between(p, s, i, j) =>
                          p[i].secs[s].end = p[j].secs[s].begin
              /\ ~Between(p, s, 0, Len(p) + 1) => r = Addr[s]
BY DEF Chain, Between

\* What lies between two indices of p is not changed by an entry behind p.
LEMMA SameBetween ==
    ASSUME NEW p \in Seq(Parsed), NEW x \in Parsed, NEW s,
           NEW i \in 0..Len(p), NEW j \in 0..(Len(p) + 1)
    PROVE  Between(Append(p, x), s, i, j) <=> Between(p, s, i, j)
<1> DEFINE q == Append(p, x)
<1>1. \A k \in 1..Len(p) : Has(q, k, s) <=> Has(p, k, s)
  BY AppendEntry DEF Has
<1>2. \A k \in (i + 1)..(j - 1) : k \in 1..Len(p)
  BY AppendEntry
<1> QED BY <1>1, <1>2 DEF Between

\* An entry that begins where the chain ends prolongs it.
LEMMA ChainGrows ==
    ASSUME NEW p \in Seq(Parsed), NEW x \in Parsed, NEW s \in Used, NEW r,
           Chain(p, s, r), s \in DOMAIN x.secs, x.secs[s].begin = r
    PROVE  Chain(Append(p, x), s, x.secs[s].end)
<1> DEFINE q == Append(p, x)
           n == Len(p)
<1>1. /\ n \in Nat /\ Len(q) = n + 1 /\ q[n + 1] = x /\ DOMAIN q = 1..(n + 1) /\ DOMAIN p = 1..n
      /\ \A i \in 1..n : q[i] = p[i] /\ (Has(q, i, s) <=> Has(p, i, s))
      /\ Has(q, n + 1, s)
  BY AppendEntry DEF Has
<1>2. \A i \in 0..n, j \in 0..(n + 1) : Between(q, s, i, j) <=> Between(p, s, i, j)
  BY SameBetween
<1>3. \A i \in 0..n : Between(q, s, i, n + 2)
  BY <1>1 DEF Between
<1>4. ~Between(p, s, 0, n + 1) => r = Addr[s]
  BY ChainDef
<1> HIDE DEF q, n
<1>5. ASSUME NEW i \in 1..(n + 1), Has(q, i, s)
      PROVE  /\ ~Between(q, s, 0, i) => q[i].secs[s].begin = Addr[s]
             /\ ~Between(q, s, i, n + 2) => q[i].secs[s].end = x.secs[s].end
             /\ \A j \in 1..(n + 1) : i < j /\ Has(q, j, s) /\ ~Between(q, s, i, j) =>
                   q[i].secs[s].end = q[j].secs[s].begin
  <2>1. CASE i = n + 1
    <3>1. 0 \in 0..n /\ n + 1 \in 0..(n + 1)
      BY <1>1
    <3>2. Between(q, s, 0, i) <=> Between(p, s, 0, n + 1)
      BY <1>2, <2>1, <3>1
    <3>3. q[i] = x /\ x.secs[s].begin = r
      BY <1>1, <2>1
    <3>4. ~Between(q, s, 0, i) => q[i].secs[s].begin = Addr[s]
      BY <1>4, <3>2, <3>3
    <3> QED BY <1>1, <2>1, <3>4
  <2>2. CASE i # n + 1
    <3>1. i \in 1..n /\ i \in DOMAIN p /\ Has(p, i, s) /\ i \in 0..n /\ 0 \in 0..n
            /\ i \in 0..(n + 1) /\ n + 1 \in 0..(n + 1)
      BY <1>1, <1>5, <2>2
    <3>2. /\ ~Between(p, s, 0, i) => p[i].secs[s].begin = Addr[s]
          /\ ~Between(p, s, i, n + 1) => p[i].secs[s].end = r
          /\ \A j \in 1..n : i < j /\ Has(p, j, s) /\ ~Between(p, s, i, j) =>
                p[i].secs[s].end = p[j].secs[s].begin
      BY <1>1, <3>1, ChainDef DEF n
    <3>3. ~Between(q, s, 0, i) => q[i].secs[s].begin = Addr[s]
      BY <1>1, <1>2, <3>1, <3>2
    <3>4. Between(q, s, i, n + 2)
      BY <1>3, <3>1
    <3>5. ASSUME NEW j \in 1..(n + 1), i < j, Has(q, j, s), ~Between(q, s, i, j)
          PROVE  q[i].secs[s].end = q[j].secs[s].begin
      <4>1. j \in 0..(n + 1) /\ ~Between(p, s, i, j)
        BY <1>1, <1>2, <3>1, <3>5
      <4>2. CASE j = n + 1
        BY <1>1, <3>1, <3>2, <4>1, <4>2
      <4>3. CASE j # n + 1
        <5>1. j \in 1..n
          BY <1>1, <4>3
        <5> QED BY <1>1, <3>1, <3>2, <3>5, <4>1, <5>1
      <4> QED BY <4>2, <4>3
    <3> QED BY <3>3, <3>4, <3>5
  <2> QED BY <2>1, <2>2
<1>6. Len(q) + 1 = n + 2 /\ 0 \in 0..n
  BY <1>1
<1>7. Between(q, s, 0, Len(q) + 1)
  BY <1>3, <1>6
<1> QED BY <1>1, <1>5, <1>6, <1>7, ChainDef DEF q

\* An entry without the section leaves its chain alone.
LEMMA ChainStays ==
    ASSUME NEW p \in Seq(Parsed), NEW x \in Parsed, NEW s \in Used, NEW r,
           Chain(p, s, r), s \notin DOMAIN x.secs
    PROVE  Chain(Append(p, x), s, r)
<1> DEFINE q == Append(p, x)
           n == Len(p)
<1>1. /\ n \in Nat /\ Len(q) = n + 1 /\ q[n + 1] = x /\ DOMAIN q = 1..(n + 1) /\ DOMAIN p = 1..n
      /\ \A i \in 1..n : q[i] = p[i] /\ (Has(q, i, s) <=> Has(p, i, s))
      /\ ~Has(q, n + 1, s)
  BY AppendEntry DEF Has
<1>2. \A i \in 0..n, j \in 0..(n + 1) : Between(q, s, i, j) <=> Between(p, s, i, j)
  BY SameBetween
<1>3. \A i \in 0..n : Between(q, s, i, n + 2) <=> Between(p, s, i, n + 1)
  <2> TAKE i \in 0..n
  <2>1. \A k \in (i + 1)..(n + 2 - 1) : Has(q, k, s) => k \in (i + 1)..(n + 1 - 1) /\ Has(p, k, s)
    BY <1>1
  <2>2. \A k \in (i + 1)..(n + 1 - 1) : Has(p, k, s) => k \in (i + 1)..(n + 2 - 1) /\ Has(q, k, s)
    BY <1>1
  <2> QED BY <2>1, <2>2 DEF Between
<1> HIDE DEF q, n
<1>4. ASSUME NEW i \in 1..(n + 1), Has(q, i, s)
      PROVE  /\ ~Between(q, s, 0, i) => q[i].secs[s].begin = Addr[s]
             /\ ~Between(q, s, i, n + 2) => q[i].secs[s].end = r
             /\ \A j \in 1..(n + 1) : i < j /\ Has(q, j, s) /\ ~Between(q, s, i, j) =>
                   q[i].secs[s].end = q[j].secs[s].begin
  <2>1. i \in 1..n /\ i \in DOMAIN p /\ Has(p, i, s) /\ i \in 0..n /\ 0 \in 0..n /\ i \in 0..(n + 1)
    BY <1>1, <1>4
  <2>2. /\ ~Between(p, s, 0, i) => p[i].secs[s].begin = Addr[s]
        /\ ~Between(p, s, i, n + 1) => p[i].secs[s].end = r
        /\ \A j \in 1..n : i < j /\ Has(p, j, s) /\ ~Between(p, s, i, j) =>
              p[i].secs[s].end = p[j].secs[s].begin
    BY <1>1, <2>1, ChainDef DEF n
  <2>3. ASSUME NEW j \in 1..(n + 1), i < j, Has(q, j, s), ~Between(q, s, i, j)
        PROVE  q[i].secs[s].end = q[j].secs[s].begin
    <3>1. j \in 1..n /\ j \in 0..(n + 1)
      BY <1>1, <2>3
    <3> QED BY <1>1, <1>2, <2>1, <2>2, <2>3, <3>1
  <2> QED BY <1>1, <1>2, <1>3, <2>1, <2>2, <2>3
<1>5. Len(q) + 1 = n + 2 /\ 0 \in 0..n
  BY <1>1
<1>6. ~Between(q, s, 0, n + 2) => r = Addr[s]
  <2>1. ~Between(p, s, 0, n + 1) => r = Addr[s]
    BY ChainDef DEF n
  <2> QED BY <1>3, <1>5, <2>1
<1> QED BY <1>1, <1>4, <1>5, <1>6, ChainDef DEF q

-----------------------------------------------------------------------------
\* An entry that begins where the covered part ends extends it.
LEMMA CoverGrows ==
    ASSUME NEW p \in Seq(Parsed), NEW x \in Parsed, NEW s \in Used, NEW r \in Int,
           Covered(p, s, r), s \in DOMAIN x.secs, x.secs[s].begin = r,
           Addr[s] <= r, r <= x.secs[s].end
    PROVE  Covered(Append(p, x), s, x.secs[s].end)
<1> DEFINE q == Append(p, x)
           n == Len(p)
           e == x.secs[s].end
<1>1. /\ n \in Nat /\ q[n + 1] = x /\ DOMAIN q = 1..(n + 1) /\ DOMAIN p = 1..n
      /\ \A i \in 1..n : q[i] = p[i]
  BY AppendEntry
<1>2. e \in Int
  BY EntryType
<1>3. \A i \in 1..n, a \in Int : Holds(q, i, s, a) <=> Holds(p, i, s, a)
  BY <1>1 DEF Holds, Has
<1>4. \A a \in Int : Holds(q, n + 1, s, a) <=> r <= a /\ a < e
  BY <1>1 DEF Holds, Has
<1> HIDE DEF q, n, e
<1>5. ASSUME NEW a \in Addr[s]..SectionEnd(s)
      PROVE  /\ a < e <=> \E i \in 1..(n + 1) : Holds(q, i, s, a)
             /\ \A i, j \in 1..(n + 1) : Holds(q, i, s, a) /\ Holds(q, j, s, a) => i = j
  <2>1. a \in Int
    OBVIOUS
  <2>2. /\ a < r <=> \E i \in 1..n : Holds(p, i, s, a)
        /\ \A i, j \in 1..n : Holds(p, i, s, a) /\ Holds(p, j, s, a) => i = j
    BY <1>1 DEF Covered
  <2>3. CASE a < r
    <3>1. ~Holds(q, n + 1, s, a) /\ a < e
      BY <1>2, <1>4, <2>1, <2>3 DEF e
    <3>2. \A i \in 1..(n + 1) : Holds(q, i, s, a) => i \in 1..n /\ Holds(p, i, s, a)
      BY <1>1, <1>3, <2>1, <3>1
    <3>3. \E i \in 1..(n + 1) : Holds(q, i, s, a)
      BY <1>1, <1>3, <2>1, <2>2, <2>3
    <3> QED BY <2>2, <3>1, <3>2, <3>3
  <2>4. CASE ~(a < r)
    <3>1. \A i \in 1..n : ~Holds(q, i, s, a)
      BY <1>3, <2>1, <2>2, <2>4
    <3>2. Holds(q, n + 1, s, a) <=> a < e
      BY <1>4, <2>1, <2>4
    <3>3. \A i \in 1..(n + 1) : i \in 1..n \/ i = n + 1
      BY <1>1
    <3>4. n + 1 \in 1..(n + 1)
      BY <1>1
    <3> QED BY <3>1, <3>2, <3>3, <3>4
  <2> QED BY <2>3, <2>4
<1> QED BY <1>1, <1>5 DEF Covered, q, e

\* An entry without the section covers nothing more of it.
LEMMA CoverStays ==
    ASSUME NEW p \in Seq(Parsed), NEW x \in Parsed, NEW s \in Used, NEW r \in Int,
           Covered(p, s, r), s \notin DOMAIN x.secs
    PROVE  Covered(Append(p, x), s, r)
<1> DEFINE q == Append(p, x)
           n == Len(p)
<1>1. /\ n \in Nat /\ q[n + 1] = x /\ DOMAIN q = 1..(n + 1) /\ DOMAIN p = 1..n
      /\ \A i \in 1..n : q[i] = p[i]
  BY AppendEntry
<1>2. \A i \in 1..n, a \in Int : Holds(q, i, s, a) <=> Holds(p, i, s, a)
  BY <1>1 DEF Holds, Has
<1>3. \A a \in Int : ~Holds(q, n + 1, s, a)
  BY <1>1 DEF Holds, Has
<1> HIDE DEF q, n
<1>4. ASSUME NEW a \in Addr[s]..SectionEnd(s)
      PROVE  /\ a < r <=> \E i \in 1..(n + 1) : Holds(q, i, s, a)
             /\ \A i, j \in 1..(n + 1) : Holds(q, i, s, a) /\ Holds(q, j, s, a) => i = j
  <2>1. a \in Int
    OBVIOUS
  <2>2. /\ a < r <=> \E i \in 1..n : Holds(p, i, s, a)
        /\ \A i, j \in 1..n : Holds(p, i, s, a) /\ Holds(p, j, s, a) => i = j
    BY <1>1 DEF Covered
  <2>3. \A i \in 1..(n + 1) : Holds(q, i, s, a) => i \in 1..n /\ Holds(p, i, s, a)
    BY <1>1, <1>2, <1>3, <2>1
  <2>4. \A i \in 1..n : Holds(p, i, s, a) => i \in 1..(n + 1) /\ Holds(q, i, s, a)
    BY <1>1, <1>2, <2>1
  <2> QED BY <2>2, <2>3, <2>4
<1> QED BY <1>1, <1>4 DEF Covered, q

-----------------------------------------------------------------------------
\* What one entry of gaps does to chain and cover: it brings each section to
\* the end of its gap.
LEMMA FillerExtends ==
    ASSUME NEW p \in Seq(Parsed), NEW n \in Nat, NEW gaps, NEW s \in Used,
           gaps \in [Used -> IntRange], NEW r \in Int,
           Chain(p, s, r),
           gaps[s].begin = r \/ gaps[s].begin = gaps[s].end
    PROVE  LET q == p \o make_filler_slice(n, gaps)
               t == IF gaps[s].begin = gaps[s].end THEN r ELSE gaps[s].end
           IN  /\ q \in Seq(Parsed)
               /\ Len(make_filler_slice(n, gaps)) \in {0, 1}
               /\ Chain(q, s, t)
               /\ Covered(p, s, r) /\ Addr[s] <= r /\ r <= t => Covered(q, s, t)
<1> DEFINE open == { u \in DOMAIN gaps : gaps[u].begin # gaps[u].end }
           x == [name |-> n, source |-> Filler, nonMatching |-> FALSE,
                 secs |-> [u \in open |-> gaps[u]]]
           t == IF gaps[s].begin = gaps[s].end THEN r ELSE gaps[s].end
<1>1. CASE open = {}
  <2>1. make_filler_slice(n, gaps) = <<>>
    BY <1>1 DEF make_filler_slice
  <2>2. p \o make_filler_slice(n, gaps) = p
    BY <2>1
  <2>3. gaps[s].begin = gaps[s].end
    BY <1>1
  <2> QED BY <2>1, <2>2, <2>3
<1>2. CASE open # {}
  <2>1. make_filler_slice(n, gaps) = <<x>>
    BY <1>2 DEF make_filler_slice
  <2>2. open \in SUBSET Used /\ [u \in open |-> gaps[u]] \in [open -> IntRange]
    OBVIOUS
  <2>3. x \in [name : Source \cup Nat, source : Source \cup {Filler},
               nonMatching : BOOLEAN, secs : [open -> IntRange]]
    BY <2>2
  <2>4. x \in Parsed
    BY <2>2, <2>3 DEF Parsed
  <2>5. p \o make_filler_slice(n, gaps) = Append(p, x) /\ Append(p, x) \in Seq(Parsed)
    BY <2>1, <2>4
  <2>6. CASE s \in open
    <3>1. s \in DOMAIN x.secs /\ x.secs[s] = gaps[s] /\ gaps[s].begin = r /\ t = gaps[s].end
      BY <2>6
    <3> HIDE DEF x, t, open
    <3>2. Chain(Append(p, x), s, t)
      BY <2>4, <3>1, ChainGrows
    <3>3. Covered(p, s, r) /\ Addr[s] <= r /\ r <= t => Covered(Append(p, x), s, t)
      BY <2>4, <3>1, CoverGrows
    <3> QED BY <2>1, <2>5, <3>2, <3>3 DEF t
  <2>7. CASE s \notin open
    <3>1. s \notin DOMAIN x.secs /\ t = r
      BY <2>7
    <3> HIDE DEF x, t, open
    <3>2. Chain(Append(p, x), s, t)
      BY <2>4, <3>1, ChainStays
    <3>3. Covered(p, s, r) => Covered(Append(p, x), s, t)
      BY <2>4, <3>1, CoverStays
    <3> QED BY <2>1, <2>5, <3>2, <3>3 DEF t
  <2> QED BY <2>6, <2>7
<1> QED BY <1>1, <1>2

LEMMA FillerIsSeq ==
    ASSUME NEW n \in Nat, NEW gaps, gaps \in [Used -> IntRange]
    PROVE  make_filler_slice(n, gaps) \in Seq(Parsed)
<1> DEFINE open == { u \in DOMAIN gaps : gaps[u].begin # gaps[u].end }
           x == [name |-> n, source |-> Filler, nonMatching |-> FALSE,
                 secs |-> [u \in open |-> gaps[u]]]
<1>1. open \in SUBSET Used /\ [u \in open |-> gaps[u]] \in [open -> IntRange]
  OBVIOUS
<1>2. x \in [name : Source \cup Nat, source : Source \cup {Filler},
             nonMatching : BOOLEAN, secs : [open -> IntRange]]
  BY <1>1
<1>3. x \in Parsed
  BY <1>1, <1>2 DEF Parsed
<1> QED BY <1>3 DEF make_filler_slice

\* The configured slices of a beginning of the list are in order too.
LEMMA OrderOfPrefix ==
    ASSUME NEW p \in Seq(Parsed), NEW q \in Seq(Parsed), Len(p) <= Len(q),
           \A i \in 1..Len(p) : q[i] = p[i], InConfigOrder(q)
    PROVE  InConfigOrder(p)
<1>1. DOMAIN p = 1..Len(p) /\ DOMAIN q = 1..Len(q) /\ Len(p) \in Nat /\ Len(q) \in Nat
  OBVIOUS
<1> SUFFICES ASSUME NEW i \in 1..Len(p), NEW s \in Used, IsConfigured(p, i, s)
             PROVE  /\ Addr[s] <= p[i].secs[s].begin
                    /\ p[i].secs[s].begin <= p[i].secs[s].end
                    /\ p[i].secs[s].end <= SectionEnd(s)
                    /\ \A j \in 1..(i - 1) : IsConfigured(p, j, s) =>
                          p[j].secs[s].end <= p[i].secs[s].begin
  BY <1>1 DEF InConfigOrder
<1>2. i \in DOMAIN q /\ q[i] = p[i] /\ IsConfigured(q, i, s)
  BY <1>1 DEF IsConfigured, Has
<1>3. \A j \in 1..(i - 1) : q[j] = p[j] /\ (IsConfigured(p, j, s) => IsConfigured(q, j, s))
  BY <1>1 DEF IsConfigured, Has
<1> QED BY <1>2, <1>3 DEF InConfigOrder

\* A configured range lies behind every position that an earlier one left.
LEMMA PositionBefore ==
    ASSUME NEW p \in Seq(Parsed), NEW i \in 1..Len(p), NEW s \in Used, NEW r \in Int,
           InConfigOrder(p), IsConfigured(p, i, s),
           \/ r = Addr[s]
           \/ \E j \in 1..(i - 1) : IsConfigured(p, j, s) /\ p[j].secs[s].end = r
    PROVE  r <= p[i].secs[s].begin
BY DEF InConfigOrder

LEMMA PositionInside ==
    ASSUME NEW p \in Seq(Parsed), NEW s \in Used, NEW r \in Int, InConfigOrder(p),
           \/ r = Addr[s]
           \/ \E j \in DOMAIN p : IsConfigured(p, j, s) /\ p[j].secs[s].end = r
    PROVE  Addr[s] <= r /\ r <= SectionEnd(s)
<1>1. s \in Section
  BY DEF Used
<1>2. CASE r = Addr[s]
  BY <1>1, <1>2, SectionNumbers
<1>3. CASE \E j \in DOMAIN p : IsConfigured(p, j, s) /\ p[j].secs[s].end = r
  <2>1. PICK j \in DOMAIN p : IsConfigured(p, j, s) /\ p[j].secs[s].end = r
    BY <1>3
  <2>2. /\ Addr[s] <= p[j].secs[s].begin /\ p[j].secs[s].begin <= r /\ r <= SectionEnd(s)
    BY <2>1 DEF InConfigOrder
  <2>3. p[j].secs[s].begin \in Int /\ Addr[s] \in Int
    <3>1. p[j] \in Parsed /\ s \in DOMAIN p[j].secs
      BY <2>1 DEF IsConfigured, Has
    <3> QED BY <1>1, <3>1, EntryType, SectionNumbers
  <2> QED BY <2>2, <2>3
<1> QED BY <1>2, <1>3

\* What the configuration says of a slice.
LEMMA RangesType ==
    ASSUME NEW ranges \in MemoryRanges
    PROVE  /\ DOMAIN ranges \subseteq Section
           /\ \A s \in DOMAIN ranges : ranges[s] \in IntRange
           /\ ranges \in [DOMAIN ranges -> IntRange]
<1>1. PICK S \in SUBSET Section :
         /\ ranges \in [S -> UNION {Ranges(s) : s \in S}]
         /\ \A s \in S : ranges[s] \in Ranges(s)
  BY DEF MemoryRanges
<1>2. \A s \in S : Ranges(s) \subseteq IntRange
  BY SectionNumbers DEF Ranges, AddrRange, IntRange
<1> QED BY <1>1, <1>2

-----------------------------------------------------------------------------
LEMMA InitEstablishes == Init => IInv
<1> SUFFICES ASSUME Init PROVE IInv
  OBVIOUS
<1>1. ASSUME NEW s \in Used PROVE positions[s] = Addr[s] /\ Addr[s] \in Int
  BY SectionNumbers DEF Init, Used
<1>2. parsed = <<>> /\ DOMAIN parsed = {} /\ Len(parsed) = 0
  BY DEF Init
<1>3. \A s \in Used : Chain(parsed, s, Reached(s))
  BY <1>1, <1>2, ChainDef DEF Reached, Init
<1>4. \A s \in Used : Covered(parsed, s, Reached(s))
  <2> TAKE s \in Used
  <2>1. \A a \in Addr[s]..SectionEnd(s) : ~(a < Addr[s])
    BY <1>1, SectionNumbers DEF Used
  <2> QED BY <1>1, <1>2, <2>1 DEF Covered, Reached, Init
<1>5. positions \in [Used -> Int] /\ parsed \in Seq(Parsed) /\ loaded \in 0..MaxSlices
  BY <1>1, <1>2, SliceAssumption DEF Init
<1> QED BY <1>1, <1>3, <1>4, <1>5
        DEF IInv, Chained, SlicesPartition, PositionsOfConfig, Init

LEMMA LoadSlicePreserves ==
    ASSUME IInv, NEW src \in Source, NEW nonMatching \in BOOLEAN,
           NEW ranges \in MemoryRanges, LoadSlice(src, nonMatching, ranges)
    PROVE  IInv'
<1> DEFINE gaps == GapsBefore(ranges)
           filler == make_filler_slice(fillers, gaps)
           mid == parsed \o filler
           x == [name |-> src, source |-> src, nonMatching |-> nonMatching, secs |-> ranges]
<1>1. /\ phase = "loading" /\ phase' = "loading" /\ DOMAIN ranges \subseteq Used
      /\ positions' = Positions(ranges) /\ parsed' = mid \o <<x>>
      /\ fillers' = fillers + Len(filler)
      /\ loaded' = loaded + 1 /\ loaded' \in 0..MaxSlices
      /\ fillers \in Nat /\ parsed \in Seq(Parsed) /\ positions \in [Used -> Int]
      /\ PositionsOfConfig
  BY SliceAssumption DEF IInv, LoadSlice
<1>2. x \in Parsed /\ x.secs = ranges /\ x.source # Filler
  <2>1. x \in [name : Source \cup Nat, source : Source \cup {Filler},
               nonMatching : BOOLEAN, secs : [DOMAIN ranges -> IntRange]]
    BY RangesType
  <2> QED BY <1>1, <2>1, SliceAssumption DEF Parsed
<1>3. \A s \in DOMAIN ranges :
         ranges[s] \in IntRange /\ ranges[s].begin \in Int /\ ranges[s].end \in Int
  BY RangesType DEF IntRange
<1>4. /\ gaps \in [Used -> IntRange]
      /\ \A s \in Used : gaps[s] = IF s \in DOMAIN ranges
                                   THEN AddrRange(positions[s], ranges[s].begin) ELSE AddrRange(0, 0)
  BY <1>1, <1>3 DEF GapsBefore, AddrRange, IntRange
<1>5. \A s \in Used : positions[s] \in Int
  BY <1>1
<1> HIDE DEF gaps, x
<1>6. \A s \in Used : \/ gaps[s].begin = positions[s]
                      \/ gaps[s].begin = gaps[s].end
  BY <1>4 DEF AddrRange
<1>7. \A s \in Used : Chain(parsed, s, positions[s])
  BY <1>1 DEF IInv, Chained, Reached
<1>8. mid \in Seq(Parsed) /\ Len(filler) \in {0, 1}
  <2>1. CASE Used = {}
    <3>1. filler = <<>>
      BY <1>4, <2>1 DEF make_filler_slice
    <3> QED BY <1>1, <3>1
  <2>2. CASE Used # {}
    <3>1. PICK s \in Used : TRUE
      BY <2>2
    <3> QED BY <1>1, <1>4, <1>5, <1>6, <1>7, FillerExtends
  <2> QED BY <2>1, <2>2
<1>9. parsed' = Append(mid, x) /\ parsed' \in Seq(Parsed)
  BY <1>1, <1>2, <1>8
<1>10. /\ Len(parsed) \in Nat /\ Len(mid) = Len(parsed) + Len(filler)
       /\ \A i \in 1..Len(parsed) : mid[i] = parsed[i]
  <2>1. filler \in Seq(Parsed)
    BY <1>4, <1>1, FillerIsSeq
  <2> QED BY <1>1, <2>1
<1> HIDE DEF mid, filler
<1>11. /\ Len(parsed') = Len(mid) + 1 /\ parsed'[Len(mid) + 1] = x /\ Len(mid) \in Nat
       /\ DOMAIN parsed' = 1..(Len(mid) + 1) /\ DOMAIN mid = 1..Len(mid)
       /\ \A i \in 1..Len(mid) : parsed'[i] = mid[i]
       /\ DOMAIN parsed = 1..Len(parsed)
  BY <1>1, <1>2, <1>8, <1>9, AppendEntry
<1>12. /\ Len(parsed) <= Len(parsed')
       /\ \A i \in 1..Len(parsed) : i \in 1..Len(mid) /\ parsed'[i] = parsed[i]
  BY <1>8, <1>10, <1>11
<1>13. /\ positions' \in [Used -> Int]
       /\ \A s \in Used : positions'[s] = IF s \in DOMAIN ranges THEN ranges[s].end ELSE positions[s]
  BY <1>1, <1>3, <1>5 DEF Positions
<1>14. ASSUME NEW s \in Used PROVE Chain(parsed', s, positions'[s])
  <2>1. CASE s \in DOMAIN ranges
    <3>1. gaps[s].begin = positions[s] /\ gaps[s].end = ranges[s].begin
      BY <1>4, <2>1 DEF AddrRange
    <3>2. Chain(mid, s, ranges[s].begin)
      <4>1. Chain(mid, s, IF gaps[s].begin = gaps[s].end THEN positions[s] ELSE gaps[s].end)
        BY <1>1, <1>4, <1>5, <1>7, <3>1, FillerExtends DEF mid, filler
      <4> QED BY <3>1, <4>1
    <3>3. Chain(Append(mid, x), s, x.secs[s].end)
      BY <1>2, <1>8, <2>1, <3>2, ChainGrows
    <3> QED BY <1>2, <1>9, <1>13, <2>1, <3>3
  <2>2. CASE s \notin DOMAIN ranges
    <3>1. gaps[s].begin = gaps[s].end
      BY <1>4, <2>2 DEF AddrRange
    <3>2. Chain(mid, s, positions[s])
      BY <1>1, <1>4, <1>5, <1>7, <3>1, FillerExtends DEF mid, filler
    <3>3. Chain(Append(mid, x), s, positions[s])
      BY <1>2, <1>8, <2>2, <3>2, ChainStays
    <3> QED BY <1>9, <1>13, <2>2, <3>3
  <2> QED BY <2>1, <2>2
<1>15. PositionsOfConfig'
  <2> SUFFICES ASSUME NEW s \in Used
               PROVE  \/ positions'[s] = Addr[s]
                      \/ \E i \in DOMAIN parsed' :
                           IsConfigured(parsed', i, s) /\ parsed'[i].secs[s].end = positions'[s]
    BY DEF PositionsOfConfig
  <2>1. CASE s \in DOMAIN ranges
    <3>1. /\ Len(mid) + 1 \in DOMAIN parsed' /\ IsConfigured(parsed', Len(mid) + 1, s)
          /\ parsed'[Len(mid) + 1].secs[s].end = positions'[s]
      BY <1>2, <1>11, <1>13, <2>1 DEF IsConfigured, Has
    <3> QED BY <3>1
  <2>2. CASE s \notin DOMAIN ranges
    <3>1. positions'[s] = positions[s]
      BY <1>13, <2>2
    <3>2. \A i \in DOMAIN parsed : i \in DOMAIN parsed' /\ parsed'[i] = parsed[i]
      BY <1>11, <1>12
    <3> QED BY <1>1, <3>1, <3>2 DEF PositionsOfConfig, IsConfigured, Has
  <2> QED BY <2>1, <2>2
<1>16. ASSUME InConfigOrder(parsed'), NEW s \in Used
       PROVE  Covered(parsed', s, positions'[s])
  <2>1. InConfigOrder(parsed)
    BY <1>1, <1>9, <1>12, <1>16, OrderOfPrefix
  <2>2. Covered(parsed, s, positions[s])
    BY <1>1, <2>1 DEF IInv, SlicesPartition, Reached
  <2>3. Addr[s] <= positions[s] /\ positions[s] \in Int /\ Addr[s] \in Int
    BY <1>1, <1>5, <2>1, PositionInside, SectionNumbers DEF PositionsOfConfig, Used
  <2>4. CASE s \in DOMAIN ranges
    <3>1. gaps[s].begin = positions[s] /\ gaps[s].end = ranges[s].begin
      BY <1>4, <2>4 DEF AddrRange
    <3>2. Len(mid) + 1 \in 1..Len(parsed') /\ IsConfigured(parsed', Len(mid) + 1, s)
      BY <1>2, <1>11, <2>4 DEF IsConfigured, Has
    <3>3. \/ positions[s] = Addr[s]
          \/ \E j \in 1..(Len(mid) + 1 - 1) :
               IsConfigured(parsed', j, s) /\ parsed'[j].secs[s].end = positions[s]
      <4>1. \A i \in DOMAIN parsed : i \in 1..(Len(mid) + 1 - 1) /\ parsed'[i] = parsed[i]
        BY <1>10, <1>11, <1>12
      <4> QED BY <1>1, <4>1 DEF PositionsOfConfig, IsConfigured, Has
    <3>4. positions[s] <= ranges[s].begin
      <4> DEFINE last == Len(mid) + 1
      <4>1. /\ last \in 1..Len(parsed') /\ IsConfigured(parsed', last, s)
            /\ \/ positions[s] = Addr[s]
               \/ \E j \in 1..(last - 1) :
                    IsConfigured(parsed', j, s) /\ parsed'[j].secs[s].end = positions[s]
        BY <3>2, <3>3
      <4>2. parsed'[last] = x
        BY <1>11
      <4> HIDE DEF last
      <4>3. positions[s] <= parsed'[last].secs[s].begin
        BY <1>9, <1>16, <2>3, <4>1, PositionBefore
      <4> QED BY <1>2, <4>2, <4>3
    <3>5. ranges[s].begin <= ranges[s].end
      BY <1>2, <1>11, <1>16, <3>2 DEF InConfigOrder
    <3>6. Covered(mid, s, ranges[s].begin)
      <4>1. positions[s] <= IF gaps[s].begin = gaps[s].end THEN positions[s] ELSE gaps[s].end
        BY <2>3, <3>1, <3>4
      <4> QED BY <1>1, <1>4, <1>7, <2>2, <2>3, <3>1, <4>1, FillerExtends DEF mid, filler
    <3>7. Covered(Append(mid, x), s, x.secs[s].end)
      <4>1. Addr[s] <= ranges[s].begin /\ ranges[s].begin \in Int
        BY <1>3, <2>3, <2>4, <3>4
      <4> QED BY <1>2, <1>8, <2>4, <3>5, <3>6, <4>1, CoverGrows
    <3> QED BY <1>2, <1>9, <1>13, <2>4, <3>7
  <2>5. CASE s \notin DOMAIN ranges
    <3>1. gaps[s].begin = gaps[s].end
      BY <1>4, <2>5 DEF AddrRange
    <3>2. Covered(mid, s, positions[s])
      BY <1>1, <1>4, <1>7, <2>2, <2>3, <3>1, FillerExtends DEF mid, filler
    <3>3. Covered(Append(mid, x), s, positions[s])
      BY <1>2, <1>8, <2>3, <2>5, <3>2, CoverStays
    <3> QED BY <1>9, <1>13, <2>5, <3>3
  <2> QED BY <2>4, <2>5
<1>17. fillers' \in Nat
  BY <1>1, <1>8
<1> QED BY <1>1, <1>9, <1>13, <1>14, <1>15, <1>16, <1>17
        DEF IInv, Chained, SlicesPartition, Reached

LEMMA FinishPreserves == ASSUME IInv, Finish PROVE IInv'
<1> DEFINE gaps == GapsAtEnd
           filler == make_filler_slice(fillers, gaps)
<1>1. /\ phase = "loading" /\ phase' = "loaded" /\ parsed' = parsed \o filler
      /\ positions' = positions /\ fillers' = fillers /\ loaded' = loaded
      /\ fillers \in Nat /\ parsed \in Seq(Parsed) /\ positions \in [Used -> Int]
      /\ PositionsOfConfig
  BY DEF IInv, Finish
<1>2. ASSUME NEW s \in Used
      PROVE  positions[s] \in Int /\ SectionEnd(s) \in Int /\ Addr[s] \in Int
  BY <1>1, SectionNumbers DEF Used
<1>3. /\ gaps \in [Used -> IntRange]
      /\ \A s \in Used : gaps[s].begin = positions[s] /\ gaps[s].end = SectionEnd(s)
  BY <1>1, <1>2 DEF GapsAtEnd, AddrRange, IntRange
<1>4. filler \in Seq(Parsed) /\ parsed' \in Seq(Parsed)
  <2>1. filler \in Seq(Parsed)
    BY <1>1, <1>3, FillerIsSeq
  <2> QED BY <1>1, <2>1
<1>5. Len(parsed) <= Len(parsed') /\ \A i \in 1..Len(parsed) : parsed'[i] = parsed[i]
  <2> HIDE DEF filler
  <2> QED BY <1>1, <1>4
<1> HIDE DEF gaps
<1>6. ASSUME NEW s \in Used PROVE Chain(parsed, s, positions[s])
  BY <1>1 DEF IInv, Chained, Reached
<1>7. ASSUME NEW s \in Used PROVE Chain(parsed', s, SectionEnd(s))
  <2>1. Chain(parsed', s, IF gaps[s].begin = gaps[s].end THEN positions[s] ELSE gaps[s].end)
    BY <1>1, <1>2, <1>3, <1>6, FillerExtends
  <2> QED BY <1>3, <2>1
<1>8. ASSUME InConfigOrder(parsed'), NEW s \in Used PROVE Covered(parsed', s, SectionEnd(s))
  <2>1. InConfigOrder(parsed)
    BY <1>1, <1>4, <1>5, <1>8, OrderOfPrefix
  <2>2. Covered(parsed, s, positions[s])
    BY <1>1, <2>1 DEF IInv, SlicesPartition, Reached
  <2>3. Addr[s] <= positions[s] /\ positions[s] <= SectionEnd(s)
    BY <1>1, <1>2, <2>1, PositionInside DEF PositionsOfConfig
  <2>4. positions[s] <= IF gaps[s].begin = gaps[s].end THEN positions[s] ELSE gaps[s].end
    BY <1>2, <1>3, <2>3
  <2>5. Covered(parsed', s, IF gaps[s].begin = gaps[s].end THEN positions[s] ELSE gaps[s].end)
    BY <1>1, <1>2, <1>3, <1>6, <2>2, <2>3, <2>4, FillerExtends
  <2> QED BY <1>3, <2>5
<1> QED BY <1>1, <1>4, <1>7, <1>8 DEF IInv, Chained, SlicesPartition, Reached

-----------------------------------------------------------------------------
LEMMA Inductive == IInv /\ [Next]_vars => IInv'
<1> SUFFICES ASSUME IInv, [Next]_vars PROVE IInv'
  OBVIOUS
<1>1. ASSUME NEW src \in Source, NEW nonMatching \in BOOLEAN, NEW ranges \in MemoryRanges,
             LoadSlice(src, nonMatching, ranges)
      PROVE  IInv'
  BY <1>1, LoadSlicePreserves
<1>2. ASSUME NEW ranges \in MemoryRanges, Fail(ranges) PROVE IInv'
  BY <1>2 DEF IInv, Fail, Chained, SlicesPartition, Reached
<1>3. CASE Finish
  BY <1>3, FinishPreserves
<1>4. CASE UNCHANGED vars
  BY <1>4 DEF IInv, vars, Chained, SlicesPartition, Reached, PositionsOfConfig
<1> QED BY <1>1, <1>2, <1>3, <1>4 DEF Next

LEMMA IInvHolds == Spec => []IInv
<1>1. Init => IInv
  BY InitEstablishes
<1>2. IInv /\ [Next]_vars => IInv'
  BY Inductive
<1> QED BY <1>1, <1>2, PTL DEF Spec

\* Types: no parsed slice has a section without a size.
THEOREM TypeCorrect == Spec => []TypeOK
<1>1. IInv => TypeOK
  <2> SUFFICES ASSUME IInv PROVE TypeOK
    OBVIOUS
  <2>1. \A i \in DOMAIN parsed : parsed[i] \in Parsed
    BY DEF IInv
  <2> QED BY <2>1, EntryType DEF IInv, TypeOK
<1> QED BY <1>1, IInvHolds, PTL

\* In whatever order the slices come, their ranges and the fillers between
\* them form one chain from the beginning to the end of each section.
THEOREM ChainedHolds == Spec => []Chained
<1>1. IInv => Chained
  BY DEF IInv
<1> QED BY <1>1, IInvHolds, PTL

\* If they come in order, they partition the section.
THEOREM SlicesPartitionHolds == Spec => []SlicesPartition
<1>1. IInv => SlicesPartition
  BY DEF IInv
<1> QED BY <1>1, IInvHolds, PTL

-----------------------------------------------------------------------------
\* The fillers among the first n entries of p.
IsFillerAt(p, i) == p[i].source = Filler
FillersUpTo(p, n) == { j \in 1..n : IsFillerAt(p, j) }

\* The parts of FillersFillGaps for any list: each filler has ranges that are
\* not empty, is not followed by another, and its name is its number; there
\* are n of them.
HasRanges(x) ==
    DOMAIN x.secs # {} /\ \A s \in DOMAIN x.secs : x.secs[s].begin # x.secs[s].end

FillerRight(p, i) ==
    /\ HasRanges(p[i])
    /\ i < Len(p) => ~IsFillerAt(p, i + 1)
    /\ p[i].name = Cardinality(FillersUpTo(p, i - 1))

FillersRight(p, n) ==
    /\ \A i \in DOMAIN p : IsFillerAt(p, i) => FillerRight(p, i)
    /\ n = Cardinality(FillersUpTo(p, Len(p)))

\* The last entry of p, if there is one, is a configured slice.
EndsConfigured(p) == p # <<>> => ~IsFillerAt(p, Len(p))

\* While slices are loaded the last one is a configured slice, and as many
\* fillers have been made as the counter says.
FillersInv ==
    /\ \E n \in Nat : FillersRight(parsed, n)
    /\ phase = "loading" => FillersRight(parsed, fillers) /\ EndsConfigured(parsed)

LEMMA FillersFinite ==
    ASSUME NEW p \in Seq(Parsed), NEW n \in Nat
    PROVE  IsFiniteSet(FillersUpTo(p, n)) /\ Cardinality(FillersUpTo(p, n)) \in Nat
<1>1. FillersUpTo(p, n) \in SUBSET (1..n) /\ IsFiniteSet(1..n)
  BY FS_Interval DEF FillersUpTo
<1>2. IsFiniteSet(FillersUpTo(p, n))
  BY <1>1, FS_Subset
<1> QED BY <1>2, FS_CardinalityType

\* The fillers of a list with one more entry.
LEMMA FillersOfAppend ==
    ASSUME NEW p \in Seq(Parsed), NEW x \in Parsed
    PROVE  /\ \A n \in 0..Len(p) : FillersUpTo(Append(p, x), n) = FillersUpTo(p, n)
           /\ FillersUpTo(Append(p, x), Len(p) + 1) =
                 IF x.source = Filler THEN FillersUpTo(p, Len(p)) \cup {Len(p) + 1}
                 ELSE FillersUpTo(p, Len(p))
<1> DEFINE q == Append(p, x)
           n == Len(p)
<1>1. n \in Nat /\ \A i \in 1..n : IsFillerAt(q, i) <=> IsFillerAt(p, i)
  BY AppendEntry DEF IsFillerAt
<1>2. IsFillerAt(q, n + 1) <=> x.source = Filler
  BY AppendEntry DEF IsFillerAt
<1> HIDE DEF q, n
<1>3. ASSUME NEW k \in 0..n PROVE FillersUpTo(q, k) = FillersUpTo(p, k)
  <2>1. \A j \in 1..k : j \in 1..n
    BY <1>1
  <2> QED BY <1>1, <2>1 DEF FillersUpTo
<1>4. FillersUpTo(q, n + 1) = IF x.source = Filler THEN FillersUpTo(p, n) \cup {n + 1}
                              ELSE FillersUpTo(p, n)
  <2>1. 1..(n + 1) = (1..n) \cup {n + 1}
    BY <1>1
  <2> QED BY <1>1, <1>2, <2>1 DEF FillersUpTo
<1> QED BY <1>3, <1>4 DEF q, n

\* What is right of the entries of p stays right when one is added that does
\* not bring two fillers together.
LEMMA RightOfAppend ==
    ASSUME NEW p \in Seq(Parsed), NEW x \in Parsed, NEW n \in Nat, FillersRight(p, n),
           EndsConfigured(p) \/ x.source # Filler
    PROVE  \A i \in 1..Len(p) : IsFillerAt(Append(p, x), i) => FillerRight(Append(p, x), i)
<1> DEFINE q == Append(p, x)
<1>1. /\ Len(p) \in Nat /\ Len(q) = Len(p) + 1 /\ DOMAIN p = 1..Len(p)
      /\ \A i \in 1..Len(p) : q[i] = p[i]
      /\ q[Len(p) + 1] = x
  BY AppendEntry
<1> SUFFICES ASSUME NEW i \in 1..Len(p), IsFillerAt(q, i) PROVE FillerRight(q, i)
  OBVIOUS
<1> HIDE DEF q
<1>2. IsFillerAt(p, i) /\ FillerRight(p, i)
  BY <1>1 DEF IsFillerAt, FillersRight
<1>3. HasRanges(q[i])
  BY <1>1, <1>2 DEF FillerRight
<1>4. ~IsFillerAt(q, i + 1)
  <2>1. CASE i < Len(p)
    <3>1. i + 1 \in 1..Len(p) /\ ~IsFillerAt(p, i + 1)
      BY <1>1, <1>2, <2>1 DEF FillerRight
    <3> QED BY <1>1, <3>1 DEF IsFillerAt
  <2>2. CASE i = Len(p)
    <3>1. p # <<>>
      BY <1>1
    <3>2. x.source # Filler
      BY <1>2, <2>2, <3>1 DEF EndsConfigured
    <3> QED BY <1>1, <2>2, <3>2 DEF IsFillerAt
  <2>3. i < Len(p) \/ i = Len(p)
    <3>1. Len(p) \in Nat
      OBVIOUS
    <3> QED BY <3>1
  <2> QED BY <2>1, <2>2, <2>3
<1>5. q[i].name = Cardinality(FillersUpTo(q, i - 1))
  <2>1. i - 1 \in 0..Len(p)
    BY <1>1
  <2>2. FillersUpTo(q, i - 1) = FillersUpTo(p, i - 1)
    BY <2>1, FillersOfAppend DEF q
  <2> QED BY <1>1, <1>2, <2>2 DEF FillerRight
<1> QED BY <1>3, <1>4, <1>5 DEF FillerRight

\* A filler with the next number, behind a configured slice.
LEMMA AddFiller ==
    ASSUME NEW p \in Seq(Parsed), NEW x \in Parsed, NEW n \in Nat,
           FillersRight(p, n), EndsConfigured(p),
           x.source = Filler, x.name = n, HasRanges(x)
    PROVE  FillersRight(Append(p, x), n + 1)
<1> DEFINE q == Append(p, x)
           last == Len(p) + 1
<1>1. /\ Len(p) \in Nat /\ last \in Nat /\ Len(q) = last /\ q[last] = x /\ DOMAIN q = 1..last
      /\ \A i \in 1..last : i \in 1..Len(p) \/ i = last
  BY AppendEntry
<1>2. \A i \in 1..Len(p) : IsFillerAt(q, i) => FillerRight(q, i)
  BY RightOfAppend
<1>3. n = Cardinality(FillersUpTo(p, Len(p))) /\ IsFiniteSet(FillersUpTo(p, Len(p)))
  BY <1>1, FillersFinite DEF FillersRight
<1>4. /\ FillersUpTo(q, Len(p)) = FillersUpTo(p, Len(p))
      /\ FillersUpTo(q, last) = FillersUpTo(p, Len(p)) \cup {last}
  <2>1. Len(p) \in 0..Len(p)
    BY <1>1
  <2> QED BY <2>1, FillersOfAppend
<1>5. last \notin FillersUpTo(p, Len(p))
  BY <1>1 DEF FillersUpTo
<1>6. last - 1 = Len(p) /\ ~(last < last)
  BY <1>1
<1> HIDE DEF q, last
<1>7. FillerRight(q, last)
  BY <1>1, <1>3, <1>4, <1>6 DEF FillerRight
<1>8. n + 1 = Cardinality(FillersUpTo(q, last))
  BY <1>3, <1>4, <1>5, FS_AddElement
<1>9. FillersRight(q, n + 1)
  BY <1>1, <1>2, <1>7, <1>8 DEF FillersRight
<1> QED BY <1>9 DEF q

\* A configured slice.
LEMMA AddSlice ==
    ASSUME NEW p \in Seq(Parsed), NEW x \in Parsed, NEW n \in Nat,
           FillersRight(p, n), x.source # Filler
    PROVE  FillersRight(Append(p, x), n) /\ EndsConfigured(Append(p, x))
<1> DEFINE q == Append(p, x)
           last == Len(p) + 1
<1>1. /\ Len(p) \in Nat /\ Len(q) = last /\ q[last] = x /\ DOMAIN q = 1..last
      /\ \A i \in 1..last : i \in 1..Len(p) \/ i = last
  BY AppendEntry
<1>2. \A i \in 1..Len(p) : IsFillerAt(q, i) => FillerRight(q, i)
  BY RightOfAppend
<1>3. FillersUpTo(q, last) = FillersUpTo(p, Len(p))
  BY FillersOfAppend
<1>4. ~IsFillerAt(q, last)
  BY <1>1 DEF IsFillerAt
<1> HIDE DEF q, last
<1>5. FillersRight(q, n) /\ EndsConfigured(q)
  BY <1>1, <1>2, <1>3, <1>4 DEF FillersRight, EndsConfigured
<1> QED BY <1>5 DEF q

\* make_filler_slice makes a filler with the number it is given, or none.
LEMMA FillerShape ==
    ASSUME NEW n \in Nat, NEW gaps, gaps \in [Used -> IntRange]
    PROVE  \/ make_filler_slice(n, gaps) = <<>>
           \/ \E x \in Parsed : /\ make_filler_slice(n, gaps) = <<x>>
                                /\ x.source = Filler /\ x.name = n /\ HasRanges(x)
<1> DEFINE open == { u \in DOMAIN gaps : gaps[u].begin # gaps[u].end }
           x == [name |-> n, source |-> Filler, nonMatching |-> FALSE,
                 secs |-> [u \in open |-> gaps[u]]]
<1>1. CASE open = {}
  BY <1>1 DEF make_filler_slice
<1>2. CASE open # {}
  <2>1. make_filler_slice(n, gaps) = <<x>>
    BY <1>2 DEF make_filler_slice
  <2>2. x \in Parsed
    <3>1. <<x>> \in Seq(Parsed)
      BY <2>1, FillerIsSeq
    <3> HIDE DEF x
    <3> QED BY <3>1
  <2>3. x.source = Filler /\ x.name = n /\ HasRanges(x)
    BY <1>2 DEF HasRanges
  <2> QED BY <2>1, <2>2, <2>3
<1> QED BY <1>1, <1>2

\* So does load_slice_file, which counts the fillers it makes.
LEMMA FillerAppended ==
    ASSUME NEW p \in Seq(Parsed), NEW n \in Nat, NEW gaps, gaps \in [Used -> IntRange],
           FillersRight(p, n), EndsConfigured(p),
           NEW filler, filler = make_filler_slice(n, gaps)
    PROVE  p \o filler \in Seq(Parsed) /\ n + Len(filler) \in Nat
               /\ FillersRight(p \o filler, n + Len(filler))
<1>1. CASE filler = <<>>
  <2>1. p \o filler = p /\ Len(filler) = 0
    BY <1>1
  <2> QED BY <2>1
<1>2. ASSUME NEW x \in Parsed, filler = <<x>>, x.source = Filler, x.name = n, HasRanges(x)
      PROVE  p \o filler \in Seq(Parsed) /\ n + Len(filler) \in Nat
                 /\ FillersRight(p \o filler, n + Len(filler))
  <2>1. p \o filler = Append(p, x) /\ Len(filler) = 1 /\ Append(p, x) \in Seq(Parsed)
    BY <1>2
  <2>2. FillersRight(Append(p, x), n + 1)
    BY <1>2, AddFiller
  <2> QED BY <2>1, <2>2
<1> QED BY <1>1, <1>2, FillerShape

LEMMA FillersInit == Init => FillersInv
<1> SUFFICES ASSUME Init PROVE FillersInv
  OBVIOUS
<1>1. parsed = <<>> /\ fillers = 0 /\ DOMAIN parsed = {} /\ Len(parsed) = 0
  BY DEF Init
<1>2. FillersUpTo(parsed, 0) = {}
  BY DEF FillersUpTo
<1>3. FillersRight(parsed, 0) /\ EndsConfigured(parsed)
  BY <1>1, <1>2, FS_EmptySet DEF FillersRight, EndsConfigured
<1> QED BY <1>1, <1>3 DEF FillersInv

LEMMA FillersStep == ASSUME IInv, FillersInv, [Next]_vars PROVE FillersInv'
<1>1. parsed \in Seq(Parsed) /\ fillers \in Nat /\ positions \in [Used -> Int]
  BY DEF IInv
<1>2. ASSUME NEW src \in Source, NEW nonMatching \in BOOLEAN, NEW ranges \in MemoryRanges,
             LoadSlice(src, nonMatching, ranges)
      PROVE  FillersInv'
  <2> DEFINE gaps == GapsBefore(ranges)
             filler == make_filler_slice(fillers, gaps)
             x == [name |-> src, source |-> src, nonMatching |-> nonMatching, secs |-> ranges]
  <2>1. /\ phase = "loading" /\ DOMAIN ranges \subseteq Used
        /\ parsed' = parsed \o filler \o <<x>> /\ fillers' = fillers + Len(filler)
    BY <1>1, <1>2 DEF LoadSlice
  <2>2. FillersRight(parsed, fillers) /\ EndsConfigured(parsed)
    BY <2>1 DEF FillersInv
  <2>3. gaps \in [Used -> IntRange]
    <3>1. \A s \in DOMAIN ranges : ranges[s].begin \in Int
      BY RangesType DEF IntRange
    <3> QED BY <1>1, <3>1 DEF GapsBefore, AddrRange, IntRange
  <2>4. x \in Parsed /\ x.source # Filler
    <3>1. x \in [name : Source \cup Nat, source : Source \cup {Filler},
                 nonMatching : BOOLEAN, secs : [DOMAIN ranges -> IntRange]]
      BY RangesType
    <3> QED BY <2>1, <3>1, SliceAssumption DEF Parsed
  <2> HIDE DEF gaps, x
  <2>5. /\ parsed \o filler \in Seq(Parsed) /\ fillers' \in Nat
        /\ FillersRight(parsed \o filler, fillers')
    BY <1>1, <2>1, <2>2, <2>3, FillerAppended
  <2> HIDE DEF filler
  <2>6. parsed' = Append(parsed \o filler, x)
    BY <2>1, <2>4, <2>5
  <2>7. FillersRight(parsed', fillers') /\ EndsConfigured(parsed')
    BY <2>4, <2>5, <2>6, AddSlice
  <2> QED BY <2>5, <2>7 DEF FillersInv
<1>3. ASSUME NEW ranges \in MemoryRanges, Fail(ranges) PROVE FillersInv'
  BY <1>3 DEF Fail, FillersInv
<1>4. CASE Finish
  <2> DEFINE gaps == GapsAtEnd
             filler == make_filler_slice(fillers, gaps)
  <2>1. /\ phase = "loading" /\ phase' = "loaded" /\ parsed' = parsed \o filler
    BY <1>4 DEF Finish
  <2>2. FillersRight(parsed, fillers) /\ EndsConfigured(parsed)
    BY <2>1 DEF FillersInv
  <2>3. gaps \in [Used -> IntRange]
    <3>1. \A s \in Used : SectionEnd(s) \in Int
      BY SectionNumbers DEF Used
    <3> QED BY <1>1, <3>1 DEF GapsAtEnd, AddrRange, IntRange
  <2> HIDE DEF gaps
  <2>4. fillers + Len(filler) \in Nat /\ FillersRight(parsed', fillers + Len(filler))
    BY <1>1, <2>1, <2>2, <2>3, FillerAppended
  <2> HIDE DEF filler
  <2> QED BY <2>1, <2>4 DEF FillersInv
<1>5. CASE UNCHANGED vars
  BY <1>5 DEF vars, FillersInv
<1> QED BY <1>2, <1>3, <1>4, <1>5 DEF Next

(***************************************************************************)
(* Every filler fills a gap that is there, no two stand together, and each *)
(* has a number of its own, so that no object file is written twice; what  *)
(* is linked is built.                                                     *)
(***************************************************************************)
THEOREM FillersFillGapsHolds == Spec => []FillersFillGaps
<1>1. Init => FillersInv
  BY FillersInit
<1>2. IInv /\ FillersInv /\ [Next]_vars => FillersInv'
  BY FillersStep
<1>3. IInv /\ FillersInv => FillersFillGaps
  <2> SUFFICES ASSUME IInv, FillersInv PROVE FillersFillGaps
    OBVIOUS
  <2>1. parsed \in Seq(Parsed) /\ DOMAIN parsed = 1..Len(parsed) /\ Len(parsed) \in Nat
    BY DEF IInv
  <2>2. PICK n \in Nat : FillersRight(parsed, n)
    BY DEF FillersInv
  <2>3. ASSUME NEW i \in DOMAIN parsed, parsed[i].source = Filler
        PROVE  /\ DOMAIN parsed[i].secs # {}
               /\ \A s \in DOMAIN parsed[i].secs :
                     parsed[i].secs[s].begin # parsed[i].secs[s].end
               /\ i < Len(parsed) => ~(parsed[i + 1].source = Filler)
               /\ parsed[i].name
                    = Cardinality({ j \in 1..(i - 1) : parsed[j].source = Filler })
    BY <2>2, <2>3 DEF FillersRight, FillerRight, HasRanges, IsFillerAt, FillersUpTo
  <2>4. LinkInputsBuilt
    <3>1. ASSUME NEW i \in DOMAIN parsed
          PROVE  ld_o_files[i] \in sliced_o_files \cup compiled_o_files
      <4>1. parsed[i] \in Elements(parsed)
        BY DEF Elements
      <4>2. CASE parsed[i].source # Filler /\ ~parsed[i].nonMatching
        BY <4>1, <4>2 DEF ld_o_files, compiled_o_files
      <4>3. CASE parsed[i].source = Filler \/ parsed[i].nonMatching
        BY <4>1, <4>3 DEF ld_o_files, sliced_o_files
      <4> QED BY <4>2, <4>3
    <3> QED BY <3>1 DEF LinkInputsBuilt
  <2> QED BY <2>3, <2>4 DEF FillersFillGaps
<1> QED BY <1>1, <1>2, <1>3, IInvHolds, PTL DEF Spec

-----------------------------------------------------------------------------
(***************************************************************************)
(* The ranges that come from a configuration in order lie in the sections. *)
(***************************************************************************)
LiesIn(r, s) == Addr[s] <= r.begin /\ r.begin <= r.end /\ r.end <= SectionEnd(s)

AllLieIn(x) == \A s \in DOMAIN x.secs : LiesIn(x.secs[s], s)

Inside(p) == \A i \in DOMAIN p : AllLieIn(p[i])

InsideInv == InConfigOrder(parsed) => Inside(parsed)

LEMMA InsideAppend ==
    ASSUME NEW p \in Seq(Parsed), NEW x \in Parsed, Inside(p), AllLieIn(x)
    PROVE  Inside(Append(p, x))
<1> DEFINE q == Append(p, x)
           n == Len(p)
<1>1. /\ n \in Nat /\ DOMAIN q = 1..(n + 1) /\ q[n + 1] = x
      /\ DOMAIN p = 1..n /\ \A i \in 1..n : q[i] = p[i]
  BY AppendEntry
<1> HIDE DEF q, n
<1>2. \A i \in 1..(n + 1) : i \in 1..n \/ i = n + 1
  BY <1>1
<1>3. \A i \in 1..n : AllLieIn(p[i])
  BY <1>1 DEF Inside
<1>4. \A i \in 1..(n + 1) : AllLieIn(q[i])
  BY <1>1, <1>2, <1>3
<1> QED BY <1>1, <1>4 DEF Inside, q

\* A filler has the gaps that are not empty.
LEMMA FillerRanges ==
    ASSUME NEW n \in Nat, NEW gaps, gaps \in [Used -> IntRange]
    PROVE  \/ make_filler_slice(n, gaps) = <<>>
           \/ \E x \in Parsed :
                 /\ make_filler_slice(n, gaps) = <<x>>
                 /\ \A s \in DOMAIN x.secs :
                       s \in Used /\ gaps[s].begin # gaps[s].end /\ x.secs[s] = gaps[s]
<1> DEFINE open == { u \in DOMAIN gaps : gaps[u].begin # gaps[u].end }
           x == [name |-> n, source |-> Filler, nonMatching |-> FALSE,
                 secs |-> [u \in open |-> gaps[u]]]
<1>1. CASE open = {}
  BY <1>1 DEF make_filler_slice
<1>2. CASE open # {}
  <2>1. make_filler_slice(n, gaps) = <<x>>
    BY <1>2 DEF make_filler_slice
  <2>2. x \in Parsed
    <3>1. <<x>> \in Seq(Parsed)
      BY <2>1, FillerIsSeq
    <3> HIDE DEF x
    <3> QED BY <3>1
  <2>3. \A s \in DOMAIN x.secs :
           s \in Used /\ gaps[s].begin # gaps[s].end /\ x.secs[s] = gaps[s]
    OBVIOUS
  <2> HIDE DEF x
  <2> QED BY <2>1, <2>2, <2>3
<1> QED BY <1>1, <1>2

LEMMA InsideFiller ==
    ASSUME NEW p \in Seq(Parsed), NEW n \in Nat, NEW gaps, gaps \in [Used -> IntRange], Inside(p),
           \A s \in Used : gaps[s].begin # gaps[s].end => LiesIn(gaps[s], s)
    PROVE  p \o make_filler_slice(n, gaps) \in Seq(Parsed) /\ Inside(p \o make_filler_slice(n, gaps))
<1>1. PICK filler : filler = make_filler_slice(n, gaps)
  OBVIOUS
<1>2. CASE filler = <<>>
  <2>1. p \o filler = p
    BY <1>2
  <2> QED BY <1>1, <2>1
<1>3. ASSUME NEW x \in Parsed, filler = <<x>>,
             \A s \in DOMAIN x.secs :
                s \in Used /\ gaps[s].begin # gaps[s].end /\ x.secs[s] = gaps[s]
      PROVE  p \o filler \in Seq(Parsed) /\ Inside(p \o filler)
  <2>1. p \o filler = Append(p, x) /\ Append(p, x) \in Seq(Parsed)
    BY <1>3
  <2>2. AllLieIn(x)
    BY <1>3 DEF AllLieIn
  <2> QED BY <2>1, <2>2, InsideAppend
<1> QED BY <1>1, <1>2, <1>3, FillerRanges

\* The position reached lies in the section, and before what comes next.
LEMMA PositionsInside ==
    ASSUME IInv, phase = "loading", InConfigOrder(parsed), NEW s \in Used
    PROVE  positions[s] \in Int /\ Addr[s] <= positions[s] /\ positions[s] <= SectionEnd(s)
<1>1. positions[s] \in Int /\ parsed \in Seq(Parsed)
  BY DEF IInv
<1>2. \/ positions[s] = Addr[s]
      \/ \E j \in DOMAIN parsed : IsConfigured(parsed, j, s) /\ parsed[j].secs[s].end = positions[s]
  BY DEF IInv, PositionsOfConfig
<1> QED BY <1>1, <1>2, PositionInside

LEMMA InsideFinish == ASSUME IInv, InsideInv, Finish PROVE InsideInv'
<1>1. PICK gaps : gaps = GapsAtEnd
  OBVIOUS
<1>2. /\ parsed \in Seq(Parsed) /\ fillers \in Nat /\ positions \in [Used -> Int]
      /\ phase = "loading" /\ parsed' = parsed \o make_filler_slice(fillers, gaps)
  BY <1>1 DEF IInv, Finish
<1>3. /\ gaps \in [Used -> IntRange]
      /\ \A s \in Used : gaps[s] = AddrRange(positions[s], SectionEnd(s))
  <2>1. \A s \in Used : SectionEnd(s) \in Int
    BY SectionNumbers DEF Used
  <2> QED BY <1>1, <1>2, <2>1 DEF GapsAtEnd, AddrRange, IntRange
<1>4. IInv'
  BY FinishPreserves
<1>5. ASSUME InConfigOrder(parsed') PROVE Inside(parsed')
  <2>1. make_filler_slice(fillers, gaps) \in Seq(Parsed)
    BY <1>2, <1>3, FillerIsSeq
  <2>2. /\ Len(parsed) <= Len(parsed') /\ \A i \in 1..Len(parsed) : parsed'[i] = parsed[i]
        /\ parsed' \in Seq(Parsed)
    BY <1>2, <2>1
  <2>3. InConfigOrder(parsed)
    BY <1>2, <1>5, <2>2, OrderOfPrefix
  <2>4. Inside(parsed)
    BY <2>3 DEF InsideInv
  <2>5. ASSUME NEW s \in Used PROVE LiesIn(gaps[s], s)
    <3>1. Addr[s] <= positions[s] /\ positions[s] <= SectionEnd(s) /\ positions[s] \in Int
      BY <1>2, <2>3, PositionsInside
    <3>2. SectionEnd(s) \in Int
      BY SectionNumbers DEF Used
    <3> QED BY <1>3, <3>1, <3>2 DEF LiesIn, AddrRange
  <2> QED BY <1>2, <1>3, <2>4, <2>5, InsideFiller
<1> QED BY <1>5 DEF InsideInv

LEMMA InsideLoadSlice ==
    ASSUME IInv, InsideInv, NEW src \in Source, NEW nonMatching \in BOOLEAN,
           NEW ranges \in MemoryRanges, LoadSlice(src, nonMatching, ranges)
    PROVE  InsideInv'
<1>1. PICK gaps : gaps = GapsBefore(ranges)
  OBVIOUS
<1>2. PICK filler : filler = make_filler_slice(fillers, gaps)
  OBVIOUS
<1>3. PICK x : x = [name |-> src, source |-> src, nonMatching |-> nonMatching, secs |-> ranges]
  OBVIOUS
<1>4. /\ parsed \in Seq(Parsed) /\ fillers \in Nat /\ positions \in [Used -> Int]
      /\ phase = "loading" /\ DOMAIN ranges \subseteq Used
      /\ parsed' = parsed \o filler \o <<x>>
  BY <1>1, <1>2, <1>3 DEF IInv, LoadSlice
<1>5. x \in Parsed /\ x.secs = ranges /\ x.source # Filler
  <2>1. x \in [name : Source \cup Nat, source : Source \cup {Filler},
               nonMatching : BOOLEAN, secs : [DOMAIN ranges -> IntRange]]
    BY <1>3, RangesType
  <2> QED BY <1>3, <1>4, <2>1, SliceAssumption DEF Parsed
<1>6. \A s \in DOMAIN ranges : ranges[s].begin \in Int /\ ranges[s].end \in Int
  BY RangesType DEF IntRange
<1>7. /\ gaps \in [Used -> IntRange]
      /\ \A s \in Used : gaps[s] = IF s \in DOMAIN ranges
                                   THEN AddrRange(positions[s], ranges[s].begin) ELSE AddrRange(0, 0)
  BY <1>1, <1>4, <1>6 DEF GapsBefore, AddrRange, IntRange
<1>8. filler \in Seq(Parsed)
  BY <1>2, <1>4, <1>7, FillerIsSeq
<1>9. PICK mid \in Seq(Parsed) : mid = parsed \o filler
  <2>1. parsed \o filler \in Seq(Parsed)
    BY <1>4, <1>8
  <2> QED BY <2>1
<1>10. /\ Len(mid) \in Nat /\ Len(parsed) \in Nat /\ Len(parsed) <= Len(mid)
       /\ \A i \in 1..Len(parsed) : i \in 1..Len(mid) /\ mid[i] = parsed[i]
  BY <1>4, <1>8, <1>9
<1>11. parsed' = Append(mid, x)
  BY <1>4, <1>5, <1>9
<1>12. PICK last \in Nat : last = Len(mid) + 1
  BY <1>10
<1>13. /\ parsed' \in Seq(Parsed) /\ Len(parsed') = last /\ parsed'[last] = x /\ last \in 1..Len(parsed')
       /\ DOMAIN parsed' = 1..last
       /\ \A i \in 1..Len(mid) : parsed'[i] = mid[i]
  BY <1>5, <1>11, <1>12, AppendEntry
<1>14. /\ Len(parsed) <= Len(parsed')
       /\ \A i \in 1..Len(parsed) : i \in 1..(last - 1) /\ parsed'[i] = parsed[i]
  BY <1>10, <1>12, <1>13
<1>15. ASSUME InConfigOrder(parsed') PROVE Inside(parsed')
  <2>1. InConfigOrder(parsed)
    BY <1>4, <1>13, <1>14, <1>15, OrderOfPrefix
  <2>2. Inside(parsed)
    BY <2>1 DEF InsideInv
  <2>3. ASSUME NEW s \in DOMAIN ranges
        PROVE  /\ Addr[s] <= ranges[s].begin /\ ranges[s].begin <= ranges[s].end
               /\ ranges[s].end <= SectionEnd(s) /\ positions[s] <= ranges[s].begin
    <3>1. s \in Used /\ positions[s] \in Int
      BY <1>4
    <3>2. IsConfigured(parsed', last, s)
      BY <1>5, <1>13 DEF IsConfigured, Has
    <3>3. \/ positions[s] = Addr[s]
          \/ \E j \in 1..(last - 1) :
               IsConfigured(parsed', j, s) /\ parsed'[j].secs[s].end = positions[s]
      <4>1. \/ positions[s] = Addr[s]
            \/ \E i \in DOMAIN parsed :
                 IsConfigured(parsed, i, s) /\ parsed[i].secs[s].end = positions[s]
        BY <1>4, <3>1 DEF IInv, PositionsOfConfig
      <4>2. DOMAIN parsed = 1..Len(parsed)
        BY <1>4
      <4> QED BY <1>14, <4>1, <4>2 DEF IsConfigured, Has
    <3>4. positions[s] <= parsed'[last].secs[s].begin
      BY <1>13, <1>15, <3>1, <3>2, <3>3, PositionBefore
    <3>5. /\ Addr[s] <= parsed'[last].secs[s].begin
          /\ parsed'[last].secs[s].begin <= parsed'[last].secs[s].end
          /\ parsed'[last].secs[s].end <= SectionEnd(s)
      BY <1>13, <1>15, <3>1, <3>2 DEF InConfigOrder
    <3> QED BY <1>5, <1>13, <3>4, <3>5
  <2>4. ASSUME NEW s \in Used, gaps[s].begin # gaps[s].end PROVE LiesIn(gaps[s], s)
    <3>1. s \in DOMAIN ranges
      BY <1>7, <2>4 DEF AddrRange
    <3>2. Addr[s] <= positions[s] /\ positions[s] \in Int
      BY <1>4, <2>1, PositionsInside
    <3>3. SectionEnd(s) \in Int /\ ranges[s].begin \in Int /\ ranges[s].end \in Int
      BY <1>6, <3>1, SectionNumbers DEF Used
    <3>4. ranges[s].begin <= SectionEnd(s)
      BY <2>3, <3>1, <3>3
    <3> QED BY <1>7, <2>3, <3>1, <3>2, <3>4 DEF LiesIn, AddrRange
  <2>5. Inside(mid)
    BY <1>2, <1>4, <1>7, <1>9, <2>2, <2>4, InsideFiller
  <2>6. AllLieIn(x)
    BY <1>5, <2>3 DEF AllLieIn, LiesIn
  <2> QED BY <1>5, <1>11, <2>5, <2>6, InsideAppend
<1> QED BY <1>15 DEF InsideInv

LEMMA InsideStep == ASSUME IInv, InsideInv, [Next]_vars PROVE InsideInv'
<1>1. ASSUME NEW src \in Source, NEW nonMatching \in BOOLEAN, NEW ranges \in MemoryRanges,
             LoadSlice(src, nonMatching, ranges)
      PROVE  InsideInv'
  BY <1>1, InsideLoadSlice
<1>2. ASSUME NEW ranges \in MemoryRanges, Fail(ranges) PROVE InsideInv'
  BY <1>2 DEF Fail, InsideInv
<1>3. CASE Finish
  BY <1>3, InsideFinish
<1>4. CASE UNCHANGED vars
  BY <1>4 DEF vars, InsideInv
<1> QED BY <1>1, <1>2, <1>3, <1>4 DEF Next

LoadInv == IInv /\ InsideInv

LEMMA InsideHolds == Spec => []LoadInv
<1>1. Init => LoadInv
  <2>1. Init => DOMAIN parsed = {}
    BY DEF Init
  <2> QED BY <2>1, InitEstablishes DEF LoadInv, InsideInv, Inside
<1>2. LoadInv /\ [Next]_vars => LoadInv'
  BY Inductive, InsideStep DEF LoadInv
<1> QED BY <1>1, <1>2, PTL DEF Spec

-----------------------------------------------------------------------------
(***************************************************************************)
(* Slicing does to the list of slices what load_slice_file does: what is   *)
(* proved of loading holds while the program is cut and linked.            *)
(***************************************************************************)
THEOREM SlicingLoads == SlicingSpec => Spec
<1>1. SlicingInit => Init
  BY DEF SlicingInit
<1>2. [SlicingNext]_<<loading, cutting>> => [Next]_vars
  BY DEF SlicingNext, Loads, Cuts, Done, loading, vars
<1> QED BY <1>1, <1>2, PTL DEF SlicingSpec, Spec

LEMMA LoadInvHolds == SlicingSpec => []LoadInv
BY InsideHolds, SlicingLoads, PTL

-----------------------------------------------------------------------------
(***************************************************************************)
(* The operators of SliceObject on numbers and sequences.                  *)
(***************************************************************************)
LEMMA LargestFact ==
    ASSUME NEW m \in Nat, NEW S \in SUBSET (0..m), S # {}
    PROVE  Largest(S) \in S /\ \A b \in S : b <= Largest(S)
<1> DEFINE T == { m - x : x \in S }
<1>1. T \in SUBSET Nat /\ T # {}
  <2>1. ASSUME NEW x \in S PROVE m - x \in Nat
    <3>1. x \in 0..m
      OBVIOUS
    <3> QED BY <3>1
  <2>2. PICK x \in S : TRUE
    OBVIOUS
  <2>3. m - x \in T
    OBVIOUS
  <2> QED BY <2>1, <2>3
<1>2. PICK y \in T : \A z \in T : y <= z
  BY <1>1, LeastNumber
<1>3. PICK x \in S : y = m - x
  OBVIOUS
<1>4. \A b \in S : b <= x
  <2>1. ASSUME NEW b \in S PROVE b <= x
    <3>1. m - b \in T
      OBVIOUS
    <3>2. m - x <= m - b
      BY <1>2, <1>3, <3>1
    <3> QED BY <3>2
  <2> QED BY <2>1
<1> QED BY <1>3, <1>4 DEF Largest

\* How many of the numbers in K are up to n.
Count(K, n) == Cardinality(K \cap (1..n))

LEMMA CountFacts ==
    ASSUME NEW K
    PROVE  /\ Count(K, 0) = 0
           /\ \A n \in Nat : Count(K, n) \in Nat
           /\ \A n \in Nat : Count(K, n + 1) = Count(K, n) + IF n + 1 \in K THEN 1 ELSE 0
<1>1. Count(K, 0) = 0
  <2>1. K \cap (1..0) = {}
    OBVIOUS
  <2> QED BY <2>1, FS_EmptySet DEF Count
<1>2. ASSUME NEW n \in Nat PROVE IsFiniteSet(K \cap (1..n)) /\ Count(K, n) \in Nat
  <2>1. IsFiniteSet(1..n)
    BY FS_Interval
  <2>2. IsFiniteSet(K \cap (1..n))
    BY <2>1, FS_Subset
  <2> QED BY <2>2, FS_CardinalityType DEF Count
<1>3. ASSUME NEW n \in Nat
      PROVE  Count(K, n + 1) = Count(K, n) + IF n + 1 \in K THEN 1 ELSE 0
  <2>1. CASE n + 1 \in K
    <3>1. K \cap (1..n + 1) = (K \cap (1..n)) \cup {n + 1} /\ n + 1 \notin K \cap (1..n)
      BY <2>1
    <3>2. Cardinality((K \cap (1..n)) \cup {n + 1}) = Cardinality(K \cap (1..n)) + 1
      BY <1>2, <3>1, FS_AddElement
    <3> QED BY <2>1, <3>1, <3>2 DEF Count
  <2>2. CASE n + 1 \notin K
    <3>1. K \cap (1..n + 1) = K \cap (1..n)
      BY <2>2
    <3>2. Count(K, n + 1) = Count(K, n)
      BY <3>1 DEF Count
    <3>3. PICK c \in Nat : c = Count(K, n)
      BY <1>2
    <3>4. (IF n + 1 \in K THEN 1 ELSE 0) = 0
      BY <2>2
    <3>5. c + 0 = c
      OBVIOUS
    <3> QED BY <3>2, <3>3, <3>4, <3>5
  <2> QED BY <2>1, <2>2
<1> QED BY <1>1, <1>2, <1>3

\* The places in K are numbered in their order.
LEMMA CountGrows ==
    ASSUME NEW K, NEW i \in Nat, NEW n \in Nat, i <= n
    PROVE  /\ Count(K, i) <= Count(K, n)
           /\ i < n /\ n \in K => Count(K, i) < Count(K, n)
<1> DEFINE S == { d \in Nat : Count(K, i) <= Count(K, i + d) }
<1>0. \A k \in Nat : Count(K, k) \in Nat
  BY CountFacts
<1>1. 0 \in S
  <2>1. i + 0 = i
    OBVIOUS
  <2> QED BY <1>0, <2>1
<1>2. ASSUME NEW d \in Nat, d \in S PROVE d + 1 \in S
  <2>1. i + d \in Nat /\ i + (d + 1) = (i + d) + 1
    OBVIOUS
  <2>2. Count(K, i + d + 1) = Count(K, i + d) + IF i + d + 1 \in K THEN 1 ELSE 0
    BY <2>1, CountFacts
  <2> QED BY <1>0, <1>2, <2>1, <2>2
<1>3. \A d \in Nat : d \in S
  <2> HIDE DEF S
  <2> QED BY <1>1, <1>2, Induction
<1>4. ASSUME NEW k \in Nat, i <= k PROVE Count(K, i) <= Count(K, k)
  <2>1. k - i \in Nat /\ i + (k - i) = k
    BY <1>4
  <2>2. k - i \in S
    BY <1>3, <2>1
  <2> QED BY <2>1, <2>2
<1>5. ASSUME i < n, n \in K PROVE Count(K, i) < Count(K, n)
  <2>1. n - 1 \in Nat /\ i <= n - 1 /\ n = (n - 1) + 1
    BY <1>5
  <2>2. Count(K, n) = Count(K, n - 1) + 1
    BY <1>5, <2>1, CountFacts
  <2>3. Count(K, i) <= Count(K, n - 1)
    BY <1>4, <2>1
  <2> QED BY <1>0, <2>1, <2>2, <2>3
<1> QED BY <1>4, <1>5

\* What Kept gives: the elements at the places in K, each once, in their order.
LEMMA KeptFacts ==
    ASSUME NEW S, NEW s \in Seq(S), NEW K
    PROVE  /\ Kept(s, K) \in Seq(S)
           /\ Len(Kept(s, K)) = Count(K, Len(s))
           /\ \A i \in K \cap (1..Len(s)) :
                 Count(K, i) \in 1..Len(Kept(s, K)) /\ Kept(s, K)[Count(K, i)] = s[i]
           /\ \A j \in 1..Len(Kept(s, K)) : \E i \in K \cap (1..Len(s)) : Count(K, i) = j
<1>1. PICK l \in Nat : l = Len(s)
  OBVIOUS
<1> DEFINE next == [n \in 1..l |-> [t \in Seq(S) |-> IF n \in K THEN Append(t, s[n]) ELSE t]]
<1>2. next \in [1..l -> [Seq(S) -> Seq(S)]]
  BY <1>1
<1>3. PICK f \in [0..l -> Seq(S)] : Follows(f, <<>>, next, l)
  <2> HIDE DEF next
  <2>1. <<>> \in Seq(S)
    OBVIOUS
  <2> QED BY <1>2, <2>1, RecursiveSequence
<1>4. f[0] = <<>> /\ \A n \in 1..l : f[n] = IF n \in K THEN Append(f[n - 1], s[n]) ELSE f[n - 1]
  <2>1. \A n \in 1..l : n - 1 \in 0..l
    OBVIOUS
  <2> QED BY <1>3, <2>1 DEF Follows
<1> DEFINE F(g) == [n \in 0..l |-> IF n = 0 THEN <<>>
                       ELSE IF n \in K THEN Append(g[n - 1], s[n]) ELSE g[n - 1]]
           upto == CHOOSE g : g = F(g)
<1>5. f = F(f)
  <2>1. ASSUME NEW n \in 0..l PROVE f[n] = F(f)[n]
    <3>1. CASE n = 0
      BY <1>4, <3>1
    <3>2. CASE n # 0
      <4>1. n \in 1..l
        BY <3>2
      <4> QED BY <1>4, <3>2, <4>1
    <3> QED BY <3>1, <3>2
  <2> QED BY <2>1, <1>3
<1>6. upto = F(upto)
  <2> HIDE DEF F
  <2> QED BY <1>5
<1>7. ASSUME NEW n \in 0..l PROVE upto[n] = f[n]
  <2> DEFINE T == { k \in Nat : k <= l => upto[k] = f[k] }
  <2>1. 0 \in T
    <3>1. upto[0] = F(upto)[0]
      BY <1>6
    <3>2. F(upto)[0] = <<>>
      <4> HIDE DEF upto
      <4> QED OBVIOUS
    <3> QED BY <1>4, <3>1, <3>2
  <2>2. ASSUME NEW k \in Nat, k \in T PROVE k + 1 \in T
    <3>1. SUFFICES ASSUME k + 1 <= l PROVE upto[k + 1] = f[k + 1]
      OBVIOUS
    <3>2. upto[k + 1] = F(upto)[k + 1]
      BY <1>6
    <3>3. k + 1 \in 1..l /\ k + 1 - 1 = k /\ upto[k] = f[k]
      BY <2>2, <3>1
    <3>4. F(upto)[k + 1] = IF k + 1 \in K THEN Append(upto[k], s[k + 1]) ELSE upto[k]
      <4> HIDE DEF upto
      <4> QED BY <3>3
    <3> QED BY <1>4, <3>2, <3>3, <3>4
  <2>3. \A k \in Nat : k \in T
    <3> HIDE DEF T
    <3> QED BY <2>1, <2>2, Induction
  <2>4. n \in Nat /\ n <= l
    OBVIOUS
  <2>5. n \in T
    BY <2>3, <2>4
  <2> QED BY <2>4, <2>5
<1>8. Kept(s, K) = upto[l]
  BY <1>1 DEF Kept
<1>9. Kept(s, K) = f[l]
  <2>1. l \in 0..l
    OBVIOUS
  <2>2. upto[l] = f[l]
    BY <1>7, <2>1
  <2> QED BY <1>8, <2>2
<1> HIDE DEF upto, F, next
<1> DEFINE Good(n) == /\ Len(f[n]) = Count(K, n)
                      /\ \A i \in K \cap (1..n) :
                            Count(K, i) \in 1..Len(f[n]) /\ f[n][Count(K, i)] = s[i]
                      /\ \A j \in 1..Len(f[n]) : \E i \in K \cap (1..n) : Count(K, i) = j
           G == { n \in Nat : n <= l => Good(n) }
<1>10. 0 \in G
  <2>1. f[0] = <<>> /\ Count(K, 0) = 0
    BY <1>4, CountFacts
  <2>2. Len(f[0]) = 0
    BY <2>1
  <2> QED BY <2>1, <2>2
<1>11. ASSUME NEW n \in Nat, n \in G PROVE n + 1 \in G
  <2>1. SUFFICES ASSUME n + 1 <= l PROVE Good(n + 1)
    OBVIOUS
  <2>2. Good(n) /\ n \in 0..l /\ n + 1 \in 1..l
    BY <1>11, <2>1
  <2>3. PICK t \in Seq(S) : t = f[n]
    BY <1>3, <2>2
  <2>4. PICK c \in Nat : c = Count(K, n)
    BY CountFacts
  <2>5. Len(t) = c
    BY <2>2, <2>3, <2>4
  <2>6. f[n + 1] = IF n + 1 \in K THEN Append(t, s[n + 1]) ELSE t
    <3>1. n + 1 - 1 = n
      OBVIOUS
    <3> QED BY <1>4, <2>2, <2>3, <3>1
  <2>7. Count(K, n + 1) = c + IF n + 1 \in K THEN 1 ELSE 0
    BY <2>4, CountFacts
  <2>8. CASE n + 1 \in K
    <3>1. PICK u \in Seq(S) : u = f[n + 1]
      BY <1>3, <2>2
    <3>2. u = Append(t, s[n + 1]) /\ s[n + 1] \in S
      BY <1>1, <2>2, <2>6, <2>8, <3>1
    <3>3. Len(u) = c + 1 /\ u[c + 1] = s[n + 1] /\ \A j \in 1..c : u[j] = t[j]
      BY <2>5, <3>2
    <3>4. Count(K, n + 1) = c + 1
      BY <2>7, <2>8
    <3>5. ASSUME NEW i \in K \cap (1..n + 1)
          PROVE  Count(K, i) \in 1..c + 1 /\ u[Count(K, i)] = s[i]
      <4>1. CASE i = n + 1
        BY <3>3, <3>4, <4>1
      <4>2. CASE i # n + 1
        <5>1. i \in K \cap (1..n)
          BY <4>2
        <5>2. Count(K, i) \in 1..c /\ t[Count(K, i)] = s[i]
          BY <2>2, <2>3, <2>5, <5>1
        <5> QED BY <3>3, <5>2
      <4> QED BY <4>1, <4>2
    <3>6. ASSUME NEW j \in 1..c + 1 PROVE \E i \in K \cap (1..n + 1) : Count(K, i) = j
      <4>1. CASE j = c + 1
        <5>1. n + 1 \in K \cap (1..n + 1)
          BY <2>8
        <5> QED BY <3>4, <4>1, <5>1
      <4>2. CASE j # c + 1
        <5>1. j \in 1..Len(f[n])
          BY <2>3, <2>5, <4>2
        <5>2. PICK i \in K \cap (1..n) : Count(K, i) = j
          BY <2>2, <5>1
        <5>3. i \in K \cap (1..n + 1)
          OBVIOUS
        <5> QED BY <5>2, <5>3
      <4> QED BY <4>1, <4>2
    <3> QED BY <3>1, <3>3, <3>4, <3>5, <3>6
  <2>9. CASE n + 1 \notin K
    <3>1. K \cap (1..n + 1) = K \cap (1..n)
      BY <2>9
    <3>2. f[n + 1] = f[n] /\ Count(K, n + 1) = Count(K, n)
      BY <2>3, <2>4, <2>6, <2>7, <2>9
    <3> QED BY <2>2, <3>1, <3>2
  <2> QED BY <2>8, <2>9
<1>12. Good(l)
  <2> HIDE DEF G
  <2>1. \A n \in Nat : n \in G
    BY <1>10, <1>11, Induction
  <2> QED BY <2>1 DEF G
<1>13. f[l] \in Seq(S)
  BY <1>3
<1> QED BY <1>1, <1>9, <1>12, <1>13

-----------------------------------------------------------------------------
(***************************************************************************)
(* The ranges of an entry, in the order of the sections.                   *)
(***************************************************************************)
Having(x) == { k \in DOMAIN SectionOrder : SectionOrder[k] \in DOMAIN x.secs }
InOrder(x) == Kept(SectionOrder, Having(x))

RangeIn(x, s) == [start |-> x.secs[s].begin, end |-> x.secs[s].end]

\* The sections of an entry, each once.
LEMMA InOrderFacts ==
    ASSUME NEW x \in Parsed
    PROVE  /\ InOrder(x) \in Seq(Section)
           /\ \A j \in DOMAIN InOrder(x) : InOrder(x)[j] \in DOMAIN x.secs
           /\ \A s \in DOMAIN x.secs : \E j \in DOMAIN InOrder(x) : InOrder(x)[j] = s
           /\ \A i, j \in DOMAIN InOrder(x) : InOrder(x)[i] = InOrder(x)[j] => i = j
<1>1. PICK has : has = InOrder(x)
  OBVIOUS
<1>2. PICK K : K = Having(x)
  OBVIOUS
<1>3. SectionOrder \in Seq(Section) /\ DOMAIN SectionOrder = 1..Len(SectionOrder)
  BY SlicingAssumption
<1>4. K \cap (1..Len(SectionOrder)) = K /\ has = Kept(SectionOrder, K)
  BY <1>1, <1>2, <1>3 DEF Having, InOrder
<1>5. /\ has \in Seq(Section)
      /\ \A k \in K : Count(K, k) \in 1..Len(has) /\ has[Count(K, k)] = SectionOrder[k]
      /\ \A j \in 1..Len(has) : \E k \in K : Count(K, k) = j
  BY <1>3, <1>4, KeptFacts
<1>6. DOMAIN has = 1..Len(has)
  BY <1>5
<1>7. \A j \in DOMAIN has : \E k \in K : Count(K, k) = j /\ has[j] = SectionOrder[k]
  BY <1>5, <1>6
<1>8. \A k \in K : SectionOrder[k] \in DOMAIN x.secs
  BY <1>2 DEF Having
<1>9. ASSUME NEW s \in DOMAIN x.secs PROVE \E j \in DOMAIN has : has[j] = s
  <2>1. s \in Section
    BY EntryType DEF Used
  <2>2. PICK k \in DOMAIN SectionOrder : SectionOrder[k] = s
    BY <2>1, SlicingAssumption DEF Elements
  <2>3. k \in K
    BY <1>2, <2>2 DEF Having
  <2> QED BY <1>5, <1>6, <2>2, <2>3
<1>10. ASSUME NEW i \in DOMAIN has, NEW j \in DOMAIN has, has[i] = has[j] PROVE i = j
  <2>1. PICK k \in K : Count(K, k) = i /\ has[i] = SectionOrder[k]
    BY <1>7
  <2>2. PICK l \in K : Count(K, l) = j /\ has[j] = SectionOrder[l]
    BY <1>7
  <2>3. k \in DOMAIN SectionOrder /\ l \in DOMAIN SectionOrder
    BY <1>2 DEF Having
  <2>4. k = l
    BY <1>10, <2>1, <2>2, <2>3, SlicingAssumption
  <2> QED BY <2>1, <2>2, <2>4
<1> QED BY <1>1, <1>5, <1>7, <1>8, <1>9, <1>10

LEMMA SecsAre ==
    ASSUME NEW x
    PROVE  SliceSecs(x) = [j \in DOMAIN InOrder(x) |-> RangeIn(x, InOrder(x)[j])]
BY DEF SliceSecs, InOrder, Having, RangeIn

\* What a range of the list of slices is made from.
LEMMA LoadedParts ==
    ASSUME parsed \in Seq(Parsed), NEW part \in Parts(LoadedSlices)
    PROVE  /\ part[1] \in DOMAIN parsed /\ parsed[part[1]] \in Parsed
           /\ part[2] \in DOMAIN InOrder(parsed[part[1]])
           /\ part = <<part[1], part[2]>>
           /\ RangeOf(LoadedSlices, part) =
                 RangeIn(parsed[part[1]], InOrder(parsed[part[1]])[part[2]])
<1>1. /\ DOMAIN LoadedSlices = DOMAIN parsed
      /\ \A i \in DOMAIN parsed : LoadedSlices[i].secs = SliceSecs(parsed[i])
  BY DEF LoadedSlices
<1>2. PICK i \in DOMAIN LoadedSlices : part \in {i} \X DOMAIN LoadedSlices[i].secs
  BY DEF Parts
<1>3. i \in DOMAIN parsed /\ parsed[i] \in Parsed
  BY <1>1, <1>2
<1>4. part[1] = i /\ part[2] \in DOMAIN SliceSecs(parsed[i]) /\ part = <<part[1], part[2]>>
  BY <1>1, <1>2, <1>3
<1>5. SliceSecs(parsed[i]) =
         [j \in DOMAIN InOrder(parsed[i]) |-> RangeIn(parsed[i], InOrder(parsed[i])[j])]
  BY SecsAre
<1> QED BY <1>1, <1>3, <1>4, <1>5 DEF RangeOf

LEMMA PartOfEntry ==
    ASSUME parsed \in Seq(Parsed), NEW i \in DOMAIN parsed, NEW s \in DOMAIN parsed[i].secs
    PROVE  \E part \in Parts(LoadedSlices) :
              RangeOf(LoadedSlices, part) = RangeIn(parsed[i], s)
<1>1. /\ DOMAIN LoadedSlices = DOMAIN parsed
      /\ LoadedSlices[i].secs = SliceSecs(parsed[i]) /\ parsed[i] \in Parsed
  BY DEF LoadedSlices
<1>2. PICK j \in DOMAIN InOrder(parsed[i]) : InOrder(parsed[i])[j] = s
  BY <1>1, InOrderFacts
<1>3. j \in DOMAIN LoadedSlices[i].secs /\ LoadedSlices[i].secs[j] = RangeIn(parsed[i], s)
  BY <1>1, <1>2, SecsAre
<1>4. <<i, j>> \in Parts(LoadedSlices)
  BY <1>1, <1>3 DEF Parts
<1>5. RangeOf(LoadedSlices, <<i, j>>) = RangeIn(parsed[i], s)
  BY <1>3 DEF RangeOf
<1> QED BY <1>4, <1>5

LEMMA RangesLieIn ==
    ASSUME parsed \in Seq(Parsed), Inside(parsed), NEW i \in DOMAIN parsed, NEW s \in DOMAIN parsed[i].secs
    PROVE  /\ s \in Used /\ RangeIn(parsed[i], s) \in [start : Nat, end : Nat]
           /\ RangeIn(parsed[i], s).start <= RangeIn(parsed[i], s).end
           /\ Within(RangeIn(parsed[i], s)) \subseteq Addresses(s)
           /\ \A a \in Addresses(s) : a \in Within(RangeIn(parsed[i], s)) <=> Holds(parsed, i, s, a)
<1>1. parsed[i] \in Parsed
  OBVIOUS
<1>2. s \in Used
  BY <1>1, EntryType
<1>3. PICK b \in Int, e \in Int : b = parsed[i].secs[s].begin /\ e = parsed[i].secs[s].end
  BY <1>1, EntryType
<1>4. PICK d \in Nat, f \in Nat : d = Addr[s] /\ f = SectionEnd(s)
  BY <1>2, SectionNumbers DEF Used
<1>5. d <= b /\ b <= e /\ e <= f
  BY <1>3, <1>4 DEF Inside, AllLieIn, LiesIn
<1>6. b \in Nat /\ e \in Nat
  BY <1>4, <1>5
<1>7. RangeIn(parsed[i], s) = [start |-> b, end |-> e]
  BY <1>3 DEF RangeIn
<1>8. Within(RangeIn(parsed[i], s)) = b..(e - 1) /\ Addresses(s) = d..(f - 1)
  BY <1>4, <1>7 DEF Within, Addresses
<1>9. \A a \in d..(f - 1) : Holds(parsed, i, s, a) <=> b <= a /\ a < e
  BY <1>3 DEF Holds, Has
<1>10. b..(e - 1) \subseteq d..(f - 1) /\ \A a \in d..(f - 1) : a \in b..(e - 1) <=> b <= a /\ a < e
  BY <1>3, <1>4, <1>5
<1> QED BY <1>2, <1>5, <1>6, <1>7, <1>8, <1>9, <1>10

\* Once all is loaded, each address of a section is in one entry.
LEMMA AllCovered ==
    ASSUME IInv, phase = "loaded", InConfigOrder(parsed), NEW s \in Used, NEW a \in Addresses(s)
    PROVE  /\ \E i \in DOMAIN parsed : Holds(parsed, i, s, a)
           /\ \A i, j \in DOMAIN parsed : Holds(parsed, i, s, a) /\ Holds(parsed, j, s, a) => i = j
<1>1. Covered(parsed, s, SectionEnd(s))
  BY DEF IInv, SlicesPartition, Reached
<1>2. PICK d \in Nat, f \in Nat : d = Addr[s] /\ f = SectionEnd(s)
  BY SectionNumbers DEF Used
<1>3. a \in d..f /\ a < f
  BY <1>2 DEF Addresses
<1> QED BY <1>1, <1>2, <1>3 DEF Covered

LEMMA LoadedIsList ==
    ASSUME parsed \in Seq(Parsed), Inside(parsed)
    PROVE  LoadedSlices \in Seq(Slice)
<1>1. PICK n \in Nat : n = Len(parsed) /\ DOMAIN parsed = 1..n
  OBVIOUS
<1>2. ASSUME NEW i \in 1..n PROVE SliceSecs(parsed[i]) \in Seq([start : Nat, end : Nat])
  <2>1. PICK x \in Parsed : x = parsed[i]
    BY <1>1
  <2>2. PICK m \in Nat : DOMAIN InOrder(x) = 1..m
    BY InOrderFacts
  <2>3. \A j \in 1..m : RangeIn(x, InOrder(x)[j]) \in [start : Nat, end : Nat]
    BY <1>1, <2>1, <2>2, InOrderFacts, RangesLieIn
  <2>4. SliceSecs(x) = [j \in 1..m |-> RangeIn(x, InOrder(x)[j])]
    BY <2>2, SecsAre
  <2> QED BY <2>1, <2>3, <2>4
<1>3. \A i \in 1..n : [filler |-> parsed[i].source = Filler, secs |-> SliceSecs(parsed[i])] \in Slice
  <2>1. \A i \in 1..n : (parsed[i].source = Filler) \in BOOLEAN
    OBVIOUS
  <2> QED BY <1>2, <2>1 DEF Slice
<1> QED BY <1>1, <1>3 DEF LoadedSlices

\* The part is the range that entry i has of section s.
IsPartOf(part, i, s) ==
    /\ i \in DOMAIN parsed /\ s \in DOMAIN parsed[i].secs
    /\ part = <<i, part[2]>> /\ part[2] \in DOMAIN InOrder(parsed[i])
    /\ InOrder(parsed[i])[part[2]] = s
    /\ RangeOf(LoadedSlices, part) = RangeIn(parsed[i], s)

LEMMA LoadedPartition ==
    ASSUME LoadInv, phase = "loaded", InConfigOrder(parsed)
    PROVE  Partition(LoadedSlices)
<1>1. IInv /\ parsed \in Seq(Parsed) /\ Inside(parsed)
  BY DEF LoadInv, IInv, InsideInv
<1>2. LoadedSlices \in Seq(Slice)
  BY <1>1, LoadedIsList
<1>3. ASSUME NEW part \in Parts(LoadedSlices)
      PROVE  \E i, s : IsPartOf(part, i, s)
  BY <1>1, LoadedParts, InOrderFacts DEF IsPartOf
<1>4. ASSUME NEW part \in Parts(LoadedSlices)
      PROVE  /\ RangeOf(LoadedSlices, part).start <= RangeOf(LoadedSlices, part).end
             /\ \E section \in {Text, Data, Bss} : Within(RangeOf(LoadedSlices, part)) \subseteq section
  <2>1. PICK i, s : IsPartOf(part, i, s)
    BY <1>3
  <2>2. /\ s \in Used /\ RangeIn(parsed[i], s).start <= RangeIn(parsed[i], s).end
        /\ Within(RangeIn(parsed[i], s)) \subseteq Addresses(s)
    BY <1>1, <2>1, RangesLieIn DEF IsPartOf
  <2>3. PICK section \in {Text, Data, Bss} : Addresses(s) \subseteq section
    BY <2>2, SlicingAssumption
  <2>4. Within(RangeOf(LoadedSlices, part)) \subseteq section
    BY <2>1, <2>2, <2>3 DEF IsPartOf
  <2> QED BY <2>1, <2>2, <2>4 DEF IsPartOf
<1>5. ASSUME NEW a \in Program
      PROVE  \E part \in Parts(LoadedSlices) : a \in Within(RangeOf(LoadedSlices, part))
  <2>1. PICK s \in Used : a \in Addresses(s)
    BY SlicingAssumption
  <2>2. PICK i \in DOMAIN parsed : Holds(parsed, i, s, a)
    BY <1>1, <2>1, AllCovered
  <2>3. s \in DOMAIN parsed[i].secs
    BY <2>2 DEF Holds, Has
  <2>4. PICK part \in Parts(LoadedSlices) : RangeOf(LoadedSlices, part) = RangeIn(parsed[i], s)
    BY <1>1, <2>3, PartOfEntry
  <2>5. a \in Within(RangeIn(parsed[i], s))
    BY <1>1, <2>1, <2>2, <2>3, RangesLieIn
  <2> QED BY <2>4, <2>5
<1>6. ASSUME NEW p \in Parts(LoadedSlices), NEW q \in Parts(LoadedSlices),
             NEW a, a \in Within(RangeOf(LoadedSlices, p)), a \in Within(RangeOf(LoadedSlices, q))
      PROVE  p = q
  <2>1. PICK i, s : IsPartOf(p, i, s)
    BY <1>3
  <2>2. PICK j, t : IsPartOf(q, j, t)
    BY <1>3
  <2>3. s \in Used /\ a \in Addresses(s) /\ Holds(parsed, i, s, a)
    <3>1. s \in Used /\ a \in Addresses(s)
      BY <1>1, <1>6, <2>1, RangesLieIn DEF IsPartOf
    <3> QED BY <1>1, <1>6, <2>1, <3>1, RangesLieIn DEF IsPartOf
  <2>4. t \in Used /\ a \in Addresses(t) /\ Holds(parsed, j, t, a)
    <3>1. t \in Used /\ a \in Addresses(t)
      BY <1>1, <1>6, <2>2, RangesLieIn DEF IsPartOf
    <3> QED BY <1>1, <1>6, <2>2, <3>1, RangesLieIn DEF IsPartOf
  <2>5. s = t
    BY <2>3, <2>4, SlicingAssumption
  <2>6. i = j
    BY <1>1, <2>1, <2>2, <2>3, <2>4, <2>5, AllCovered DEF IsPartOf
  <2>7. p[2] = q[2]
    BY <1>1, <2>1, <2>2, <2>5, <2>6, InOrderFacts DEF IsPartOf
  <2> QED BY <2>1, <2>2, <2>6, <2>7 DEF IsPartOf
<1> QED BY <1>2, <1>4, <1>5, <1>6 DEF Partition

(***************************************************************************)
(* load_slice_file gives slice_exe what it needs: once a configuration in  *)
(* order is loaded, the slices, with their ranges in the order of the      *)
(* sections, partition the program.  It is what cutting takes of a list.   *)
(***************************************************************************)
THEOREM LoadedListsPartition ==
    SlicingSpec => [](phase = "loaded" /\ InConfigOrder(parsed) => Partition(LoadedSlices))
<1>1. LoadInv => (phase = "loaded" /\ InConfigOrder(parsed) => Partition(LoadedSlices))
  BY LoadedPartition
<1> QED BY <1>1, LoadInvHolds, PTL

\* The last place of an element is a place of it.
LEMMA LastOfFact ==
    ASSUME NEW S, NEW s \in Seq(S), NEW i \in 1..Len(s)
    PROVE  LastOf(s, s[i]) \in 1..Len(s) /\ s[LastOf(s, s[i])] = s[i]
<1>1. PICK n \in Nat : n = Len(s)
  OBVIOUS
<1> DEFINE T == { j \in DOMAIN s : s[j] = s[i] }
<1>2. DOMAIN s = 1..n /\ i \in T
  BY <1>1
<1>3. T \in SUBSET (0..n) /\ T # {}
  BY <1>2
<1>4. Largest(T) \in T
  <2> HIDE DEF T
  <2> QED BY <1>3, LargestFact
<1> QED BY <1>1, <1>4 DEF LastOf

\* The dictionary of the symbols has lines of the file.
LEMMA DictType ==
    ASSUME NEW lines \in Seq(Line)
    PROVE  Dict(lines) \in Seq(Line)
<1>1. PICK n \in Nat : n = Len(lines) /\ DOMAIN lines = 1..n
  OBVIOUS
<1> DEFINE names == [i \in DOMAIN lines |-> lines[i].name]
           last == [i \in DOMAIN lines |-> lines[LastOf(names, names[i])]]
<1>2. names \in Seq(Name) /\ Len(names) = n
  <2>1. \A i \in 1..n : lines[i] \in Line
    BY <1>1
  <2>2. \A i \in 1..n : lines[i].name \in Name
    BY <2>1 DEF Line
  <2> QED BY <1>1, <2>2
<1>3. ASSUME NEW i \in 1..n PROVE last[i] \in Line
  <2>1. LastOf(names, names[i]) \in 1..n
    <3> HIDE DEF names
    <3> QED BY <1>2, LastOfFact
  <2> HIDE DEF names
  <2>2. last[i] = lines[LastOf(names, names[i])]
    BY <1>1
  <2> QED BY <1>1, <2>1, <2>2
<1>4. last \in Seq(Line)
  <2>1. DOMAIN last = 1..n
    BY <1>1
  <2>2. last = [i \in 1..n |-> last[i]]
    BY <1>1
  <2> HIDE DEF last
  <2> QED BY <1>3, <2>1, <2>2
<1>5. Kept(last, Firsts(names)) \in Seq(Line)
  <2> HIDE DEF last, names
  <2> QED BY <1>4, KeptFacts
<1> QED BY <1>5 DEF Dict

-----------------------------------------------------------------------------
\* The symbols by address.
LEMMA PairsType ==
    ASSUME syms \in Seq(Line), dbg \in Seq(Line)
    PROVE  /\ Pairs \in Seq(Line) /\ PairAddrs \in Seq(Program) /\ Len(PairAddrs) = Len(Pairs)
           /\ \A i \in 1..Len(Pairs) : PairAddrs[i] = Pairs[i].addr /\ Pairs[i].addr \in Addrs
           /\ \A a \in Addrs : \E i \in 1..Len(Pairs) : Pairs[i].addr = a
           /\ Addrs \in SUBSET Program
<1>1. Pairs \in Seq(Line)
  BY DEF Pairs
<1>2. PICK n \in Nat : n = Len(Pairs) /\ DOMAIN Pairs = 1..n
  BY <1>1
<1>3. \A i \in 1..n : Pairs[i] \in Line
  BY <1>1, <1>2
<1>4. \A i \in 1..n : Pairs[i].addr \in Program
  BY <1>3 DEF Line
<1>5. PairAddrs = [i \in 1..n |-> Pairs[i].addr]
  BY <1>2 DEF PairAddrs
<1>6. PairAddrs \in Seq(Program) /\ Len(PairAddrs) = n
  BY <1>4, <1>5
<1>7. Addrs = { Pairs[i].addr : i \in 1..n }
  BY <1>2 DEF Addrs
<1> QED BY <1>1, <1>2, <1>4, <1>5, <1>6, <1>7

LEMMA AddrToSymType ==
    ASSUME syms \in Seq(Line), dbg \in Seq(Line)
    PROVE  AddrToSym \in [Addrs -> Name]
<1>1. ASSUME NEW a \in Addrs PROVE Pairs[LastOf(PairAddrs, a)].name \in Name
  <2>1. PICK i \in 1..Len(Pairs) : Pairs[i].addr = a
    BY PairsType
  <2>2. PairAddrs[i] = a /\ PairAddrs \in Seq(Program) /\ Len(PairAddrs) = Len(Pairs)
    BY <2>1, PairsType
  <2>3. LastOf(PairAddrs, a) \in 1..Len(Pairs)
    BY <2>2, LastOfFact
  <2>4. Pairs[LastOf(PairAddrs, a)] \in Line
    BY <2>3, PairsType
  <2> QED BY <2>4 DEF Line
<1> QED BY <1>1 DEF AddrToSym

\* Each address has one first place.
LEMMA FirstPlace ==
    ASSUME syms \in Seq(Line), dbg \in Seq(Line), NEW a \in Addrs
    PROVE  \E i \in Firsts(PairAddrs) :
              /\ Pairs[i].addr = a
              /\ \A j \in Firsts(PairAddrs) : Pairs[j].addr = a => j = i
<1>1. PICK n \in Nat : n = Len(Pairs)
  BY PairsType
<1>2. DOMAIN PairAddrs = 1..n /\ \A i \in 1..n : PairAddrs[i] = Pairs[i].addr
  BY <1>1, PairsType
<1> DEFINE T == { i \in 1..n : Pairs[i].addr = a }
<1>3. T \in SUBSET Nat /\ T # {}
  BY <1>1, PairsType
<1>4. PICK i \in T : \A j \in T : i <= j
  <2> HIDE DEF T
  <2> QED BY <1>3, LeastNumber
<1>5. i \in Firsts(PairAddrs)
  <2>1. ASSUME NEW j \in 1..(i - 1) PROVE PairAddrs[j] # PairAddrs[i]
    <3>1. j \in 1..n /\ ~(i <= j)
      OBVIOUS
    <3>2. j \notin T
      BY <1>4, <3>1
    <3> QED BY <1>2, <3>1, <3>2
  <2> QED BY <1>2, <2>1 DEF Firsts
<1>6. ASSUME NEW j \in Firsts(PairAddrs), Pairs[j].addr = a PROVE j = i
  <2>1. j \in 1..n /\ \A k \in 1..(j - 1) : PairAddrs[k] # PairAddrs[j]
    BY <1>2 DEF Firsts
  <2>2. j \in T /\ i <= j
    BY <1>4, <1>6, <2>1
  <2>3. ~(i \in 1..(j - 1))
    BY <1>2, <1>6, <2>1
  <2> QED BY <2>1, <2>2, <2>3
<1> QED BY <1>5, <1>6

\* The addresses are bounded, as there are finitely many pairs.
LEMMA AddrsBounded ==
    ASSUME syms \in Seq(Line), dbg \in Seq(Line)
    PROVE  \E m \in Nat : Addrs \in SUBSET (0..m)
<1>1. PICK n \in Nat : n = Len(Pairs)
  BY PairsType
<1>2. \A i \in 1..n : Pairs[i].addr \in Nat
  <2>1. Program \in SUBSET Nat
    BY SliceObjectAssumption
  <2> QED BY <1>1, <2>1, PairsType
<1> DEFINE S == { k \in Nat : k <= n => \E m \in Nat : \A i \in 1..k : Pairs[i].addr <= m }
<1>3. 0 \in S
  OBVIOUS
<1>4. ASSUME NEW k \in Nat, k \in S PROVE k + 1 \in S
  <2>1. SUFFICES ASSUME k + 1 <= n PROVE \E m \in Nat : \A i \in 1..k + 1 : Pairs[i].addr <= m
    OBVIOUS
  <2>2. PICK m \in Nat : \A i \in 1..k : Pairs[i].addr <= m
    BY <1>4, <2>1
  <2>3. PICK x \in Nat : x = Pairs[k + 1].addr
    BY <1>2, <2>1
  <2>4. ASSUME NEW i \in 1..k + 1 PROVE Pairs[i].addr <= m + x
    <3>1. CASE i = k + 1
      BY <2>3, <3>1
    <3>2. CASE i # k + 1
      <4>1. i \in 1..k /\ i \in 1..n
        BY <2>1, <3>2
      <4> QED BY <1>2, <2>2, <4>1
    <3> QED BY <3>1, <3>2
  <2>5. m + x \in Nat
    OBVIOUS
  <2> QED BY <2>4, <2>5
<1>5. n \in S
  <2> HIDE DEF S
  <2>1. \A k \in Nat : k \in S
    BY <1>3, <1>4, Induction
  <2> QED BY <2>1
<1>6. PICK m \in Nat : \A i \in 1..n : Pairs[i].addr <= m
  BY <1>5
<1>7. ASSUME NEW a \in Addrs PROVE a \in 0..m
  <2>1. PICK i \in 1..n : Pairs[i].addr = a
    BY <1>1, PairsType
  <2> QED BY <1>2, <1>6, <2>1
<1> QED BY <1>7

\* A symbol at or below an operand, or the last one.
LEMMA NextAddrBelowType ==
    ASSUME syms \in Seq(Line), dbg \in Seq(Line), Addrs # {}, NEW v
    PROVE  NextAddrBelow(v) \in Addrs
<1>1. PICK m \in Nat : Addrs \in SUBSET (0..m)
  BY AddrsBounded
<1>2. CASE \E a \in Addrs : a <= v
  <2> DEFINE T == { a \in Addrs : a <= v }
  <2>1. T \in SUBSET (0..m) /\ T # {}
    BY <1>1, <1>2
  <2>2. Largest(T) \in T
    <3> HIDE DEF T
    <3> QED BY <2>1, LargestFact
  <2> QED BY <1>2, <2>2 DEF NextAddrBelow
<1>3. CASE ~\E a \in Addrs : a <= v
  BY <1>1, <1>3, LargestFact DEF NextAddrBelow
<1> QED BY <1>2, <1>3

RelocOf(A) == [field : Nat, addend : Int, target : A, absolute : BOOLEAN]

\* With the symbol's address a relocation gives the operand that was there, and
\* no operand has two.
RelocsRight(a, w, rs) ==
    /\ rs \in Seq(RelocOf(Addrs))
    /\ \A j \in 1..Len(rs) :
          /\ rs[j].field \in 1..Len(w.fields)
          /\ rs[j].addend + rs[j].target - (IF rs[j].absolute THEN 0 ELSE a + 1)
                = w.fields[rs[j].field]
    /\ \A j, k \in 1..Len(rs) : rs[j].field = rs[k].field => j = k

LEMMA ImageWord ==
    ASSUME image \in Images, NEW a \in Text
    PROVE  /\ image[a] \in Word /\ image[a].fields \in Seq(Int) /\ Len(image[a].fields) \in Nat
           /\ DOMAIN image[a].fields = 1..Len(image[a].fields)
           /\ \A k \in 1..Len(image[a].fields) : image[a].fields[k] \in Int
           /\ image[a].kind = "call" => Len(image[a].fields) >= 1
           /\ a \in Nat
<1>1. image \in [Text -> Word]
  BY SliceObjectAssumption
<1>2. image[a] \in Word
  BY <1>1
<1>3. image[a].fields \in Seq(Int)
  BY <1>2 DEF Word
<1>4. image[a].kind = "call" => Len(image[a].fields) >= 1
  BY SliceObjectAssumption
<1>5. a \in Nat
  BY SliceObjectAssumption DEF Program
<1> QED BY <1>2, <1>3, <1>4, <1>5

LEMMA MadeSeq ==
    ASSUME NEW S, NEW n \in Nat, NEW f, DOMAIN f = 1..n, f = [k \in 1..n |-> f[k]],
           \A k \in 1..n : f[k] \in S
    PROVE  f \in Seq(S) /\ Len(f) = n
<1>1. PICK g : g = [k \in 1..n |-> f[k]]
  OBVIOUS
<1>2. g \in Seq(S) /\ Len(g) = n
  BY <1>1
<1> QED BY <1>1, <1>2

LEMMA NoReloc ==
    ASSUME NEW a, NEW w
    PROVE  RelocsRight(a, w, <<>>)
<1>1. Len(<<>>) = 0 /\ <<>> \in Seq(RelocOf(Addrs))
  OBVIOUS
<1> QED BY <1>1 DEF RelocsRight

LEMMA OneReloc ==
    ASSUME NEW a \in Nat, NEW w, NEW r \in RelocOf(Addrs),
           r.field \in 1..Len(w.fields),
           r.addend + r.target - (IF r.absolute THEN 0 ELSE a + 1) = w.fields[r.field]
    PROVE  RelocsRight(a, w, <<r>>)
<1>1. <<r>> \in Seq(RelocOf(Addrs)) /\ Len(<<r>>) = 1 /\ <<r>>[1] = r
  OBVIOUS
<1>2. \A j \in 1..1 : j = 1
  OBVIOUS
<1> QED BY <1>1, <1>2 DEF RelocsRight

LEMMA RelocsFact ==
    ASSUME syms \in Seq(Line), dbg \in Seq(Line), image \in Images, added \in AddRelocations,
           NEW a \in Text, ~Fails(a, image[a])
    PROVE  RelocsRight(a, image[a], Relocs(a, image[a]))
<1>1. PICK w : w = image[a]
  OBVIOUS
<1>2. PICK n \in Nat : n = Len(w.fields) /\ \A k \in 1..n : w.fields[k] \in Int
  BY <1>1, ImageWord
<1>3. /\ DOMAIN w.fields = 1..n /\ (w.kind = "call" => n >= 1)
      /\ a \in Nat /\ Addrs \in SUBSET Nat
  <2>1. Addrs \in SUBSET Program /\ Program \in SUBSET Nat
    BY SliceObjectAssumption, PairsType
  <2> QED BY <1>1, <1>2, <2>1, ImageWord
<1> DEFINE mine == { r \in added : r.location = a }
<1>4. CASE mine # {}
  <2> DEFINE r == CHOOSE r \in mine : TRUE
  <2>1. r \in mine
    BY <1>4
  <2>2. Relocs(a, w) = <<Reloc(1, r.offset, r.symbol, ~Relative(w))>>
    BY <1>4 DEF Relocs
  <2> HIDE DEF r
  <2>3. r \in added /\ r.location = a /\ r.symbol \in Addrs
    BY <2>1, <1>1 DEF Fails
  <2>4. r \in [location : Nat, symbol : Nat, offset : Int] /\ RightFor(r, image)
    BY <2>3, SliceObjectAssumption
  <2>5. n >= 1 /\ w.fields[1] = r.symbol + r.offset - IF Relative(w) THEN a + 1 ELSE 0
    BY <1>1, <1>2, <2>3, <2>4 DEF RightFor
  <2>6. PICK s \in Nat, o \in Int : s = r.symbol /\ o = r.offset
    BY <2>4
  <2>7. PICK q : q = Reloc(1, o, s, ~Relative(w))
    OBVIOUS
  <2>8. /\ q \in RelocOf(Addrs) /\ q.field = 1 /\ q.addend = o /\ q.target = s
        /\ q.absolute = ~Relative(w)
    BY <2>3, <2>6, <2>7 DEF Reloc, RelocOf, Relative
  <2>9. q.addend + q.target - (IF q.absolute THEN 0 ELSE a + 1) = w.fields[q.field]
    <3>1. CASE Relative(w)
      <4>1. w.fields[q.field] = s + o - (a + 1)
        BY <2>5, <2>6, <2>8, <3>1
      <4>2. q.absolute = FALSE
        BY <2>8, <3>1 DEF Relative
      <4>3. o + s - (a + 1) = s + o - (a + 1)
        BY <1>3
      <4> QED BY <2>8, <4>1, <4>2, <4>3
    <3>2. CASE ~Relative(w)
      <4>1. w.fields[q.field] = s + o - 0
        BY <2>5, <2>6, <2>8, <3>2
      <4>2. q.absolute = TRUE
        BY <2>8, <3>2 DEF Relative
      <4>3. o + s - 0 = s + o - 0
        BY <1>3
      <4> QED BY <2>8, <4>1, <4>2, <4>3
    <3> QED BY <3>1, <3>2
  <2>10. q.field \in 1..Len(w.fields)
    BY <1>2, <2>5, <2>8
  <2>11. RelocsRight(a, w, <<q>>)
    BY <1>3, <2>8, <2>9, <2>10, OneReloc
  <2> QED BY <1>1, <2>2, <2>6, <2>7, <2>11
<1>5. CASE mine = {}
  <2>1. Relocs(a, w) = OperandRelocs(a, w)
    BY <1>5 DEF Relocs
  <2>2. CASE w.kind = "call"
    <3>1. PICK v \in Int : v = w.fields[1]
      BY <1>2, <1>3, <2>2
    <3>2. CASE a + 1 + v \in Addrs
      <4>1. PICK q : q = Reloc(1, 0, a + 1 + v, FALSE)
        OBVIOUS
      <4>2. /\ q \in RelocOf(Addrs) /\ q.field = 1 /\ q.addend = 0 /\ q.target = a + 1 + v
            /\ q.absolute = FALSE
        BY <3>2, <4>1 DEF Reloc, RelocOf
      <4>3. q.addend + q.target - (IF q.absolute THEN 0 ELSE a + 1) = w.fields[q.field]
        BY <1>3, <3>1, <4>2
      <4>4. q.field \in 1..Len(w.fields)
        BY <1>2, <1>3, <2>2, <4>2
      <4>5. RelocsRight(a, w, <<q>>)
        BY <1>3, <4>2, <4>3, <4>4, OneReloc
      <4>6. OperandRelocs(a, w) = <<q>>
        BY <2>2, <3>1, <3>2, <4>1 DEF OperandRelocs
      <4> QED BY <1>1, <2>1, <4>5, <4>6
    <3>3. CASE a + 1 + v \notin Addrs
      <4>1. OperandRelocs(a, w) = <<>>
        BY <2>2, <3>1, <3>3 DEF OperandRelocs
      <4> QED BY <1>1, <2>1, <4>1, NoReloc
    <3> QED BY <3>2, <3>3
  <2>3. CASE w.kind # "call" /\ (w.kind = "jump" \/ Addrs = {})
    <3>1. OperandRelocs(a, w) = <<>>
      BY <2>3 DEF OperandRelocs
    <3> QED BY <1>1, <2>1, <3>1, NoReloc
  <2>4. CASE w.kind # "call" /\ w.kind # "jump" /\ Addrs # {}
    <3> DEFINE below(k) == NextAddrBelow(w.fields[k])
               s == [k \in DOMAIN w.fields |-> Reloc(k, w.fields[k] - below(k), below(k), TRUE)]
               K == { k \in DOMAIN w.fields :
                        IsAddress(w.fields[k]) /\ w.fields[k] - below(k) < MaxAddend }
               rs == Kept(s, K)
    <3>1. OperandRelocs(a, w) = rs
      BY <2>4 DEF OperandRelocs
    <3>2. ASSUME NEW k \in 1..n
          PROVE  /\ s[k] \in RelocOf(Addrs) /\ s[k].field = k /\ s[k].absolute = TRUE
                 /\ s[k].addend + s[k].target = w.fields[k]
      <4>1. PICK v \in Int, b \in Addrs : v = w.fields[k] /\ b = below(k)
        BY <1>2, <2>4, NextAddrBelowType
      <4>2. b \in Nat
        BY <1>3
      <4>3. s[k] = Reloc(k, v - b, b, TRUE)
        BY <1>3, <4>1
      <4> HIDE DEF s
      <4>4. v - b \in Int /\ (v - b) + b = v
        BY <4>2
      <4>5. Reloc(k, v - b, b, TRUE) \in RelocOf(Addrs)
        BY <4>4 DEF Reloc, RelocOf
      <4> QED BY <4>1, <4>3, <4>4, <4>5 DEF Reloc
    <3>3. s \in Seq(RelocOf(Addrs)) /\ Len(s) = n
      <4>1. DOMAIN s = 1..n /\ s = [k \in 1..n |-> s[k]]
        BY <1>3
      <4>2. \A k \in 1..n : s[k] \in RelocOf(Addrs)
        BY <3>2
      <4> HIDE DEF s
      <4> QED BY <4>1, <4>2, MadeSeq
    <3> HIDE DEF s, K
    <3>4. /\ rs \in Seq(RelocOf(Addrs))
          /\ \A i \in K \cap (1..n) : Count(K, i) \in 1..Len(rs) /\ rs[Count(K, i)] = s[i]
          /\ \A j \in 1..Len(rs) : \E i \in K \cap (1..n) : Count(K, i) = j
      BY <3>3, KeptFacts
    <3> HIDE DEF rs
    <3>5. ASSUME NEW j \in 1..Len(rs)
          PROVE  /\ rs[j].field \in 1..n
                 /\ rs[j].addend + rs[j].target = w.fields[rs[j].field]
                 /\ rs[j].absolute = TRUE
                 /\ Count(K, rs[j].field) = j
      <4>1. PICK i \in K \cap (1..n) : Count(K, i) = j
        BY <3>4
      <4>2. rs[j] = s[i]
        BY <3>4, <4>1
      <4> QED BY <3>2, <4>1, <4>2
    <3>6. ASSUME NEW j \in 1..Len(rs)
          PROVE  rs[j].addend + rs[j].target - (IF rs[j].absolute THEN 0 ELSE a + 1)
                    = w.fields[rs[j].field]
      <4>1. PICK r \in RelocOf(Addrs) : r = rs[j]
        BY <3>4
      <4>2. r.addend \in Int /\ r.target \in Nat
        BY <1>3 DEF RelocOf
      <4>3. r.addend + r.target = w.fields[r.field] /\ r.absolute = TRUE
        BY <3>5, <4>1
      <4>4. r.addend + r.target - 0 = w.fields[r.field]
        BY <4>2, <4>3
      <4> QED BY <4>1, <4>3, <4>4
    <3>7. \A j, k \in 1..Len(rs) : rs[j].field = rs[k].field => j = k
      BY <3>5
    <3>8. RelocsRight(a, w, rs)
      BY <1>2, <3>4, <3>5, <3>6, <3>7 DEF RelocsRight
    <3> QED BY <1>1, <2>1, <3>1, <3>8
  <2> QED BY <2>2, <2>3, <2>4
<1> QED BY <1>4, <1>5

RelocEntry == [address : Nat, field : Nat, sym_index : Nat, absolute : BOOLEAN]
SectionEntry == [data : Seq(Word), size : Nat, bss : BOOLEAN, relocations : Seq(RelocEntry)]
SymbolEntry == [name : Name \cup {".section"}, offset : {0}, value : Int, section_number : Nat,
                external : BOOLEAN]

\* What the header of a section says of its data.
DataSize(s) == IF s.bss THEN 0 ELSE IF s.size # 0 THEN s.size ELSE Len(s.data)

FileTyped(c) ==
    /\ c.sections \in Seq(SectionEntry) /\ c.symbols \in Seq(SymbolEntry)
    /\ \A i \in 1..Len(c.sections) : DataSize(c.sections[i]) = Len(c.sections[i].data)

-----------------------------------------------------------------------------
\* The offsets of pieces that follow each other.
LEMMA OffsetsFact ==
    ASSUME NEW start \in Nat, NEW n \in Nat, NEW rooms \in Seq(Nat), Len(rooms) = n
    PROVE  /\ Offsets(start, rooms) \in [0..n -> Nat]
           /\ Offsets(start, rooms)[0] = start
           /\ \A i \in 1..n : Offsets(start, rooms)[i] = Offsets(start, rooms)[i - 1] + rooms[i]
<1> DEFINE next == [i \in 1..n |-> [t \in Nat |-> t + rooms[i]]]
<1>1. next \in [1..n -> [Nat -> Nat]]
  <2>1. \A i \in 1..n : rooms[i] \in Nat
    OBVIOUS
  <2> QED BY <2>1
<1>2. PICK f \in [0..n -> Nat] : Follows(f, start, next, n)
  <2> HIDE DEF next
  <2> QED BY <1>1, RecursiveSequence
<1>3. f[0] = start /\ \A i \in 1..n : f[i] = f[i - 1] + rooms[i]
  <2>1. \A i \in 1..n : i - 1 \in 0..n
    OBVIOUS
  <2> QED BY <1>2, <2>1 DEF Follows
<1> DEFINE F(g) == [i \in 0..n |-> IF i = 0 THEN start ELSE g[i - 1] + rooms[i]]
           pos == CHOOSE g : g = F(g)
<1>4. f = F(f)
  <2>1. ASSUME NEW i \in 0..n PROVE f[i] = F(f)[i]
    <3>1. CASE i = 0
      BY <1>3, <3>1
    <3>2. CASE i # 0
      <4>1. i \in 1..n
        BY <3>2
      <4> QED BY <1>3, <3>2, <4>1
    <3> QED BY <3>1, <3>2
  <2> QED BY <2>1
<1>5. pos = F(pos)
  <2> HIDE DEF F
  <2> QED BY <1>4
<1>6. Offsets(start, rooms) = pos
  BY DEF Offsets
<1> HIDE DEF pos
<1> DEFINE S == { k \in Nat : k <= n => pos[k] = f[k] }
<1>7. 0 \in S
  <2>1. pos[0] = F(pos)[0]
    BY <1>5
  <2> QED BY <1>3, <2>1
<1>8. ASSUME NEW k \in Nat, k \in S PROVE k + 1 \in S
  <2>1. SUFFICES ASSUME k + 1 <= n PROVE pos[k + 1] = f[k + 1]
    OBVIOUS
  <2>2. k + 1 \in 1..n /\ k + 1 - 1 = k /\ pos[k] = f[k]
    BY <1>8, <2>1
  <2>3. pos[k + 1] = F(pos)[k + 1]
    BY <1>5
  <2>4. F(pos)[k + 1] = pos[k] + rooms[k + 1]
    BY <2>2
  <2> QED BY <1>3, <2>2, <2>3, <2>4
<1>9. \A k \in Nat : k \in S
  <2> HIDE DEF S
  <2> QED BY <1>7, <1>8, Induction
<1>10. ASSUME NEW k \in 0..n PROVE pos[k] = f[k]
  <2>1. k \in S
    BY <1>9
  <2> QED BY <2>1
<1>11. pos = f
  <2>1. pos = [k \in 0..n |-> pos[k]]
    BY <1>5
  <2>2. f = [k \in 0..n |-> f[k]]
    OBVIOUS
  <2> HIDE DEF F
  <2> QED BY <1>10, <2>1, <2>2
<1> QED BY <1>3, <1>6, <1>11

LEMMA OffsetsGrow ==
    ASSUME NEW n \in Nat, NEW p \in [0..n -> Nat], NEW rooms \in Seq(Nat), Len(rooms) = n,
           \A i \in 1..n : p[i] = p[i - 1] + rooms[i]
    PROVE  \A i, j \in 0..n : i <= j => p[i] <= p[j]
<1> SUFFICES ASSUME NEW i \in 0..n PROVE \A j \in 0..n : i <= j => p[i] <= p[j]
  OBVIOUS
<1> DEFINE S == { k \in Nat : i + k <= n => p[i] <= p[i + k] }
<1>1. 0 \in S
  OBVIOUS
<1>2. ASSUME NEW k \in Nat, k \in S PROVE k + 1 \in S
  <2>1. SUFFICES ASSUME i + (k + 1) <= n PROVE p[i] <= p[i + (k + 1)]
    OBVIOUS
  <2>2. PICK m \in 1..n : m = i + (k + 1) /\ m - 1 = i + k /\ m - 1 \in 0..n
    BY <2>1
  <2>3. p[i] <= p[m - 1]
    BY <1>2, <2>2
  <2>4. p[m] = p[m - 1] + rooms[m] /\ rooms[m] \in Nat /\ p[m - 1] \in Nat /\ p[i] \in Nat
    BY <2>2
  <2> QED BY <2>2, <2>3, <2>4
<1>3. \A k \in Nat : k \in S
  <2> HIDE DEF S
  <2> QED BY <1>1, <1>2, Induction
<1>4. ASSUME NEW j \in 0..n, i <= j PROVE p[i] <= p[j]
  <2>1. PICK k \in Nat : i + k = j
    <3>1. j - i \in Nat /\ i + (j - i) = j
      BY <1>4
    <3> QED BY <3>1
  <2>2. k \in S
    BY <1>3
  <2>3. i + k <= n
    BY <2>1
  <2>4. p[i] <= p[i + k]
    BY <2>2, <2>3
  <2>5. p[i + k] = p[j]
    BY <2>1
  <2> QED BY <2>4, <2>5
<1> QED BY <1>4

-----------------------------------------------------------------------------
\* What is written at a place is there.
LEMMA PlaceFact ==
    ASSUME NEW pos \in Nat, NEW S, NEW items \in Seq(S)
    PROVE  /\ DOMAIN Place(pos, items) = pos..(pos + Len(items) - 1)
           /\ \A j \in 1..Len(items) :
                 pos + j - 1 \in pos..(pos + Len(items) - 1) /\ Place(pos, items)[pos + j - 1] = items[j]
<1>1. PICK n \in Nat : n = Len(items) /\ DOMAIN items = 1..n
  OBVIOUS
<1> DEFINE D == { pos + i - 1 : i \in 1..n }
<1>2. D = pos..(pos + n - 1)
  <2>1. ASSUME NEW p \in pos..(pos + n - 1) PROVE p \in D
    <3>1. p - pos + 1 \in 1..n /\ p = pos + (p - pos + 1) - 1
      OBVIOUS
    <3> QED BY <3>1
  <2>2. ASSUME NEW i \in 1..n PROVE pos + i - 1 \in pos..(pos + n - 1)
    OBVIOUS
  <2> QED BY <2>1, <2>2
<1>3. Place(pos, items) = [p \in D |-> items[p - pos + 1]]
  BY <1>1 DEF Place
<1> HIDE DEF D
<1>4. ASSUME NEW j \in 1..n
      PROVE  pos + j - 1 \in pos..(pos + n - 1) /\ Place(pos, items)[pos + j - 1] = items[j]
  <2>1. pos + j - 1 \in pos..(pos + n - 1) /\ (pos + j - 1) - pos + 1 = j
    OBVIOUS
  <2> QED BY <1>2, <1>3, <2>1
<1> QED BY <1>1, <1>2, <1>3, <1>4

LEMMA OverFact ==
    ASSUME NEW f, NEW g
    PROVE  /\ DOMAIN Over(f, g) = DOMAIN f \cup DOMAIN g
           /\ \A p \in DOMAIN g : Over(f, g)[p] = g[p]
           /\ \A p \in DOMAIN f : p \notin DOMAIN g => Over(f, g)[p] = f[p]
BY DEF Over

LEMMA OverLater ==
    ASSUME NEW f, NEW g, NEW p \in DOMAIN g
    PROVE  Over(f, g)[p] = g[p] /\ p \in DOMAIN Over(f, g)
BY DEF Over

LEMMA OverEarlier ==
    ASSUME NEW f, NEW g, NEW p \in DOMAIN f, p \notin DOMAIN g
    PROVE  Over(f, g)[p] = f[p] /\ p \in DOMAIN Over(f, g)
BY DEF Over

\* Pieces that do not overlap stay as they are.
LEMMA PlaceAllFact ==
    ASSUME NEW n \in Nat, NEW pieces, DOMAIN pieces = 1..n,
           \A i, j \in 1..n : i # j => DOMAIN pieces[i] \cap DOMAIN pieces[j] = {}
    PROVE  /\ \A p : p \in DOMAIN PlaceAll(pieces) <=> \E i \in 1..n : p \in DOMAIN pieces[i]
           /\ \A i \in 1..n : \A p \in DOMAIN pieces[i] : PlaceAll(pieces)[p] = pieces[i][p]
<1>1. ASSUME NEW i \in 1..n, NEW p \in DOMAIN pieces[i] PROVE PlaceAll(pieces)[p] = pieces[i][p]
  <2>1. { j \in DOMAIN pieces : p \in DOMAIN pieces[j] } = {i}
    BY <1>1
  <2>2. {i} \in SUBSET (0..n) /\ {i} # {}
    OBVIOUS
  <2>3. Largest({i}) \in {i}
    BY <2>2, LargestFact
  <2>4. p \in UNION { DOMAIN pieces[j] : j \in DOMAIN pieces }
    OBVIOUS
  <2> QED BY <2>1, <2>3, <2>4 DEF PlaceAll
<1>2. DOMAIN PlaceAll(pieces) = UNION { DOMAIN pieces[i] : i \in 1..n }
  BY DEF PlaceAll
<1> QED BY <1>1, <1>2

-----------------------------------------------------------------------------
(***************************************************************************)
(* The parts of an object file.                                            *)
(***************************************************************************)
Rooms(c) == [i \in 1..Len(c.sections) |-> Room(c.sections[i])]
DataAt(c) == Offsets(1 + Len(c.sections), Rooms(c))
RelocsAt(c, i) == DataAt(c)[i - 1] + Len(c.sections[i].data)
SymbolsAt(c) == DataAt(c)[Len(c.sections)]
FileHeader(c) ==
    [nscns |-> Len(c.sections), symptr |-> SymbolsAt(c), nsyms |-> Len(c.symbols)]
SectionHeader(c, i) ==
    LET s == c.sections[i]
    IN  [size |-> IF s.size # 0 THEN s.size ELSE Len(s.data), scnptr |-> DataAt(c)[i - 1],
         relptr |-> RelocsAt(c, i), nreloc |-> Len(s.relocations), bss |-> s.bss]
SymbolTable(c) == [k \in DOMAIN c.symbols |-> Entry(c.symbols, k)]
LongNames(c) == Kept([k \in DOMAIN c.symbols |-> c.symbols[k].name], LongOnes(c.symbols))
Strings(c) == <<"size">> \o LongNames(c)
Headers(c) ==
    Over(Place(0, <<FileHeader(c)>>), Place(1, [i \in 1..Len(c.sections) |-> SectionHeader(c, i)]))
DataPieces(c) == [i \in 1..Len(c.sections) |-> Place(DataAt(c)[i - 1], c.sections[i].data)]
RelocPieces(c) ==
    [i \in 1..Len(c.sections) |-> Place(RelocsAt(c, i), c.sections[i].relocations)]

LEMMA CoffFileParts ==
    ASSUME NEW c
    PROVE  CoffFile(c) = Over(Over(Over(Headers(c), PlaceAll(DataPieces(c))), PlaceAll(RelocPieces(c))),
                              Place(SymbolsAt(c), SymbolTable(c) \o Strings(c)))
BY DEF CoffFile, Headers, DataPieces, RelocPieces, SymbolsAt, SymbolTable, Strings, LongNames,
       SectionHeader, FileHeader, RelocsAt, DataAt, Rooms

\* The sections of a file, and where they lie.
LEMMA Layout ==
    ASSUME NEW c, FileTyped(c)
    PROVE  /\ Len(c.sections) \in Nat /\ Len(c.symbols) \in Nat
           /\ DataAt(c) \in [0..Len(c.sections) -> Nat] /\ DataAt(c)[0] = 1 + Len(c.sections)
           /\ \A i, j \in 0..Len(c.sections) : i <= j => DataAt(c)[i] <= DataAt(c)[j]
           /\ \A i \in 1..Len(c.sections) :
                 /\ c.sections[i] \in SectionEntry /\ i - 1 \in 0..Len(c.sections)
                 /\ RelocsAt(c, i) = DataAt(c)[i - 1] + Len(c.sections[i].data)
                 /\ DataAt(c)[i] = RelocsAt(c, i) + Len(c.sections[i].relocations)
                 /\ Len(c.sections[i].data) \in Nat /\ Len(c.sections[i].relocations) \in Nat
                 /\ c.sections[i].data \in Seq(Word)
                 /\ c.sections[i].relocations \in Seq(RelocEntry)
<1>1. PICK n \in Nat : n = Len(c.sections) /\ DOMAIN c.sections = 1..n
  BY DEF FileTyped
<1>2. \A i \in 1..n : c.sections[i] \in SectionEntry /\ i - 1 \in 0..n
  BY <1>1 DEF FileTyped
<1>3. ASSUME NEW i \in 1..n
      PROVE  /\ c.sections[i].data \in Seq(Word) /\ c.sections[i].relocations \in Seq(RelocEntry)
             /\ Len(c.sections[i].data) \in Nat /\ Len(c.sections[i].relocations) \in Nat
             /\ Room(c.sections[i]) \in Nat
  <2>1. c.sections[i].data \in Seq(Word) /\ c.sections[i].relocations \in Seq(RelocEntry)
    BY <1>2 DEF SectionEntry
  <2>2. PICK d \in Nat, r \in Nat :
           d = Len(c.sections[i].data) /\ r = Len(c.sections[i].relocations)
    BY <2>1
  <2>3. Room(c.sections[i]) = d + r
    BY <2>2 DEF Room
  <2>4. d + r \in Nat
    OBVIOUS
  <2> QED BY <2>1, <2>2, <2>3, <2>4
<1>4. Rooms(c) \in Seq(Nat) /\ Len(Rooms(c)) = n /\ \A i \in 1..n : Rooms(c)[i] = Room(c.sections[i])
  <2>1. Rooms(c) = [i \in 1..n |-> Room(c.sections[i])]
    BY <1>1 DEF Rooms
  <2> QED BY <1>3, <2>1
<1>5. /\ DataAt(c) \in [0..n -> Nat] /\ DataAt(c)[0] = 1 + n
      /\ \A i \in 1..n : DataAt(c)[i] = DataAt(c)[i - 1] + Rooms(c)[i]
  <2>1. PICK start \in Nat : start = 1 + n
    OBVIOUS
  <2>2. PICK rooms \in Seq(Nat) : rooms = Rooms(c) /\ Len(rooms) = n
    BY <1>4
  <2>3. DataAt(c) = Offsets(start, rooms)
    BY <1>1, <2>1, <2>2 DEF DataAt
  <2>4. /\ Offsets(start, rooms) \in [0..n -> Nat] /\ Offsets(start, rooms)[0] = start
        /\ \A i \in 1..n : Offsets(start, rooms)[i] = Offsets(start, rooms)[i - 1] + rooms[i]
    <3>1. Len(rooms) = n
      BY <2>2
    <3>2. Offsets(start, rooms) \in [0..n -> Nat]
      BY <3>1, OffsetsFact
    <3>3. Offsets(start, rooms)[0] = start
      BY <3>1, OffsetsFact
    <3>4. \A i \in 1..n : Offsets(start, rooms)[i] = Offsets(start, rooms)[i - 1] + rooms[i]
      BY <3>1, OffsetsFact
    <3> QED BY <3>2, <3>3, <3>4
  <2> QED BY <2>1, <2>2, <2>3, <2>4
<1>6. \A i, j \in 0..n : i <= j => DataAt(c)[i] <= DataAt(c)[j]
  BY <1>4, <1>5, OffsetsGrow
<1>7. ASSUME NEW i \in 1..n
      PROVE  DataAt(c)[i] = RelocsAt(c, i) + Len(c.sections[i].relocations)
  <2>1. PICK d \in Nat, r \in Nat :
           d = Len(c.sections[i].data) /\ r = Len(c.sections[i].relocations)
    BY <1>3
  <2>2. PICK p \in Nat : p = DataAt(c)[i - 1]
    BY <1>2, <1>5
  <2>3. DataAt(c)[i] = p + (d + r) /\ RelocsAt(c, i) = p + d
    BY <1>4, <1>5, <2>1, <2>2 DEF Room, RelocsAt
  <2>4. p + (d + r) = (p + d) + r
    OBVIOUS
  <2> QED BY <2>1, <2>3, <2>4
<1>8. Len(c.symbols) \in Nat
  BY DEF FileTyped
<1> QED BY <1>1, <1>2, <1>3, <1>5, <1>6, <1>7, <1>8 DEF RelocsAt

\* Shorter names for the numbers of sections, symbols and strings.
SectionsAre(c, n) == n = Len(c.sections)

\* The pieces of the sections lie in their places, and not on each other.
LEMMA Pieces ==
    ASSUME NEW c, FileTyped(c), NEW n \in Nat, SectionsAre(c, n)
    PROVE  /\ \A i \in 1..n :
                 /\ DataAt(c)[0] <= DataAt(c)[i - 1] /\ DataAt(c)[i - 1] <= RelocsAt(c, i)
                 /\ RelocsAt(c, i) <= DataAt(c)[i] /\ DataAt(c)[i] <= SymbolsAt(c)
                 /\ DOMAIN DataPieces(c)[i] = DataAt(c)[i - 1]..(RelocsAt(c, i) - 1)
                 /\ DOMAIN RelocPieces(c)[i] = RelocsAt(c, i)..(DataAt(c)[i] - 1)
                 /\ \A j \in 1..Len(c.sections[i].data) :
                       /\ DataAt(c)[i - 1] + j - 1 \in DataAt(c)[i - 1]..(RelocsAt(c, i) - 1)
                       /\ DataPieces(c)[i][DataAt(c)[i - 1] + j - 1] = c.sections[i].data[j]
                 /\ \A j \in 1..Len(c.sections[i].relocations) :
                       /\ RelocsAt(c, i) + j - 1 \in RelocsAt(c, i)..(DataAt(c)[i] - 1)
                       /\ RelocPieces(c)[i][RelocsAt(c, i) + j - 1] = c.sections[i].relocations[j]
           /\ \A i, j \in 1..n : i < j => DataAt(c)[i] <= DataAt(c)[j - 1]
<1>1. ASSUME NEW i \in 1..n
      PROVE  /\ DataAt(c)[0] <= DataAt(c)[i - 1] /\ DataAt(c)[i - 1] <= RelocsAt(c, i)
             /\ RelocsAt(c, i) <= DataAt(c)[i] /\ DataAt(c)[i] <= SymbolsAt(c)
             /\ DOMAIN DataPieces(c)[i] = DataAt(c)[i - 1]..(RelocsAt(c, i) - 1)
             /\ DOMAIN RelocPieces(c)[i] = RelocsAt(c, i)..(DataAt(c)[i] - 1)
             /\ \A j \in 1..Len(c.sections[i].data) :
                   /\ DataAt(c)[i - 1] + j - 1 \in DataAt(c)[i - 1]..(RelocsAt(c, i) - 1)
                   /\ DataPieces(c)[i][DataAt(c)[i - 1] + j - 1] = c.sections[i].data[j]
             /\ \A j \in 1..Len(c.sections[i].relocations) :
                   /\ RelocsAt(c, i) + j - 1 \in RelocsAt(c, i)..(DataAt(c)[i] - 1)
                   /\ RelocPieces(c)[i][RelocsAt(c, i) + j - 1] = c.sections[i].relocations[j]
  <2>0. n = Len(c.sections)
    BY DEF SectionsAre
  <2>1. PICK p \in Nat, q \in Nat, e \in Nat : p = DataAt(c)[i - 1] /\ q = RelocsAt(c, i) /\ e = DataAt(c)[i]
    <3>1. /\ DataAt(c)[i - 1] \in Nat /\ DataAt(c)[i] \in Nat /\ Len(c.sections[i].data) \in Nat
          /\ RelocsAt(c, i) = DataAt(c)[i - 1] + Len(c.sections[i].data)
      BY <2>0, Layout
    <3>2. RelocsAt(c, i) \in Nat
      BY <3>1
    <3> QED BY <3>1, <3>2
  <2>2. PICK d \in Nat, r \in Nat : d = Len(c.sections[i].data) /\ r = Len(c.sections[i].relocations)
    BY <2>0, Layout
  <2>3. q = p + d /\ e = q + r
    BY <2>1, <2>2, <2>0, Layout
  <2>4. DataAt(c)[0] <= p /\ e <= SymbolsAt(c)
    <3>1. 0 \in 0..n /\ i - 1 \in 0..n /\ 0 <= i - 1 /\ n \in 0..n /\ i \in 0..n /\ i <= n
      OBVIOUS
    <3> QED BY <2>1, <3>1, <2>0, Layout DEF SymbolsAt
  <2>5. c.sections[i].data \in Seq(Word) /\ c.sections[i].relocations \in Seq(RelocEntry)
    BY <2>0, Layout
  <2>6. DataPieces(c)[i] = Place(p, c.sections[i].data) /\ RelocPieces(c)[i] = Place(q, c.sections[i].relocations)
    BY <2>1 DEF DataPieces, RelocPieces, SectionsAre
  <2>7. PICK s \in Seq(Word), t \in Seq(RelocEntry) : s = c.sections[i].data /\ t = c.sections[i].relocations
    BY <2>5
  <2>8. /\ DOMAIN Place(p, s) = p..(p + Len(s) - 1)
        /\ \A j \in 1..Len(s) : p + j - 1 \in p..(p + Len(s) - 1) /\ Place(p, s)[p + j - 1] = s[j]
    BY PlaceFact
  <2>9. /\ DOMAIN Place(q, t) = q..(q + Len(t) - 1)
        /\ \A j \in 1..Len(t) : q + j - 1 \in q..(q + Len(t) - 1) /\ Place(q, t)[q + j - 1] = t[j]
    BY PlaceFact
  <2>10. Len(s) = d /\ Len(t) = r /\ p <= q /\ q <= e /\ p + d - 1 = q - 1 /\ q + r - 1 = e - 1
    <3>1. Len(s) = Len(c.sections[i].data) /\ Len(t) = Len(c.sections[i].relocations)
      BY <2>7
    <3>2. Len(s) = d /\ Len(t) = r
      BY <2>2, <3>1
    <3>3. p <= q /\ q <= e /\ p + d - 1 = q - 1 /\ q + r - 1 = e - 1
      BY <2>3
    <3> QED BY <3>2, <3>3
  <2>11. /\ DOMAIN DataPieces(c)[i] = p..(q - 1) /\ DOMAIN RelocPieces(c)[i] = q..(e - 1)
    BY <2>6, <2>7, <2>8, <2>9, <2>10
  <2>12. \A j \in 1..Len(c.sections[i].data) :
            p + j - 1 \in p..(q - 1) /\ DataPieces(c)[i][p + j - 1] = c.sections[i].data[j]
    BY <2>6, <2>7, <2>8, <2>10
  <2>13. \A j \in 1..Len(c.sections[i].relocations) :
            q + j - 1 \in q..(e - 1) /\ RelocPieces(c)[i][q + j - 1] = c.sections[i].relocations[j]
    BY <2>6, <2>7, <2>9, <2>10
  <2> QED BY <2>1, <2>4, <2>10, <2>11, <2>12, <2>13
<1>2. ASSUME NEW i \in 1..n, NEW j \in 1..n, i < j PROVE DataAt(c)[i] <= DataAt(c)[j - 1]
  <2>0. n = Len(c.sections)
    BY DEF SectionsAre
  <2>1. i \in 0..n /\ j - 1 \in 0..n /\ i <= j - 1
    BY <1>2
  <2> QED BY <2>1, <2>0, Layout
<1> QED BY <1>1, <1>2

HowManyLong(c) == Count(LongOnes(c.symbols), Len(c.symbols))
AfterSections(c) == SymbolTable(c) \o Strings(c)

\* The numbers of symbols and of strings.
SizesAre(c, m, l) == m = Len(c.symbols) /\ l = HowManyLong(c)

\* The symbol table and the strings, as one piece.
LEMMA TailFact ==
    ASSUME NEW c, FileTyped(c), NEW m \in Nat, NEW l \in Nat, SizesAre(c, m, l)
    PROVE  /\ \E X : AfterSections(c) \in Seq(X)
           /\ Len(AfterSections(c)) = m + 1 + l
           /\ \A k \in 1..m : AfterSections(c)[k] = Entry(c.symbols, k)
           /\ \A k \in LongOnes(c.symbols) :
                 /\ k \in 1..m /\ Count(LongOnes(c.symbols), k) \in 1..l
                 /\ AfterSections(c)[m + 1 + Count(LongOnes(c.symbols), k)] = c.symbols[k].name
<1>1. DOMAIN c.symbols = 1..m /\ \A k \in 1..m : c.symbols[k] \in SymbolEntry
  BY DEF FileTyped, SizesAre
<1> DEFINE X == { Entry(c.symbols, k) : k \in 1..m } \cup {"size"} \cup Name \cup {".section"}
           names == [k \in 1..m |-> c.symbols[k].name]
           K == LongOnes(c.symbols)
<1>2. names \in Seq(X) /\ Len(names) = m /\ \A k \in 1..m : names[k] = c.symbols[k].name
  <2>1. \A k \in 1..m : c.symbols[k].name \in X
    BY <1>1 DEF SymbolEntry
  <2> HIDE DEF X
  <2> QED BY <2>1
<1>3. PICK t \in Seq(X) : t = LongNames(c) /\ t = Kept(names, K)
  <2>1. LongNames(c) = Kept(names, K)
    BY <1>1 DEF LongNames
  <2>2. Kept(names, K) \in Seq(X)
    <3> HIDE DEF names, X, K
    <3> QED BY <1>2, KeptFacts
  <2> QED BY <2>1, <2>2
<1>4. Len(t) = l
  <2>1. Len(Kept(names, K)) = Count(K, Len(names))
    <3> HIDE DEF names, X, K
    <3> QED BY <1>2, KeptFacts
  <2> QED BY <1>1, <1>2, <1>3, <2>1 DEF HowManyLong, SizesAre
<1>5. ASSUME NEW k \in K
      PROVE  k \in 1..m /\ Count(K, k) \in 1..l /\ t[Count(K, k)] = c.symbols[k].name
  <2>1. k \in 1..m
    BY <1>1 DEF LongOnes
  <2>2. k \in K \cap (1..Len(names))
    BY <1>2, <2>1
  <2>3. Count(K, k) \in 1..Len(Kept(names, K)) /\ Kept(names, K)[Count(K, k)] = names[k]
    <3> HIDE DEF names, X, K
    <3> QED BY <1>2, <2>2, KeptFacts
  <2>4. names[k] = c.symbols[k].name
    BY <2>1
  <2> HIDE DEF names, K
  <2> QED BY <1>3, <1>4, <2>1, <2>3, <2>4
<1>6. PICK s \in Seq(X) : s = SymbolTable(c) /\ Len(s) = m /\ \A k \in 1..m : s[k] = Entry(c.symbols, k)
  <2>1. SymbolTable(c) = [k \in 1..m |-> Entry(c.symbols, k)]
    BY <1>1 DEF SymbolTable
  <2>2. \A k \in 1..m : Entry(c.symbols, k) \in X
    OBVIOUS
  <2> HIDE DEF X
  <2> QED BY <2>1, <2>2
<1>7. PICK u \in Seq(X) : u = <<"size">> \o t /\ Len(u) = 1 + l /\ \A j \in 1..l : u[1 + j] = t[j]
  <2>1. "size" \in X
    OBVIOUS
  <2> HIDE DEF X
  <2>2. <<"size">> \in Seq(X) /\ Len(<<"size">>) = 1
    BY <2>1
  <2>3. <<"size">> \o t \in Seq(X)
    BY <2>2
  <2>4. Len(<<"size">> \o t) = 1 + l
    BY <1>4, <2>2
  <2>5. ASSUME NEW j \in 1..l PROVE (<<"size">> \o t)[1 + j] = t[j]
    BY <1>4, <2>2
  <2> QED BY <2>3, <2>4, <2>5
<1>8. AfterSections(c) = s \o u
  BY <1>3, <1>6, <1>7 DEF AfterSections, Strings
<1> HIDE DEF X, K, names
<1>9. s \o u \in Seq(X)
  OBVIOUS
<1>10. Len(s \o u) = m + (1 + l)
  <2>1. Len(s \o u) = Len(s) + Len(u)
    OBVIOUS
  <2> QED BY <1>6, <1>7, <2>1
<1>11. \A k \in 1..m : (s \o u)[k] = s[k]
  BY <1>6
<1>12. ASSUME NEW j \in 1..l PROVE (s \o u)[m + 1 + j] = t[j]
  <2>1. m + 1 + j \in (m + 1)..(m + (1 + l)) /\ m + 1 + j - m = 1 + j
    OBVIOUS
  <2>2. (s \o u)[m + 1 + j] = u[m + 1 + j - m]
    BY <1>6, <1>7, <2>1
  <2> QED BY <1>7, <2>1, <2>2
<1>13. m + (1 + l) = m + 1 + l
  OBVIOUS
<1>14. \A k \in 1..m : AfterSections(c)[k] = Entry(c.symbols, k)
  BY <1>6, <1>8, <1>11
<1>15. ASSUME NEW k \in K
       PROVE  k \in 1..m /\ Count(K, k) \in 1..l /\ AfterSections(c)[m + 1 + Count(K, k)] = c.symbols[k].name
  <2>1. PICK j \in 1..l : j = Count(K, k) /\ t[j] = c.symbols[k].name
    BY <1>5
  <2>2. (s \o u)[m + 1 + j] = t[j]
    BY <1>12
  <2> QED BY <1>5, <1>8, <2>1, <2>2
<1> QED BY <1>8, <1>9, <1>10, <1>13, <1>14, <1>15 DEF K

-----------------------------------------------------------------------------
\* What the headers lead to is what was given to COFF.write.
ReadsAs(f, c) ==
    /\ f[0] = FileHeader(c)
    /\ \A i \in 1..Len(c.sections) :
          /\ f[i] = SectionHeader(c, i)
          /\ \A j \in 1..Len(c.sections[i].data) : f[DataAt(c)[i - 1] + j - 1] = c.sections[i].data[j]
          /\ \A j \in 1..Len(c.sections[i].relocations) :
                f[RelocsAt(c, i) + j - 1] = c.sections[i].relocations[j]
    /\ \A k \in 1..Len(c.symbols) : f[SymbolsAt(c) + k - 1] = Entry(c.symbols, k)
    /\ \A k \in LongOnes(c.symbols) :
          f[SymbolsAt(c) + Len(c.symbols) + Count(LongOnes(c.symbols), k)] = c.symbols[k].name
    /\ DOMAIN f = 0..(SymbolsAt(c) + Len(c.symbols) + HowManyLong(c))

LEMMA HeadersFact ==
    ASSUME NEW c, NEW n \in Nat, SectionsAre(c, n)
    PROVE  /\ DOMAIN Headers(c) = 0..n /\ Headers(c)[0] = FileHeader(c)
           /\ \A i \in 1..n : Headers(c)[i] = SectionHeader(c, i)
<1> DEFINE h == <<FileHeader(c)>>
           s == [i \in 1..n |-> SectionHeader(c, i)]
           X == { SectionHeader(c, i) : i \in 1..n }
<1>1. h \in Seq({FileHeader(c)}) /\ Len(h) = 1 /\ h[1] = FileHeader(c)
  OBVIOUS
<1>2. s \in Seq(X) /\ Len(s) = n /\ \A i \in 1..n : s[i] = SectionHeader(c, i)
  <2>1. \A i \in 1..n : SectionHeader(c, i) \in X
    OBVIOUS
  <2> HIDE DEF X
  <2> QED BY <2>1
<1>3. Headers(c) = Over(Place(0, h), Place(1, s))
  BY DEF Headers, SectionsAre
<1> HIDE DEF h, s, X
<1>4. DOMAIN Place(0, h) = 0..0 /\ Place(0, h)[0] = FileHeader(c)
  <2>1. PICK z \in Nat : z = 0
    OBVIOUS
  <2>0. PICK S : S = {FileHeader(c)}
    OBVIOUS
  <2>2. h \in Seq(S)
    BY <1>1, <2>0
  <2>3. DOMAIN Place(z, h) = z..(z + Len(h) - 1)
    BY <2>2, PlaceFact
  <2>4. \A j \in 1..Len(h) : Place(z, h)[z + j - 1] = h[j]
    BY <2>2, PlaceFact
  <2>5. z + Len(h) - 1 = 0 /\ 1 \in 1..Len(h) /\ z + 1 - 1 = 0
    BY <1>1, <2>1
  <2>6. Place(z, h)[z + 1 - 1] = h[1]
    BY <2>4, <2>5
  <2> QED BY <1>1, <2>1, <2>3, <2>5, <2>6
<1>5. DOMAIN Place(1, s) = 1..n /\ \A i \in 1..n : Place(1, s)[i] = SectionHeader(c, i)
  <2>1. PICK z \in Nat : z = 1
    OBVIOUS
  <2>2. DOMAIN Place(z, s) = z..(z + Len(s) - 1)
    BY <1>2, PlaceFact
  <2>3. \A j \in 1..Len(s) : Place(z, s)[z + j - 1] = s[j]
    BY <1>2, PlaceFact
  <2>4. z + Len(s) - 1 = n /\ \A j \in 1..n : z + j - 1 = j
    BY <1>2, <2>1
  <2>5. \A j \in 1..n : Place(z, s)[j] = s[j]
    BY <1>2, <2>3, <2>4
  <2> QED BY <1>2, <2>1, <2>2, <2>4, <2>5
<1>6. 0..0 \cup 1..n = 0..n /\ 0 \notin 1..n /\ 0 \in 0..0
  OBVIOUS
<1>7. PICK f, g : f = Place(0, h) /\ g = Place(1, s)
  OBVIOUS
<1>8. Headers(c) = Over(f, g)
  BY <1>3, <1>7
<1>9. /\ DOMAIN f = 0..0 /\ f[0] = FileHeader(c)
      /\ DOMAIN g = 1..n /\ \A i \in 1..n : g[i] = SectionHeader(c, i)
  BY <1>4, <1>5, <1>7
<1>10. DOMAIN Over(f, g) = 0..n
  <2>1. DOMAIN Over(f, g) = DOMAIN f \cup DOMAIN g
    BY OverFact
  <2> QED BY <1>6, <1>9, <2>1
<1>11. Over(f, g)[0] = FileHeader(c)
  BY <1>6, <1>9, OverFact
<1>12. \A i \in 1..n : Over(f, g)[i] = SectionHeader(c, i)
  <2>1. \A i \in DOMAIN g : Over(f, g)[i] = g[i]
    BY OverFact
  <2> QED BY <1>9, <2>1
<1> QED BY <1>8, <1>10, <1>11, <1>12

\* All that lies between the headers and the symbols.
LEMMA BodyFact ==
    ASSUME NEW c, FileTyped(c), NEW n \in Nat, SectionsAre(c, n)
    PROVE  /\ \A p : p \in DOMAIN PlaceAll(DataPieces(c)) \cup DOMAIN PlaceAll(RelocPieces(c))
                       <=> p \in (1 + n)..(SymbolsAt(c) - 1)
           /\ SymbolsAt(c) \in Nat /\ 1 + n <= SymbolsAt(c)
           /\ \A i \in 1..n :
                 /\ \A p \in DataAt(c)[i - 1]..(RelocsAt(c, i) - 1) :
                       /\ p \in DOMAIN PlaceAll(DataPieces(c)) /\ p \notin DOMAIN PlaceAll(RelocPieces(c))
                       /\ PlaceAll(DataPieces(c))[p] = DataPieces(c)[i][p]
                 /\ \A p \in RelocsAt(c, i)..(DataAt(c)[i] - 1) :
                       /\ p \in DOMAIN PlaceAll(RelocPieces(c))
                       /\ PlaceAll(RelocPieces(c))[p] = RelocPieces(c)[i][p]
<1>0. n = Len(c.sections)
  BY DEF SectionsAre
<1> DEFINE d == [i \in 0..n |-> DataAt(c)[i]]
           r == [i \in 1..n |-> RelocsAt(c, i)]
<1>1. /\ d \in [0..n -> Nat] /\ r \in [1..n -> Nat] /\ d[0] = 1 + n /\ d[n] = SymbolsAt(c)
      /\ \A i \in 0..n : d[i] = DataAt(c)[i]
      /\ \A i \in 1..n : r[i] = RelocsAt(c, i)
  <2>1. \A i \in 0..n : DataAt(c)[i] \in Nat
    BY <1>0, Layout
  <2>2. ASSUME NEW i \in 1..n PROVE RelocsAt(c, i) \in Nat
    <3>1. PICK p \in Nat, q \in Nat : p = DataAt(c)[i - 1] /\ q = Len(c.sections[i].data)
      BY <1>0, Layout
    <3>2. RelocsAt(c, i) = p + q
      BY <3>1, <1>0, Layout
    <3> QED BY <3>2
  <2>3. 0 \in 0..n /\ n \in 0..n
    OBVIOUS
  <2>4. DataAt(c)[0] = 1 + n
    BY <1>0, Layout
  <2> QED BY <2>1, <2>2, <2>3, <2>4 DEF SymbolsAt, SectionsAre
<1>2. \A i \in 1..n : i - 1 \in 0..n /\ i \in 0..n
  OBVIOUS
<1>3. /\ \A i \in 1..n : d[i - 1] <= r[i] /\ r[i] <= d[i] /\ d[i] <= d[n] /\ d[0] <= d[i - 1]
      /\ \A i, j \in 1..n : i < j => d[i] <= d[j - 1]
  BY <1>1, <1>2, Pieces
<1>4. /\ DOMAIN DataPieces(c) = 1..n /\ DOMAIN RelocPieces(c) = 1..n
      /\ \A i \in 1..n : DOMAIN DataPieces(c)[i] = d[i - 1]..(r[i] - 1)
                           /\ DOMAIN RelocPieces(c)[i] = r[i]..(d[i] - 1)
  <2>1. DOMAIN DataPieces(c) = 1..n /\ DOMAIN RelocPieces(c) = 1..n
    BY DEF DataPieces, RelocPieces, SectionsAre
  <2>2. ASSUME NEW i \in 1..n
        PROVE  /\ DOMAIN DataPieces(c)[i] = d[i - 1]..(r[i] - 1)
               /\ DOMAIN RelocPieces(c)[i] = r[i]..(d[i] - 1)
    <3>1. /\ DOMAIN DataPieces(c)[i] = DataAt(c)[i - 1]..(RelocsAt(c, i) - 1)
          /\ DOMAIN RelocPieces(c)[i] = RelocsAt(c, i)..(DataAt(c)[i] - 1)
      BY Pieces
    <3>2. DataAt(c)[i - 1] = d[i - 1] /\ RelocsAt(c, i) = r[i] /\ DataAt(c)[i] = d[i]
      BY <1>1, <1>2
    <3> HIDE DEF d, r
    <3> QED BY <3>1, <3>2
  <2> QED BY <2>1, <2>2
<1> HIDE DEF d, r
<1>5. ASSUME NEW i \in 1..n, NEW j \in 1..n, i # j, NEW p \in d[i - 1]..(d[i] - 1) PROVE p \notin d[j - 1]..(d[j] - 1)
  <2>1. d[i] \in Nat /\ d[j] \in Nat /\ d[i - 1] \in Nat /\ d[j - 1] \in Nat
    BY <1>1, <1>2
  <2>2. CASE i < j
    <3>1. d[i] <= d[j - 1]
      BY <1>3, <2>2
    <3> QED BY <2>1, <3>1
  <2>3. CASE j < i
    <3>1. d[j] <= d[i - 1]
      BY <1>3, <2>3
    <3> QED BY <2>1, <3>1
  <2> QED BY <1>5, <2>2, <2>3
<1>6. ASSUME NEW i \in 1..n
      PROVE  /\ d[i - 1] \in Nat /\ r[i] \in Nat /\ d[i] \in Nat
             /\ \A p \in d[i - 1]..(r[i] - 1) : p \in d[i - 1]..(d[i] - 1) /\ p \notin r[i]..(d[i] - 1)
             /\ \A p \in r[i]..(d[i] - 1) : p \in d[i - 1]..(d[i] - 1)
             /\ \A p \in d[i - 1]..(d[i] - 1) : p \in d[i - 1]..(r[i] - 1) \/ p \in r[i]..(d[i] - 1)
  <2>1. d[i - 1] \in Nat /\ r[i] \in Nat /\ d[i] \in Nat
    BY <1>1, <1>2
  <2>2. d[i - 1] <= r[i] /\ r[i] <= d[i]
    BY <1>3
  <2> QED BY <2>1, <2>2
<1>7. ASSUME NEW i \in 1..n, NEW j \in 1..n, i # j
      PROVE  DOMAIN DataPieces(c)[i] \cap DOMAIN DataPieces(c)[j] = {}
  <2>1. SUFFICES ASSUME NEW p \in DOMAIN DataPieces(c)[i], p \in DOMAIN DataPieces(c)[j] PROVE FALSE
    OBVIOUS
  <2>2. p \in d[i - 1]..(r[i] - 1) /\ p \in d[j - 1]..(r[j] - 1)
    BY <1>4, <2>1
  <2>3. p \in d[i - 1]..(d[i] - 1) /\ p \in d[j - 1]..(d[j] - 1)
    BY <1>6, <2>2
  <2> QED BY <1>5, <1>7, <2>3
<1>8. ASSUME NEW i \in 1..n, NEW j \in 1..n, i # j
      PROVE  DOMAIN RelocPieces(c)[i] \cap DOMAIN RelocPieces(c)[j] = {}
  <2>1. SUFFICES ASSUME NEW p \in DOMAIN RelocPieces(c)[i], p \in DOMAIN RelocPieces(c)[j] PROVE FALSE
    OBVIOUS
  <2>2. p \in r[i]..(d[i] - 1) /\ p \in r[j]..(d[j] - 1)
    BY <1>4, <2>1
  <2>3. p \in d[i - 1]..(d[i] - 1) /\ p \in d[j - 1]..(d[j] - 1)
    BY <1>6, <2>2
  <2> QED BY <1>5, <1>8, <2>3
<1>9. /\ \A p : p \in DOMAIN PlaceAll(DataPieces(c)) <=> \E i \in 1..n : p \in d[i - 1]..(r[i] - 1)
      /\ \A i \in 1..n : \A p \in d[i - 1]..(r[i] - 1) : PlaceAll(DataPieces(c))[p] = DataPieces(c)[i][p]
  <2>1. DOMAIN DataPieces(c) = 1..n
    BY <1>4
  <2>2. \A p : p \in DOMAIN PlaceAll(DataPieces(c)) <=> \E i \in 1..n : p \in DOMAIN DataPieces(c)[i]
    BY <1>7, <2>1, PlaceAllFact
  <2>3. \A i \in 1..n : \A p \in DOMAIN DataPieces(c)[i] : PlaceAll(DataPieces(c))[p] = DataPieces(c)[i][p]
    BY <1>7, <2>1, PlaceAllFact
  <2>4. \A i \in 1..n : DOMAIN DataPieces(c)[i] = d[i - 1]..(r[i] - 1)
    BY <1>4
  <2> QED BY <2>2, <2>3, <2>4
<1>10. /\ \A p : p \in DOMAIN PlaceAll(RelocPieces(c)) <=> \E i \in 1..n : p \in r[i]..(d[i] - 1)
       /\ \A i \in 1..n : \A p \in r[i]..(d[i] - 1) : PlaceAll(RelocPieces(c))[p] = RelocPieces(c)[i][p]
  <2>1. DOMAIN RelocPieces(c) = 1..n
    BY <1>4
  <2>2. \A p : p \in DOMAIN PlaceAll(RelocPieces(c)) <=> \E i \in 1..n : p \in DOMAIN RelocPieces(c)[i]
    BY <1>8, <2>1, PlaceAllFact
  <2>3. \A i \in 1..n : \A p \in DOMAIN RelocPieces(c)[i] : PlaceAll(RelocPieces(c))[p] = RelocPieces(c)[i][p]
    BY <1>8, <2>1, PlaceAllFact
  <2>4. \A i \in 1..n : DOMAIN RelocPieces(c)[i] = r[i]..(d[i] - 1)
    BY <1>4
  <2> QED BY <2>2, <2>3, <2>4
<1>11. ASSUME NEW i \in 1..n, NEW p \in d[i - 1]..(r[i] - 1) PROVE p \notin DOMAIN PlaceAll(RelocPieces(c))
  <2>1. SUFFICES ASSUME NEW j \in 1..n, p \in r[j]..(d[j] - 1) PROVE FALSE
    BY <1>10
  <2>2. p \in d[i - 1]..(d[i] - 1) /\ p \notin r[i]..(d[i] - 1) /\ p \in d[j - 1]..(d[j] - 1)
    BY <1>6, <2>1
  <2> QED BY <1>5, <2>1, <2>2
<1> DEFINE S == { i \in 0..n : \A p \in (1 + n)..(d[i] - 1) : \E j \in 1..n : p \in d[j - 1]..(d[j] - 1) }
<1>12. \A i \in 0..n : i \in S
  <2>1. 0 \in S
    BY <1>1
  <2>2. ASSUME NEW i \in 1..n, i - 1 \in S PROVE i \in S
    <3>1. ASSUME NEW p \in (1 + n)..(d[i] - 1) PROVE \E j \in 1..n : p \in d[j - 1]..(d[j] - 1)
      <4>1. d[i - 1] \in Nat /\ d[i] \in Nat
        BY <1>6
      <4>2. CASE p < d[i - 1]
        <5>1. p \in (1 + n)..(d[i - 1] - 1)
          BY <4>1, <4>2
        <5> QED BY <2>2, <5>1
      <4>3. CASE ~(p < d[i - 1])
        <5>1. p \in d[i - 1]..(d[i] - 1)
          BY <4>1, <4>3
        <5> QED BY <5>1
      <4> QED BY <4>2, <4>3
    <3>2. i \in 0..n
      OBVIOUS
    <3> QED BY <3>1, <3>2
  <2> HIDE DEF S
  <2> QED BY <2>1, <2>2, BoundedInduction
<1>13. ASSUME NEW p
       PROVE  p \in DOMAIN PlaceAll(DataPieces(c)) \cup DOMAIN PlaceAll(RelocPieces(c))
                <=> p \in (1 + n)..(SymbolsAt(c) - 1)
  <2>1. ASSUME p \in (1 + n)..(SymbolsAt(c) - 1)
        PROVE  p \in DOMAIN PlaceAll(DataPieces(c)) \cup DOMAIN PlaceAll(RelocPieces(c))
    <3>1. n \in S /\ p \in (1 + n)..(d[n] - 1)
      BY <1>1, <1>12, <2>1
    <3>2. PICK j \in 1..n : p \in d[j - 1]..(d[j] - 1)
      BY <3>1
    <3>3. p \in d[j - 1]..(r[j] - 1) \/ p \in r[j]..(d[j] - 1)
      BY <1>6, <3>2
    <3> QED BY <1>9, <1>10, <3>3
  <2>2. ASSUME NEW i \in 1..n, p \in d[i - 1]..(d[i] - 1) PROVE p \in (1 + n)..(SymbolsAt(c) - 1)
    <3>1. d[i - 1] \in Nat /\ d[i] \in Nat /\ d[n] \in Nat
      BY <1>1, <1>6
    <3>2. 1 + n <= d[i - 1] /\ d[i] <= d[n]
      BY <1>1, <1>3
    <3>3. p \in (1 + n)..(d[n] - 1)
      BY <2>2, <3>1, <3>2
    <3> QED BY <1>1, <3>3
  <2>3. ASSUME p \in DOMAIN PlaceAll(DataPieces(c)) \cup DOMAIN PlaceAll(RelocPieces(c))
        PROVE  p \in (1 + n)..(SymbolsAt(c) - 1)
    <3>1. PICK i \in 1..n : p \in d[i - 1]..(r[i] - 1) \/ p \in r[i]..(d[i] - 1)
      BY <1>9, <1>10, <2>3
    <3>2. p \in d[i - 1]..(d[i] - 1)
      BY <1>6, <3>1
    <3> QED BY <2>2, <3>2
  <2> QED BY <2>1, <2>3
<1>14. SymbolsAt(c) \in Nat /\ 1 + n <= SymbolsAt(c)
  <2>1. 0 \in 0..n /\ n \in 0..n /\ 0 <= n
    OBVIOUS
  <2>2. DataAt(c)[0] <= DataAt(c)[n]
    BY <2>1, <1>0, Layout
  <2> QED BY <1>1, <2>1, <2>2
<1> HIDE DEF S
<1> QED BY <1>1, <1>2, <1>9, <1>10, <1>11, <1>13, <1>14

\* An object file reads as what was written.
LEMMA FileReads ==
    ASSUME NEW c, FileTyped(c)
    PROVE  ReadsAs(CoffFile(c), c)
<1>1. PICK n \in Nat, m \in Nat : n = Len(c.sections) /\ m = Len(c.symbols)
  BY DEF FileTyped
<1>2. PICK l \in Nat : l = HowManyLong(c)
  <2>1. HowManyLong(c) \in Nat
    BY <1>1, CountFacts DEF HowManyLong
  <2> QED BY <2>1
<1>3. PICK H, D, R, f, s : /\ H = Headers(c) /\ D = PlaceAll(DataPieces(c)) /\ R = PlaceAll(RelocPieces(c))
                           /\ f = CoffFile(c) /\ s = SymbolsAt(c)
  OBVIOUS
<1>4. SectionsAre(c, n) /\ SizesAre(c, m, l)
  BY <1>1, <1>2 DEF SectionsAre, SizesAre
<1>5. /\ s \in Nat /\ 1 + n <= s
      /\ \A p : p \in DOMAIN D \cup DOMAIN R <=> p \in (1 + n)..(s - 1)
  BY <1>3, <1>4, BodyFact
<1>6. PICK X : AfterSections(c) \in Seq(X)
  BY <1>4, TailFact
<1>7. PICK t \in Seq(X) : t = AfterSections(c)
  BY <1>6
<1>8. Len(t) = m + 1 + l
  BY <1>4, <1>7, TailFact
<1>9. PICK T : T = Place(s, t)
  OBVIOUS
<1>10. DOMAIN T = s..(s + m + l) /\ \A j \in 1..(m + 1 + l) : s + j - 1 \in DOMAIN T /\ T[s + j - 1] = t[j]
  <2>1. DOMAIN T = s..(s + Len(t) - 1)
    BY <1>5, <1>9, PlaceFact
  <2>2. \A j \in 1..Len(t) : s + j - 1 \in s..(s + Len(t) - 1) /\ T[s + j - 1] = t[j]
    BY <1>5, <1>9, PlaceFact
  <2>3. s + (m + 1 + l) - 1 = s + m + l
    BY <1>5
  <2> QED BY <1>8, <2>1, <2>2, <2>3
<1>11. f = Over(Over(Over(H, D), R), T)
  <2>1. AfterSections(c) = SymbolTable(c) \o Strings(c)
    BY DEF AfterSections
  <2> QED BY <1>3, <1>7, <1>9, <2>1, CoffFileParts
<1>12. DOMAIN H = 0..n /\ H[0] = FileHeader(c) /\ \A i \in 1..n : H[i] = SectionHeader(c, i)
  BY <1>3, <1>4, HeadersFact
<1>13. PICK g, h : g = Over(H, D) /\ h = Over(g, R)
  OBVIOUS
<1>14. DOMAIN f = 0..(s + m + l)
  <2>1. DOMAIN f = ((DOMAIN H \cup DOMAIN D) \cup DOMAIN R) \cup DOMAIN T
    <3>1. DOMAIN g = DOMAIN H \cup DOMAIN D
      BY <1>13, OverFact
    <3>2. DOMAIN h = DOMAIN g \cup DOMAIN R
      BY <1>13, OverFact
    <3>3. DOMAIN Over(h, T) = DOMAIN h \cup DOMAIN T
      BY OverFact
    <3> QED BY <1>11, <1>13, <3>1, <3>2, <3>3
  <2>2. ASSUME NEW p \in 0..(s + m + l) PROVE p \in 0..n \/ p \in (1 + n)..(s - 1) \/ p \in s..(s + m + l)
    BY <1>5
  <2>3. \A p \in 0..n : p \in 0..(s + m + l)
    BY <1>5
  <2>4. \A p \in (1 + n)..(s - 1) : p \in 0..(s + m + l)
    BY <1>5
  <2>5. \A p \in s..(s + m + l) : p \in 0..(s + m + l)
    BY <1>5
  <2> QED BY <1>5, <1>10, <1>12, <2>1, <2>2, <2>3, <2>4, <2>5
<1>15. \A p \in DOMAIN T : f[p] = T[p]
  <2>1. \A p \in DOMAIN T : Over(h, T)[p] = T[p]
    BY OverFact
  <2> QED BY <1>11, <1>13, <2>1
<1>16. ASSUME NEW p \in DOMAIN R PROVE f[p] = R[p]
  <2>1. p \in (1 + n)..(s - 1)
    BY <1>5
  <2>2. p \notin s..(s + m + l)
    BY <1>5, <2>1
  <2>3. h[p] = R[p] /\ p \in DOMAIN h
    BY <1>13, OverLater
  <2>4. Over(h, T)[p] = h[p]
    BY <1>10, <2>2, <2>3, OverEarlier
  <2> QED BY <1>11, <1>13, <2>3, <2>4
<1>17. ASSUME NEW p \in DOMAIN D, p \notin DOMAIN R PROVE f[p] = D[p]
  <2>1. p \in (1 + n)..(s - 1)
    BY <1>5
  <2>2. p \notin s..(s + m + l)
    BY <1>5, <2>1
  <2>3. g[p] = D[p] /\ p \in DOMAIN g
    BY <1>13, OverLater
  <2>4. h[p] = g[p] /\ p \in DOMAIN h
    BY <1>13, <1>17, <2>3, OverEarlier
  <2>5. Over(h, T)[p] = h[p]
    BY <1>10, <2>2, <2>4, OverEarlier
  <2> QED BY <1>11, <1>13, <2>3, <2>4, <2>5
<1>18. ASSUME NEW p \in 0..n PROVE f[p] = H[p]
  <2>1. p \notin s..(s + m + l) /\ p \notin (1 + n)..(s - 1)
    BY <1>5
  <2>2. p \notin DOMAIN D /\ p \notin DOMAIN R /\ p \notin DOMAIN T /\ p \in DOMAIN H
    BY <1>5, <1>10, <1>12, <2>1
  <2>3. g[p] = H[p] /\ p \in DOMAIN g
    BY <1>13, <2>2, OverEarlier
  <2>4. h[p] = g[p] /\ p \in DOMAIN h
    BY <1>13, <2>2, <2>3, OverEarlier
  <2>5. Over(h, T)[p] = h[p]
    BY <2>2, <2>4, OverEarlier
  <2> QED BY <1>11, <1>13, <2>3, <2>4, <2>5
<1>19. f[0] = FileHeader(c) /\ \A i \in 1..n : f[i] = SectionHeader(c, i)
  <2>1. 0 \in 0..n /\ \A i \in 1..n : i \in 0..n
    OBVIOUS
  <2> QED BY <1>12, <1>18, <2>1
<1>20. ASSUME NEW i \in 1..n, NEW j \in 1..Len(c.sections[i].data)
       PROVE  f[DataAt(c)[i - 1] + j - 1] = c.sections[i].data[j]
  <2>1. PICK p : p = DataAt(c)[i - 1] + j - 1
    OBVIOUS
  <2>2. p \in DataAt(c)[i - 1]..(RelocsAt(c, i) - 1) /\ DataPieces(c)[i][p] = c.sections[i].data[j]
    <3>1. \A k \in 1..Len(c.sections[i].data) :
             /\ DataAt(c)[i - 1] + k - 1 \in DataAt(c)[i - 1]..(RelocsAt(c, i) - 1)
             /\ DataPieces(c)[i][DataAt(c)[i - 1] + k - 1] = c.sections[i].data[k]
      BY <1>4, Pieces
    <3> QED BY <2>1, <3>1
  <2>3. p \in DOMAIN D /\ p \notin DOMAIN R /\ D[p] = DataPieces(c)[i][p]
    BY <1>3, <1>4, <2>2, BodyFact
  <2> QED BY <1>17, <2>1, <2>2, <2>3
<1>21. ASSUME NEW i \in 1..n, NEW j \in 1..Len(c.sections[i].relocations)
       PROVE  f[RelocsAt(c, i) + j - 1] = c.sections[i].relocations[j]
  <2>1. PICK p : p = RelocsAt(c, i) + j - 1
    OBVIOUS
  <2>2. p \in RelocsAt(c, i)..(DataAt(c)[i] - 1) /\ RelocPieces(c)[i][p] = c.sections[i].relocations[j]
    BY <1>4, <2>1, Pieces
  <2>3. p \in DOMAIN R /\ R[p] = RelocPieces(c)[i][p]
    BY <1>3, <1>4, <2>2, BodyFact
  <2> QED BY <1>16, <2>1, <2>2, <2>3
<1>22. ASSUME NEW k \in 1..m PROVE f[s + k - 1] = Entry(c.symbols, k)
  <2>1. k \in 1..(m + 1 + l)
    OBVIOUS
  <2>2. f[s + k - 1] = t[k]
    BY <1>10, <1>15, <2>1
  <2> QED BY <1>4, <1>7, <2>2, TailFact
<1>23. ASSUME NEW k \in LongOnes(c.symbols)
       PROVE  f[s + m + Count(LongOnes(c.symbols), k)] = c.symbols[k].name
  <2>1. PICK j \in 1..l : j = Count(LongOnes(c.symbols), k) /\ t[m + 1 + j] = c.symbols[k].name
    BY <1>4, <1>7, TailFact
  <2>2. m + 1 + j \in 1..(m + 1 + l) /\ s + (m + 1 + j) - 1 = s + m + j
    BY <1>5
  <2>3. f[s + (m + 1 + j) - 1] = t[m + 1 + j]
    BY <1>10, <1>15, <2>2
  <2> QED BY <2>1, <2>2, <2>3
<1> QED BY <1>1, <1>2, <1>3, <1>14, <1>19, <1>20, <1>21, <1>22, <1>23 DEF ReadsAs

\* The long names are numbered from 1 on.
LEMMA EntryFact ==
    ASSUME NEW c, FileTyped(c), NEW k \in 1..Len(c.symbols)
    PROVE  /\ k \in LongOnes(c.symbols) <=> Entry(c.symbols, k).offset # 0
           /\ Entry(c.symbols, k).value = c.symbols[k].value
           /\ Entry(c.symbols, k).section_number = c.symbols[k].section_number
           /\ Entry(c.symbols, k).external = c.symbols[k].external
           /\ k \in LongOnes(c.symbols) =>
                 Entry(c.symbols, k).offset = Count(LongOnes(c.symbols), k)
           /\ k \notin LongOnes(c.symbols) => Entry(c.symbols, k).name = c.symbols[k].name
<1>1. PICK x \in SymbolEntry : x = c.symbols[k]
  BY DEF FileTyped
<1>2. PICK K : K = LongOnes(c.symbols)
  OBVIOUS
<1>3. CASE k \notin K
  <2>1. Entry(c.symbols, k) = x
    BY <1>1, <1>2, <1>3 DEF Entry
  <2>2. x.offset = 0
    BY DEF SymbolEntry
  <2> QED BY <1>1, <1>2, <1>3, <2>1, <2>2
<1>4. CASE k \in K
  <2>1. PICK o \in Nat : o = Count(K, k)
    <3>1. k \in Nat
      OBVIOUS
    <3>2. \A i \in Nat : Count(K, i) \in Nat
      BY CountFacts
    <3>3. Count(K, k) \in Nat
      BY <3>1, <3>2
    <3> QED BY <3>3
  <2>2. o # 0
    <3>1. 0 < k /\ 0 \in Nat /\ k \in Nat
      OBVIOUS
    <3>2. Count(K, 0) < Count(K, k)
      BY <1>4, <3>1, CountGrows
    <3>3. Count(K, 0) = 0
      BY CountFacts
    <3> QED BY <2>1, <3>2, <3>3
  <2>3. Entry(c.symbols, k) = [x EXCEPT !.name = "", !.offset = o]
    BY <1>1, <1>2, <1>4, <2>1 DEF Entry, Count
  <2>4. PICK y : y = [x EXCEPT !.name = "", !.offset = o]
    OBVIOUS
  <2>5. y.offset = o /\ y.value = x.value /\ y.section_number = x.section_number /\ y.external = x.external
    BY <2>4 DEF SymbolEntry
  <2> QED BY <1>1, <1>2, <1>4, <2>1, <2>2, <2>3, <2>4, <2>5
<1> QED BY <1>3, <1>4

\* The linker reads the symbols that were written.
LEMMA SymAtFact ==
    ASSUME NEW c, FileTyped(c), NEW f, ReadsAs(f, c), NEW k \in 1..Len(c.symbols)
    PROVE  /\ SymAt(f, k - 1).name = c.symbols[k].name
           /\ SymAt(f, k - 1).value = c.symbols[k].value
           /\ SymAt(f, k - 1).section_number = c.symbols[k].section_number
           /\ SymAt(f, k - 1).external = c.symbols[k].external
<1>1. PICK n \in Nat, m \in Nat : n = Len(c.sections) /\ m = Len(c.symbols)
  BY DEF FileTyped
<1>2. PICK s \in Nat : s = SymbolsAt(c)
  BY <1>1, BodyFact DEF SectionsAre
<1>3. f[0].symptr = s /\ f[0].nsyms = m
  BY <1>1, <1>2 DEF ReadsAs, FileHeader
<1>4. PICK e : e = Entry(c.symbols, k)
  OBVIOUS
<1>5. f[s + (k - 1)] = e
  <2>1. f[s + k - 1] = e
    BY <1>2, <1>4 DEF ReadsAs
  <2>2. s + k - 1 = s + (k - 1)
    OBVIOUS
  <2> QED BY <2>1, <2>2
<1>6. SymAt(f, k - 1) = IF e.offset # 0 THEN [e EXCEPT !.name = f[s + m + e.offset]] ELSE e
  BY <1>3, <1>5 DEF SymAt
<1>7. /\ k \in LongOnes(c.symbols) <=> e.offset # 0
      /\ e.value = c.symbols[k].value /\ e.section_number = c.symbols[k].section_number
      /\ e.external = c.symbols[k].external
      /\ k \in LongOnes(c.symbols) => e.offset = Count(LongOnes(c.symbols), k)
      /\ k \notin LongOnes(c.symbols) => e.name = c.symbols[k].name
  BY <1>4, EntryFact
<1>8. CASE k \in LongOnes(c.symbols)
  <2>1. f[s + m + e.offset] = c.symbols[k].name
    BY <1>1, <1>2, <1>7, <1>8 DEF ReadsAs
  <2>2. "name" \in DOMAIN e
    <3>1. PICK x \in SymbolEntry : x = c.symbols[k]
      BY DEF FileTyped
    <3>2. e = [x EXCEPT !.name = "", !.offset = Cardinality(LongOnes(c.symbols) \cap (1..k))]
      BY <1>4, <1>8, <3>1 DEF Entry
    <3>3. DOMAIN e = DOMAIN x
      BY <3>2
    <3>4. "name" \in DOMAIN x
      BY DEF SymbolEntry
    <3> QED BY <3>3, <3>4
  <2>3. PICK y : y = [e EXCEPT !.name = f[s + m + e.offset]]
    OBVIOUS
  <2>4. y.name = c.symbols[k].name
    BY <2>1, <2>2, <2>3
  <2>5. y.value = e.value /\ y.section_number = e.section_number /\ y.external = e.external
    BY <2>3
  <2> QED BY <1>6, <1>7, <1>8, <2>3, <2>4, <2>5
<1>9. CASE k \notin LongOnes(c.symbols)
  BY <1>6, <1>7, <1>9
<1> QED BY <1>8, <1>9

\* How many words there are is what the headers say.
LEMMA FileWhole ==
    ASSUME NEW c, FileTyped(c), NEW f, ReadsAs(f, c)
    PROVE  DOMAIN f = 0..(WordsOf(f) - 1)
<1>1. PICK n \in Nat, m \in Nat : n = Len(c.sections) /\ m = Len(c.symbols)
  BY DEF FileTyped
<1>2. PICK l \in Nat : l = HowManyLong(c)
  <2>1. HowManyLong(c) \in Nat
    BY <1>1, CountFacts DEF HowManyLong
  <2> QED BY <2>1
<1>3. PICK s \in Nat : s = SymbolsAt(c)
  BY <1>1, BodyFact DEF SectionsAre
<1>4. f[0].nscns = n /\ f[0].symptr = s /\ f[0].nsyms = m
  BY <1>1, <1>3 DEF ReadsAs, FileHeader
<1> DEFINE rooms == [i \in 1..n |-> (IF f[i].bss THEN 0 ELSE f[i].size) + f[i].nreloc]
           long == { k \in 1..m : f[s + k - 1].offset # 0 }
<1>5. rooms = Rooms(c)
  <2>1. ASSUME NEW i \in 1..n
        PROVE  (IF f[i].bss THEN 0 ELSE f[i].size) + f[i].nreloc = Room(c.sections[i])
    <3>1. PICK x : x = c.sections[i]
      OBVIOUS
    <3>2. f[i] = SectionHeader(c, i)
      BY <1>1 DEF ReadsAs
    <3>3. /\ f[i].bss = x.bss /\ f[i].nreloc = Len(x.relocations)
          /\ f[i].size = IF x.size # 0 THEN x.size ELSE Len(x.data)
      BY <3>1, <3>2 DEF SectionHeader
    <3>4. (IF f[i].bss THEN 0 ELSE f[i].size) = DataSize(x)
      BY <3>3 DEF DataSize
    <3>5. DataSize(x) = Len(x.data)
      BY <1>1, <3>1 DEF FileTyped
    <3> QED BY <3>1, <3>3, <3>4, <3>5 DEF Room
  <2> QED BY <1>1, <2>1 DEF Rooms
<1>6. Offsets(n + 1, rooms)[n] = s
  <2>1. DataAt(c) = Offsets(1 + n, Rooms(c)) /\ s = DataAt(c)[n]
    BY <1>1, <1>3 DEF DataAt, SymbolsAt
  <2>2. 1 + n = n + 1
    OBVIOUS
  <2> HIDE DEF rooms
  <2> QED BY <1>5, <2>1, <2>2
<1>7. long = LongOnes(c.symbols)
  <2>1. ASSUME NEW k \in 1..m PROVE k \in LongOnes(c.symbols) <=> f[s + k - 1].offset # 0
    <3>1. f[s + k - 1] = Entry(c.symbols, k)
      BY <1>1, <1>3 DEF ReadsAs
    <3>2. k \in 1..Len(c.symbols)
      BY <1>1
    <3>3. k \in LongOnes(c.symbols) <=> Entry(c.symbols, k).offset # 0
      BY <3>2, EntryFact
    <3> QED BY <3>1, <3>3
  <2>2. \A k \in LongOnes(c.symbols) : k \in 1..m
    BY <1>1 DEF LongOnes, FileTyped
  <2> QED BY <2>1, <2>2
<1>8. Cardinality(long) = l
  <2>1. LongOnes(c.symbols) \cap (1..m) = LongOnes(c.symbols)
    BY <1>7
  <2> HIDE DEF long
  <2> QED BY <1>1, <1>2, <1>7, <2>1 DEF HowManyLong, Count
<1>9. WordsOf(f) = Offsets(n + 1, rooms)[n] + m + 1 + Cardinality(long)
  BY <1>4 DEF WordsOf
<1>10. WordsOf(f) = s + m + 1 + l
  <2> HIDE DEF rooms, long
  <2> QED BY <1>6, <1>8, <1>9
<1>11. DOMAIN f = 0..(s + m + l)
  BY <1>1, <1>2, <1>3 DEF ReadsAs
<1>12. s + m + 1 + l - 1 = s + m + l
  OBVIOUS
<1> QED BY <1>10, <1>11, <1>12

(***************************************************************************)
(* What is true of an object file in the making: `n' ranges of the slice o *)
(* have become sections, after .drectve.                                   *)
(***************************************************************************)
SliceRange == [start : Nat, end : Nat]
RangeAt(o, i) == slices[o].secs[i]

\* With a symbol at t the relocation r of the word of a gives the operand.
RelocRight(a, addend, r, symbols, operand) ==
    \E t \in Addrs :
        /\ symbols[r.sym_index + 1].name = AddrToSym[t]
        /\ addend + t - (IF r.absolute THEN 0 ELSE a + 1) = operand

Concerns(r, j, k) == r.address = j /\ r.field = k

\* The word j of the section s is that of the address a.
WordRight(a, s, j, symbols) ==
    /\ s.data[j].kind = Original(a).kind
    /\ Len(s.data[j].fields) = Len(Original(a).fields)
    /\ \A k \in 1..Len(Original(a).fields) :
          /\ (\A i \in 1..Len(s.relocations) : ~Concerns(s.relocations[i], j, k))
                => s.data[j].fields[k] = Original(a).fields[k]
          /\ \A i \in 1..Len(s.relocations) :
                Concerns(s.relocations[i], j, k) =>
                    RelocRight(a, s.data[j].fields[k], s.relocations[i], symbols, Original(a).fields[k])

SectionRight(range, s, symbols) ==
    /\ s.size = range.end - range.start /\ s.bss = (range.start \in Bss)
    /\ Len(s.data) = IF range.start \in Bss THEN 0 ELSE range.end - range.start
    /\ \A j \in 1..Len(s.data) : WordRight(range.start + j - 1, s, j, symbols)

\* A relocation is of a word of its section and has a symbol.
RelocsInside(s, symbols) ==
    \A i \in 1..Len(s.relocations) :
        /\ s.relocations[i].address \in 1..Len(s.data)
        /\ s.relocations[i].sym_index + 1 \in 1..Len(symbols)

IsDefinition(o, y, i, t) ==
    y.external /\ y.section_number = i + 1 /\ RangeAt(o, i).start + y.value = t

SymbolRight(o, n, y) ==
    /\ y.section_number <= n + 1
    /\ ~y.external => y.name = ".section"
    /\ y.external =>
          \E t \in Addrs :
              /\ y.name = AddrToSym[t]
              /\ y.section_number > 0 =>
                    \E i \in 1..n : IsDefinition(o, y, i, t) /\ t \in Within(RangeAt(o, i))

DefinedOnce(o, symbols, i, t) ==
    \E k \in 1..Len(symbols) :
        /\ IsDefinition(o, symbols[k], i, t)
        /\ \A j \in 1..Len(symbols) : IsDefinition(o, symbols[j], i, t) => j = k

SymbolsRight(o, n, symbols) ==
    /\ \A k \in 1..Len(symbols) : SymbolRight(o, n, symbols[k])
    /\ \A i \in 1..n : \A t \in Addrs : t \in Within(RangeAt(o, i)) => DefinedOnce(o, symbols, i, t)

CoffRight(o, n, c) ==
    /\ FileTyped(c) /\ Len(c.sections) = n + 1
    /\ \A i \in 1..n + 1 : RelocsInside(c.sections[i], c.symbols)
    /\ \A i \in 1..n : SectionRight(RangeAt(o, i), c.sections[i + 1], c.symbols)
    /\ SymbolsRight(o, n, c.symbols)

InputsTyped ==
    /\ syms \in Seq(Line) /\ dbg \in Seq(Line) /\ image \in Images
    /\ Partition(slices) /\ added \in AddRelocations

-----------------------------------------------------------------------------
LEMMA OriginalType ==
    ASSUME image \in Images, NEW a
    PROVE  /\ Original(a) \in Word /\ Original(a).fields \in Seq(Int)
           /\ Len(Original(a).fields) \in Nat
<1>1. Zero \in Word /\ [Zero EXCEPT !.kind = "data"] \in Word
  <2>1. <<>> \in Seq(Int)
    OBVIOUS
  <2> QED BY <2>1 DEF Zero, Word
<1>2. Original(a) \in Word
  BY <1>1, ImageWord DEF Original
<1>3. PICK w \in Word : w = Original(a)
  BY <1>2
<1>4. w.fields \in Seq(Int)
  BY DEF Word
<1> QED BY <1>2, <1>3, <1>4

\* The ranges of a list of slices.
LEMMA RangeFact ==
    ASSUME Partition(slices), NEW o \in 1..Len(slices), NEW i \in 1..Len(slices[o].secs)
    PROVE  /\ RangeAt(o, i) \in SliceRange
           /\ RangeAt(o, i).start \in Nat /\ RangeAt(o, i).end \in Nat
           /\ RangeAt(o, i).start <= RangeAt(o, i).end
           /\ \E section \in {Text, Data, Bss} : Within(RangeAt(o, i)) \subseteq section
           /\ <<o, i>> \in Parts(slices) /\ RangeOf(slices, <<o, i>>) = RangeAt(o, i)
<1>1. slices \in Seq(Slice)
  BY DEF Partition
<1>2. slices[o] \in Slice /\ o \in DOMAIN slices
  BY <1>1
<1>3. slices[o].secs \in Seq(SliceRange)
  BY <1>2 DEF Slice, SliceRange
<1>4. RangeAt(o, i) \in SliceRange /\ i \in DOMAIN slices[o].secs
  <2>1. PICK secs \in Seq(SliceRange) : secs = slices[o].secs
    BY <1>3
  <2>2. i \in 1..Len(secs)
    BY <2>1
  <2>3. secs[i] \in SliceRange /\ i \in DOMAIN secs
    BY <2>2
  <2> QED BY <2>1, <2>3 DEF RangeAt
<1>5. PICK p : p = <<o, i>>
  OBVIOUS
<1>6. p[1] = o /\ p[2] = i /\ p \in {o} \X DOMAIN slices[o].secs
  BY <1>4, <1>5
<1>7. p \in Parts(slices)
  BY <1>2, <1>6 DEF Parts
<1>8. RangeOf(slices, p) = RangeAt(o, i)
  BY <1>6 DEF RangeOf, RangeAt
<1>9. /\ RangeOf(slices, p).start <= RangeOf(slices, p).end
      /\ \E section \in {Text, Data, Bss} : Within(RangeOf(slices, p)) \subseteq section
  BY <1>7 DEF Partition
<1>10. PICK range \in SliceRange : range = RangeAt(o, i)
  BY <1>4
<1>11. range.start \in Nat /\ range.end \in Nat
  BY DEF SliceRange
<1> QED BY <1>4, <1>5, <1>7, <1>8, <1>9, <1>10, <1>11

LEMMA SliceFact ==
    ASSUME Partition(slices)
    PROVE  /\ Len(slices) \in Nat
           /\ \A o \in 1..Len(slices) : slices[o].secs \in Seq(SliceRange)
                                          /\ Len(slices[o].secs) \in Nat
<1>1. slices \in Seq(Slice)
  BY DEF Partition
<1>2. ASSUME NEW o \in 1..Len(slices) PROVE slices[o].secs \in Seq(SliceRange)
  <2>1. slices[o] \in Slice
    BY <1>1
  <2> QED BY <2>1 DEF Slice, SliceRange
<1> QED BY <1>1, <1>2

\* The words of a range of the program.
LEMMA SecDataFact ==
    ASSUME image \in Images, NEW range \in SliceRange, range.start <= range.end
    PROVE  /\ SecData(range) \in Seq(Word)
           /\ Len(SecData(range)) = IF range.start \in Bss THEN 0 ELSE range.end - range.start
           /\ \A j \in 1..Len(SecData(range)) : SecData(range)[j] = Original(range.start + j - 1)
<1>1. CASE range.start \in Bss
  <2>1. SecData(range) = <<>>
    BY <1>1 DEF SecData
  <2>2. <<>> \in Seq(Word) /\ Len(<<>>) = 0
    OBVIOUS
  <2> QED BY <1>1, <2>1, <2>2
<1>2. CASE range.start \notin Bss
  <2>1. PICK b \in Nat, e \in Nat : b = range.start /\ e = range.end
    BY DEF SliceRange
  <2>2. PICK l \in Nat : l = e - b
    BY <2>1
  <2> DEFINE s == [j \in 1..l |-> Original(b + j - 1)]
  <2>3. \A j \in 1..l : Original(b + j - 1) \in Word
    BY OriginalType
  <2>4. s \in Seq(Word)
    BY <2>3
  <2>5. Len(s) = l
    OBVIOUS
  <2>6. \A j \in 1..l : s[j] = Original(b + j - 1)
    OBVIOUS
  <2>7. SecData(range) = s
    BY <1>2, <2>1, <2>2 DEF SecData
  <2> HIDE DEF s
  <2> QED BY <1>2, <2>1, <2>2, <2>4, <2>5, <2>6, <2>7
<1> QED BY <1>1, <1>2

\* More symbols do not change what the first of them are.
Begins(s, t) == Len(t) <= Len(s) /\ \A k \in 1..Len(t) : s[k] = t[k]

LEMMA MoreSymbols ==
    ASSUME NEW S, NEW old \in Seq(S), NEW new \in Seq(S), Begins(new, old),
           NEW range, NEW s, RelocsInside(s, old), SectionRight(range, s, old)
    PROVE  RelocsInside(s, new) /\ SectionRight(range, s, new)
<1>1. RelocsInside(s, new)
  <2>1. ASSUME NEW x \in 1..Len(old) PROVE x \in 1..Len(new)
    BY DEF Begins
  <2> QED BY <2>1 DEF RelocsInside
<1>2. ASSUME NEW i \in 1..Len(s.relocations) PROVE old[s.relocations[i].sym_index + 1] = new[s.relocations[i].sym_index + 1]
  BY DEF RelocsInside, Begins
<1>3. ASSUME NEW j \in 1..Len(s.data) PROVE WordRight(range.start + j - 1, s, j, new)
  <2>1. PICK a : a = range.start + j - 1
    OBVIOUS
  <2>2. WordRight(a, s, j, old)
    BY <2>1 DEF SectionRight
  <2>3. ASSUME NEW i \in 1..Len(s.relocations), NEW v, NEW w, RelocRight(a, v, s.relocations[i], old, w)
        PROVE  RelocRight(a, v, s.relocations[i], new, w)
    BY <1>2, <2>3 DEF RelocRight
  <2>4. WordRight(a, s, j, new)
    BY <2>2, <2>3 DEF WordRight
  <2> QED BY <2>1, <2>4
<1> QED BY <1>1, <1>3 DEF SectionRight

SymbolFor(t, range, number) == Symbol(AddrToSym[t], t - range.start, number, TRUE)

\* The symbols inside a range of the program.
LEMMA SymbolsInFact ==
    ASSUME syms \in Seq(Line), dbg \in Seq(Line), NEW range \in SliceRange, NEW number \in Nat
    PROVE  /\ SymbolsIn(range, number) \in Seq(SymbolEntry)
           /\ \A j \in 1..Len(SymbolsIn(range, number)) : \E t \in Addrs :
                 /\ t \in Within(range)
                 /\ SymbolsIn(range, number)[j] = SymbolFor(t, range, number)
           /\ \A t \in Addrs : t \in Within(range) =>
                 \E j \in 1..Len(SymbolsIn(range, number)) :
                    /\ SymbolsIn(range, number)[j] = SymbolFor(t, range, number)
                    /\ \A k \in 1..Len(SymbolsIn(range, number)) :
                          SymbolsIn(range, number)[k].value = t - range.start => k = j
<1>1. PICK n \in Nat : n = Len(Pairs) /\ DOMAIN Pairs = 1..n /\ \A i \in 1..n : Pairs[i].addr \in Addrs
  BY PairsType
<1>2. PICK b \in Nat : b = range.start
  BY DEF SliceRange
<1>3. Addrs \in SUBSET Nat
  BY PairsType, SliceObjectAssumption
<1> DEFINE sym(t) == Symbol(AddrToSym[t], t - b, number, TRUE)
           s == [i \in 1..n |-> sym(Pairs[i].addr)]
           K == { i \in Firsts(PairAddrs) : Pairs[i].addr \in Within(range) }
<1>4. ASSUME NEW t \in Addrs
      PROVE  sym(t) \in SymbolEntry /\ sym(t).value = t - b
  <2>1. AddrToSym[t] \in Name /\ t - b \in Int
    BY <1>3, AddrToSymType
  <2> QED BY <2>1 DEF Symbol, SymbolEntry
<1>5. s \in Seq(SymbolEntry) /\ Len(s) = n /\ \A i \in 1..n : s[i] = sym(Pairs[i].addr)
  <2> HIDE DEF sym
  <2>1. \A i \in 1..n : sym(Pairs[i].addr) \in SymbolEntry
    BY <1>1, <1>4
  <2> QED BY <2>1
<1>6. SymbolsIn(range, number) = Kept(s, K)
  BY <1>1, <1>2 DEF SymbolsIn
<1>7. PICK y : y = Kept(s, K)
  OBVIOUS
<1>8. K \cap (1..n) = K
  <2>1. \A i \in Firsts(PairAddrs) : i \in 1..n
    BY <1>1, PairsType DEF Firsts
  <2> QED BY <2>1
<1>9. /\ y \in Seq(SymbolEntry)
      /\ \A i \in K : i \in 1..n /\ Count(K, i) \in 1..Len(y) /\ y[Count(K, i)] = s[i]
      /\ \A j \in 1..Len(y) : \E i \in K : i \in 1..n /\ Count(K, i) = j
  <2> HIDE DEF s, K, sym
  <2>1. y \in Seq(SymbolEntry)
    BY <1>5, <1>7, KeptFacts
  <2>2. \A i \in K \cap (1..n) : Count(K, i) \in 1..Len(y) /\ y[Count(K, i)] = s[i]
    BY <1>5, <1>7, KeptFacts
  <2>3. \A j \in 1..Len(y) : \E i \in K \cap (1..n) : Count(K, i) = j
    BY <1>5, <1>7, KeptFacts
  <2> QED BY <1>8, <2>1, <2>2, <2>3
<1>10. \A i \in K : i \in Firsts(PairAddrs) /\ Pairs[i].addr \in Within(range)
  OBVIOUS
<1>11. \A i \in Firsts(PairAddrs) : Pairs[i].addr \in Within(range) => i \in K
  OBVIOUS
<1> HIDE DEF s, K, sym
<1>12. ASSUME NEW j \in 1..Len(y)
       PROVE  \E i \in K : i \in 1..n /\ Count(K, i) = j /\ y[j] = sym(Pairs[i].addr)
  <2>1. PICK i \in K : i \in 1..n /\ Count(K, i) = j
    BY <1>9
  <2>2. y[j] = s[i]
    BY <1>9, <2>1
  <2> QED BY <1>5, <2>1, <2>2
<1>13. ASSUME NEW j \in 1..Len(y)
       PROVE  \E t \in Addrs : t \in Within(range) /\ y[j] = sym(t)
  BY <1>1, <1>10, <1>12
<1>14. ASSUME NEW t \in Addrs, t \in Within(range)
       PROVE  \E j \in 1..Len(y) : /\ y[j] = sym(t)
                                   /\ \A k \in 1..Len(y) : y[k].value = t - b => k = j
  <2>1. PICK i \in Firsts(PairAddrs) :
           Pairs[i].addr = t /\ \A h \in Firsts(PairAddrs) : Pairs[h].addr = t => h = i
    BY FirstPlace
  <2>2. i \in K
    BY <1>11, <1>14, <2>1
  <2>3. PICK j \in 1..Len(y) : j = Count(K, i)
    BY <1>9, <2>2
  <2>4. y[j] = sym(t)
    BY <1>5, <1>9, <2>1, <2>2, <2>3
  <2>5. ASSUME NEW k \in 1..Len(y), y[k].value = t - b PROVE k = j
    <3>1. PICK h \in K : h \in 1..n /\ Count(K, h) = k /\ y[k] = sym(Pairs[h].addr)
      BY <1>12
    <3>2. PICK a \in Addrs : a = Pairs[h].addr
      BY <1>1, <3>1
    <3>3. a - b = t - b
      BY <1>4, <2>5, <3>1, <3>2
    <3>4. a = t
      BY <1>3, <3>3
    <3>5. h = i
      BY <1>10, <2>1, <3>1, <3>2, <3>4
    <3> QED BY <2>3, <3>1, <3>5
  <2> QED BY <2>4, <2>5
<1>15. \A t : sym(t) = SymbolFor(t, range, number)
  BY <1>2 DEF sym, SymbolFor
<1>16. SymbolsIn(range, number) = y
  BY <1>6, <1>7
<1>17. \A j \in 1..Len(y) : \E t \in Addrs : t \in Within(range) /\ y[j] = SymbolFor(t, range, number)
  BY <1>13, <1>15
<1>18. \A t \in Addrs : t \in Within(range) =>
          \E j \in 1..Len(y) : /\ y[j] = SymbolFor(t, range, number)
                              /\ \A k \in 1..Len(y) : y[k].value = t - range.start => k = j
  BY <1>2, <1>14, <1>15
<1> QED BY <1>9, <1>16, <1>17, <1>18

SectionOf(range) == CoffSection(SecData(range), range.end - range.start, range.start \in Bss)

\* A new section is what it was in the program.
LEMMA SectionOfFact ==
    ASSUME image \in Images, NEW range \in SliceRange, range.start <= range.end
    PROVE  /\ SectionOf(range) \in SectionEntry
           /\ DataSize(SectionOf(range)) = Len(SectionOf(range).data)
           /\ SectionOf(range).relocations = <<>>
           /\ \A symbols : RelocsInside(SectionOf(range), symbols)
           /\ \A symbols : SectionRight(range, SectionOf(range), symbols)
<1>1. PICK b \in Nat, e \in Nat : b = range.start /\ e = range.end
  BY DEF SliceRange
<1>2. PICK l \in Nat : l = e - b
  <2>1. b <= e
    BY <1>1
  <2> QED BY <2>1
<1>3. PICK d \in Seq(Word) : d = SecData(range)
  BY SecDataFact
<1>4. /\ Len(d) = IF b \in Bss THEN 0 ELSE l
      /\ \A j \in 1..Len(d) : d[j] = Original(b + j - 1)
  <2>1. Len(d) = IF range.start \in Bss THEN 0 ELSE range.end - range.start
    BY <1>3, SecDataFact
  <2>2. \A j \in 1..Len(d) : d[j] = Original(range.start + j - 1)
    BY <1>3, SecDataFact
  <2> QED BY <1>1, <1>2, <2>1, <2>2
<1>5. PICK s : s = SectionOf(range)
  OBVIOUS
<1>6. s = [data |-> d, size |-> l, bss |-> b \in Bss, relocations |-> <<>>]
  BY <1>1, <1>2, <1>3, <1>5 DEF SectionOf, CoffSection
<1>7. s \in SectionEntry
  <2>1. <<>> \in Seq(RelocEntry)
    OBVIOUS
  <2>2. (b \in Bss) \in BOOLEAN
    OBVIOUS
  <2> QED BY <1>6, <2>1, <2>2 DEF SectionEntry
<1>8. s.data = d /\ s.size = l /\ s.relocations = <<>> /\ Len(s.relocations) = 0
  BY <1>6
<1>9. s.bss = (b \in Bss)
  BY <1>6
<1>10. DataSize(s) = Len(d)
  <2>1. CASE b \in Bss
    <3>1. s.bss
      BY <1>9, <2>1
    <3> QED BY <1>4, <2>1, <3>1 DEF DataSize
  <2>2. CASE b \notin Bss
    <3>1. ~s.bss
      BY <1>9, <2>2
    <3>2. Len(d) = l
      BY <1>4, <2>2
    <3> QED BY <1>8, <3>1, <3>2 DEF DataSize
  <2> QED BY <2>1, <2>2
<1>11. ASSUME NEW symbols PROVE RelocsInside(s, symbols)
  BY <1>8 DEF RelocsInside
<1>12. ASSUME NEW symbols PROVE SectionRight(range, s, symbols)
  <2>1. ASSUME NEW j \in 1..Len(d) PROVE WordRight(b + j - 1, s, j, symbols)
    BY <1>4, <1>8 DEF WordRight
  <2>2. s.size = range.end - range.start /\ s.bss = (range.start \in Bss)
    BY <1>1, <1>2, <1>8, <1>9
  <2>3. Len(s.data) = IF range.start \in Bss THEN 0 ELSE range.end - range.start
    BY <1>1, <1>2, <1>4, <1>8
  <2> QED BY <1>1, <1>8, <2>1, <2>2, <2>3 DEF SectionRight
<1> QED BY <1>5, <1>7, <1>8, <1>10, <1>11, <1>12

SectionSymbol(number) == Symbol(".section", 0, number, FALSE)
SymbolsWith(symbols, range, number) ==
    Append(symbols, SectionSymbol(number)) \o SymbolsIn(range, number)

\* What the symbol k is, and that the one at t is there once.
IsAdded(new, old, range, number, k) ==
    \/ k \in 1..Len(old) \/ new[k] = SectionSymbol(number)
    \/ \E t \in Addrs : t \in Within(range) /\ new[k] = SymbolFor(t, range, number)
IsAddedOnce(new, old, range, number, t) ==
    \E k \in 1..Len(new) :
        /\ new[k] = SymbolFor(t, range, number)
        /\ \A j \in 1..Len(new) : j \in 1..Len(old) \/ new[j] = SectionSymbol(number)
                                    \/ (new[j].value = t - range.start => j = k)

\* The symbols that a section adds come after those that were there.
LEMMA SymbolsWithFact ==
    ASSUME syms \in Seq(Line), dbg \in Seq(Line), NEW range \in SliceRange, NEW number \in Nat,
           NEW symbols \in Seq(SymbolEntry)
    PROVE  /\ SymbolsWith(symbols, range, number) \in Seq(SymbolEntry)
           /\ Begins(SymbolsWith(symbols, range, number), symbols)
           /\ \A k \in 1..Len(SymbolsWith(symbols, range, number)) :
                 IsAdded(SymbolsWith(symbols, range, number), symbols, range, number, k)
           /\ \A t \in Addrs : t \in Within(range) =>
                 IsAddedOnce(SymbolsWith(symbols, range, number), symbols, range, number, t)
<1>1. PICK y \in Seq(SymbolEntry) : y = SymbolsIn(range, number)
  BY SymbolsInFact
<1>2. PICK e \in SymbolEntry : e = SectionSymbol(number)
  <2>1. SectionSymbol(number) \in SymbolEntry
    BY DEF SectionSymbol, Symbol, SymbolEntry
  <2> QED BY <2>1
<1>3. PICK m \in Nat, l \in Nat : m = Len(symbols) /\ l = Len(y)
  OBVIOUS
<1>4. PICK x \in Seq(SymbolEntry) : x = Append(symbols, e)
  <2>1. Append(symbols, e) \in Seq(SymbolEntry)
    OBVIOUS
  <2> QED BY <2>1
<1>5. Len(x) = m + 1 /\ x[m + 1] = e /\ \A k \in 1..m : x[k] = symbols[k]
  BY <1>3, <1>4
<1>6. PICK z \in Seq(SymbolEntry) : z = x \o y
  <2>1. x \o y \in Seq(SymbolEntry)
    OBVIOUS
  <2> QED BY <2>1
<1>7. z = SymbolsWith(symbols, range, number)
  BY <1>1, <1>2, <1>4, <1>6 DEF SymbolsWith
<1>8. Len(z) = (m + 1) + l
  <2>1. Len(x \o y) = Len(x) + Len(y)
    OBVIOUS
  <2> QED BY <1>3, <1>5, <1>6, <2>1
<1>9. \A k \in 1..m + 1 : z[k] = x[k]
  BY <1>5, <1>6
<1>10. ASSUME NEW j \in 1..l PROVE z[m + 1 + j] = y[j] /\ m + 1 + j \in 1..Len(z)
  <2>1. m + 1 + j \in (m + 1 + 1)..((m + 1) + l) /\ m + 1 + j - (m + 1) = j
    OBVIOUS
  <2>2. z[m + 1 + j] = y[m + 1 + j - (m + 1)]
    BY <1>3, <1>5, <1>6, <2>1
  <2>3. m + 1 + j \in 1..Len(z)
    BY <1>8
  <2> QED BY <2>1, <2>2, <2>3
<1>11. ASSUME NEW k \in 1..Len(z)
       PROVE  \/ k \in 1..m \/ k = m + 1 \/ \E j \in 1..l : k = m + 1 + j
  <2>1. k \in Nat /\ k <= (m + 1) + l /\ k >= 1
    BY <1>8
  <2>2. CASE k > m + 1
    <3>1. PICK j \in 1..l : k = m + 1 + j
      <4>1. k - (m + 1) \in 1..l /\ k = m + 1 + (k - (m + 1))
        BY <2>1, <2>2
      <4> QED BY <4>1
    <3> QED BY <3>1
  <2>3. CASE ~(k > m + 1)
    BY <2>1, <2>3
  <2> QED BY <2>2, <2>3
<1>12. \A k \in 1..m : z[k] = symbols[k]
  BY <1>5, <1>9
<1>13. z[m + 1] = e
  BY <1>5, <1>9
<1>14. Begins(z, symbols)
  <2>1. m <= Len(z)
    BY <1>8
  <2> QED BY <1>3, <1>12, <2>1 DEF Begins
<1>15. ASSUME NEW k \in 1..Len(z)
       PROVE  k \in 1..m \/ z[k] = e \/ \E t \in Addrs : t \in Within(range) /\ z[k] = SymbolFor(t, range, number)
  <2>1. ASSUME NEW j \in 1..l, k = m + 1 + j
        PROVE  \E t \in Addrs : t \in Within(range) /\ z[k] = SymbolFor(t, range, number)
    <3>1. z[k] = y[j]
      BY <1>10, <2>1
    <3>2. \E t \in Addrs : t \in Within(range) /\ y[j] = SymbolFor(t, range, number)
      BY <1>1, <1>3, SymbolsInFact
    <3> QED BY <3>1, <3>2
  <2> QED BY <1>11, <1>13, <2>1
<1>16. ASSUME NEW t \in Addrs, t \in Within(range)
       PROVE  \E k \in 1..Len(z) :
                 /\ z[k] = SymbolFor(t, range, number)
                 /\ \A j \in 1..Len(z) : j \in 1..m \/ z[j] = e \/ (z[j].value = t - range.start => j = k)
  <2>1. PICK i \in 1..l : /\ y[i] = SymbolFor(t, range, number)
                          /\ \A h \in 1..l : y[h].value = t - range.start => h = i
    BY <1>1, <1>3, <1>16, SymbolsInFact
  <2>2. PICK k \in 1..Len(z) : k = m + 1 + i /\ z[k] = y[i]
    BY <1>10
  <2>3. ASSUME NEW j \in 1..Len(z), j \notin 1..m, z[j] # e, z[j].value = t - range.start PROVE j = k
    <3>1. PICK h \in 1..l : j = m + 1 + h
      BY <1>11, <1>13, <2>3
    <3>2. z[j] = y[h]
      BY <1>10, <3>1
    <3>3. h = i
      BY <2>1, <2>3, <3>2
    <3> QED BY <2>2, <3>1, <3>3
  <2> QED BY <2>1, <2>2, <2>3
<1>17. \A k \in 1..Len(z) : IsAdded(z, symbols, range, number, k)
  BY <1>2, <1>3, <1>15 DEF IsAdded
<1>18. \A t \in Addrs : t \in Within(range) => IsAddedOnce(z, symbols, range, number, t)
  BY <1>2, <1>3, <1>16 DEF IsAddedOnce
<1> QED BY <1>7, <1>14, <1>17, <1>18

HasRange(o, i) == o \in 1..Len(slices) /\ i \in 1..Len(slices[o].secs)

LEMMA HasRangeFact ==
    ASSUME Partition(slices), NEW o, NEW i, HasRange(o, i)
    PROVE  /\ RangeAt(o, i) \in SliceRange /\ RangeAt(o, i).start <= RangeAt(o, i).end
           /\ RangeAt(o, i).start \in Nat /\ RangeAt(o, i).end \in Nat
BY RangeFact DEF HasRange

WithSection(c, range, number) ==
    [sections |-> Append(c.sections, SectionOf(range)),
     symbols |-> SymbolsWith(c.symbols, range, number)]

\* New symbols of another section do not define anything again.
LEMMA SymbolsAdded ==
    ASSUME InputsTyped, NEW o, NEW n \in Nat, HasRange(o, n + 1),
           NEW old \in Seq(SymbolEntry), SymbolsRight(o, n, old)
    PROVE  SymbolsRight(o, n + 1, SymbolsWith(old, RangeAt(o, n + 1), n + 2))
<1>1. PICK range \in SliceRange : range = RangeAt(o, n + 1)
  BY HasRangeFact DEF InputsTyped
<1>2. PICK b \in Nat : b = range.start
  BY DEF SliceRange
<1>3. PICK number \in Nat : number = n + 2
  OBVIOUS
<1>4. PICK new : new = SymbolsWith(old, range, number)
  OBVIOUS
<1>5. syms \in Seq(Line) /\ dbg \in Seq(Line) /\ Addrs \in SUBSET Nat
  BY PairsType, SliceObjectAssumption DEF InputsTyped
<1>6. PICK e : e = SectionSymbol(number)
  OBVIOUS
<1>7. /\ new \in Seq(SymbolEntry) /\ Begins(new, old)
      /\ \A k \in 1..Len(new) : k \in 1..Len(old) \/ new[k] = e
                \/ \E t \in Addrs : t \in Within(range) /\ new[k] = SymbolFor(t, range, number)
      /\ \A t \in Addrs : t \in Within(range) =>
            \E k \in 1..Len(new) :
               /\ new[k] = SymbolFor(t, range, number)
               /\ \A j \in 1..Len(new) : j \in 1..Len(old) \/ new[j] = e
                                           \/ (new[j].value = t - range.start => j = k)
  <2>1. new \in Seq(SymbolEntry) /\ Begins(new, old)
    BY <1>4, <1>5, SymbolsWithFact
  <2>2. \A k \in 1..Len(new) : IsAdded(new, old, range, number, k)
    BY <1>4, <1>5, SymbolsWithFact
  <2>3. \A t \in Addrs : t \in Within(range) => IsAddedOnce(new, old, range, number, t)
    BY <1>4, <1>5, SymbolsWithFact
  <2>4. \A k \in 1..Len(new) : k \in 1..Len(old) \/ new[k] = e
            \/ \E t \in Addrs : t \in Within(range) /\ new[k] = SymbolFor(t, range, number)
    BY <1>6, <2>2 DEF IsAdded
  <2>5. \A t \in Addrs : t \in Within(range) =>
            \E k \in 1..Len(new) :
               /\ new[k] = SymbolFor(t, range, number)
               /\ \A j \in 1..Len(new) : j \in 1..Len(old) \/ new[j] = e
                                           \/ (new[j].value = t - range.start => j = k)
    BY <1>6, <2>3 DEF IsAddedOnce
  <2> QED BY <2>1, <2>4, <2>5
<1>8. \A k \in 1..Len(old) : k \in 1..Len(new) /\ new[k] = old[k] /\ SymbolRight(o, n, old[k])
  <2>1. \A k \in 1..Len(old) : k \in 1..Len(new) /\ new[k] = old[k]
    BY <1>7 DEF Begins
  <2> QED BY <2>1 DEF SymbolsRight
<1>9. /\ e.external = FALSE /\ e.section_number = number /\ e.name = ".section"
  BY <1>6 DEF SectionSymbol, Symbol
<1>10. ASSUME NEW t \in Addrs, t \in Within(range), NEW y, y = SymbolFor(t, range, number)
       PROVE  /\ y.external = TRUE /\ y.section_number = number /\ y.name = AddrToSym[t]
              /\ y.value = t - b /\ b + y.value = t
  <2>1. y.external = TRUE /\ y.section_number = number /\ y.name = AddrToSym[t]
    BY <1>10 DEF SymbolFor, Symbol
  <2>2. y.value = t - b
    BY <1>2, <1>10 DEF SymbolFor, Symbol
  <2>3. b + (t - b) = t
    BY <1>5
  <2> QED BY <2>1, <2>2, <2>3
<1>11. PICK i \in Nat : i = n + 1 /\ number = i + 1 /\ i \in 1..i
  BY <1>3
<1>12. b = RangeAt(o, i).start /\ range = RangeAt(o, i)
  BY <1>1, <1>2, <1>11
<1>13. ASSUME NEW k \in 1..Len(old) PROVE old[k].section_number \in Nat /\ old[k].section_number <= i
  <2>1. old[k] \in SymbolEntry
    OBVIOUS
  <2> QED BY <1>8, <1>11, <2>1 DEF SymbolRight, SymbolEntry
<1>14. ASSUME NEW k \in 1..Len(new) PROVE SymbolRight(o, i, new[k])
  <2>1. CASE k \in 1..Len(old)
    <3>1. SymbolRight(o, n, old[k])
      BY <1>8, <2>1
    <3>2. old[k].section_number <= i + 1
      BY <1>13, <1>11, <2>1
    <3>3. \A h \in 1..n : h \in 1..i
      BY <1>11
    <3>4. SymbolRight(o, i, old[k])
      BY <3>1, <3>2, <3>3 DEF SymbolRight
    <3> QED BY <1>8, <2>1, <3>4
  <2>2. CASE new[k] = e
    BY <1>9, <1>11, <2>2 DEF SymbolRight
  <2>3. ASSUME NEW t \in Addrs, t \in Within(range), new[k] = SymbolFor(t, range, number)
        PROVE  SymbolRight(o, i, new[k])
    <3>1. PICK y : y = new[k]
      OBVIOUS
    <3>2. y.external = TRUE /\ y.section_number = i + 1 /\ y.name = AddrToSym[t] /\ b + y.value = t
      BY <1>10, <1>11, <2>3, <3>1
    <3>3. IsDefinition(o, y, i, t)
      BY <1>12, <3>2 DEF IsDefinition
    <3>4. t \in Within(RangeAt(o, i))
      BY <1>12, <2>3
    <3>5. y.section_number <= i + 1
      BY <3>2
    <3> QED BY <1>11, <3>1, <3>2, <3>3, <3>4, <3>5 DEF SymbolRight
  <2> QED BY <1>7, <2>1, <2>2, <2>3
<1>15. ASSUME NEW h \in 1..n, NEW t \in Addrs, t \in Within(RangeAt(o, h)) PROVE DefinedOnce(o, new, h, t)
  <2>1. PICK k \in 1..Len(old) :
           /\ IsDefinition(o, old[k], h, t)
           /\ \A j \in 1..Len(old) : IsDefinition(o, old[j], h, t) => j = k
    BY <1>15 DEF SymbolsRight, DefinedOnce
  <2>2. k \in 1..Len(new) /\ IsDefinition(o, new[k], h, t)
    BY <1>8, <2>1
  <2>3. ASSUME NEW j \in 1..Len(new), IsDefinition(o, new[j], h, t) PROVE j = k
    <3>1. new[j].external /\ new[j].section_number = h + 1
      BY <2>3 DEF IsDefinition
    <3>2. h + 1 # number
      BY <1>3
    <3>3. j \in 1..Len(old)
      <4>1. new[j] # e
        BY <1>9, <3>1
      <4>2. ASSUME NEW a \in Addrs, a \in Within(range), new[j] = SymbolFor(a, range, number) PROVE FALSE
        <5>1. new[j].section_number = number
          BY <1>10, <4>2
        <5> QED BY <3>1, <3>2, <5>1
      <4> QED BY <1>7, <4>1, <4>2
    <3> QED BY <1>8, <2>1, <2>3, <3>3
  <2> QED BY <2>2, <2>3 DEF DefinedOnce
<1>16. ASSUME NEW t \in Addrs, t \in Within(range) PROVE DefinedOnce(o, new, i, t)
  <2>1. PICK k \in 1..Len(new) :
           /\ new[k] = SymbolFor(t, range, number)
           /\ \A j \in 1..Len(new) : j \in 1..Len(old) \/ new[j] = e
                                       \/ (new[j].value = t - range.start => j = k)
    BY <1>7, <1>16
  <2>2. IsDefinition(o, new[k], i, t)
    <3>1. PICK y : y = new[k]
      OBVIOUS
    <3>2. y.external = TRUE /\ y.section_number = i + 1 /\ b + y.value = t
      BY <1>10, <1>11, <1>16, <2>1, <3>1
    <3> QED BY <1>12, <3>1, <3>2 DEF IsDefinition
  <2>3. ASSUME NEW j \in 1..Len(new), IsDefinition(o, new[j], i, t) PROVE j = k
    <3>1. new[j].external /\ new[j].section_number = i + 1 /\ b + new[j].value = t
      BY <1>12, <2>3 DEF IsDefinition
    <3>2. j \notin 1..Len(old)
      <4>1. ~(i + 1 <= i)
        OBVIOUS
      <4> QED BY <1>8, <1>13, <3>1, <4>1
    <3>3. new[j] # e
      BY <1>9, <3>1
    <3>4. new[j].value = t - range.start
      <4>1. new[j] \in SymbolEntry
        BY <1>7
      <4>2. PICK v \in Int : v = new[j].value
        BY <4>1 DEF SymbolEntry
      <4>3. v = t - b
        BY <1>5, <3>1, <4>2
      <4> QED BY <1>2, <4>2, <4>3
    <3> QED BY <2>1, <3>2, <3>3, <3>4
  <2> QED BY <2>2, <2>3 DEF DefinedOnce
<1>17. ASSUME NEW h \in 1..i, NEW t \in Addrs, t \in Within(RangeAt(o, h)) PROVE DefinedOnce(o, new, h, t)
  <2>1. h \in 1..n \/ h = i
    BY <1>11
  <2> QED BY <1>12, <1>15, <1>16, <1>17, <2>1
<1>18. SymbolsRight(o, i, new)
  BY <1>14, <1>17 DEF SymbolsRight
<1> QED BY <1>1, <1>3, <1>4, <1>11, <1>18

\* Beginning a section keeps the object file right.
LEMMA SectionAdded ==
    ASSUME InputsTyped, NEW o, NEW n \in Nat, HasRange(o, n + 1), NEW c, CoffRight(o, n, c)
    PROVE  CoffRight(o, n + 1, WithSection(c, RangeAt(o, n + 1), n + 2))
<1>1. PICK range \in SliceRange : range = RangeAt(o, n + 1) /\ range.start <= range.end
  BY HasRangeFact DEF InputsTyped
<1>2. PICK x : x = SectionOf(range)
  OBVIOUS
<1>3. /\ x \in SectionEntry /\ DataSize(x) = Len(x.data)
      /\ \A symbols : RelocsInside(x, symbols)
      /\ \A symbols : SectionRight(range, x, symbols)
  BY <1>1, <1>2, SectionOfFact DEF InputsTyped
<1>4. PICK old \in Seq(SymbolEntry) : old = c.symbols
  BY DEF CoffRight, FileTyped
<1>5. PICK new : new = SymbolsWith(old, range, n + 2)
  OBVIOUS
<1>6. new \in Seq(SymbolEntry) /\ Begins(new, old)
  <2>1. n + 2 \in Nat
    OBVIOUS
  <2> QED BY <1>5, <2>1, SymbolsWithFact DEF InputsTyped
<1>7. SymbolsRight(o, n + 1, new)
  <2>1. SymbolsRight(o, n, old)
    BY <1>4 DEF CoffRight
  <2> QED BY <1>1, <1>5, <2>1, SymbolsAdded
<1>8. PICK s \in Seq(SectionEntry) : s = c.sections /\ Len(s) = n + 1
  BY DEF CoffRight, FileTyped
<1>9. PICK l \in Nat : l = n + 1
  OBVIOUS
<1>10. PICK t \in Seq(SectionEntry) : t = Append(s, x)
  <2>1. Append(s, x) \in Seq(SectionEntry)
    BY <1>3
  <2> QED BY <2>1
<1>11. Len(t) = l + 1 /\ t[l + 1] = x /\ \A i \in 1..l : t[i] = s[i]
  BY <1>3, <1>8, <1>9, <1>10
<1>12. \A i \in 1..l + 1 : i \in 1..l \/ i = l + 1
  OBVIOUS
<1>13. PICK d : d = WithSection(c, range, n + 2)
  OBVIOUS
<1>14. d.sections = t /\ d.symbols = new
  BY <1>2, <1>4, <1>5, <1>8, <1>10, <1>13 DEF WithSection
<1>15. ASSUME NEW i \in 1..l PROVE DataSize(t[i]) = Len(t[i].data) /\ RelocsInside(t[i], old)
  <2>1. DataSize(s[i]) = Len(s[i].data)
    BY <1>8, <1>9 DEF CoffRight, FileTyped
  <2>2. RelocsInside(s[i], old)
    BY <1>4, <1>8, <1>9 DEF CoffRight
  <2> QED BY <1>11, <2>1, <2>2
<1>16. FileTyped(d)
  <2>1. ASSUME NEW i \in 1..l + 1 PROVE DataSize(t[i]) = Len(t[i].data)
    BY <1>3, <1>11, <1>12, <1>15
  <2> QED BY <1>6, <1>11, <1>14, <2>1 DEF FileTyped
<1>17. ASSUME NEW i \in 1..n
       PROVE  RelocsInside(t[i + 1], new) /\ SectionRight(RangeAt(o, i), t[i + 1], new)
  <2>1. i + 1 \in 1..l
    BY <1>9
  <2>2. SectionRight(RangeAt(o, i), s[i + 1], old)
    BY <1>4, <1>8 DEF CoffRight
  <2>3. t[i + 1] = s[i + 1] /\ RelocsInside(t[i + 1], old)
    BY <1>11, <1>15, <2>1
  <2> QED BY <1>6, <2>2, <2>3, MoreSymbols
<1>18. ASSUME NEW i \in 1..l + 1 PROVE RelocsInside(t[i], new)
  <2>1. CASE i = l + 1
    BY <1>3, <1>11, <2>1
  <2>2. CASE i \in 1..l
    <3>1. RelocsInside(s[i], old)
      BY <1>11, <1>15, <2>2
    <3>2. PICK y : y = s[i]
      OBVIOUS
    <3>3. ASSUME NEW k \in 1..Len(old) PROVE k \in 1..Len(new)
      BY <1>6 DEF Begins
    <3>4. RelocsInside(y, new)
      BY <3>1, <3>2, <3>3 DEF RelocsInside
    <3> QED BY <1>11, <2>2, <3>2, <3>4
  <2> QED BY <1>12, <2>1, <2>2
<1>19. ASSUME NEW i \in 1..n + 1 PROVE SectionRight(RangeAt(o, i), t[i + 1], new)
  <2>1. CASE i = l
    BY <1>1, <1>3, <1>9, <1>11, <2>1
  <2>2. CASE i # l
    <3>1. i \in 1..n
      BY <1>9, <2>2
    <3> QED BY <1>17, <3>1
  <2> QED BY <2>1, <2>2
<1>20. CoffRight(o, n + 1, d)
  <2>1. Len(d.sections) = n + 1 + 1
    BY <1>9, <1>11, <1>14
  <2>2. \A i \in 1..n + 1 + 1 : RelocsInside(d.sections[i], d.symbols)
    BY <1>9, <1>14, <1>18
  <2>3. \A i \in 1..n + 1 : SectionRight(RangeAt(o, i), d.sections[i + 1], d.symbols)
    BY <1>14, <1>19
  <2>4. SymbolsRight(o, n + 1, d.symbols)
    BY <1>7, <1>14
  <2> QED BY <1>16, <2>1, <2>2, <2>3, <2>4 DEF CoffRight
<1> QED BY <1>1, <1>13, <1>20

\* An object file with no section but .drectve.
LEMMA EmptyCoffRight ==
    ASSUME NEW o
    PROVE  CoffRight(o, 0, EmptyCoff)
<1>1. PICK x : x = CoffSection(<<Zero>>, 0, FALSE)
  OBVIOUS
<1>2. x \in SectionEntry /\ x.relocations = <<>> /\ x.size = 0 /\ ~x.bss
  <2>1. Zero \in Word
    <3>1. <<>> \in Seq(Int)
      OBVIOUS
    <3> QED BY <3>1 DEF Zero, Word
  <2>2. <<Zero>> \in Seq(Word) /\ <<>> \in Seq(RelocEntry)
    BY <2>1
  <2> QED BY <1>1, <2>2 DEF CoffSection, SectionEntry
<1>3. PICK s \in Seq(SectionEntry) : s = <<x>>
  <2>1. <<x>> \in Seq(SectionEntry)
    BY <1>2
  <2> QED BY <2>1
<1>4. Len(s) = 1 /\ s[1] = x
  BY <1>3
<1>5. EmptyCoff.sections = s /\ EmptyCoff.symbols = <<>>
  BY <1>1, <1>3 DEF EmptyCoff
<1>6. <<>> \in Seq(SymbolEntry) /\ Len(<<>>) = 0
  OBVIOUS
<1>7. PICK y : y = EmptyCoff
  OBVIOUS
<1>8. y.sections = s /\ y.symbols = <<>>
  BY <1>5, <1>7
<1>9. \A i \in 1..1 : i = 1
  OBVIOUS
<1>10. FileTyped(y)
  <2>1. DataSize(x) = Len(x.data)
    BY <1>2 DEF DataSize
  <2> QED BY <1>4, <1>6, <1>8, <1>9, <2>1 DEF FileTyped
<1>11. RelocsInside(x, <<>>)
  <2>1. Len(x.relocations) = 0
    BY <1>2
  <2> QED BY <2>1 DEF RelocsInside
<1>12. SymbolsRight(o, 0, <<>>)
  BY <1>6 DEF SymbolsRight
<1>13. CoffRight(o, 0, y)
  <2>1. Len(y.sections) = 0 + 1
    BY <1>4, <1>8
  <2>2. \A i \in 1..0 + 1 : RelocsInside(y.sections[i], y.symbols)
    BY <1>4, <1>8, <1>11
  <2>3. \A i \in 1..0 : SectionRight(RangeAt(o, i), y.sections[i + 1], y.symbols)
    OBVIOUS
  <2> QED BY <1>8, <1>10, <1>12, <2>1, <2>2, <2>3 DEF CoffRight
<1> QED BY <1>7, <1>13

UndefinedOnes(rs) == [j \in DOMAIN rs |-> Symbol(AddrToSym[rs[j].target], 0, 0, TRUE)]

\* A symbol for each relocation, which another object file defines.
LEMMA UndefinedOnesFact ==
    ASSUME syms \in Seq(Line), dbg \in Seq(Line), NEW rs \in Seq(RelocOf(Addrs))
    PROVE  /\ UndefinedOnes(rs) \in Seq(SymbolEntry) /\ Len(UndefinedOnes(rs)) = Len(rs)
           /\ \A j \in 1..Len(rs) : /\ UndefinedOnes(rs)[j].name = AddrToSym[rs[j].target]
                                    /\ UndefinedOnes(rs)[j].external = TRUE
                                    /\ UndefinedOnes(rs)[j].section_number = 0
                                    /\ rs[j].target \in Addrs
<1>1. PICK l \in Nat : l = Len(rs) /\ DOMAIN rs = 1..l
  OBVIOUS
<1>2. ASSUME NEW j \in 1..l
      PROVE  /\ Symbol(AddrToSym[rs[j].target], 0, 0, TRUE) \in SymbolEntry
             /\ rs[j].target \in Addrs
  <2>1. rs[j] \in RelocOf(Addrs)
    BY <1>1
  <2>2. rs[j].target \in Addrs
    BY <2>1 DEF RelocOf
  <2>3. AddrToSym[rs[j].target] \in Name
    BY <2>2, AddrToSymType
  <2> QED BY <2>2, <2>3 DEF Symbol, SymbolEntry
<1>3. PICK u \in Seq(SymbolEntry) : /\ u = UndefinedOnes(rs) /\ Len(u) = l
                                    /\ \A j \in 1..l : u[j] = Symbol(AddrToSym[rs[j].target], 0, 0, TRUE)
  <2> DEFINE sym(j) == Symbol(AddrToSym[rs[j].target], 0, 0, TRUE)
             f == [j \in 1..l |-> sym(j)]
  <2>0. \A j \in 1..l : sym(j) \in SymbolEntry
    BY <1>2
  <2>1. f \in Seq(SymbolEntry) /\ Len(f) = l
    <3> HIDE DEF sym
    <3> QED BY <2>0
  <2>2. f = UndefinedOnes(rs)
    BY <1>1 DEF UndefinedOnes
  <2>3. \A j \in 1..l : f[j] = Symbol(AddrToSym[rs[j].target], 0, 0, TRUE)
    OBVIOUS
  <2> HIDE DEF f
  <2> QED BY <2>1, <2>2, <2>3
<1>4. \A j \in 1..l : /\ u[j].name = AddrToSym[rs[j].target]
                      /\ u[j].external = TRUE /\ u[j].section_number = 0
  BY <1>3 DEF Symbol
<1> QED BY <1>1, <1>2, <1>3, <1>4

\* What x \o y is.
LEMMA Joined ==
    ASSUME NEW S, NEW x \in Seq(S), NEW y \in Seq(S), NEW l \in Nat, NEW m \in Nat,
           Len(x) = l, Len(y) = m
    PROVE  /\ x \o y \in Seq(S) /\ Len(x \o y) = l + m
           /\ \A k \in 1..l : (x \o y)[k] = x[k]
           /\ \A j \in 1..m : (x \o y)[l + j] = y[j]
           /\ \A k \in 1..l + m : k \in 1..l \/ \E j \in 1..m : k = l + j
           /\ \A j \in 1..m : l + j \in 1..l + m
<1>1. x \o y \in Seq(S) /\ Len(x \o y) = l + m
  <2>1. Len(x \o y) = Len(x) + Len(y)
    OBVIOUS
  <2> QED BY <2>1
<1>2. \A k \in 1..l : (x \o y)[k] = x[k]
  OBVIOUS
<1>3. ASSUME NEW j \in 1..m PROVE (x \o y)[l + j] = y[j] /\ l + j \in 1..l + m
  <2>1. l + j \in (l + 1)..(l + m) /\ (l + j) - l = j
    OBVIOUS
  <2> QED BY <2>1
<1>4. ASSUME NEW k \in 1..l + m, k \notin 1..l PROVE \E j \in 1..m : k = l + j
  <2>1. k - l \in 1..m /\ k = l + (k - l)
    BY <1>4
  <2> QED BY <2>1
<1> QED BY <1>1, <1>2, <1>3, <1>4

LEMMA UndefinedAdded ==
    ASSUME InputsTyped, NEW o, NEW n \in Nat, NEW old \in Seq(SymbolEntry), SymbolsRight(o, n, old),
           NEW rs \in Seq(RelocOf(Addrs))
    PROVE  /\ old \o UndefinedOnes(rs) \in Seq(SymbolEntry)
           /\ Begins(old \o UndefinedOnes(rs), old)
           /\ Len(old \o UndefinedOnes(rs)) = Len(old) + Len(rs)
           /\ \A j \in 1..Len(rs) :
                 /\ (old \o UndefinedOnes(rs))[Len(old) + j].name = AddrToSym[rs[j].target]
                 /\ rs[j].target \in Addrs
           /\ SymbolsRight(o, n, old \o UndefinedOnes(rs))
<1>1. PICK l \in Nat, m \in Nat : l = Len(old) /\ m = Len(rs)
  OBVIOUS
<1>2. PICK u \in Seq(SymbolEntry) :
         /\ u = UndefinedOnes(rs) /\ Len(u) = m
         /\ \A j \in 1..m : /\ u[j].name = AddrToSym[rs[j].target] /\ u[j].external = TRUE
                            /\ u[j].section_number = 0 /\ rs[j].target \in Addrs
  BY <1>1, UndefinedOnesFact DEF InputsTyped
<1>3. PICK new : new = old \o u
  OBVIOUS
<1>4. /\ new \in Seq(SymbolEntry) /\ Len(new) = l + m
      /\ \A k \in 1..l : new[k] = old[k]
      /\ \A j \in 1..m : new[l + j] = u[j]
      /\ \A k \in 1..l + m : k \in 1..l \/ \E j \in 1..m : k = l + j
      /\ \A j \in 1..m : l + j \in 1..l + m
  <2>0. old \o u \in Seq(SymbolEntry) /\ Len(old \o u) = Len(old) + Len(u)
    OBVIOUS
  <2>1. new \in Seq(SymbolEntry) /\ Len(new) = l + m
    BY <1>1, <1>2, <1>3, <2>0
  <2>2. \A k \in 1..l : new[k] = old[k]
    BY <1>1, <1>2, <1>3, Joined
  <2>3. \A j \in 1..m : new[l + j] = u[j]
    BY <1>1, <1>2, <1>3, Joined
  <2>4. \A k \in 1..l + m : k \in 1..l \/ \E j \in 1..m : k = l + j
    <3>1. ASSUME NEW k \in 1..l + m, k \notin 1..l PROVE \E j \in 1..m : k = l + j
      <4>1. k - l \in 1..m /\ k = l + (k - l)
        BY <3>1
      <4> QED BY <4>1
    <3> QED BY <3>1
  <2>5. \A j \in 1..m : l + j \in 1..l + m
    OBVIOUS
  <2> QED BY <2>1, <2>2, <2>3, <2>4, <2>5
<1>5. Begins(new, old)
  <2>1. l <= l + m
    OBVIOUS
  <2> QED BY <1>1, <1>4, <2>1 DEF Begins
<1>6. \A k \in 1..l : k \in 1..l + m
  OBVIOUS
<1>7. ASSUME NEW k \in 1..l + m PROVE SymbolRight(o, n, new[k])
  <2>1. CASE k \in 1..l
    BY <1>1, <1>4, <2>1 DEF SymbolsRight
  <2>2. ASSUME NEW j \in 1..m, k = l + j PROVE SymbolRight(o, n, new[k])
    <3>1. PICK y : y = new[k]
      OBVIOUS
    <3>2. /\ y.name = AddrToSym[rs[j].target] /\ y.external = TRUE /\ y.section_number = 0
          /\ rs[j].target \in Addrs
      BY <1>2, <1>4, <2>2, <3>1
    <3>3. 0 <= n + 1 /\ ~(0 > 0)
      OBVIOUS
    <3> QED BY <3>1, <3>2, <3>3 DEF SymbolRight
  <2> QED BY <1>4, <2>1, <2>2
<1>8. ASSUME NEW i \in 1..n, NEW t \in Addrs, t \in Within(RangeAt(o, i)) PROVE DefinedOnce(o, new, i, t)
  <2>1. PICK k \in 1..l :
           /\ IsDefinition(o, old[k], i, t)
           /\ \A j \in 1..l : IsDefinition(o, old[j], i, t) => j = k
    BY <1>1, <1>8 DEF SymbolsRight, DefinedOnce
  <2>2. k \in 1..l + m /\ IsDefinition(o, new[k], i, t)
    BY <1>4, <1>6, <2>1
  <2>3. ASSUME NEW j \in 1..l + m, IsDefinition(o, new[j], i, t) PROVE j = k
    <3>1. j \in 1..l
      <4>1. ASSUME NEW h \in 1..m, j = l + h PROVE FALSE
        <5>1. new[j].section_number = 0
          BY <1>2, <1>4, <4>1
        <5>2. new[j].section_number = i + 1
          BY <2>3 DEF IsDefinition
        <5> QED BY <5>1, <5>2
      <4> QED BY <1>4, <4>1
    <3> QED BY <1>4, <2>1, <2>3, <3>1
  <2> QED BY <1>4, <2>2, <2>3 DEF DefinedOnce
<1>9. SymbolsRight(o, n, new)
  BY <1>4, <1>7, <1>8 DEF SymbolsRight
<1>10. \A j \in 1..m : new[l + j].name = AddrToSym[rs[j].target] /\ rs[j].target \in Addrs
  BY <1>2, <1>4
<1> QED BY <1>1, <1>2, <1>3, <1>4, <1>5, <1>9, <1>10

HasAddends(g, rs) == \A j \in 1..Len(rs) : g.fields[rs[j].field] = rs[j].addend

\* The word with its operands replaced.
LEMMA RelocatedFact ==
    ASSUME NEW a, NEW w \in Word, NEW rs, RelocsRight(a, w, rs)
    PROVE  /\ Relocated(w, rs) \in Word /\ Relocated(w, rs).kind = w.kind
           /\ Len(Relocated(w, rs).fields) = Len(w.fields)
           /\ \A k \in 1..Len(w.fields) :
                 (\A j \in 1..Len(rs) : rs[j].field # k) => Relocated(w, rs).fields[k] = w.fields[k]
           /\ HasAddends(Relocated(w, rs), rs)
<1>1. PICK f \in Seq(Int) : f = w.fields
  BY DEF Word
<1>2. PICK n \in Nat : n = Len(f) /\ DOMAIN f = 1..n /\ \A k \in 1..n : f[k] \in Int
  OBVIOUS
<1>3. rs \in Seq(RelocOf(Addrs))
  BY DEF RelocsRight
<1>4. PICK m \in Nat : m = Len(rs) /\ DOMAIN rs = 1..m /\ \A j \in 1..m : rs[j].addend \in Int
  <2>1. \A j \in 1..Len(rs) : rs[j] \in RelocOf(Addrs)
    BY <1>3
  <2> QED BY <1>3, <2>1 DEF RelocOf
<1> DEFINE value(k) == IF \E j \in 1..m : rs[j].field = k
                       THEN rs[CHOOSE j \in 1..m : rs[j].field = k].addend ELSE f[k]
           g == [k \in 1..n |-> value(k)]
<1>5. ASSUME NEW k \in 1..n PROVE value(k) \in Int
  <2>1. CASE \E j \in 1..m : rs[j].field = k
    <3>1. PICK j \in 1..m : j = CHOOSE h \in 1..m : rs[h].field = k
      BY <2>1
    <3>2. value(k) = rs[j].addend
      BY <2>1, <3>1
    <3> QED BY <1>4, <3>2
  <2>2. CASE ~\E j \in 1..m : rs[j].field = k
    BY <1>2, <2>2
  <2> QED BY <2>1, <2>2
<1>6. g \in Seq(Int) /\ Len(g) = n /\ \A k \in 1..n : g[k] = value(k)
  <2> HIDE DEF value
  <2> QED BY <1>5
<1>7. Relocated(w, rs) = [w EXCEPT !.fields = g]
  <2>1. [k \in DOMAIN w.fields |-> IF \E j \in DOMAIN rs : rs[j].field = k
           THEN rs[CHOOSE j \in DOMAIN rs : rs[j].field = k].addend ELSE w.fields[k]] = g
    BY <1>1, <1>2, <1>4, Zenon
  <2> QED BY <2>1 DEF Relocated
<1> HIDE DEF g
<1>8. PICK x : x = Relocated(w, rs)
  OBVIOUS
<1>9. x \in Word /\ x.kind = w.kind /\ x.fields = g
  BY <1>6, <1>7, <1>8 DEF Word
<1>10. ASSUME NEW k \in 1..n, \A j \in 1..m : rs[j].field # k PROVE g[k] = f[k]
  BY <1>6, <1>10
<1>11. ASSUME NEW j \in 1..m PROVE g[rs[j].field] = rs[j].addend
  <2>1. rs[j].field \in 1..n
    BY <1>1, <1>2, <1>4 DEF RelocsRight
  <2>2. PICK h \in 1..m : /\ h = CHOOSE i \in 1..m : rs[i].field = rs[j].field
                          /\ rs[h].field = rs[j].field
    OBVIOUS
  <2>3. h = j
    BY <1>4, <2>2 DEF RelocsRight
  <2>4. value(rs[j].field) = rs[h].addend
    BY <2>2
  <2> HIDE DEF value
  <2> QED BY <1>6, <2>1, <2>3, <2>4
<1>12. HasAddends(x, rs)
  BY <1>4, <1>9, <1>11 DEF HasAddends
<1> QED BY <1>1, <1>2, <1>4, <1>6, <1>8, <1>9, <1>10, <1>12

RelocationsFor(rs, word, m) ==
    [j \in DOMAIN rs |-> [address |-> word, field |-> rs[j].field,
                          sym_index |-> m + j - 1, absolute |-> rs[j].absolute]]

LEMMA RelocationsForFact ==
    ASSUME NEW rs \in Seq(RelocOf(Addrs)), NEW word \in Nat, NEW m \in Nat
    PROVE  /\ RelocationsFor(rs, word, m) \in Seq(RelocEntry)
           /\ Len(RelocationsFor(rs, word, m)) = Len(rs)
           /\ \A j \in 1..Len(rs) :
                 /\ RelocationsFor(rs, word, m)[j].address = word
                 /\ RelocationsFor(rs, word, m)[j].field = rs[j].field
                 /\ RelocationsFor(rs, word, m)[j].sym_index + 1 = m + j
                 /\ RelocationsFor(rs, word, m)[j].absolute = rs[j].absolute
<1>1. PICK l \in Nat : l = Len(rs) /\ DOMAIN rs = 1..l
  OBVIOUS
<1> DEFINE entry(j) == [address |-> word, field |-> rs[j].field,
                        sym_index |-> m + j - 1, absolute |-> rs[j].absolute]
<1>2. ASSUME NEW j \in 1..l
      PROVE  /\ entry(j) \in RelocEntry /\ entry(j).address = word /\ entry(j).field = rs[j].field
             /\ entry(j).sym_index + 1 = m + j /\ entry(j).absolute = rs[j].absolute
  <2>1. rs[j] \in RelocOf(Addrs)
    BY <1>1
  <2>2. rs[j].field \in Nat /\ rs[j].absolute \in BOOLEAN
    BY <2>1 DEF RelocOf
  <2>3. m + j - 1 \in Nat /\ m + j - 1 + 1 = m + j
    OBVIOUS
  <2>4. entry(j) \in RelocEntry
    BY <2>2, <2>3 DEF RelocEntry
  <2>5. entry(j).sym_index + 1 = m + j
    BY <2>3
  <2> QED BY <2>4, <2>5
<1>3. PICK u \in Seq(RelocEntry) : /\ u = RelocationsFor(rs, word, m) /\ Len(u) = l
                                   /\ \A j \in 1..l : u[j] = entry(j)
  <2> DEFINE f == [j \in 1..l |-> entry(j)]
  <2>1. f \in Seq(RelocEntry) /\ Len(f) = l /\ \A j \in 1..l : f[j] = entry(j)
    <3> HIDE DEF entry
    <3> QED BY <1>2
  <2>2. f = RelocationsFor(rs, word, m)
    BY <1>1 DEF RelocationsFor
  <2> HIDE DEF f, entry
  <2> QED BY <2>1, <2>2
<1> HIDE DEF entry
<1> QED BY <1>1, <1>2, <1>3

Rewritten(x, rs, word, m) ==
    [data |-> [x.data EXCEPT ![word] = Relocated(x.data[word], rs)], size |-> x.size, bss |-> x.bss,
     relocations |-> x.relocations \o RelocationsFor(rs, word, m)]

IsNext(x, word) == word \in 1..Len(x.data) /\ \A i \in 1..Len(x.relocations) : x.relocations[i].address < word

\* The relocations of the word at a make it and leave the others right.
LEMMA RewrittenFact ==
    ASSUME image \in Images, NEW range \in SliceRange, NEW x \in SectionEntry, NEW symbols,
           SectionRight(range, x, symbols), RelocsInside(x, symbols), DataSize(x) = Len(x.data),
           NEW a \in Text, NEW word \in Nat, range.start + word - 1 = a, IsNext(x, word),
           NEW rs, RelocsRight(a, image[a], rs), NEW m \in Nat,
           \A j \in 1..Len(rs) : /\ m + j \in 1..Len(symbols) /\ rs[j].target \in Addrs
                                 /\ symbols[m + j].name = AddrToSym[rs[j].target]
    PROVE  /\ Rewritten(x, rs, word, m) \in SectionEntry
           /\ DataSize(Rewritten(x, rs, word, m)) = Len(Rewritten(x, rs, word, m).data)
           /\ RelocsInside(Rewritten(x, rs, word, m), symbols)
           /\ SectionRight(range, Rewritten(x, rs, word, m), symbols)
           /\ \A i \in 1..Len(Rewritten(x, rs, word, m).relocations) :
                 Rewritten(x, rs, word, m).relocations[i].address <= word
<1>1. PICK b \in Nat : b = range.start /\ b + word - 1 = a
  BY DEF SliceRange
<1>2. PICK d \in Seq(Word), r \in Seq(RelocEntry) : d = x.data /\ r = x.relocations
  BY DEF SectionEntry
<1>3. PICK n \in Nat, l \in Nat : n = Len(d) /\ l = Len(r)
  OBVIOUS
<1>4. word \in 1..n /\ \A i \in 1..l : r[i].address < word
  BY <1>2, <1>3 DEF IsNext
<1>5. rs \in Seq(RelocOf(Addrs))
  BY DEF RelocsRight
<1>6. PICK h \in Nat : h = Len(rs)
  BY <1>5
<1>7. PICK u \in Seq(RelocEntry) :
         /\ u = RelocationsFor(rs, word, m) /\ Len(u) = h
         /\ \A j \in 1..h : /\ u[j].address = word /\ u[j].field = rs[j].field
                            /\ u[j].sym_index + 1 = m + j /\ u[j].absolute = rs[j].absolute
  BY <1>5, <1>6, RelocationsForFact
<1>8. PICK q \in Seq(RelocEntry) : q = r \o u /\ Len(q) = l + h
  <2>1. r \o u \in Seq(RelocEntry) /\ Len(r \o u) = Len(r) + Len(u)
    OBVIOUS
  <2> QED BY <1>3, <1>7, <2>1
<1>9. \A i \in 1..l : q[i] = r[i]
  BY <1>3, <1>8
<1>10. \A j \in 1..h : q[l + j] = u[j]
  <2>1. ASSUME NEW j \in 1..h PROVE q[l + j] = u[j]
    <3>1. l + j \in (l + 1)..(l + h) /\ (l + j) - l = j
      OBVIOUS
    <3> QED BY <1>3, <1>7, <1>8, <3>1
  <2> QED BY <2>1
<1>11. ASSUME NEW i \in 1..l + h PROVE i \in 1..l \/ \E j \in 1..h : i = l + j
  <2>1. CASE i > l
    <3>1. i - l \in 1..h /\ i = l + (i - l)
      BY <2>1
    <3> QED BY <3>1
  <2>2. CASE ~(i > l)
    BY <2>2
  <2> QED BY <2>1, <2>2
<1>12. PICK w \in Word : w = d[word]
  BY <1>3, <1>4
<1>13. PICK o : o = Original(a)
  OBVIOUS
<1>14. o = image[a]
  BY <1>13 DEF Original
<1>15. WordRight(a, x, word, symbols)
  <2>1. PICK v : v = range.start + word - 1
    OBVIOUS
  <2>2. WordRight(v, x, word, symbols)
    BY <1>2, <1>3, <1>4, <2>1 DEF SectionRight
  <2> QED BY <2>1, <2>2
<1>16. /\ w.kind = o.kind /\ Len(w.fields) = Len(o.fields)
       /\ \A k \in 1..Len(o.fields) : w.fields[k] = o.fields[k]
  <2>1. \A k : \A i \in 1..l : ~Concerns(r[i], word, k)
    <3>1. ASSUME NEW i \in 1..l PROVE r[i].address # word
      <4>1. r[i] \in RelocEntry
        BY <1>3
      <4>2. r[i].address \in Nat
        BY <4>1 DEF RelocEntry
      <4> QED BY <1>4, <4>2
    <3> QED BY <3>1 DEF Concerns
  <2> QED BY <1>2, <1>3, <1>12, <1>13, <1>15, <2>1 DEF WordRight
<1>17. PICK z \in Nat : z = Len(o.fields) /\ Len(w.fields) = z
  BY <1>14, <1>16, ImageWord
<1>18. RelocsRight(a, w, rs)
  <2>1. RelocsRight(a, o, rs)
    BY <1>14
  <2> QED BY <1>16, <1>17, <2>1 DEF RelocsRight
<1>19. PICK g : g = Relocated(w, rs)
  OBVIOUS
<1>20. /\ g \in Word /\ g.kind = w.kind /\ Len(g.fields) = z
       /\ \A k \in 1..z : (\A j \in 1..h : rs[j].field # k) => g.fields[k] = w.fields[k]
       /\ \A j \in 1..h : g.fields[rs[j].field] = rs[j].addend
  <2>1. g \in Word /\ g.kind = w.kind
    BY <1>18, <1>19, RelocatedFact
  <2>2. Len(g.fields) = Len(w.fields)
    BY <1>18, <1>19, RelocatedFact
  <2>3. \A k \in 1..Len(w.fields) : (\A j \in 1..Len(rs) : rs[j].field # k) => g.fields[k] = w.fields[k]
    BY <1>18, <1>19, RelocatedFact
  <2>4. \A j \in 1..Len(rs) : g.fields[rs[j].field] = rs[j].addend
    <3>1. HasAddends(g, rs)
      BY <1>18, <1>19, RelocatedFact
    <3> QED BY <3>1 DEF HasAddends
  <2> QED BY <1>6, <1>17, <2>1, <2>2, <2>3, <2>4
<1>21. PICK e \in Seq(Word) : /\ e = [d EXCEPT ![word] = g] /\ Len(e) = n /\ e[word] = g
                              /\ \A j \in 1..n : j # word => e[j] = d[j]
  <2>1. [d EXCEPT ![word] = g] \in Seq(Word)
    BY <1>3, <1>4, <1>20
  <2>2. PICK e : e = [d EXCEPT ![word] = g]
    OBVIOUS
  <2>3. Len(e) = n
    BY <1>3, <2>2
  <2>4. e[word] = g
    BY <1>3, <1>4, <2>2
  <2>5. \A j \in 1..n : j # word => e[j] = d[j]
    BY <1>3, <2>2
  <2> QED BY <2>1, <2>2, <2>3, <2>4, <2>5
<1>22. PICK y : y = Rewritten(x, rs, word, m)
  OBVIOUS
<1>23. y = [data |-> e, size |-> x.size, bss |-> x.bss, relocations |-> q]
  BY <1>2, <1>7, <1>8, <1>12, <1>19, <1>21, <1>22 DEF Rewritten
<1>24. y.data = e /\ y.relocations = q /\ y.size = x.size /\ y.bss = x.bss
  BY <1>23
<1>25. y \in SectionEntry
  BY <1>23 DEF SectionEntry
<1>26. DataSize(y) = Len(y.data)
  <2>1. DataSize(x) = n /\ Len(y.data) = n
    BY <1>2, <1>3, <1>21, <1>24
  <2>2. Len(x.data) = Len(y.data)
    BY <1>2, <1>3, <1>21, <1>24
  <2> QED BY <1>24, <2>1, <2>2 DEF DataSize
<1>27. ASSUME NEW i \in 1..l + h PROVE q[i].address \in 1..n /\ q[i].sym_index + 1 \in 1..Len(symbols) /\ q[i].address <= word
  <2>1. CASE i \in 1..l
    <3>1. r[i].address \in 1..n /\ r[i].sym_index + 1 \in 1..Len(symbols)
      BY <1>2, <1>3, <2>1 DEF RelocsInside
    <3>2. r[i].address <= word
      BY <1>4, <2>1, <3>1
    <3> QED BY <1>9, <2>1, <3>1, <3>2
  <2>2. ASSUME NEW j \in 1..h, i = l + j PROVE q[i].address \in 1..n /\ q[i].sym_index + 1 \in 1..Len(symbols) /\ q[i].address <= word
    <3>1. u[j].address \in 1..n /\ u[j].address <= word
      BY <1>4, <1>7
    <3>2. u[j].sym_index + 1 \in 1..Len(symbols)
      BY <1>6, <1>7
    <3> QED BY <1>10, <2>2, <3>1, <3>2
  <2> QED BY <1>11, <2>1, <2>2
<1>28. RelocsInside(y, symbols)
  BY <1>8, <1>21, <1>24, <1>27 DEF RelocsInside
<1>29. ASSUME NEW k \in 1..z
       PROVE  /\ (\A i \in 1..l + h : ~Concerns(q[i], word, k)) => g.fields[k] = o.fields[k]
              /\ \A i \in 1..l + h : Concerns(q[i], word, k) =>
                    RelocRight(a, g.fields[k], q[i], symbols, o.fields[k])
  <2>1. ASSUME NEW j \in 1..h, rs[j].field = k PROVE \E i \in 1..l + h : Concerns(q[i], word, k)
    <3>1. l + j \in 1..l + h
      OBVIOUS
    <3> QED BY <1>7, <1>10, <2>1, <3>1 DEF Concerns
  <2>2. (\A i \in 1..l + h : ~Concerns(q[i], word, k)) => g.fields[k] = o.fields[k]
    BY <1>16, <1>17, <1>20, <2>1
  <2>3. ASSUME NEW i \in 1..l + h, Concerns(q[i], word, k)
        PROVE  RelocRight(a, g.fields[k], q[i], symbols, o.fields[k])
    <3>1. i \notin 1..l
      <4>1. ASSUME i \in 1..l PROVE FALSE
        <5>1. r[i] \in RelocEntry /\ r[i].address < word
          BY <1>3, <1>4, <4>1
        <5>2. r[i].address \in Nat
          BY <5>1 DEF RelocEntry
        <5>3. r[i].address = word
          BY <1>9, <2>3, <4>1 DEF Concerns
        <5> QED BY <5>1, <5>2, <5>3
      <4> QED BY <4>1
    <3>2. PICK j \in 1..h : i = l + j
      BY <1>11, <3>1
    <3>3. /\ q[i].field = rs[j].field /\ q[i].sym_index + 1 = m + j
          /\ q[i].absolute = rs[j].absolute /\ q[i].field = k
      BY <1>7, <1>10, <2>3, <3>2 DEF Concerns
    <3>4. g.fields[k] = rs[j].addend
      BY <1>20, <3>3
    <3>5. rs[j].addend + rs[j].target - (IF rs[j].absolute THEN 0 ELSE a + 1) = o.fields[k]
      <4>1. rs[j].addend + rs[j].target - (IF rs[j].absolute THEN 0 ELSE a + 1) = w.fields[rs[j].field]
        BY <1>6, <1>18 DEF RelocsRight
      <4> QED BY <1>16, <1>17, <3>3, <4>1
    <3>6. rs[j].target \in Addrs /\ symbols[m + j].name = AddrToSym[rs[j].target]
      BY <1>6
    <3>7. symbols[q[i].sym_index + 1].name = AddrToSym[rs[j].target]
      BY <3>3, <3>6
    <3>8. g.fields[k] + rs[j].target - (IF q[i].absolute THEN 0 ELSE a + 1) = o.fields[k]
      BY <3>3, <3>4, <3>5
    <3> QED BY <3>6, <3>7, <3>8 DEF RelocRight
  <2> QED BY <2>2, <2>3
<1>30. WordRight(a, y, word, symbols)
  <2>1. y.data[word] = g
    BY <1>21, <1>24
  <2>2. g.kind = Original(a).kind /\ Len(g.fields) = Len(Original(a).fields)
    BY <1>13, <1>16, <1>17, <1>20
  <2> QED BY <1>8, <1>13, <1>17, <1>24, <1>29, <2>1, <2>2 DEF WordRight
<1>31. ASSUME NEW j \in 1..n, j # word PROVE WordRight(range.start + j - 1, y, j, symbols)
  <2>1. PICK v : v = range.start + j - 1
    OBVIOUS
  <2>2. WordRight(v, x, j, symbols)
    BY <1>2, <1>3, <2>1 DEF SectionRight
  <2>3. y.data[j] = d[j]
    BY <1>21, <1>24, <1>31
  <2>4. ASSUME NEW k, NEW i \in 1..l + h, Concerns(q[i], j, k) PROVE i \in 1..l /\ Concerns(r[i], j, k)
    <3>1. i \in 1..l
      <4>1. ASSUME NEW p \in 1..h, i = l + p PROVE FALSE
        BY <1>7, <1>10, <1>31, <2>4, <4>1 DEF Concerns
      <4> QED BY <1>11, <4>1
    <3> QED BY <1>9, <2>4, <3>1
  <2>5. ASSUME NEW k, NEW i \in 1..l, Concerns(r[i], j, k) PROVE i \in 1..l + h /\ Concerns(q[i], j, k)
    BY <1>9, <2>5
  <2>6. WordRight(v, y, j, symbols)
    <3>1. d[j].kind = Original(v).kind /\ Len(d[j].fields) = Len(Original(v).fields)
      BY <1>2, <2>2 DEF WordRight
    <3>2. ASSUME NEW k \in 1..Len(Original(v).fields)
          PROVE  /\ (\A i \in 1..l + h : ~Concerns(q[i], j, k)) => d[j].fields[k] = Original(v).fields[k]
                 /\ \A i \in 1..l + h : Concerns(q[i], j, k) =>
                       RelocRight(v, d[j].fields[k], q[i], symbols, Original(v).fields[k])
      <4>1. (\A i \in 1..l : ~Concerns(r[i], j, k)) => d[j].fields[k] = Original(v).fields[k]
        BY <1>2, <1>3, <2>2 DEF WordRight
      <4>2. ASSUME NEW i \in 1..l + h, Concerns(q[i], j, k)
            PROVE  RelocRight(v, d[j].fields[k], q[i], symbols, Original(v).fields[k])
        <5>1. i \in 1..l /\ Concerns(r[i], j, k)
          BY <2>4, <4>2
        <5>2. RelocRight(v, d[j].fields[k], r[i], symbols, Original(v).fields[k])
          BY <1>2, <1>3, <2>2, <5>1 DEF WordRight
        <5> QED BY <1>9, <5>1, <5>2
      <4> QED BY <2>5, <4>1, <4>2
    <3> QED BY <1>8, <1>24, <2>3, <3>1, <3>2 DEF WordRight
  <2> QED BY <2>1, <2>6
<1>32. SectionRight(range, y, symbols)
  <2>1. ASSUME NEW j \in 1..n PROVE WordRight(range.start + j - 1, y, j, symbols)
    <3>1. CASE j = word
      <4>1. range.start + j - 1 = a
        BY <3>1
      <4> QED BY <1>30, <3>1, <4>1
    <3> QED BY <1>31, <3>1
  <2>2. /\ x.size = range.end - range.start /\ x.bss = (range.start \in Bss)
        /\ n = IF range.start \in Bss THEN 0 ELSE range.end - range.start
    BY <1>2, <1>3 DEF SectionRight
  <2> QED BY <1>21, <1>24, <2>1, <2>2 DEF SectionRight
<1> QED BY <1>8, <1>22, <1>24, <1>25, <1>26, <1>27, <1>28, <1>32

\* The relocations of the last section are all of words before this one.
LastBelow(c, n, word) ==
    \A i \in 1..Len(c.sections[n + 1].relocations) : c.sections[n + 1].relocations[i].address < word

WithRelocs(c, n, word, rs) ==
    [symbols |-> c.symbols \o UndefinedOnes(rs),
     sections |-> [c.sections EXCEPT ![n + 1] = Rewritten(c.sections[n + 1], rs, word, Len(c.symbols))]]

\* Relocating an instruction keeps the object file right.
LEMMA WordRelocated ==
    ASSUME InputsTyped, NEW o, NEW n \in Nat, HasRange(o, n), NEW c, CoffRight(o, n, c), n >= 1,
           NEW a \in Text, a \in Within(RangeAt(o, n)),
           NEW word \in Nat, word = a - RangeAt(o, n).start + 1, LastBelow(c, n, word),
           NEW rs, RelocsRight(a, image[a], rs)
    PROVE  CoffRight(o, n, WithRelocs(c, n, word, rs)) /\ LastBelow(WithRelocs(c, n, word, rs), n, word + 1)
<1>1. PICK range \in SliceRange : range = RangeAt(o, n) /\ range.start <= range.end
  BY HasRangeFact DEF InputsTyped
<1>2. PICK b \in Nat, e \in Nat : b = range.start /\ e = range.end
  BY DEF SliceRange
<1>3. a \in Nat /\ b <= a /\ a < e /\ word = a - b + 1 /\ b + word - 1 = a
  <2>1. a \in b..(e - 1)
    BY <1>1, <1>2 DEF Within
  <2>2. word = a - b + 1
    BY <1>1, <1>2
  <2> QED BY <2>1, <2>2
<1>4. b \notin Bss
  <2>1. b \in Within(range) /\ a \in Within(range)
    BY <1>1, <1>2, <1>3 DEF Within
  <2>2. PICK section \in {Text, Data, Bss} : Within(range) \subseteq section
    BY <1>1, RangeFact DEF HasRange, InputsTyped
  <2> QED BY <2>1, <2>2, SliceObjectAssumption
<1>5. PICK old \in Seq(SymbolEntry), s \in Seq(SectionEntry) : old = c.symbols /\ s = c.sections
  BY DEF CoffRight, FileTyped
<1>6. Len(s) = n + 1
  BY <1>5 DEF CoffRight
<1>7. PICK l \in Nat : l = n + 1
  OBVIOUS
<1>8. PICK x \in SectionEntry : x = s[l]
  BY <1>6, <1>7
<1>9. SectionRight(range, x, old) /\ RelocsInside(x, old) /\ DataSize(x) = Len(x.data)
  <2>1. n \in 1..n /\ l \in 1..l
    BY <1>7
  <2>2. SectionRight(range, x, old)
    BY <1>1, <1>5, <1>7, <1>8, <2>1 DEF CoffRight
  <2>3. RelocsInside(x, old)
    BY <1>5, <1>7, <1>8, <2>1 DEF CoffRight
  <2>4. DataSize(x) = Len(x.data)
    BY <1>5, <1>6, <1>7, <1>8, <2>1 DEF CoffRight, FileTyped
  <2> QED BY <2>2, <2>3, <2>4
<1>10. SymbolsRight(o, n, old)
  BY <1>5 DEF CoffRight
<1>11. PICK rl \in Seq(RelocOf(Addrs)) : rl = rs
  BY DEF RelocsRight
<1>12. PICK m \in Nat, h \in Nat : m = Len(old) /\ h = Len(rl)
  OBVIOUS
<1>13. PICK new : new = old \o UndefinedOnes(rs)
  OBVIOUS
<1>14. new \in Seq(SymbolEntry) /\ Begins(new, old) /\ SymbolsRight(o, n, new)
  BY <1>10, <1>11, <1>13, UndefinedAdded
<1>15. Len(new) = m + h
  <2>1. PICK u \in Seq(SymbolEntry) : u = UndefinedOnes(rs) /\ Len(u) = h
    BY <1>11, <1>12, UndefinedOnesFact DEF InputsTyped
  <2>2. Len(old \o u) = Len(old) + Len(u)
    OBVIOUS
  <2> QED BY <1>12, <1>13, <2>1, <2>2
<1>16. ASSUME NEW j \in 1..h
       PROVE  m + j \in 1..Len(new) /\ rs[j].target \in Addrs /\ new[m + j].name = AddrToSym[rs[j].target]
  <2>1. m + j \in 1..m + h
    OBVIOUS
  <2>2. (old \o UndefinedOnes(rl))[Len(old) + j].name = AddrToSym[rl[j].target] /\ rl[j].target \in Addrs
    BY <1>10, <1>12, UndefinedAdded
  <2> QED BY <1>11, <1>12, <1>13, <1>15, <2>1, <2>2
<1>17. SectionRight(range, x, new) /\ RelocsInside(x, new)
  BY <1>9, <1>14, MoreSymbols
<1>18. IsNext(x, word)
  <2>1. Len(x.data) = IF range.start \in Bss THEN 0 ELSE range.end - range.start
    BY <1>9 DEF SectionRight
  <2>2. Len(x.data) = e - b
    BY <1>2, <1>4, <2>1
  <2>3. word \in 1..(e - b)
    BY <1>3
  <2>4. \A i \in 1..Len(x.relocations) : x.relocations[i].address < word
    BY <1>5, <1>7, <1>8 DEF LastBelow
  <2> QED BY <2>2, <2>3, <2>4 DEF IsNext
<1>19. PICK y : y = Rewritten(x, rs, word, m)
  OBVIOUS
<1>20. /\ y \in SectionEntry /\ DataSize(y) = Len(y.data) /\ RelocsInside(y, new)
       /\ SectionRight(range, y, new) /\ \A i \in 1..Len(y.relocations) : y.relocations[i].address <= word
  <2>1. range.start + word - 1 = a /\ image \in Images
    BY <1>2, <1>3 DEF InputsTyped
  <2>2. \A j \in 1..Len(rs) : m + j \in 1..Len(new) /\ rs[j].target \in Addrs /\ new[m + j].name = AddrToSym[rs[j].target]
    BY <1>11, <1>12, <1>16
  <2>3. y \in SectionEntry /\ DataSize(y) = Len(y.data)
    BY <1>9, <1>17, <1>18, <1>19, <2>1, <2>2, RewrittenFact
  <2>4. RelocsInside(y, new)
    BY <1>9, <1>17, <1>18, <1>19, <2>1, <2>2, RewrittenFact
  <2>5. SectionRight(range, y, new)
    BY <1>9, <1>17, <1>18, <1>19, <2>1, <2>2, RewrittenFact
  <2>6. \A i \in 1..Len(y.relocations) : y.relocations[i].address <= word
    BY <1>9, <1>17, <1>18, <1>19, <2>1, <2>2, RewrittenFact
  <2> QED BY <2>3, <2>4, <2>5, <2>6
<1>21. PICK t \in Seq(SectionEntry) : t = [s EXCEPT ![l] = y]
  <2>1. [s EXCEPT ![l] = y] \in Seq(SectionEntry)
    BY <1>6, <1>7, <1>20
  <2> QED BY <2>1
<1>22. Len(t) = l /\ t[l] = y /\ \A i \in 1..l : i # l => t[i] = s[i]
  <2>1. Len(t) = Len(s)
    BY <1>21
  <2>2. DOMAIN s = 1..l
    BY <1>6, <1>7
  <2> QED BY <1>6, <1>7, <1>21, <2>1, <2>2
<1>23. PICK d : d = WithRelocs(c, n, word, rs)
  OBVIOUS
<1>24. d.sections = t /\ d.symbols = new
  BY <1>5, <1>7, <1>8, <1>12, <1>13, <1>19, <1>21, <1>23 DEF WithRelocs
<1>25. ASSUME NEW i \in 1..l
       PROVE  DataSize(t[i]) = Len(t[i].data) /\ RelocsInside(t[i], new)
  <2>1. CASE i = l
    BY <1>20, <1>22, <2>1
  <2>2. CASE i # l
    <3>1. PICK z : z = s[i] /\ z = t[i]
      BY <1>22, <2>2
    <3>2. DataSize(z) = Len(z.data) /\ RelocsInside(z, old)
      BY <1>5, <1>6, <1>7, <3>1 DEF CoffRight, FileTyped
    <3>3. ASSUME NEW k \in 1..Len(old) PROVE k \in 1..Len(new)
      BY <1>14 DEF Begins
    <3>4. RelocsInside(z, new)
      BY <3>2, <3>3 DEF RelocsInside
    <3> QED BY <3>1, <3>2, <3>4
  <2> QED BY <2>1, <2>2
<1>26. ASSUME NEW i \in 1..n PROVE SectionRight(RangeAt(o, i), t[i + 1], new)
  <2>1. CASE i = n
    BY <1>1, <1>7, <1>20, <1>22, <2>1
  <2>2. CASE i # n
    <3>1. i + 1 \in 1..l /\ i + 1 # l
      BY <1>7, <2>2
    <3>2. PICK z : z = s[i + 1] /\ z = t[i + 1]
      BY <1>22, <3>1
    <3>3. RelocsInside(z, old)
      BY <1>5, <1>7, <3>1, <3>2 DEF CoffRight
    <3>4. SectionRight(RangeAt(o, i), z, old)
      BY <1>5, <3>2 DEF CoffRight
    <3>5. SectionRight(RangeAt(o, i), z, new)
      BY <1>14, <3>3, <3>4, MoreSymbols
    <3> QED BY <3>2, <3>5
  <2> QED BY <2>1, <2>2
<1>27. CoffRight(o, n, d)
  <2>1. FileTyped(d)
    BY <1>14, <1>22, <1>24, <1>25 DEF FileTyped
  <2>2. Len(d.sections) = n + 1
    BY <1>7, <1>22, <1>24
  <2>3. \A i \in 1..n + 1 : RelocsInside(d.sections[i], d.symbols)
    BY <1>7, <1>24, <1>25
  <2>4. \A i \in 1..n : SectionRight(RangeAt(o, i), d.sections[i + 1], d.symbols)
    BY <1>24, <1>26
  <2> QED BY <1>14, <1>24, <2>1, <2>2, <2>3, <2>4 DEF CoffRight
<1>28. LastBelow(d, n, word + 1)
  <2>1. PICK q \in Seq(RelocEntry) : q = y.relocations
    BY <1>20 DEF SectionEntry
  <2>2. ASSUME NEW i \in 1..Len(q) PROVE q[i].address < word + 1
    <3>1. q[i] \in RelocEntry /\ q[i].address <= word
      BY <1>20, <2>1
    <3>2. q[i].address \in Nat
      BY <3>1 DEF RelocEntry
    <3> QED BY <3>1, <3>2
  <2> QED BY <1>7, <1>22, <1>24, <2>1, <2>2 DEF LastBelow
<1> QED BY <1>23, <1>27, <1>28

LEMMA EmptyIsRight == CoffRight(1, 0, EmptyCoff)
BY EmptyCoffRight

\* What the properties of an object file say of the inputs.
asCut == <<syms, dbg, image, slices>>

LEMMA SameSymbols ==
    ASSUME UNCHANGED asCut
    PROVE  Addrs' = Addrs /\ AddrToSym' = AddrToSym
BY DEF asCut, Addrs, AddrToSym, Pairs, PairAddrs

LEMMA SameOriginal ==
    ASSUME UNCHANGED asCut, NEW a
    PROVE  Original(a)' = Original(a)
BY DEF asCut, Original

LEMMA SameSection ==
    ASSUME UNCHANGED asCut, NEW range, NEW s, NEW symbols
    PROVE  SectionRight(range, s, symbols)' <=> SectionRight(range, s, symbols)
<1>1. \A a : Original(a)' = Original(a)
  BY SameOriginal
<1>2. Addrs' = Addrs /\ AddrToSym' = AddrToSym
  BY SameSymbols
<1>3. \A a, v, r, w : RelocRight(a, v, r, symbols, w)' <=> RelocRight(a, v, r, symbols, w)
  BY <1>2 DEF RelocRight
<1>4. \A a, j : WordRight(a, s, j, symbols)' <=> WordRight(a, s, j, symbols)
  BY <1>1, <1>3 DEF WordRight
<1> QED BY <1>4 DEF SectionRight

LEMMA SameDefinitions ==
    ASSUME UNCHANGED asCut, NEW o, NEW n, NEW symbols
    PROVE  SymbolsRight(o, n, symbols)' <=> SymbolsRight(o, n, symbols)
<1>1. \A i : RangeAt(o, i)' = RangeAt(o, i)
  BY DEF asCut, RangeAt
<1>2. Addrs' = Addrs /\ AddrToSym' = AddrToSym
  BY SameSymbols
<1>3. \A y, i, t : IsDefinition(o, y, i, t)' <=> IsDefinition(o, y, i, t)
  BY <1>1 DEF IsDefinition
<1>4. \A k : SymbolRight(o, n, symbols[k])' <=> SymbolRight(o, n, symbols[k])
  BY <1>1, <1>2, <1>3 DEF SymbolRight
<1>5. \A i, t : DefinedOnce(o, symbols, i, t)' <=> DefinedOnce(o, symbols, i, t)
  BY <1>3 DEF DefinedOnce
<1> QED BY <1>1, <1>2, <1>4, <1>5 DEF SymbolsRight

\* As long as the inputs stay, so does what is right.
LEMMA SameCoff ==
    ASSUME UNCHANGED asCut, NEW o, NEW n, NEW c
    PROVE  CoffRight(o, n, c)' <=> CoffRight(o, n, c)
<1>1. \A i : RangeAt(o, i)' = RangeAt(o, i)
  BY DEF asCut, RangeAt
<1>2. \A range, s, symbols : SectionRight(range, s, symbols)' <=> SectionRight(range, s, symbols)
  BY SameSection
<1>3. \A symbols : SymbolsRight(o, n, symbols)' <=> SymbolsRight(o, n, symbols)
  BY SameDefinitions
<1> QED BY <1>1, <1>2, <1>3 DEF CoffRight

LEMMA SameInputs ==
    ASSUME InputsTyped, UNCHANGED asCut, UNCHANGED added
    PROVE  InputsTyped'
BY DEF InputsTyped, asCut

-----------------------------------------------------------------------------
Stages == {"start", "format", "extract", "written", "linked", "unlinkable", "failed"}
SectionsMade == IF at # 0 THEN sec ELSE sec - 1
IsWritten(o) == \E c : CoffRight(o, Len(slices[o].secs), c) /\ objects[o] = CoffFile(c)

\* The instruction that is next is in the section that was begun last.
AtInstruction ==
    /\ HasRange(cur, sec) /\ at \in Text /\ at \in Within(RangeAt(cur, sec))
    /\ LastBelow(coff, sec, at - RangeAt(cur, sec).start + 1)

Nothing == syms = <<>> /\ cur = 1 /\ sec = 1 /\ at = 0 /\ coff = EmptyCoff /\ objects = <<>>

CutInv ==
    /\ stage \in Stages
    /\ stage \in {"start", "format"} => Nothing
    /\ stage = "format" => symfile \in Seq(Line)
    /\ stage # "start" => InputsTyped /\ cur <= Len(slices) + 1
    /\ stage # "start" /\ cur <= Len(slices) => sec <= Len(slices[cur].secs) + 1
    /\ sec \in Nat /\ sec >= 1 /\ cur \in Nat /\ cur >= 1
    /\ CoffRight(cur, SectionsMade, coff)
    /\ at # 0 => stage # "start" /\ AtInstruction
    /\ objects = [o \in 1..(cur - 1) |-> objects[o]]
    /\ \A o \in 1..(cur - 1) : IsWritten(o)
    /\ stage \in {"written", "linked", "unlinkable"} => cur = Len(slices) + 1

LEMMA EmptyLater ==
    CoffRight(1, 0, EmptyCoff)'
BY EmptyIsRight, PTL

LEMMA SameWritten ==
    ASSUME UNCHANGED asCut, NEW o, objects'[o] = objects[o], IsWritten(o)
    PROVE  IsWritten(o)'
<1>1. PICK c : CoffRight(o, Len(slices[o].secs), c) /\ objects[o] = CoffFile(c)
  BY DEF IsWritten
<1>2. slices' = slices
  BY DEF asCut
<1>3. \A n : CoffRight(o, n, c)' <=> CoffRight(o, n, c)
  BY SameCoff
<1> QED BY <1>1, <1>2, <1>3 DEF IsWritten

LEMMA CutInitial ==
    ASSUME CutInit
    PROVE  CutInv
<1>1. stage = "start" /\ Nothing
  BY DEF CutInit, Nothing
<1>2. cur = 1 /\ sec = 1 /\ at = 0 /\ coff = EmptyCoff /\ objects = <<>>
  BY <1>1 DEF Nothing
<1>3. CoffRight(cur, SectionsMade, coff)
  BY <1>2, EmptyCoffRight DEF SectionsMade
<1>4. objects = [o \in 1..(cur - 1) |-> objects[o]]
  BY <1>2
<1>5. \A o \in 1..(cur - 1) : IsWritten(o)
  BY <1>2
<1> QED BY <1>1, <1>2, <1>3, <1>4, <1>5 DEF CutInv, Stages

\* A state with nothing made.
LEMMA NothingMade ==
    ASSUME Nothing', stage' \in Stages \ {"written", "linked", "unlinkable"},
           stage' = "format" => symfile' \in Seq(Line), InputsTyped'
    PROVE  CutInv'
<1>1. cur' = 1 /\ sec' = 1 /\ at' = 0 /\ coff' = EmptyCoff /\ objects' = <<>>
  BY DEF Nothing
<1>2. CoffRight(cur, SectionsMade, coff)'
  <2>1. SectionsMade' = 0
    BY <1>1 DEF SectionsMade
  <2>2. EmptyCoff' = EmptyCoff
    BY DEF EmptyCoff
  <2> QED BY <1>1, <2>1, <2>2, EmptyLater
<1>3. objects' = [o \in 1..(cur' - 1) |-> objects'[o]]
  BY <1>1
<1>4. \A o \in 1..(cur' - 1) : IsWritten(o)'
  BY <1>1
<1>5. PICK s : s = slices'
  OBVIOUS
<1>6. s \in Seq(Slice)
  BY <1>5 DEF InputsTyped, Partition
<1>7. 1 <= Len(s) + 1 /\ (1 <= Len(s) => 1 <= Len(s[1].secs) + 1)
  <2>1. Len(s) \in Nat
    BY <1>6
  <2>2. ASSUME 1 <= Len(s) PROVE Len(s[1].secs) \in Nat
    <3>1. 1 \in 1..Len(s)
      BY <2>1, <2>2
    <3>2. s[1] \in Slice
      BY <1>6, <3>1
    <3>3. s[1].secs \in Seq([start : Nat, end : Nat])
      BY <3>2 DEF Slice
    <3> QED BY <3>3
  <2> QED BY <2>1, <2>2
<1> QED BY <1>1, <1>2, <1>3, <1>4, <1>5, <1>7 DEF CutInv

LEMMA OpenKeeps ==
    ASSUME CutInv, NEW list, Partition(list), Open(list)
    PROVE  CutInv'
<1>1. stage = "start" /\ stage' = "format" /\ Nothing
  BY DEF Open, CutInv
<1>2. Nothing'
  BY <1>1 DEF Open, Nothing, EmptyCoff
<1>3. slices' = list /\ symfile' \in SymbolFiles /\ dbg' \in DebugSymbols
      /\ image' \in Images /\ added' \in AddRelocations
  BY DEF Open
<1>4. symfile' \in Seq(Line) /\ dbg' \in Seq(Line)
  BY <1>3, SliceObjectAssumption
<1>5. syms' \in Seq(Line)
  BY <1>2 DEF Nothing
<1>6. InputsTyped'
  <2>1. Partition(slices)'
    BY <1>3, <1>4
  <2> QED BY <1>3, <1>4, <1>5, <2>1 DEF InputsTyped
<1> QED BY <1>1, <1>2, <1>4, <1>6, NothingMade DEF Stages

LEMMA FormatSymbolsKeeps ==
    ASSUME CutInv, FormatSymbols
    PROVE  CutInv'
<1>1. stage = "format" /\ stage' = "extract" /\ Nothing /\ InputsTyped /\ symfile \in Seq(Line)
  BY DEF FormatSymbols, CutInv
<1>2. syms' \in Seq(Line)
  BY <1>1, DictType DEF FormatSymbols
<1>3. UNCHANGED <<dbg, image, slices, added>>
  BY DEF FormatSymbols, inputs
<1>4. InputsTyped'
  <2>1. Partition(slices)'
    BY <1>1, <1>3 DEF InputsTyped
  <2> QED BY <1>1, <1>2, <1>3, <2>1 DEF InputsTyped
<1>5. cur' = 1 /\ sec' = 1 /\ at' = 0 /\ coff' = EmptyCoff /\ objects' = <<>>
  BY <1>1 DEF FormatSymbols, Nothing
<1>6. CoffRight(cur, SectionsMade, coff)'
  <2>1. SectionsMade' = 0
    BY <1>5 DEF SectionsMade
  <2>2. EmptyCoff' = EmptyCoff
    BY DEF EmptyCoff
  <2> QED BY <1>5, <2>1, <2>2, EmptyLater
<1>7. \A o \in 1..(cur' - 1) : IsWritten(o)'
  BY <1>5
<1>8. objects' = [o \in 1..(cur' - 1) |-> objects'[o]]
  BY <1>5
<1>9. PICK s : s = slices' /\ s \in Seq(Slice)
  BY <1>4 DEF InputsTyped, Partition
<1>10. 1 <= Len(s) + 1 /\ (1 <= Len(s) => 1 <= Len(s[1].secs) + 1)
  <2>1. Len(s) \in Nat
    BY <1>9
  <2>2. ASSUME 1 <= Len(s) PROVE Len(s[1].secs) \in Nat
    <3>1. 1 \in 1..Len(s)
      BY <2>1, <2>2
    <3>2. s[1] \in Slice
      BY <1>9, <3>1
    <3>3. s[1].secs \in Seq([start : Nat, end : Nat])
      BY <3>2 DEF Slice
    <3> QED BY <3>3
  <2> QED BY <2>1, <2>2
<1> QED BY <1>1, <1>4, <1>5, <1>6, <1>7, <1>8, <1>9, <1>10 DEF CutInv, Stages

\* A step that leaves the inputs and the object files that are written.
LEMMA OthersStay ==
    ASSUME CutInv, UNCHANGED <<inputs, syms, cur, objects>>, stage # "start", stage' \in {"extract", "failed"},
           sec' \in Nat, sec' >= 1, cur <= Len(slices) => sec' <= Len(slices[cur].secs) + 1,
           CoffRight(cur, SectionsMade', coff'), at' # 0 => AtInstruction'
    PROVE  CutInv'
<1>1. UNCHANGED asCut /\ UNCHANGED added /\ slices' = slices
  BY DEF inputs, asCut
<1>2. InputsTyped'
  BY <1>1, SameInputs DEF CutInv
<1>3. CoffRight(cur, SectionsMade, coff)'
  <2>1. PICK o, n, c : o = cur /\ n = SectionsMade' /\ c = coff'
    OBVIOUS
  <2>2. CoffRight(o, n, c)'
    <3>1. CoffRight(o, n, c)
      BY <2>1
    <3> QED BY <1>1, <3>1, SameCoff
  <2> QED BY <2>1, <2>2
<1>4. \A o \in 1..(cur' - 1) : IsWritten(o)'
  BY <1>1, SameWritten DEF CutInv
<1>5. objects' = [o \in 1..(cur' - 1) |-> objects'[o]]
  BY DEF CutInv
<1> QED BY <1>1, <1>2, <1>3, <1>4, <1>5 DEF CutInv, Stages

LEMMA BeginSectionKeeps ==
    ASSUME CutInv, BeginSection
    PROVE  CutInv'
<1>1. /\ stage = "extract" /\ cur <= Len(slices) /\ sec <= Len(slices[cur].secs) /\ at = 0
      /\ UNCHANGED <<syms, inputs, cur, objects, stage>>
  BY DEF BeginSection
<1>2. InputsTyped /\ sec \in Nat /\ sec >= 1 /\ cur \in Nat /\ cur >= 1
  BY <1>1 DEF CutInv
<1>3. Len(slices) \in Nat /\ Len(slices[cur].secs) \in Nat
  <2>1. Len(slices) \in Nat
    BY <1>2, SliceFact DEF InputsTyped
  <2>2. cur \in 1..Len(slices)
    BY <1>1, <1>2, <2>1
  <2> QED BY <1>2, <2>1, <2>2, SliceFact DEF InputsTyped
<1>4. HasRange(cur, sec)
  BY <1>1, <1>2, <1>3 DEF HasRange
<1>5. PICK range \in SliceRange : range = RangeAt(cur, sec) /\ range = SecRange
  BY <1>2, <1>4, HasRangeFact DEF InputsTyped, RangeAt, SecRange
<1>6. PICK o, c, d : o = cur /\ c = coff /\ d = coff'
  OBVIOUS
<1>7. CoffRight(o, sec - 1, c)
  BY <1>1, <1>6 DEF CutInv, SectionsMade
<1>8. d = WithSection(c, range, sec + 1)
  BY <1>5, <1>6 DEF BeginSection, WithSection, SectionOf, SymbolsWith, SectionSymbol
<1>9. CoffRight(o, sec, d)
  <2>1. PICK n \in Nat : n = sec - 1
    BY <1>2
  <2>2. sec = n + 1 /\ sec + 1 = n + 2
    BY <1>2, <2>1
  <2>3. CoffRight(o, n, c) /\ HasRange(o, n + 1)
    BY <1>4, <1>6, <1>7, <2>1, <2>2
  <2>4. CoffRight(o, n + 1, WithSection(c, RangeAt(o, n + 1), n + 2))
    BY <1>2, <2>3, SectionAdded
  <2> QED BY <1>5, <1>6, <1>8, <2>2, <2>4
<1>10. CASE at' = SecRange.start /\ sec' = sec /\ SecRange.start \in Text /\ SecRange.start < SecRange.end
  <2>1. at' \in Text /\ at' # 0 /\ SectionsMade' = sec
    BY <1>10, SliceObjectAssumption DEF SectionsMade, Program
  <2>2. RangeAt(cur, sec)' = range /\ HasRange(cur, sec)'
    BY <1>1, <1>4, <1>5, <1>10 DEF RangeAt, HasRange, inputs
  <2>3. at' \in Within(range) /\ at' - range.start + 1 = 1
    <3>1. PICK b \in Nat, e \in Nat : b = range.start /\ e = range.end
      BY DEF SliceRange
    <3> QED BY <1>5, <1>10, <3>1 DEF Within
  <2>4. LastBelow(d, sec, 1)
    <3>1. PICK s \in Seq(SectionEntry) : s = c.sections /\ Len(s) = sec
      <4>1. Len(c.sections) = sec - 1 + 1
        BY <1>7 DEF CoffRight
      <4>2. sec - 1 + 1 = sec
        BY <1>2
      <4> QED BY <1>7, <4>1, <4>2 DEF CoffRight, FileTyped
    <3>2. PICK x : x = SectionOf(range) /\ x.relocations = <<>>
      BY <1>2, <1>4, <1>5, HasRangeFact, SectionOfFact DEF InputsTyped
    <3>3. d.sections = Append(s, x)
      BY <1>8, <3>1, <3>2 DEF WithSection
    <3>4. Append(s, x)[sec + 1] = x
      BY <3>1
    <3>5. d.sections[sec + 1].relocations = <<>>
      BY <3>2, <3>3, <3>4
    <3>6. Len(<<>>) = 0
      OBVIOUS
    <3> QED BY <3>5, <3>6 DEF LastBelow
  <2>5. AtInstruction'
    BY <1>1, <1>6, <1>10, <2>1, <2>2, <2>3, <2>4 DEF AtInstruction
  <2>6. CoffRight(cur, SectionsMade', coff')
    BY <1>6, <1>9, <2>1
  <2>7. sec' <= Len(slices[cur].secs) + 1
    BY <1>1, <1>2, <1>3, <1>10
  <2> QED BY <1>1, <1>2, <1>10, <2>5, <2>6, <2>7, OthersStay
<1>11. CASE at' = 0 /\ sec' = sec + 1
  <2>1. SectionsMade' = sec
    <3>1. ~(at' # 0)
      BY <1>11
    <3>2. PICK n \in Nat : n = sec /\ sec' = n + 1
      BY <1>2, <1>11
    <3>3. sec' - 1 = n
      BY <3>2
    <3> QED BY <3>1, <3>2, <3>3 DEF SectionsMade
  <2>2. CoffRight(cur, SectionsMade', coff')
    BY <1>6, <1>9, <2>1
  <2>3. sec' <= Len(slices[cur].secs) + 1 /\ sec' \in Nat /\ sec' >= 1
    BY <1>1, <1>2, <1>3, <1>11
  <2> QED BY <1>1, <1>11, <2>2, <2>3, OthersStay
<1>12. \/ at' = SecRange.start /\ sec' = sec /\ SecRange.start \in Text /\ SecRange.start < SecRange.end
       \/ at' = 0 /\ sec' = sec + 1
  BY DEF BeginSection
<1> QED BY <1>10, <1>11, <1>12

\* After an instruction comes the next one, or the next section.
LEMMA NextInstruction ==
    ASSUME CutInv, UNCHANGED <<inputs, syms, cur, objects>>, stage = "extract", stage' = "extract", at # 0,
           NEW next \in Nat, AfterInsn(next), at < next, CoffRight(cur, sec, coff'),
           next < SecRange.end => LastBelow(coff', sec, next - SecRange.start + 1)
    PROVE  CutInv'
<1>1. /\ InputsTyped /\ sec \in Nat /\ sec >= 1 /\ cur \in Nat /\ cur >= 1 /\ AtInstruction
      /\ slices' = slices
  BY DEF CutInv, inputs
<1>2. HasRange(cur, sec) /\ at \in Text /\ at \in Within(RangeAt(cur, sec))
  BY <1>1 DEF AtInstruction
<1>3. PICK range \in SliceRange : range = RangeAt(cur, sec) /\ range = SecRange
  BY <1>1, <1>2, HasRangeFact DEF InputsTyped, RangeAt, SecRange
<1>4. PICK b \in Nat, e \in Nat : b = range.start /\ e = range.end
  BY DEF SliceRange
<1>5. at \in Nat /\ b <= at
  BY <1>2, <1>3, <1>4 DEF Within
<1>6. Len(slices[cur].secs) \in Nat /\ sec <= Len(slices[cur].secs)
  <2>1. cur \in 1..Len(slices) /\ sec \in 1..Len(slices[cur].secs)
    BY <1>2 DEF HasRange
  <2>2. Len(slices[cur].secs) \in Nat
    BY <1>1, <2>1, SliceFact DEF InputsTyped
  <2> QED BY <2>1, <2>2
<1>7. CASE next < SecRange.end /\ at' = next /\ sec' = sec
  <2>1. at' # 0 /\ SectionsMade' = sec
    BY <1>5, <1>7 DEF SectionsMade
  <2>2. RangeAt(cur, sec)' = range /\ HasRange(cur, sec)'
    BY <1>1, <1>2, <1>3, <1>7 DEF RangeAt, HasRange
  <2>3. at' \in Within(range)
    BY <1>3, <1>4, <1>5, <1>7 DEF Within
  <2>4. at' \in Text
    <3>1. PICK section \in {Text, Data, Bss} : Within(range) \subseteq section
      BY <1>1, <1>2, <1>3, RangeFact DEF HasRange, InputsTyped
    <3>2. at \in section /\ at' \in section
      BY <1>2, <1>3, <2>3, <3>1
    <3> QED BY <1>2, <3>1, <3>2, SliceObjectAssumption
  <2>5. LastBelow(coff', sec, at' - range.start + 1)
    BY <1>3, <1>7
  <2>6. LastBelow(coff, sec, at - RangeAt(cur, sec).start + 1)'
    BY <1>7, <2>2, <2>5 DEF LastBelow
  <2>7. AtInstruction'
    BY <2>2, <2>3, <2>4, <2>6 DEF AtInstruction
  <2>8. CoffRight(cur, SectionsMade', coff')
    BY <2>1
  <2> QED BY <1>1, <1>6, <1>7, <2>7, <2>8, OthersStay
<1>8. CASE at' = 0 /\ sec' = sec + 1
  <2>1. SectionsMade' = sec
    <3>1. ~(at' # 0)
      BY <1>8
    <3>2. PICK n \in Nat : n = sec /\ sec' = n + 1
      BY <1>1, <1>8
    <3>3. sec' - 1 = n
      BY <3>2
    <3> QED BY <3>1, <3>2, <3>3 DEF SectionsMade
  <2>2. sec' <= Len(slices[cur].secs) + 1 /\ sec' \in Nat /\ sec' >= 1
    BY <1>1, <1>6, <1>8
  <2>3. CoffRight(cur, SectionsMade', coff')
    BY <2>1
  <2> QED BY <1>8, <2>2, <2>3, OthersStay
<1>9. \/ next < SecRange.end /\ at' = next /\ sec' = sec
      \/ at' = 0 /\ sec' = sec + 1
  BY DEF AfterInsn
<1> QED BY <1>7, <1>8, <1>9

LEMMA TwoFields ==
    ASSUME NEW x \in SectionEntry, NEW A, NEW g
    PROVE  [x EXCEPT !.relocations = A, !.data = g]
              = [data |-> g, size |-> x.size, bss |-> x.bss, relocations |-> A]
<1>1. PICK y : y = [x EXCEPT !.relocations = A]
  OBVIOUS
<1>2. y = [data |-> x.data, size |-> x.size, bss |-> x.bss, relocations |-> A]
  BY <1>1 DEF SectionEntry
<1>3. y.size = x.size /\ y.bss = x.bss /\ y.relocations = A
  BY <1>2
<1>4. [y EXCEPT !.data = g] = [data |-> g, size |-> x.size, bss |-> x.bss, relocations |-> A]
  BY <1>2
<1>5. [x EXCEPT !.relocations = A, !.data = g] = [y EXCEPT !.data = g]
  BY <1>1
<1> QED BY <1>4, <1>5

\* AddRelocation, in terms of the section that it changes.
LEMMA AddRelocationIs ==
    ASSUME NEW c, FileTyped(c), Len(c.sections) = sec + 1, sec \in Nat, sec >= 1,
           NEW word \in Nat, word = at - SecRange.start + 1, NEW rs
    PROVE  AddRelocation(c, rs) = WithRelocs(c, sec, word, rs)
<1>1. PICK n \in Nat : n = sec + 1 /\ n = Len(c.sections)
  OBVIOUS
<1>2. PICK s \in Seq(SectionEntry) : s = c.sections /\ DOMAIN s = 1..n
  BY <1>1 DEF FileTyped
<1>3. n \in 1..n
  BY <1>1
<1>4. PICK x \in SectionEntry : x = s[n]
  BY <1>2, <1>3
<1>5. PICK q : q = RelocationsFor(rs, word, Len(c.symbols))
  OBVIOUS
<1>6. PICK g : g = [x.data EXCEPT ![word] = Relocated(x.data[word], rs)]
  OBVIOUS
<1>7. [x EXCEPT !.relocations = x.relocations \o q, !.data = g]
          = [data |-> g, size |-> x.size, bss |-> x.bss, relocations |-> x.relocations \o q]
  BY TwoFields
<1>8. Rewritten(x, rs, word, Len(c.symbols)) = [x EXCEPT !.relocations = x.relocations \o q, !.data = g]
  BY <1>5, <1>6, <1>7 DEF Rewritten
<1> DEFINE t == [s EXCEPT ![n].relocations = @ \o q, ![n].data[word] = Relocated(@, rs)]
<1>9. t = [s EXCEPT ![n] = [x EXCEPT !.relocations = x.relocations \o q, !.data = g]]
  <2>1. PICK y : y = [x EXCEPT !.relocations = x.relocations \o q]
    OBVIOUS
  <2>2. y.data = x.data
    BY <2>1 DEF SectionEntry
  <2>3. PICK u : u = [s EXCEPT ![n] = y]
    OBVIOUS
  <2>4. u[n] = y /\ DOMAIN u = 1..n
    BY <1>2, <1>3, <2>3
  <2>5. t = [u EXCEPT ![n].data[word] = Relocated(@, rs)]
    BY <1>4, <2>1, <2>3
  <2>6. [u EXCEPT ![n].data[word] = Relocated(@, rs)] = [u EXCEPT ![n] = [y EXCEPT !.data = g]]
    BY <1>6, <2>2, <2>4
  <2>7. [u EXCEPT ![n] = [y EXCEPT !.data = g]] = [s EXCEPT ![n] = [y EXCEPT !.data = g]]
    BY <2>3
  <2>8. [y EXCEPT !.data = g] = [x EXCEPT !.relocations = x.relocations \o q, !.data = g]
    BY <2>1
  <2> QED BY <2>5, <2>6, <2>7, <2>8
<1> HIDE DEF t
<1>10. t = [s EXCEPT ![n] = Rewritten(x, rs, word, Len(c.symbols))]
  BY <1>8, <1>9
<1>11. AddRelocation(c, rs).sections = t
  BY <1>1, <1>2, <1>5 DEF AddRelocation, RelocationsFor, t
<1>12. AddRelocation(c, rs) = [symbols |-> c.symbols \o UndefinedOnes(rs), sections |-> t]
  BY <1>1, <1>2, <1>5 DEF AddRelocation, RelocationsFor, UndefinedOnes, t
<1> QED BY <1>1, <1>2, <1>4, <1>10, <1>12 DEF WithRelocs

LEMMA InsnKeeps ==
    ASSUME CutInv, Insn
    PROVE  CutInv'
<1>1. /\ stage = "extract" /\ at # 0 /\ ~Fails(at, image[at]) /\ AfterInsn(at + 1)
      /\ UNCHANGED <<syms, inputs, cur, objects, stage>>
  BY DEF Insn, Disassembling
<1>2. InputsTyped /\ sec \in Nat /\ sec >= 1 /\ AtInstruction
  BY <1>1 DEF CutInv
<1>3. HasRange(cur, sec) /\ at \in Text /\ at \in Within(RangeAt(cur, sec))
  BY <1>2 DEF AtInstruction
<1>4. PICK range \in SliceRange : range = RangeAt(cur, sec) /\ range = SecRange
  BY <1>2, <1>3, HasRangeFact DEF InputsTyped, RangeAt, SecRange
<1>5. PICK b \in Nat, e \in Nat : b = range.start /\ e = range.end
  BY DEF SliceRange
<1>6. at \in Nat /\ b <= at
  BY <1>3, <1>4, <1>5 DEF Within
<1>7. PICK word \in Nat : word = at - range.start + 1 /\ at + 1 - range.start + 1 = word + 1
  <2>1. PICK a \in Nat : a = at /\ b <= a
    BY <1>6
  <2>2. a - b + 1 \in Nat /\ (a + 1) - b + 1 = (a - b + 1) + 1
    BY <2>1
  <2> QED BY <1>5, <2>1, <2>2
<1>8. PICK o, c, d, a, rs : o = cur /\ c = coff /\ d = coff' /\ a = at /\ rs = Relocs(at, image[at])
  OBVIOUS
<1>9. CoffRight(o, sec, c)
  BY <1>1, <1>8 DEF CutInv, SectionsMade
<1>10. LastBelow(c, sec, word)
  BY <1>2, <1>4, <1>7, <1>8 DEF AtInstruction
<1>11. RelocsRight(a, image[a], rs)
  BY <1>1, <1>2, <1>3, <1>8, RelocsFact DEF InputsTyped
<1>12. d = WithRelocs(c, sec, word, rs)
  <2>1. d = AddRelocation(c, rs)
    BY <1>8 DEF Insn
  <2>2. FileTyped(c) /\ Len(c.sections) = sec + 1
    BY <1>9 DEF CoffRight
  <2>3. word = at - SecRange.start + 1
    BY <1>4, <1>7
  <2> QED BY <1>2, <2>1, <2>2, <2>3, AddRelocationIs
<1>13. CoffRight(o, sec, d) /\ LastBelow(d, sec, word + 1)
  <2>1. /\ HasRange(o, sec) /\ a \in Text /\ a \in Within(RangeAt(o, sec))
        /\ word = a - RangeAt(o, sec).start + 1
    BY <1>3, <1>4, <1>7, <1>8
  <2>2. CoffRight(o, sec, WithRelocs(c, sec, word, rs))
    BY <1>2, <1>9, <1>10, <1>11, <2>1, WordRelocated
  <2>3. LastBelow(WithRelocs(c, sec, word, rs), sec, word + 1)
    BY <1>2, <1>9, <1>10, <1>11, <2>1, WordRelocated
  <2> QED BY <1>12, <2>2, <2>3
<1>14. CoffRight(cur, sec, coff')
  BY <1>8, <1>13
<1>15. PICK next \in Nat : next = at + 1 /\ at < next
  <2>1. at + 1 \in Nat /\ at < at + 1
    BY <1>6
  <2> QED BY <2>1
<1>16. AfterInsn(next) /\ LastBelow(coff', sec, next - SecRange.start + 1)
  <2>1. AfterInsn(next)
    BY <1>1, <1>15
  <2>2. next - SecRange.start + 1 = word + 1
    <3>1. PICK i \in Nat : i = at /\ b <= i
      BY <1>6
    <3>2. word = i - b + 1 /\ next = i + 1
      BY <1>5, <1>7, <1>15, <3>1
    <3>3. next - b + 1 = word + 1
      BY <3>1, <3>2
    <3> QED BY <1>4, <1>5, <3>3
  <2> QED BY <1>8, <1>13, <2>1, <2>2
<1> QED BY <1>1, <1>14, <1>15, <1>16, NextInstruction

LEMMA InsnFailsKeeps ==
    ASSUME CutInv, InsnFails
    PROVE  CutInv'
<1>1. /\ stage = "extract" /\ at # 0 /\ stage' = "failed"
      /\ UNCHANGED <<syms, inputs, cur, sec, at, coff, objects>>
  BY DEF InsnFails, Disassembling
<1>2. SectionsMade' = SectionsMade
  BY <1>1 DEF SectionsMade
<1>3. CoffRight(cur, SectionsMade', coff')
  BY <1>1, <1>2 DEF CutInv
<1>4. AtInstruction'
  BY <1>1 DEF CutInv, AtInstruction, HasRange, RangeAt, LastBelow, inputs
<1>5. cur <= Len(slices) => sec <= Len(slices[cur].secs) + 1
  BY <1>1 DEF CutInv
<1> QED BY <1>1, <1>3, <1>4, <1>5, OthersStay DEF CutInv

LEMMA JunkKeeps ==
    ASSUME CutInv, Junk
    PROVE  CutInv'
<1>1. /\ stage = "extract" /\ at # 0 /\ AfterInsn(SecRange.end)
      /\ UNCHANGED <<syms, inputs, cur, coff, objects, stage>>
  BY DEF Junk, Disassembling
<1>2. InputsTyped /\ AtInstruction
  BY <1>1 DEF CutInv
<1>3. PICK range \in SliceRange : range = RangeAt(cur, sec) /\ range = SecRange
  BY <1>2, HasRangeFact DEF AtInstruction, InputsTyped, RangeAt, SecRange
<1>4. PICK b \in Nat, e \in Nat : b = range.start /\ e = range.end
  BY DEF SliceRange
<1>5. at \in b..(e - 1)
  BY <1>2, <1>3, <1>4 DEF AtInstruction, Within
<1>6. SecRange.end \in Nat /\ at < SecRange.end /\ ~(SecRange.end < SecRange.end)
  BY <1>3, <1>4, <1>5
<1>7. CoffRight(cur, sec, coff')
  BY <1>1 DEF CutInv, SectionsMade
<1> QED BY <1>1, <1>6, <1>7, NextInstruction

\* One more object file.
LEMMA OneMore ==
    ASSUME NEW n \in Nat, NEW s, s = [i \in 1..n |-> s[i]], NEW x
    PROVE  /\ Append(s, x) = [i \in 1..(n + 1) |-> Append(s, x)[i]]
           /\ Append(s, x)[n + 1] = x
           /\ \A i \in 1..n : Append(s, x)[i] = s[i]
<1> DEFINE X == { s[i] : i \in 1..n } \cup {x}
<1>1. PICK t : t = [i \in 1..n |-> s[i]]
  OBVIOUS
<1>2. t \in Seq(X) /\ Len(t) = n
  BY <1>1
<1>3. s = t
  BY <1>1
<1>4. x \in X
  OBVIOUS
<1> HIDE DEF X
<1>5. PICK u \in Seq(X) : u = Append(t, x)
  <2>1. Append(t, x) \in Seq(X)
    BY <1>2, <1>4
  <2> QED BY <2>1
<1>6. Len(u) = n + 1 /\ u[n + 1] = x /\ \A i \in 1..n : u[i] = t[i]
  BY <1>2, <1>5
<1>7. u = [i \in 1..(n + 1) |-> u[i]]
  BY <1>6
<1> QED BY <1>3, <1>5, <1>6, <1>7

LEMMA WriteSliceKeeps ==
    ASSUME CutInv, WriteSlice
    PROVE  CutInv'
<1>1. /\ stage = "extract" /\ cur <= Len(slices) /\ sec > Len(slices[cur].secs)
      /\ objects' = Append(objects, CoffFile(coff)) /\ coff' = EmptyCoff
      /\ cur' = cur + 1 /\ sec' = 1 /\ stage' = (IF cur = Len(slices) THEN "written" ELSE stage)
      /\ UNCHANGED <<syms, inputs, at>>
  BY DEF WriteSlice
<1>2. /\ InputsTyped /\ sec \in Nat /\ sec >= 1 /\ cur \in Nat /\ cur >= 1
      /\ sec <= Len(slices[cur].secs) + 1 /\ (at # 0 => AtInstruction)
      /\ CoffRight(cur, SectionsMade, coff)
      /\ objects = [o \in 1..(cur - 1) |-> objects[o]]
      /\ \A o \in 1..(cur - 1) : IsWritten(o)
  BY <1>1 DEF CutInv
<1>3. Len(slices) \in Nat /\ \A o \in 1..Len(slices) : Len(slices[o].secs) \in Nat
  BY <1>2, SliceFact DEF InputsTyped
<1>4. PICK k \in Nat, l \in Nat, n \in Nat : k = cur /\ l = Len(slices[cur].secs) /\ n = Len(slices)
  <2>1. cur \in 1..Len(slices)
    BY <1>1, <1>2, <1>3
  <2> QED BY <1>2, <1>3, <2>1
<1>5. at = 0
  <2>1. ASSUME at # 0 PROVE FALSE
    <3>1. sec \in 1..l
      BY <1>2, <1>4, <2>1 DEF AtInstruction, HasRange
    <3> QED BY <1>1, <1>4, <3>1
  <2> QED BY <2>1
<1>6. SectionsMade = l
  <2>1. PICK i \in Nat : i = sec /\ i > l /\ i <= l + 1
    BY <1>1, <1>2, <1>4
  <2>2. i - 1 = l
    BY <2>1
  <2> QED BY <1>5, <2>1, <2>2 DEF SectionsMade
<1>7. UNCHANGED asCut /\ UNCHANGED added /\ slices' = slices
  BY <1>1 DEF inputs, asCut
<1>8. InputsTyped'
  BY <1>2, <1>7, SameInputs
<1>9. PICK c : c = coff /\ CoffRight(k, l, c)
  BY <1>2, <1>4, <1>6
<1>10. PICK m \in Nat : m = k - 1 /\ m + 1 = k /\ k + 1 - 1 = m + 1
  <2>1. k >= 1
    BY <1>2, <1>4
  <2>2. k - 1 \in Nat /\ (k - 1) + 1 = k /\ k + 1 - 1 = (k - 1) + 1
    BY <2>1
  <2> QED BY <2>2
<1>11. /\ objects' = [o \in 1..(m + 1) |-> objects'[o]]
       /\ objects'[m + 1] = CoffFile(coff)
       /\ \A o \in 1..m : objects'[o] = objects[o]
  <2>1. PICK s, x : s = objects /\ x = CoffFile(coff)
    OBVIOUS
  <2>2. s = [o \in 1..m |-> s[o]]
    BY <1>2, <1>4, <1>10, <2>1
  <2>3. Append(s, x) = [i \in 1..(m + 1) |-> Append(s, x)[i]]
    BY <2>2, OneMore
  <2>4. Append(s, x)[m + 1] = x
    BY <2>2, OneMore
  <2>5. \A i \in 1..m : Append(s, x)[i] = s[i]
    BY <2>2, OneMore
  <2> QED BY <1>1, <2>1, <2>3, <2>4, <2>5
<1>12. IsWritten(k)'
  <2>1. CoffRight(k, l, c)'
    BY <1>7, <1>9, SameCoff
  <2>2. objects'[k] = CoffFile(c) /\ l = Len(slices'[k].secs)
    BY <1>4, <1>7, <1>9, <1>10, <1>11
  <2> QED BY <2>1, <2>2 DEF IsWritten
<1>13. ASSUME NEW o \in 1..(m + 1) PROVE IsWritten(o)'
  <2>1. CASE o = m + 1
    BY <1>10, <1>12, <2>1
  <2>2. CASE o \in 1..m
    <3>1. IsWritten(o) /\ objects'[o] = objects[o]
      BY <1>2, <1>4, <1>10, <1>11, <2>2
    <3> QED BY <1>7, <3>1, SameWritten
  <2>3. o = m + 1 \/ o \in 1..m
    OBVIOUS
  <2> QED BY <2>1, <2>2, <2>3
<1>14. CoffRight(cur, SectionsMade, coff)'
  <2>1. EmptyCoff' = EmptyCoff
    BY DEF EmptyCoff
  <2>2. SectionsMade' = 0
    BY <1>1, <1>5 DEF SectionsMade
  <2>3. PICK o : o = cur'
    OBVIOUS
  <2>4. CoffRight(o, 0, EmptyCoff)
    BY EmptyCoffRight
  <2>5. PICK d : d = EmptyCoff
    OBVIOUS
  <2>6. CoffRight(o, 0, d)'
    BY <1>7, <2>4, <2>5, SameCoff
  <2> QED BY <1>1, <2>1, <2>2, <2>3, <2>5, <2>6
<1>15. stage' \in {"extract", "written"} /\ (stage' = "written" => cur' = Len(slices') + 1)
  BY <1>1, <1>7
<1>16. cur' - 1 = m + 1 /\ cur' \in Nat /\ cur' >= 1 /\ cur' <= Len(slices') + 1
  <2>1. k + 1 <= n + 1 /\ k + 1 >= 1
    BY <1>1, <1>4
  <2> QED BY <1>1, <1>4, <1>7, <1>10, <2>1
<1>17. cur' <= Len(slices') => sec' <= Len(slices'[cur'].secs) + 1
  <2>1. ASSUME cur' <= Len(slices') PROVE Len(slices[cur'].secs) \in Nat
    <3>1. cur' \in 1..Len(slices)
      BY <1>3, <1>7, <1>16, <2>1
    <3> QED BY <1>3, <3>1
  <2> QED BY <1>1, <1>7, <2>1
<1>18. objects' = [o \in 1..(cur' - 1) |-> objects'[o]] /\ \A o \in 1..(cur' - 1) : IsWritten(o)'
  BY <1>11, <1>13, <1>16
<1>19. at' = 0 /\ sec' \in Nat /\ sec' >= 1
  BY <1>1, <1>5
<1> QED BY <1>8, <1>14, <1>15, <1>16, <1>17, <1>18, <1>19 DEF CutInv, Stages

LEMMA LinkKeeps ==
    ASSUME CutInv, Link
    PROVE  CutInv'
<1>1. /\ stage = "written" /\ stage' \in {"linked", "unlinkable"}
      /\ UNCHANGED <<syms, inputs, cur, sec, at, coff, objects>>
  BY DEF Link
<1>2. UNCHANGED asCut /\ UNCHANGED added /\ slices' = slices
  BY <1>1 DEF inputs, asCut
<1>3. InputsTyped'
  BY <1>1, <1>2, SameInputs DEF CutInv
<1>4. CoffRight(cur, SectionsMade, coff)'
  <2>1. PICK o, n, c : o = cur /\ n = SectionsMade /\ c = coff
    OBVIOUS
  <2>2. CoffRight(o, n, c)'
    <3>1. CoffRight(o, n, c)
      BY <2>1 DEF CutInv
    <3> QED BY <1>2, <3>1, SameCoff
  <2>3. SectionsMade' = n
    BY <1>1, <2>1 DEF SectionsMade
  <2> QED BY <1>1, <2>1, <2>2, <2>3
<1>5. \A o \in 1..(cur' - 1) : IsWritten(o)'
  BY <1>1, <1>2, SameWritten DEF CutInv
<1>6. objects' = [o \in 1..(cur' - 1) |-> objects'[o]]
  BY <1>1 DEF CutInv
<1>7. at' # 0 => AtInstruction'
  BY <1>1 DEF CutInv, AtInstruction, HasRange, RangeAt, LastBelow, inputs
<1> QED BY <1>1, <1>2, <1>3, <1>4, <1>5, <1>6, <1>7 DEF CutInv, Stages

LEMMA CuttingStays ==
    ASSUME CutInv, UNCHANGED cutting
    PROVE  CutInv'
<1>1. UNCHANGED <<stage, symfile, syms, dbg, image, slices, added, cur, sec, at, coff, objects>>
  BY DEF cutting, inputs
<1>2. UNCHANGED asCut
  BY <1>1 DEF asCut
<1>3. CoffRight(cur, SectionsMade, coff)'
  <2>1. PICK o, n, c : o = cur /\ n = SectionsMade /\ c = coff
    OBVIOUS
  <2>2. CoffRight(o, n, c)'
    <3>1. CoffRight(o, n, c)
      BY <2>1 DEF CutInv
    <3> QED BY <1>2, <3>1, SameCoff
  <2>3. SectionsMade' = n
    BY <1>1, <2>1 DEF SectionsMade
  <2> QED BY <1>1, <2>1, <2>2, <2>3
<1>4. \A o \in 1..(cur' - 1) : IsWritten(o)'
  BY <1>1, <1>2, SameWritten DEF CutInv
<1>5. objects' = [o \in 1..(cur' - 1) |-> objects'[o]]
  BY <1>1 DEF CutInv
<1>6. at' # 0 => stage' # "start" /\ AtInstruction'
  BY <1>1 DEF CutInv, AtInstruction, HasRange, RangeAt, LastBelow
<1>7. stage' # "start" => InputsTyped'
  BY <1>1, <1>2, SameInputs DEF CutInv
<1>8. stage' \in {"start", "format"} => Nothing'
  BY <1>1 DEF CutInv, Nothing, EmptyCoff
<1> QED BY <1>1, <1>3, <1>4, <1>5, <1>6, <1>7, <1>8 DEF CutInv

LEMMA CutStep ==
    ASSUME LoadInv, CutInv, [SlicingNext]_<<loading, cutting>>
    PROVE  CutInv'
<1>1. ASSUME phase = "loaded", InConfigOrder(parsed), Open(LoadedSlices) PROVE CutInv'
  <2>1. Partition(LoadedSlices)
    BY <1>1, LoadedPartition
  <2> QED BY <1>1, <2>1, OpenKeeps
<1>2. CASE FormatSymbols
  BY <1>2, FormatSymbolsKeeps
<1>3. CASE BeginSection
  BY <1>3, BeginSectionKeeps
<1>4. CASE Insn
  BY <1>4, InsnKeeps
<1>5. CASE InsnFails
  BY <1>5, InsnFailsKeeps
<1>6. CASE Junk
  BY <1>6, JunkKeeps
<1>7. CASE WriteSlice
  BY <1>7, WriteSliceKeeps
<1>8. CASE Link
  BY <1>8, LinkKeeps
<1>9. CASE UNCHANGED cutting
  BY <1>9, CuttingStays
<1>10. CASE Loads
  BY <1>9, <1>10 DEF Loads
<1>11. CASE Cuts
  BY <1>1, <1>2, <1>3, <1>4, <1>5, <1>6, <1>7, <1>8, <1>11 DEF Cuts, CanLink, CutNext
<1>12. CASE Done
  BY <1>9, <1>12 DEF Done
<1> QED BY <1>9, <1>10, <1>11, <1>12 DEF SlicingNext

\* What the invariant says of the object file in the making.
LEMMA CutTyped ==
    ASSUME CutInv
    PROVE  CutTypeOK
<1>1. PICK n, c : n = SectionsMade /\ c = coff /\ CoffRight(cur, n, c)
  BY DEF CutInv
<1>2. PICK k \in Nat : Len(c.sections) = k /\ k = n + 1
  <2>1. c.sections \in Seq(SectionEntry)
    BY <1>1 DEF CoffRight, FileTyped
  <2>2. Len(c.sections) \in Nat /\ Len(c.sections) = n + 1
    BY <1>1, <2>1 DEF CoffRight
  <2> QED BY <2>2
<1>3. PICK s \in Seq(SectionEntry), y \in Seq(SymbolEntry) : s = c.sections /\ y = c.symbols
  BY <1>1 DEF CoffRight, FileTyped
<1>4. ASSUME NEW i \in DOMAIN s, NEW j \in DOMAIN s[i].relocations
      PROVE  s[i].relocations[j].address \in DOMAIN s[i].data /\ s[i].relocations[j].sym_index < Len(y)
  <2>1. i \in 1..k
    BY <1>2, <1>3
  <2>2. PICK x \in SectionEntry : x = s[i]
    BY <1>3
  <2>3. PICK d \in Seq(Word), r \in Seq(RelocEntry) : d = x.data /\ r = x.relocations
    BY DEF SectionEntry
  <2>4. RelocsInside(x, y)
    BY <1>1, <1>2, <1>3, <2>1, <2>2 DEF CoffRight
  <2>5. j \in 1..Len(r)
    BY <2>2, <2>3
  <2>6. r[j].address \in 1..Len(d) /\ r[j].sym_index + 1 \in 1..Len(y)
    BY <2>3, <2>4, <2>5 DEF RelocsInside
  <2>7. r[j].sym_index \in Nat
    <3>1. r[j] \in RelocEntry
      BY <2>5
    <3> QED BY <3>1 DEF RelocEntry
  <2>8. r[j].sym_index < Len(y)
    BY <2>6, <2>7
  <2> QED BY <2>2, <2>3, <2>6, <2>8
<1>5. ASSUME NEW j \in DOMAIN y PROVE y[j].section_number <= Len(s)
  <2>1. SymbolRight(cur, n, y[j])
    BY <1>1, <1>3 DEF CoffRight, SymbolsRight
  <2> QED BY <1>2, <1>3, <2>1 DEF SymbolRight
<1> QED BY <1>1, <1>3, <1>4, <1>5 DEF CutTypeOK, CutInv, Stages

LEMMA FilesAreWhole ==
    ASSUME CutInv
    PROVE  ObjectFilesWhole
<1>1. ASSUME NEW o \in 1..(cur - 1) PROVE DOMAIN objects[o] = 0..(WordsOf(objects[o]) - 1)
  <2>1. PICK c : CoffRight(o, Len(slices[o].secs), c) /\ objects[o] = CoffFile(c)
    BY DEF CutInv, IsWritten
  <2>2. FileTyped(c)
    BY <2>1 DEF CoffRight
  <2>3. ReadsAs(CoffFile(c), c)
    BY <2>2, FileReads
  <2> QED BY <2>1, <2>2, <2>3, FileWhole
<1>2. DOMAIN objects = 1..(cur - 1)
  BY DEF CutInv
<1> QED BY <1>1, <1>2, CutTyped DEF ObjectFilesWhole

(***************************************************************************)
(* What COFF.write leaves in an object file for any slice of any program:  *)
(* every word from the header to the last name is written, nothing lies on *)
(* anything else, and a relocation refers to a word of its own section and *)
(* to a symbol that is there, however often extract_slice added one.       *)
(***************************************************************************)
THEOREM ObjectFilesAreWhole == SlicingSpec => []ObjectFilesWhole
<1>1. SlicingInit => CutInv
  BY CutInitial DEF SlicingInit
<1>2. LoadInv /\ CutInv /\ [SlicingNext]_<<loading, cutting>> => CutInv'
  BY CutStep
<1>3. CutInv => ObjectFilesWhole
  BY FilesAreWhole
<1> QED BY <1>1, <1>2, <1>3, LoadInvHolds, PTL DEF SlicingSpec

SectionsOf(o) == Len(slices[o].secs)
SymbolAt(o, k) == SymAt(objects[o], k)

\* The symbol k of the object file o is the one definition of t in its section i.
OnlyDefinition(o, k, i, t) ==
    /\ k \in SymIndices(objects[o]) /\ IsDefinition(o, SymbolAt(o, k), i, t)
    /\ \A j \in SymIndices(objects[o]) : IsDefinition(o, SymbolAt(o, j), i, t) => j = k

\* The symbols in an object file that was written.
LEMMA WrittenSymbols ==
    ASSUME NEW o, IsWritten(o)
    PROVE  /\ \A k \in SymIndices(objects[o]) : SymbolRight(o, SectionsOf(o), SymbolAt(o, k))
           /\ \A i \in 1..SectionsOf(o) : \A t \in Addrs : t \in Within(RangeAt(o, i)) =>
                 \E k \in SymIndices(objects[o]) : OnlyDefinition(o, k, i, t)
<1>1. PICK c : CoffRight(o, SectionsOf(o), c) /\ objects[o] = CoffFile(c)
  BY DEF IsWritten, SectionsOf
<1>2. FileTyped(c) /\ SymbolsRight(o, SectionsOf(o), c.symbols)
  BY <1>1 DEF CoffRight
<1>3. PICK f : f = objects[o] /\ ReadsAs(f, c)
  BY <1>1, <1>2, FileReads
<1>4. PICK m \in Nat : m = Len(c.symbols)
  BY <1>2 DEF FileTyped
<1>5. SymIndices(f) = 0..(m - 1)
  BY <1>3, <1>4 DEF ReadsAs, FileHeader, SymIndices
<1>6. ASSUME NEW k \in 0..(m - 1) PROVE k + 1 \in 1..m /\ k + 1 - 1 = k
  OBVIOUS
<1>7. ASSUME NEW k \in 1..m PROVE k - 1 \in 0..(m - 1)
  OBVIOUS
<1>8. ASSUME NEW k \in 1..m
      PROVE  /\ SymAt(f, k - 1).name = c.symbols[k].name
             /\ SymAt(f, k - 1).value = c.symbols[k].value
             /\ SymAt(f, k - 1).section_number = c.symbols[k].section_number
             /\ SymAt(f, k - 1).external = c.symbols[k].external
  BY <1>2, <1>3, <1>4, SymAtFact
<1>9. ASSUME NEW k \in 1..m, NEW i, NEW t
      PROVE  IsDefinition(o, SymAt(f, k - 1), i, t) <=> IsDefinition(o, c.symbols[k], i, t)
  BY <1>8 DEF IsDefinition
<1>10. ASSUME NEW k \in 0..(m - 1) PROVE SymbolRight(o, SectionsOf(o), SymAt(f, k))
  <2>1. PICK j \in 1..m : j = k + 1 /\ j - 1 = k
    BY <1>6
  <2>2. SymbolRight(o, SectionsOf(o), c.symbols[j])
    BY <1>2, <1>4 DEF SymbolsRight
  <2>3. \A i, t : IsDefinition(o, SymAt(f, k), i, t) <=> IsDefinition(o, c.symbols[j], i, t)
    BY <1>9, <2>1
  <2>4. /\ SymAt(f, k).name = c.symbols[j].name
        /\ SymAt(f, k).section_number = c.symbols[j].section_number
        /\ SymAt(f, k).external = c.symbols[j].external
    BY <1>8, <2>1
  <2> QED BY <2>2, <2>3, <2>4 DEF SymbolRight
<1>11. ASSUME NEW i \in 1..SectionsOf(o), NEW t \in Addrs, t \in Within(RangeAt(o, i))
       PROVE  \E k \in 0..(m - 1) : OnlyDefinition(o, k, i, t)
  <2>1. PICK j \in 1..m : /\ IsDefinition(o, c.symbols[j], i, t)
                          /\ \A h \in 1..m : IsDefinition(o, c.symbols[h], i, t) => h = j
    BY <1>2, <1>4, <1>11 DEF SymbolsRight, DefinedOnce
  <2>2. PICK k \in 0..(m - 1) : k = j - 1
    BY <1>7
  <2>3. IsDefinition(o, SymAt(f, k), i, t)
    BY <1>9, <2>1, <2>2
  <2>4. ASSUME NEW h \in 0..(m - 1), IsDefinition(o, SymAt(f, h), i, t) PROVE h = k
    <3>1. PICK g \in 1..m : g = h + 1 /\ g - 1 = h
      BY <1>6
    <3>2. IsDefinition(o, c.symbols[g], i, t)
      BY <1>9, <2>4, <3>1
    <3>3. g = j
      BY <2>1, <3>2
    <3> QED BY <2>2, <3>1, <3>3
  <2> QED BY <1>3, <1>5, <2>3, <2>4 DEF OnlyDefinition, SymbolAt
<1> QED BY <1>3, <1>5, <1>10, <1>11 DEF SymbolAt

-----------------------------------------------------------------------------
(***************************************************************************)
(* Definitions, once every object file is written.                         *)
(***************************************************************************)
AllWritten ==
    /\ InputsTyped /\ DOMAIN objects = 1..Len(slices)
    /\ \A o \in 1..Len(slices) : IsWritten(o)

LEMMA WithinProgram ==
    ASSUME Partition(slices), NEW t \in Program
    PROVE  \E o \in 1..Len(slices) : \E i \in 1..SectionsOf(o) : t \in Within(RangeAt(o, i))
<1>1. PICK p \in Parts(slices) : t \in Within(RangeOf(slices, p))
  BY DEF Partition
<1>2. slices \in Seq(Slice)
  BY DEF Partition
<1>3. PICK o \in DOMAIN slices : p \in {o} \X DOMAIN slices[o].secs
  BY <1>1 DEF Parts
<1>4. p[1] = o /\ p[2] \in DOMAIN slices[o].secs /\ o \in 1..Len(slices)
  BY <1>2, <1>3
<1>5. slices[o].secs \in Seq(SliceRange)
  BY <1>4, SliceFact
<1>6. p[2] \in 1..SectionsOf(o)
  BY <1>4, <1>5 DEF SectionsOf
<1>7. t \in Within(RangeAt(o, p[2]))
  BY <1>1, <1>4 DEF RangeOf, RangeAt
<1> QED BY <1>4, <1>6, <1>7

LEMMA OnePart ==
    ASSUME Partition(slices), NEW t,
           NEW o \in 1..Len(slices), NEW i \in 1..SectionsOf(o), t \in Within(RangeAt(o, i)),
           NEW q \in 1..Len(slices), NEW j \in 1..SectionsOf(q), t \in Within(RangeAt(q, j))
    PROVE  o = q /\ i = j
<1>1. <<o, i>> \in Parts(slices) /\ RangeOf(slices, <<o, i>>) = RangeAt(o, i)
  BY RangeFact DEF SectionsOf
<1>2. <<q, j>> \in Parts(slices) /\ RangeOf(slices, <<q, j>>) = RangeAt(q, j)
  BY RangeFact DEF SectionsOf
<1>3. PICK x, y : x = <<o, i>> /\ y = <<q, j>>
  OBVIOUS
<1>4. Within(RangeOf(slices, x)) \cap Within(RangeOf(slices, y)) # {}
  BY <1>1, <1>2, <1>3
<1>5. x = y
  BY <1>1, <1>2, <1>3, <1>4 DEF Partition
<1> QED BY <1>3, <1>5

\* What a definition of a name is.
IsDefinedAt(o, k, i, t, name) ==
    /\ o \in 1..Len(slices) /\ k \in SymIndices(objects[o]) /\ i \in 1..SectionsOf(o)
    /\ t \in Addrs /\ t \in Within(RangeAt(o, i)) /\ name = AddrToSym[t]
    /\ IsDefinition(o, SymbolAt(o, k), i, t)

LEMMA EachDefinition ==
    ASSUME AllWritten, NEW name, NEW d \in Definitions(name)
    PROVE  \E i, t : IsDefinedAt(d[1], d[2], i, t, name)
<1>1. PICK o \in DOMAIN objects :
         d \in {o} \X { k \in SymIndices(objects[o]) : Defines(objects[o], k, name) }
  BY DEF Definitions
<1>2. PICK k \in SymIndices(objects[o]) : d[1] = o /\ d[2] = k /\ Defines(objects[o], k, name)
  BY <1>1
<1>3. o \in 1..Len(slices) /\ IsWritten(o)
  BY DEF AllWritten
<1>4. SymbolRight(o, SectionsOf(o), SymbolAt(o, k))
  BY <1>3, WrittenSymbols
<1>5. SymbolAt(o, k).external /\ SymbolAt(o, k).section_number > 0 /\ SymbolAt(o, k).name = name
  BY <1>2 DEF Defines, SymbolAt
<1>6. PICK t \in Addrs : /\ name = AddrToSym[t]
                         /\ \E i \in 1..SectionsOf(o) : IsDefinition(o, SymbolAt(o, k), i, t) /\ t \in Within(RangeAt(o, i))
  BY <1>4, <1>5 DEF SymbolRight
<1>7. PICK i \in 1..SectionsOf(o) : IsDefinition(o, SymbolAt(o, k), i, t) /\ t \in Within(RangeAt(o, i))
  BY <1>6
<1> QED BY <1>2, <1>3, <1>6, <1>7 DEF IsDefinedAt

LEMMA EachAddress ==
    ASSUME AllWritten, NEW t \in Addrs
    PROVE  \E o, k, i : /\ IsDefinedAt(o, k, i, t, AddrToSym[t]) /\ OnlyDefinition(o, k, i, t)
                        /\ <<o, k>> \in Definitions(AddrToSym[t])
<1>1. Partition(slices) /\ t \in Program
  BY PairsType DEF AllWritten, InputsTyped
<1>2. PICK o \in 1..Len(slices) : \E i \in 1..SectionsOf(o) : t \in Within(RangeAt(o, i))
  BY <1>1, WithinProgram
<1>3. PICK i \in 1..SectionsOf(o) : t \in Within(RangeAt(o, i))
  BY <1>2
<1>4. IsWritten(o) /\ o \in DOMAIN objects
  BY DEF AllWritten
<1>5. PICK k \in SymIndices(objects[o]) : OnlyDefinition(o, k, i, t)
  BY <1>3, <1>4, WrittenSymbols
<1>6. IsDefinition(o, SymbolAt(o, k), i, t)
  BY <1>5 DEF OnlyDefinition
<1>7. PICK y : y = SymbolAt(o, k) /\ y = SymAt(objects[o], k)
  BY DEF SymbolAt
<1>8. y.external /\ y.section_number = i + 1 /\ RangeAt(o, i).start + y.value = t
  BY <1>6, <1>7 DEF IsDefinition
<1>9. SymbolRight(o, SectionsOf(o), y)
  BY <1>4, <1>7, WrittenSymbols
<1>10. y.section_number > 0
  <2>1. i + 1 > 0 /\ i \in Nat
    OBVIOUS
  <2> QED BY <1>8, <2>1
<1>11. PICK u \in Addrs, j \in 1..SectionsOf(o) : y.name = AddrToSym[u] /\ IsDefinition(o, y, j, u)
  BY <1>8, <1>9, <1>10 DEF SymbolRight
<1>12. u = t
  <2>1. j = i
    <3>1. j + 1 = i + 1
      BY <1>8, <1>11 DEF IsDefinition
    <3> QED BY <3>1
  <2> QED BY <1>8, <1>11, <2>1 DEF IsDefinition
<1>13. Defines(objects[o], k, AddrToSym[t])
  BY <1>7, <1>8, <1>10, <1>11, <1>12 DEF Defines
<1>14. <<o, k>> \in {o} \X { h \in SymIndices(objects[o]) : Defines(objects[o], h, AddrToSym[t]) }
  BY <1>13
<1>15. <<o, k>> \in Definitions(AddrToSym[t])
  BY <1>4, <1>14 DEF Definitions
<1>16. IsDefinedAt(o, k, i, t, AddrToSym[t])
  BY <1>3, <1>6 DEF IsDefinedAt
<1> QED BY <1>5, <1>15, <1>16

\* When all is resolved, a name leads to the address that it stands for.
LEMMA AddressFound ==
    ASSUME AllWritten, Resolved, NEW t \in Addrs
    PROVE  AddressOf(AddrToSym[t]) = t
<1>1. PICK name : name = AddrToSym[t] /\ name \in Name
  BY AddrToSymType DEF AllWritten, InputsTyped
<1>2. PICK o, k, i : IsDefinedAt(o, k, i, t, name) /\ <<o, k>> \in Definitions(name)
  BY <1>1, EachAddress
<1>3. PICK d \in Definitions(name) : d = CHOOSE e \in Definitions(name) : TRUE
  BY <1>2
<1>4. d = <<o, k>>
  BY <1>1, <1>2 DEF Resolved
<1>5. d[1] = o /\ d[2] = k
  BY <1>4
<1>6. PICK s : s = SymAt(objects[o], k)
  OBVIOUS
<1>7. s.section_number = i + 1 /\ RangeAt(o, i).start + s.value = t /\ i \in Nat
  BY <1>2, <1>6 DEF IsDefinedAt, IsDefinition, SymbolAt
<1>8. s.section_number - 1 = i
  <2>1. PICK n \in Nat : n = i
    BY <1>7
  <2>2. (n + 1) - 1 = n
    OBVIOUS
  <2> QED BY <1>7, <2>1, <2>2
<1>9. AddressOf(name) = slices[o].secs[s.section_number - 1].start + s.value
  BY <1>3, <1>5, <1>6 DEF AddressOf
<1> QED BY <1>1, <1>7, <1>8, <1>9 DEF RangeAt

\* When something is not, a name stands for two addresses.
LEMMA NotResolved ==
    ASSUME AllWritten, ~Resolved
    PROVE  \E a, b \in Addrs : a # b /\ AddrToSym[a] = AddrToSym[b]
<1>1. PICK name \in Name :
         ~ /\ \A d, e \in Definitions(name) : d = e
           /\ Definitions(name) = {} =>
                \A o \in DOMAIN objects : \A k \in SymIndices(objects[o]) : SymAt(objects[o], k).name # name
  BY DEF Resolved
<1>2. ASSUME NEW d \in Definitions(name), NEW e \in Definitions(name), d # e
      PROVE  \E a, b \in Addrs : a # b /\ AddrToSym[a] = AddrToSym[b]
  <2>1. PICK i, t : IsDefinedAt(d[1], d[2], i, t, name)
    BY EachDefinition
  <2>2. PICK j, u : IsDefinedAt(e[1], e[2], j, u, name)
    BY EachDefinition
  <2>3. t \in Addrs /\ u \in Addrs /\ AddrToSym[t] = AddrToSym[u]
    BY <2>1, <2>2 DEF IsDefinedAt
  <2>4. ASSUME t = u PROVE FALSE
    <3>1. PICK o, q : o = d[1] /\ q = e[1]
      OBVIOUS
    <3>2. Partition(slices) /\ IsWritten(o)
      BY <2>1, <3>1 DEF AllWritten, InputsTyped, IsDefinedAt
    <3>3. /\ o \in 1..Len(slices) /\ i \in 1..SectionsOf(o) /\ t \in Within(RangeAt(o, i))
          /\ q \in 1..Len(slices) /\ j \in 1..SectionsOf(q) /\ t \in Within(RangeAt(q, j))
      BY <2>1, <2>2, <2>4, <3>1 DEF IsDefinedAt
    <3>4. o = q /\ i = j
      BY <3>2, <3>3, OnePart
    <3>5. PICK k \in SymIndices(objects[o]) : OnlyDefinition(o, k, i, t)
      BY <2>3, <3>2, <3>3, WrittenSymbols
    <3>6. d[2] = k
      BY <2>1, <3>1, <3>5 DEF OnlyDefinition, IsDefinedAt
    <3>7. e[2] = k
      BY <2>2, <2>4, <3>1, <3>4, <3>5 DEF OnlyDefinition, IsDefinedAt
    <3>8. d = <<d[1], d[2]>> /\ e = <<e[1], e[2]>>
      BY DEF Definitions
    <3> QED BY <1>2, <3>1, <3>4, <3>6, <3>7, <3>8
  <2> QED BY <2>3, <2>4
<1>3. ASSUME Definitions(name) = {}, NEW o \in DOMAIN objects, NEW k \in SymIndices(objects[o]),
             SymAt(objects[o], k).name = name
      PROVE  FALSE
  <2>1. IsWritten(o)
    BY DEF AllWritten
  <2>2. PICK y : y = SymbolAt(o, k) /\ y.name = name
    BY <1>3 DEF SymbolAt
  <2>3. SymbolRight(o, SectionsOf(o), y)
    BY <2>1, <2>2, WrittenSymbols
  <2>4. y.external
    BY <2>2, <2>3, SliceObjectAssumption DEF SymbolRight
  <2>5. PICK t \in Addrs : name = AddrToSym[t]
    BY <2>2, <2>3, <2>4 DEF SymbolRight
  <2>6. PICK e, f, i : /\ IsDefinedAt(e, f, i, t, AddrToSym[t]) /\ OnlyDefinition(e, f, i, t)
                       /\ <<e, f>> \in Definitions(AddrToSym[t])
    BY EachAddress
  <2> QED BY <1>3, <2>5, <2>6
<1> QED BY <1>1, <1>2, <1>3

\* What the linker reads of a section s with these symbols.
IsRead(o, i, s, symbols) ==
    /\ SectionRight(RangeAt(o, i), s, symbols) /\ RelocsInside(s, symbols)
    /\ objects[o][i + 1].size = IF s.size # 0 THEN s.size ELSE Len(s.data)
    /\ objects[o][i + 1].bss = s.bss
    /\ objects[o][i + 1].nreloc = Len(s.relocations)
    /\ objects[o][i + 1].scnptr \in Nat /\ objects[o][i + 1].relptr \in Nat
    /\ \A j \in 1..Len(s.data) : objects[o][objects[o][i + 1].scnptr + j - 1] = s.data[j]
    /\ \A j \in 1..Len(s.relocations) :
          objects[o][objects[o][i + 1].relptr + j - 1] = s.relocations[j]
    /\ \A k \in 1..Len(symbols) : SymbolAt(o, k - 1).name = symbols[k].name

LEMMA SectionRead ==
    ASSUME AllWritten, NEW o \in 1..Len(slices), NEW i \in 1..SectionsOf(o)
    PROVE  \E s \in SectionEntry : \E symbols \in Seq(SymbolEntry) : IsRead(o, i, s, symbols)
<1>1. PICK c : CoffRight(o, SectionsOf(o), c) /\ objects[o] = CoffFile(c)
  BY DEF AllWritten, IsWritten, SectionsOf
<1>2. FileTyped(c)
  BY <1>1 DEF CoffRight
<1>3. PICK f : f = objects[o] /\ ReadsAs(f, c)
  BY <1>1, <1>2, FileReads
<1>4. PICK n \in Nat : n = Len(c.sections) /\ n = SectionsOf(o) + 1
  <2>1. c.sections \in Seq(SectionEntry)
    BY <1>2 DEF FileTyped
  <2>2. Len(c.sections) \in Nat /\ Len(c.sections) = SectionsOf(o) + 1
    BY <1>1, <2>1 DEF CoffRight
  <2> QED BY <2>2
<1>5. PICK h \in Nat : h = i + 1 /\ h \in 1..n /\ h - 1 \in 0..n
  <2>1. PICK l \in Nat : l = SectionsOf(o)
    <3>1. SectionsOf(o) \in Nat
      BY SliceFact DEF AllWritten, InputsTyped, SectionsOf
    <3> QED BY <3>1
  <2>2. i \in 1..l
    BY <2>1
  <2>3. i + 1 \in 1..(l + 1) /\ i + 1 - 1 \in 0..(l + 1) /\ i + 1 \in Nat
    BY <2>2
  <2> QED BY <1>4, <2>1, <2>3
<1>6. PICK s \in SectionEntry : s = c.sections[h]
  <2>1. PICK z \in Seq(SectionEntry) : z = c.sections
    BY <1>2 DEF FileTyped
  <2>2. h \in 1..Len(z)
    BY <1>4, <1>5, <2>1
  <2> QED BY <2>1, <2>2
<1>7. PICK y \in Seq(SymbolEntry) : y = c.symbols
  BY <1>2 DEF FileTyped
<1>8. SectionRight(RangeAt(o, i), s, y) /\ RelocsInside(s, y)
  BY <1>1, <1>4, <1>5, <1>6, <1>7 DEF CoffRight
<1>9. PICK x : x = f[h] /\ x = SectionHeader(c, h)
  BY <1>3, <1>4, <1>5 DEF ReadsAs
<1>10. /\ x.size = (IF s.size # 0 THEN s.size ELSE Len(s.data)) /\ x.scnptr = DataAt(c)[h - 1]
       /\ x.relptr = RelocsAt(c, h) /\ x.nreloc = Len(s.relocations)
  BY <1>6, <1>9 DEF SectionHeader
<1>11. x.bss = s.bss
  BY <1>6, <1>9 DEF SectionHeader
<1>12. x.scnptr \in Nat /\ x.relptr \in Nat
  <2>1. DataAt(c) \in [0..n -> Nat]
    BY <1>2, <1>4, Layout
  <2>2. RelocsAt(c, h) = DataAt(c)[h - 1] + Len(c.sections[h].data)
    BY <1>2, <1>4, <1>5, Layout
  <2>3. Len(c.sections[h].data) \in Nat
    BY <1>2, <1>4, <1>5, Layout
  <2>4. DataAt(c)[h - 1] \in Nat
    BY <1>5, <2>1
  <2> QED BY <1>10, <2>2, <2>3, <2>4
<1>13. \A j \in 1..Len(s.data) : f[x.scnptr + j - 1] = s.data[j]
  BY <1>3, <1>4, <1>5, <1>6, <1>10 DEF ReadsAs
<1>14. \A j \in 1..Len(s.relocations) : f[x.relptr + j - 1] = s.relocations[j]
  BY <1>3, <1>4, <1>5, <1>6, <1>10 DEF ReadsAs
<1>15. \A k \in 1..Len(y) : SymbolAt(o, k - 1).name = y[k].name
  BY <1>2, <1>3, <1>7, SymAtFact DEF SymbolAt
<1> QED BY <1>3, <1>5, <1>8, <1>9, <1>10, <1>11, <1>12, <1>13, <1>14, <1>15 DEF IsRead

LEMMA PartFact ==
    ASSUME Partition(slices), NEW p \in Parts(slices)
    PROVE  /\ p[1] \in 1..Len(slices) /\ p[2] \in 1..SectionsOf(p[1])
           /\ RangeOf(slices, p) = RangeAt(p[1], p[2])
<1>1. slices \in Seq(Slice)
  BY DEF Partition
<1>2. PICK o \in DOMAIN slices : p \in {o} \X DOMAIN slices[o].secs
  BY DEF Parts
<1>3. p[1] = o /\ p[2] \in DOMAIN slices[o].secs /\ o \in 1..Len(slices)
  BY <1>1, <1>2
<1>4. slices[o].secs \in Seq(SliceRange)
  BY <1>3, SliceFact
<1>5. p[2] \in 1..SectionsOf(o)
  BY <1>3, <1>4 DEF SectionsOf
<1> QED BY <1>3, <1>5 DEF RangeOf, RangeAt

\* Every section is put where it was cut.
LEMMA LoadedWithin ==
    ASSUME AllWritten, NEW p \in Parts(slices)
    PROVE  Loaded(p) = Within(RangeAt(p[1], p[2]))
<1>1. PICK o, i : o = p[1] /\ i = p[2]
  OBVIOUS
<1>2. Partition(slices)
  BY DEF AllWritten, InputsTyped
<1>3. o \in 1..Len(slices) /\ i \in 1..SectionsOf(o) /\ RangeOf(slices, p) = RangeAt(o, i)
  BY <1>1, <1>2, PartFact
<1>4. PICK s : /\ \E symbols : SectionRight(RangeAt(o, i), s, symbols)
               /\ objects[o][i + 1].size = IF s.size # 0 THEN s.size ELSE Len(s.data)
  BY <1>3, SectionRead DEF IsRead
<1>5. PICK range \in SliceRange : range = RangeAt(o, i) /\ range.start <= range.end
  BY <1>2, <1>3, RangeFact DEF SectionsOf
<1>6. PICK b \in Nat, e \in Nat : b = range.start /\ e = range.end /\ b <= e
  BY <1>5 DEF SliceRange
<1>7. s.size = e - b /\ Len(s.data) = IF b \in Bss THEN 0 ELSE e - b
  BY <1>4, <1>5, <1>6 DEF SectionRight
<1>8. PICK l \in Nat : l = e - b
  <2>1. e - b \in Nat
    BY <1>6
  <2> QED BY <2>1
<1>9. objects[o][i + 1].size = l
  <2>1. CASE l # 0
    BY <1>4, <1>7, <1>8, <2>1
  <2>2. CASE l = 0
    <3>1. Len(s.data) = 0
      BY <1>7, <1>8, <2>2
    <3> QED BY <1>4, <1>7, <1>8, <2>2, <3>1
  <2> QED BY <2>1, <2>2
<1>10. b + l - 1 = e - 1
  BY <1>8
<1> QED BY <1>1, <1>3, <1>5, <1>6, <1>9, <1>10 DEF Loaded, Within

\* The parts of LinkedWord.
WordRead(o, i, a) ==
    IF objects[o][i + 1].bss THEN Zero ELSE objects[o][objects[o][i + 1].scnptr + (a - RangeAt(o, i).start)]
RelocsRead(o, i, a, k) ==
    { p \in objects[o][i + 1].relptr..(objects[o][i + 1].relptr + objects[o][i + 1].nreloc - 1) :
        objects[o][p].address = a - RangeAt(o, i).start + 1 /\ objects[o][p].field = k }
ValueRead(o, a, p) ==
    AddressOf(SymbolAt(o, objects[o][p].sym_index).name) - IF objects[o][p].absolute THEN 0 ELSE a + 1
FieldRead(o, i, a, k) ==
    IF RelocsRead(o, i, a, k) = {} THEN WordRead(o, i, a).fields[k]
    ELSE WordRead(o, i, a).fields[k] + ValueRead(o, a, CHOOSE p \in RelocsRead(o, i, a, k) : TRUE)

LEMMA LinkedWordIs ==
    ASSUME NEW p, NEW o, NEW i, o = p[1], i = p[2], NEW a
    PROVE  LinkedWord(p, a) =
              [WordRead(o, i, a) EXCEPT !.fields =
                 [k \in DOMAIN WordRead(o, i, a).fields |-> FieldRead(o, i, a, k)]]
BY DEF LinkedWord, WordRead, RelocsRead, ValueRead, FieldRead, RangeOf, RangeAt, SymbolAt

LEMMA WithFields ==
    ASSUME NEW w \in Word, NEW f
    PROVE  [w EXCEPT !.fields = f] = [kind |-> w.kind, fields |-> f]
<1>1. PICK k, g : w = [kind |-> k, fields |-> g]
  BY DEF Word
<1> QED BY <1>1

HasFields(f, n, g) == f = [k \in 1..n |-> f[k]] /\ \A k \in 1..n : f[k] = g[k]

\* A word is its kind and its fields.
LEMMA SameWord ==
    ASSUME NEW w \in Word, NEW x \in Word, NEW n \in Nat, NEW f,
           w.kind = x.kind, Len(x.fields) = n, HasFields(f, n, x.fields)
    PROVE  [w EXCEPT !.fields = f] = x
<1>1. x.fields \in Seq(Int)
  BY DEF Word
<1>2. f = x.fields
  <2>1. PICK g \in Seq(Int) : g = x.fields
    BY <1>1
  <2>2. g = [k \in 1..n |-> g[k]]
    BY <2>1
  <2> QED BY <2>1, <2>2 DEF HasFields
<1>3. [w EXCEPT !.fields = f] = [kind |-> w.kind, fields |-> f]
  BY WithFields
<1>4. x = [kind |-> x.kind, fields |-> x.fields]
  BY DEF Word
<1> QED BY <1>2, <1>3, <1>4

\* An operand of an instruction, put back by the linker.
LEMMA OperandRead ==
    ASSUME AllWritten, Resolved, NEW o, NEW i,
           NEW s \in SectionEntry, NEW symbols \in Seq(SymbolEntry), IsRead(o, i, s, symbols),
           NEW a \in Nat, NEW j, j = a - RangeAt(o, i).start + 1, WordRight(a, s, j, symbols),
           NEW w, w = s.data[j], WordRead(o, i, a) = w,
           NEW k \in 1..Len(Original(a).fields), w.fields[k] \in Int
    PROVE  FieldRead(o, i, a, k) = Original(a).fields[k]
<1>0. PICK h : /\ h = objects[o][i + 1] /\ RelocsInside(s, symbols)
               /\ h.nreloc = Len(s.relocations) /\ h.relptr \in Nat
               /\ \A x \in 1..Len(s.relocations) : objects[o][h.relptr + x - 1] = s.relocations[x]
               /\ \A x \in 1..Len(symbols) : SymbolAt(o, x - 1).name = symbols[x].name
  BY DEF IsRead
<1>1. PICK r \in Seq(RelocEntry) : r = s.relocations
  BY DEF SectionEntry
<1>2. PICK n \in Nat, m \in Nat : n = Len(r) /\ m = h.relptr
  BY <1>0
<1>3. PICK v : v = Original(a).fields[k]
  OBVIOUS
<1>4. /\ (\A x \in 1..n : ~Concerns(r[x], j, k)) => w.fields[k] = v
      /\ \A x \in 1..n : Concerns(r[x], j, k) => RelocRight(a, w.fields[k], r[x], symbols, v)
  BY <1>1, <1>2, <1>3 DEF WordRight
<1>5. RelocsRead(o, i, a, k) = { p \in m..(m + n - 1) : Concerns(objects[o][p], j, k) }
  BY <1>0, <1>1, <1>2 DEF RelocsRead, Concerns
<1>6. ASSUME NEW x \in 1..n PROVE m + x - 1 \in m..(m + n - 1) /\ objects[o][m + x - 1] = r[x]
  <2>1. m + x - 1 \in m..(m + n - 1)
    OBVIOUS
  <2>2. objects[o][m + x - 1] = r[x]
    BY <1>0, <1>1, <1>2
  <2> QED BY <2>1, <2>2
<1>7. CASE RelocsRead(o, i, a, k) = {}
  <2>1. ASSUME NEW x \in 1..n PROVE ~Concerns(r[x], j, k)
    BY <1>5, <1>6, <1>7
  <2> QED BY <1>3, <1>4, <1>7, <2>1 DEF FieldRead
<1>8. CASE RelocsRead(o, i, a, k) # {}
  <2>1. PICK p \in RelocsRead(o, i, a, k) : p = CHOOSE q \in RelocsRead(o, i, a, k) : TRUE
    BY <1>8
  <2>2. p \in m..(m + n - 1) /\ Concerns(objects[o][p], j, k)
    BY <1>5
  <2>3. PICK x \in 1..n : p = m + x - 1
    <3>1. p - m + 1 \in 1..n /\ p = m + (p - m + 1) - 1
      BY <2>2
    <3> QED BY <3>1
  <2>4. objects[o][p] = r[x] /\ Concerns(r[x], j, k)
    BY <1>6, <2>2, <2>3
  <2>5. PICK z \in RelocEntry : z = r[x]
    BY <1>2
  <2>6. PICK y \in Nat : y = z.sym_index
    BY DEF RelocEntry
  <2>7. y + 1 \in 1..Len(symbols) /\ y + 1 - 1 = y
    <3>1. z.sym_index + 1 \in 1..Len(symbols)
      BY <1>0, <1>1, <1>2, <2>5 DEF RelocsInside
    <3> QED BY <2>6, <3>1
  <2>8. SymbolAt(o, y).name = symbols[y + 1].name
    BY <1>0, <2>7
  <2>9. PICK t \in Addrs : /\ symbols[y + 1].name = AddrToSym[t]
                           /\ w.fields[k] + t - (IF z.absolute THEN 0 ELSE a + 1) = v
    BY <1>4, <2>4, <2>5, <2>6 DEF RelocRight
  <2>10. AddressOf(SymbolAt(o, y).name) = t
    BY <2>8, <2>9, AddressFound
  <2>11. ValueRead(o, a, p) = t - (IF z.absolute THEN 0 ELSE a + 1)
    BY <2>4, <2>5, <2>6, <2>10 DEF ValueRead
  <2>12. t \in Nat
    BY PairsType, SliceObjectAssumption DEF AllWritten, InputsTyped
  <2>13. PICK u \in Int, l \in Nat : u = w.fields[k] /\ l = IF z.absolute THEN 0 ELSE a + 1
    OBVIOUS
  <2>14. u + (t - l) = v
    BY <2>9, <2>12, <2>13
  <2>15. FieldRead(o, i, a, k) = u + ValueRead(o, a, p)
    BY <1>8, <2>1, <2>13 DEF FieldRead
  <2> QED BY <1>3, <2>11, <2>13, <2>14, <2>15
<1> QED BY <1>7, <1>8

\* A word of the program, put back by the linker.
LEMMA LinkedWordRight ==
    ASSUME AllWritten, Resolved, NEW p \in Parts(slices), NEW a \in Within(RangeAt(p[1], p[2]))
    PROVE  LinkedWord(p, a) = Original(a)
<1>1. PICK o, i : o = p[1] /\ i = p[2]
  OBVIOUS
<1>2. Partition(slices) /\ image \in Images
  BY DEF AllWritten, InputsTyped
<1>3. o \in 1..Len(slices) /\ i \in 1..SectionsOf(o)
  BY <1>1, <1>2, PartFact
<1>4. PICK range \in SliceRange : range = RangeAt(o, i) /\ range.start <= range.end
  BY <1>2, <1>3, RangeFact DEF SectionsOf
<1>5. PICK b \in Nat, e \in Nat : b = range.start /\ e = range.end /\ b <= e
  BY <1>4 DEF SliceRange
<1>6. a \in b..(e - 1)
  BY <1>1, <1>4, <1>5 DEF Within
<1>7. PICK j \in Nat : j = a - b + 1 /\ j \in 1..(e - b) /\ b + j - 1 = a
  <2>1. a - b + 1 \in 1..(e - b) /\ b + (a - b + 1) - 1 = a
    BY <1>6
  <2> QED BY <2>1
<1>8. PICK s \in SectionEntry, symbols \in Seq(SymbolEntry) : IsRead(o, i, s, symbols)
  BY <1>3, SectionRead
<1>9. PICK h : /\ h = objects[o][i + 1] /\ SectionRight(RangeAt(o, i), s, symbols)
                /\ h.bss = s.bss /\ h.scnptr \in Nat
                /\ \A x \in 1..Len(s.data) : objects[o][h.scnptr + x - 1] = s.data[x]
  BY <1>8 DEF IsRead
<1>10. PICK y \in Word : y = Original(a)
  BY <1>2, OriginalType
<1>11. LinkedWord(p, a) = [WordRead(o, i, a) EXCEPT !.fields =
                             [k \in DOMAIN WordRead(o, i, a).fields |-> FieldRead(o, i, a, k)]]
  BY <1>1, LinkedWordIs
<1>12. CASE b \in Bss
  <2>1. WordRead(o, i, a) = Zero
    BY <1>4, <1>5, <1>9, <1>12 DEF SectionRight, WordRead
  <2>2. Original(a) = Zero
    <3>1. a \in Bss
      <4>1. b \in Within(range) /\ a \in Within(range)
        BY <1>5, <1>6 DEF Within
      <4>2. PICK section \in {Text, Data, Bss} : Within(range) \subseteq section
        BY <1>2, <1>3, <1>4, RangeFact DEF SectionsOf
      <4> QED BY <1>12, <4>1, <4>2, SliceObjectAssumption
    <3> QED BY <3>1, SliceObjectAssumption DEF Original
  <2>3. Zero \in Word /\ Len(Zero.fields) = 0 /\ DOMAIN Zero.fields = 1..0
    <3>1. <<>> \in Seq(Int)
      OBVIOUS
    <3> QED BY <3>1 DEF Zero, Word
  <2>4. PICK f : f = [k \in DOMAIN Zero.fields |-> FieldRead(o, i, a, k)]
    OBVIOUS
  <2>5. HasFields(f, 0, Zero.fields)
    BY <2>3, <2>4 DEF HasFields
  <2>6. [Zero EXCEPT !.fields = f] = Zero
    <3>1. PICK z \in Word : z = Zero
      BY <2>3
    <3>2. Len(z.fields) = 0 /\ HasFields(f, 0, z.fields) /\ 0 \in Nat
      BY <2>3, <2>5, <3>1
    <3>3. [z EXCEPT !.fields = f] = z
      BY <3>2, SameWord
    <3> QED BY <3>1, <3>3
  <2> QED BY <1>11, <2>1, <2>2, <2>4, <2>6
<1>13. CASE b \notin Bss
  <2>1. PICK d \in Seq(Word) : d = s.data
    BY DEF SectionEntry
  <2>2. Len(d) = e - b /\ ~s.bss
    <3>1. s.bss = (range.start \in Bss)
      BY <1>4, <1>9 DEF SectionRight
    <3>2. Len(s.data) = IF range.start \in Bss THEN 0 ELSE range.end - range.start
      BY <1>4, <1>9 DEF SectionRight
    <3> QED BY <1>5, <1>13, <2>1, <3>1, <3>2
  <2>3. j \in 1..Len(d)
    BY <1>7, <2>2
  <2>4. PICK w \in Word : w = d[j]
    BY <2>3
  <2>5. WordRead(o, i, a) = w
    <3>1. h.scnptr + (a - b) = h.scnptr + j - 1
      BY <1>6, <1>7, <1>9
    <3>2. objects[o][h.scnptr + (a - b)] = d[j]
      BY <1>9, <2>1, <2>3, <3>1
    <3> QED BY <1>4, <1>5, <1>9, <2>2, <2>4, <3>2 DEF WordRead
  <2>6. WordRight(a, s, j, symbols)
    <3>1. PICK v : v = RangeAt(o, i).start + j - 1
      OBVIOUS
    <3>2. WordRight(v, s, j, symbols)
      BY <1>9, <2>1, <2>3, <3>1 DEF SectionRight
    <3>3. v = a
      BY <1>4, <1>5, <1>7, <3>1
    <3> QED BY <3>2, <3>3
  <2>7. PICK n \in Nat : n = Len(w.fields) /\ n = Len(y.fields) /\ w.kind = y.kind /\ DOMAIN w.fields = 1..n
    <3>1. w.fields \in Seq(Int)
      BY DEF Word
    <3> QED BY <1>10, <2>1, <2>4, <2>6, <3>1 DEF WordRight
  <2>8. PICK f : f = [k \in DOMAIN w.fields |-> FieldRead(o, i, a, k)]
    OBVIOUS
  <2>9. DOMAIN f = 1..n /\ f = [k \in 1..n |-> f[k]]
    BY <2>7, <2>8
  <2>10. ASSUME NEW k \in 1..n PROVE f[k] = y.fields[k]
    <3>1. w.fields[k] \in Int
      <4>1. w.fields \in Seq(Int)
        BY DEF Word
      <4> QED BY <2>7, <4>1
    <3>2. k \in 1..Len(Original(a).fields) /\ a \in Nat /\ j = a - RangeAt(o, i).start + 1 /\ w = s.data[j]
      BY <1>4, <1>5, <1>6, <1>7, <1>10, <2>1, <2>4, <2>7
    <3>3. FieldRead(o, i, a, k) = Original(a).fields[k]
      BY <1>8, <2>5, <2>6, <3>1, <3>2, OperandRead
    <3> QED BY <1>10, <2>7, <2>8, <3>3
  <2>11. [w EXCEPT !.fields = f] = y
    <3>1. HasFields(f, n, y.fields)
      BY <2>9, <2>10 DEF HasFields
    <3> QED BY <2>7, <3>1, SameWord
  <2> QED BY <1>10, <1>11, <2>5, <2>8, <2>11
<1> QED BY <1>12, <1>13

LEMMA AllAreWritten ==
    ASSUME CutInv, stage = "written"
    PROVE  AllWritten
<1>1. InputsTyped /\ cur = Len(slices) + 1 /\ DOMAIN objects = 1..(cur - 1) /\ \A o \in 1..(cur - 1) : IsWritten(o)
  BY DEF CutInv
<1>2. PICK n \in Nat : n = Len(slices)
  BY <1>1, SliceFact DEF InputsTyped
<1>3. cur - 1 = n
  BY <1>1, <1>2
<1> QED BY <1>1, <1>2, <1>3 DEF AllWritten

\* The sections that the linker puts together are the program.
LEMMA LoadedProgram ==
    ASSUME AllWritten
    PROVE  UNION { Loaded(p) : p \in Parts(slices) } = Program
<1>1. Partition(slices)
  BY DEF AllWritten, InputsTyped
<1>2. ASSUME NEW p \in Parts(slices) PROVE Loaded(p) = Within(RangeOf(slices, p))
  BY <1>1, <1>2, LoadedWithin, PartFact
<1>3. ASSUME NEW a \in Program PROVE a \in UNION { Loaded(p) : p \in Parts(slices) }
  <2>1. PICK p \in Parts(slices) : a \in Within(RangeOf(slices, p))
    BY <1>1 DEF Partition
  <2> QED BY <1>2, <2>1
<1>4. ASSUME NEW p \in Parts(slices), NEW a \in Loaded(p) PROVE a \in Program
  <2>1. PICK section \in {Text, Data, Bss} : Within(RangeOf(slices, p)) \subseteq section
    BY <1>1 DEF Partition
  <2> QED BY <1>2, <2>1 DEF Program
<1> QED BY <1>3, <1>4

LEMMA LinkGivesOriginal ==
    ASSUME CutInv, Link
    PROVE  LinkedIsOriginal'
<1>1. stage = "written" /\ UNCHANGED <<syms, inputs>>
  BY DEF Link
<1>2. AllWritten /\ UNCHANGED asCut
  BY <1>1, AllAreWritten DEF inputs, asCut
<1>3. CASE Resolved
  <2>1. /\ stage' = "linked"
        /\ memory' = [a \in UNION { Loaded(p) : p \in Parts(slices) } |->
                         LinkedWord(CHOOSE p \in Parts(slices) : a \in Loaded(p), a)]
    BY <1>3 DEF Link
  <2>2. DOMAIN memory' = Program
    BY <1>2, <2>1, LoadedProgram
  <2>3. ASSUME NEW a \in Program PROVE memory'[a] = Original(a)
    <3>1. a \in UNION { Loaded(p) : p \in Parts(slices) }
      BY <1>2, LoadedProgram
    <3>2. PICK q \in Parts(slices) : /\ q = CHOOSE p \in Parts(slices) : a \in Loaded(p)
                                     /\ a \in Loaded(q)
      BY <3>1
    <3>3. memory'[a] = LinkedWord(q, a)
      BY <2>1, <3>1, <3>2
    <3>4. a \in Within(RangeAt(q[1], q[2]))
      BY <1>2, <3>2, LoadedWithin
    <3> QED BY <1>2, <1>3, <3>3, <3>4, LinkedWordRight
  <2>4. \A a : Original(a)' = Original(a)
    BY <1>2, SameOriginal
  <2> QED BY <2>1, <2>2, <2>3, <2>4 DEF LinkedIsOriginal
<1>4. CASE ~Resolved
  <2>1. stage' = "unlinkable"
    BY <1>4 DEF Link
  <2>2. \E a, b \in Addrs : a # b /\ AddrToSym[a] = AddrToSym[b]
    BY <1>2, <1>4, NotResolved
  <2>3. Addrs' = Addrs /\ AddrToSym' = AddrToSym
    BY <1>2, SameSymbols
  <2> QED BY <2>1, <2>2, <2>3 DEF LinkedIsOriginal
<1> QED BY <1>3, <1>4

LEMMA LinkedStep ==
    ASSUME CutInv, LinkedIsOriginal, [SlicingNext]_<<loading, cutting>>
    PROVE  LinkedIsOriginal'
<1>1. CASE Link
  BY <1>1, LinkGivesOriginal
<1>2. ASSUME stage' \notin {"linked", "unlinkable"} PROVE LinkedIsOriginal'
  BY <1>2 DEF LinkedIsOriginal
<1>3. CASE UNCHANGED cutting
  <2>1. UNCHANGED <<stage, memory, syms, dbg, image, slices>>
    BY <1>3 DEF cutting, inputs
  <2>2. UNCHANGED asCut
    BY <2>1 DEF asCut
  <2>3. \A a : Original(a)' = Original(a)
    BY <2>2, SameOriginal
  <2>4. Addrs' = Addrs /\ AddrToSym' = AddrToSym
    BY <2>2, SameSymbols
  <2> QED BY <2>1, <2>3, <2>4 DEF LinkedIsOriginal
<1>4. ASSUME Open(LoadedSlices) PROVE LinkedIsOriginal'
  BY <1>2, <1>4 DEF Open
<1>5. CASE FormatSymbols
  BY <1>2, <1>5 DEF FormatSymbols
<1>6. CASE BeginSection
  BY <1>2, <1>6 DEF BeginSection
<1>7. CASE Insn
  BY <1>2, <1>7 DEF Insn, Disassembling
<1>8. CASE InsnFails
  BY <1>2, <1>8 DEF InsnFails
<1>9. CASE Junk
  BY <1>2, <1>9 DEF Junk, Disassembling
<1>10. CASE WriteSlice
  <2>1. stage' \in {"written", "extract"}
    BY <1>10 DEF WriteSlice
  <2> QED BY <1>2, <2>1
<1>11. CASE Loads
  BY <1>3, <1>11 DEF Loads
<1>12. CASE Done
  BY <1>3, <1>12 DEF Done
<1>13. CASE Cuts
  BY <1>1, <1>4, <1>5, <1>6, <1>7, <1>8, <1>9, <1>10, <1>13 DEF Cuts, CanLink, CutNext
<1> QED BY <1>3, <1>11, <1>12, <1>13 DEF SlicingNext

(***************************************************************************)
(* Cutting loses nothing: for any program, any symbols and a configuration *)
(* in order, once the object files that extract_slice makes are linked,    *)
(* each word and operand of the program is what it was, and they fail to   *)
(* link only if one name stands for two addresses.                         *)
(***************************************************************************)
THEOREM LinkGivesBackTheProgram == SlicingSpec => []LinkedIsOriginal
<1>1. SlicingInit => CutInv /\ LinkedIsOriginal
  <2>1. CutInit => LinkedIsOriginal
    BY DEF CutInit, LinkedIsOriginal
  <2> QED BY <2>1, CutInitial DEF SlicingInit
<1>2. LoadInv /\ CutInv /\ LinkedIsOriginal /\ [SlicingNext]_<<loading, cutting>> => CutInv' /\ LinkedIsOriginal'
  BY CutStep, LinkedStep
<1> QED BY <1>1, <1>2, LoadInvHolds, PTL DEF SlicingSpec
=============================================================================
