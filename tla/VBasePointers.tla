--------------------------- MODULE VBasePointers ---------------------------
(***************************************************************************)
(* Pointers to virtual bases in source/CABI.c.  A class keeps one pointer  *)
(* for each virtual base it names; the constructor of a complete object    *)
(* stores into all of them, those of its subobjects included               *)
(* (CABI_InitVBasePtrs, CABI_0056e210), and an access to a virtual base    *)
(* loads along a path of them (CABI_GetVBasePath).  The two walk the       *)
(* hierarchy separately and have to agree.                                 *)
(* Class n is the n-th declared; offsets are in words.                     *)
(***************************************************************************)
EXTENDS Integers, Sequences

CONSTANT MaxClass   \* bound: how many classes are declared

ASSUME VBaseAssumption == MaxClass \in Nat

VARIABLES
    bases,      \* bases[c]: the direct bases in order, [base, virtual, offset]
    vbases,     \* vbases[c]: the offset of each virtual base of c
    othersize,  \* othersize[c]: the size of c without its virtual bases
    stores,     \* stores[c]: what c's constructor begins with, [base, cells, target]
    known,      \* trans_vtboffsets: the offsets already stored to
    current,    \* the class whose constructor is being translated, or 0
    todo        \* the virtual bases the loop of the translation has still to come to

hierarchy == <<bases, vbases, othersize>>
vbasevars == <<hierarchy, stores, known, current, todo>>

Declared == 1..Len(bases)
VBases(c) == DOMAIN vbases[c]
Items(seq) == { seq[i] : i \in DOMAIN seq }

\* The sums of the first sizes, from `start' on.
Sums(start, sizes) ==
    LET sum[i \in 0..Len(sizes)] == IF i = 0 THEN start ELSE sum[i - 1] + sizes[i] IN sum

-----------------------------------------------------------------------------
(***************************************************************************)
(* The declaration of a class, which is not part of this code: bases that  *)
(* are not virtual lie at the front, then a pointer for each virtual one   *)
(* and a word of data; all virtual bases, each once, follow.               *)
(***************************************************************************)
FlatSizes(list) == [i \in DOMAIN list |-> IF list[i].virtual THEN 0 ELSE othersize[list[i].base]]
FlatOffsets(list) == Sums(0, FlatSizes(list))

PtrSizes(list) == [i \in DOMAIN list |-> IF list[i].virtual THEN 1 ELSE 0]
PtrOffsets(list) == Sums(FlatOffsets(list)[Len(list)], PtrSizes(list))

Laid(list) ==
    [i \in DOMAIN list |->
        [base |-> list[i].base, virtual |-> list[i].virtual,
         offset |-> IF list[i].virtual THEN PtrOffsets(list)[i - 1] ELSE FlatOffsets(list)[i - 1]]]

SizeOf(list) == PtrOffsets(list)[Len(list)] + 1

AllVBases(list) ==
    { k.base : k \in { e \in Items(list) : e.virtual } } \cup UNION { VBases(k.base) : k \in Items(list) }

VBaseSizes(list) == [b \in Declared |-> IF b \in AllVBases(list) THEN othersize[b] ELSE 0]
VBaseOffsets(list) == Sums(SizeOf(list), VBaseSizes(list))

CompleteClass(list) ==
    /\ current = 0 /\ Len(bases) < MaxClass
    /\ bases' = Append(bases, Laid(list))
    /\ vbases' = Append(vbases, [b \in AllVBases(list) |-> VBaseOffsets(list)[b - 1]])
    /\ othersize' = Append(othersize, SizeOf(list))
    /\ stores' = Append(stores, <<>>)
    /\ UNCHANGED <<known, current, todo>>

\* No class is a direct base twice.
BaseClauses ==
    UNION { { [i \in 1..n |-> [base |-> s[i], virtual |-> v[i]]] :
                s \in { t \in [1..n -> Declared] : \A i, j \in 1..n : t[i] = t[j] => i = j },
                v \in [1..n -> BOOLEAN] } : n \in 0..Len(bases) }

-----------------------------------------------------------------------------
\* The classes that may be parts of a `c': their virtual bases are among its.
PartClasses(c) == { d \in Declared : VBases(d) \subseteq VBases(c) }

\* Where the walk continues for a base of a class that lies at `offset'.
BaseOffset(c, entry, offset) == IF entry.virtual THEN vbases[c][entry.base] ELSE offset + entry.offset

Base(c, part, entry) == <<entry.base, BaseOffset(c, entry, part[2])>>

Concat(seqs) ==
    LET upto[i \in 0..Len(seqs)] == IF i = 0 THEN <<>> ELSE upto[i - 1] \o seqs[i] IN upto[Len(seqs)]

\* The pointers to `target' that the walk comes upon, in its order.
PointersTo(c, target) ==
    LET walk[p \in PartClasses(c) \X Nat] ==
            Concat([i \in DOMAIN bases[p[1]] |->
                LET entry == bases[p[1]][i]
                IN  (IF entry.base = target /\ entry.virtual THEN <<p[2] + entry.offset>> ELSE <<>>)
                        \o walk[Base(c, p, entry)]])
    IN  walk[<<c, 0>>]

\* The offsets for which CABI_FindOffset says 0: new ones, each once.
Bug_NewOffsets(found) == found

NewOffsets(found) ==
    LET new[i \in 0..Len(found)] ==
            IF i = 0 THEN <<>>
            ELSE IF found[i] \in known \cup Items(new[i - 1]) THEN new[i - 1]
            ELSE Append(new[i - 1], found[i])
    IN  new[Len(found)]

Bug_InitVBasePtrs(c) ==
    /\ current = 0 /\ VBases(c) # {}
    /\ current' = c /\ todo' = VBases(c)
    /\ stores' = [stores EXCEPT ![c] = <<>>]
    /\ UNCHANGED <<hierarchy, known>>

InitVBasePtrs(c) ==
    /\ current = 0 /\ VBases(c) # {}
    /\ current' = c /\ todo' = VBases(c) /\ known' = {}
    /\ stores' = [stores EXCEPT ![c] = <<>>]
    /\ UNCHANGED hierarchy

\* One turn of the loop over the virtual bases, in the order they lie in: a
\* statement that stores the address of b through each pointer to it.
NextVBase(b) ==
    LET cells == NewOffsets(PointersTo(current, b))
    IN  /\ \A d \in todo : b <= d
        /\ stores' = [stores EXCEPT ![current] =
                Append(@, [base |-> b, cells |-> cells, target |-> vbases[current][b]])]
        /\ known' = known \cup Items(cells)
        /\ todo' = todo \ {b}
        /\ current' = IF todo = {b} THEN 0 ELSE current
        /\ UNCHANGED hierarchy

(***************************************************************************)
(* CABI_GetVBasePath: the offsets at which a pointer is loaded, one load   *)
(* after another, to come from a `c' to its virtual base v; <<>> for NULL. *)
(***************************************************************************)
PathLength(list, virtual) == Len(list) + IF virtual THEN 1 ELSE 0

Extend(entry, list) ==
    IF entry.virtual THEN <<entry.offset>> \o list
    ELSE [list EXCEPT ![1] = @ + entry.offset]

GetVBasePath(c, v) ==
    LET path[d \in Declared] ==
            LET entry(i) == bases[d][i]
                direct == {i \in DOMAIN bases[d] : entry(i).base = v /\ entry(i).virtual}
                found == {i \in DOMAIN bases[d] : path[entry(i).base] # <<>>}
                length(i) == PathLength(path[entry(i).base], entry(i).virtual)
                best == CHOOSE i \in found : \A j \in found :
                            length(i) < length(j) \/ (length(i) = length(j) /\ i <= j)
            IN  IF direct # {} THEN <<entry(CHOOSE i \in direct : TRUE).offset>>
                ELSE IF found = {} THEN <<>>
                ELSE Extend(entry(best), path[entry(best).base])
    IN  path[c]

-----------------------------------------------------------------------------
VBaseInit ==
    /\ bases = <<>> /\ vbases = <<>> /\ othersize = <<>> /\ stores = <<>>
    /\ known = {} /\ current = 0 /\ todo = {}

VBaseNext ==
    \/ \E list \in BaseClauses : CompleteClass(list)
    \/ \E c \in Declared : InitVBasePtrs(c)
    \/ \E b \in todo : NextVBase(b)

VBaseSpec == VBaseInit /\ [][VBaseNext]_vbasevars

-----------------------------------------------------------------------------
\* The classes whose constructor has all its stores.
Translated ==
    { c \in Declared \ {current} : { stores[c][i].base : i \in DOMAIN stores[c] } = VBases(c) }

\* The parts of a complete object of class c: <<class, offset>>.
Subobjects(c) ==
    LET parts[p \in PartClasses(c) \X Nat] ==
            {p} \cup UNION { parts[Base(c, p, e)] : e \in Items(bases[p[1]]) }
    IN  parts[<<c, 0>>]

\* Every pointer of a complete object: <<offset, the base it is to point to>>.
Pointers(c) ==
    UNION { { <<p[2] + e.offset, e.base>> : e \in { b \in Items(bases[p[1]]) : b.virtual } } :
              p \in Subobjects(c) }

\* Types; a store is to a pointer of the object, in the turn of its base.
StoresTyped ==
    /\ current \in {0} \cup Declared /\ todo \subseteq Declared
    /\ \A c \in Declared : \A i \in DOMAIN stores[c] :
          \A o \in Items(stores[c][i].cells) : <<o, stores[c][i].base>> \in Pointers(c)

\* What pointer o holds once c's constructor has run its stores; -1 if nothing.
Stored(c, o) ==
    LET at == { i \in DOMAIN stores[c] : o \in Items(stores[c][i].cells) }
    IN  IF at = {} THEN -1 ELSE stores[c][CHOOSE i \in at : \A j \in at : j <= i].target

\* Where a sequence of loads, begun at `from', ends; -1 if a pointer is not set.
Load(c, from, path) ==
    LET at[i \in 0..Len(path)] ==
            IF i = 0 THEN from ELSE IF at[i - 1] = -1 THEN -1 ELSE Stored(c, at[i - 1] + path[i])
    IN  at[Len(path)]

(***************************************************************************)
(* In an object of a translated class every part of it reaches each of the *)
(* part's virtual bases: the path made for the part's class, followed from *)
(* wherever the part lies, ends at the one copy the object has.            *)
(***************************************************************************)
PathsReachBases ==
    \A c \in Translated : \A p \in Subobjects(c) : \A v \in VBases(p[1]) :
        /\ GetVBasePath(p[1], v) # <<>>
        /\ Load(c, p[2], GetVBasePath(p[1], v)) = vbases[c][v]

\* A constructor stores to each pointer of the object once: CABI_FindOffset
\* is there to skip those the walk meets again by another way.
StoredOnce ==
    \A c \in Declared : \A i, j \in DOMAIN stores[c] :
        LET a == stores[c][i].cells
            b == stores[c][j].cells
        IN  \A k \in DOMAIN a, l \in DOMAIN b : a[k] = b[l] => i = j /\ k = l

\* The constructor of a complete object stores what belongs to it, once.
StoresRight == StoresTyped /\ StoredOnce

\* The numbers of loads of all ways from c to its virtual base v.
LoadCounts(c, v) ==
    LET counts[d \in Declared] ==
            UNION { LET step == IF e.virtual THEN 1 ELSE 0
                    IN  { n + step : n \in counts[e.base] \cup (IF e.base = v /\ e.virtual THEN {0} ELSE {}) } :
                      e \in Items(bases[d]) }
    IN  counts[c]

\* No other way to a virtual base takes fewer loads than the path that is
\* made, and there is no path to a class that is no virtual base.
PathsAreShortest ==
    \A c, v \in Declared :
        /\ \A n \in LoadCounts(c, v) : Len(GetVBasePath(c, v)) <= n
        /\ GetVBasePath(c, v) = <<>> <=> LoadCounts(c, v) = {}

\* A path to a virtual base exists, leads to it, and is a shortest one.
PathsRight == PathsReachBases /\ PathsAreShortest
=============================================================================
