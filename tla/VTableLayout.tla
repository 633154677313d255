---------------------------- MODULE VTableLayout ----------------------------
(***************************************************************************)
(* The layout of virtual tables in source/CABI.c: CABI_AllocateVTable and  *)
(* CABI_MakeVTableLayout, called for one class after another.  Class n is  *)
(* the n-th to be completed, and its bases are among the earlier ones.     *)
(* The table of a class holds the tables of its bases, its own new slots,  *)
(* and after them the tables of its virtual bases.  Sizes are in slots     *)
(* (4 bytes); the lists handed in (bases, members) are the caller's.       *)
(***************************************************************************)
EXTENDS Integers, Sequences, FiniteSets

CONSTANTS
    MaxClass,   \* bound: how many classes are laid out
    Method,     \* signatures of virtual functions
    ObjLists,   \* the members of a class in lexical order: "var" or a Method
    Header,     \* VTableHeaderInfo.size: what a table begins with
    PtrSize     \* vtable_ptr.size: the header of a SingleObject or COM class

ASSUME LayoutAssumption ==
    /\ MaxClass \in Nat /\ Header \in Nat \ {0} /\ PtrSize \in Nat \ {0}
    /\ "var" \notin Method /\ ObjLists \subseteq Seq(Method \cup {"var"})

VARIABLES
    bases,      \* bases[c]: the direct bases, [base, virtual, offset, voffset]
    vbases,     \* vbases[c]: the virtual bases, [base, voffset]
    primary,    \* primary[c]: the base whose table c shares (m_0c), or 0
    slot,       \* slot[c][m]: vtbl_index of the virtual functions c declares
    size,       \* size[c]: vtable->size, or 0 when c has no table
    total,      \* total[c]: vtable->offset, the size of the table object
    ivars       \* ivars[c]: the data members, with the vptr where it belongs

vars == <<bases, vbases, primary, slot, size, total, ivars>>

Classes == 1..Len(size)
Unset == -1     \* a vtbl_index nobody has assigned

HasTable(c) == size[c] > 0

\* The earlier class a virtual function is inherited from, at offset 0 both in
\* the object and in the table; 0 if there is none.
FindZeroVirtualBaseMember(c, m) ==
    LET zero(d) == { i \in DOMAIN bases[d] :
                        /\ ~bases[d][i].virtual /\ bases[d][i].offset = 0
                        /\ bases[d][i].voffset = 0 /\ HasTable(bases[d][i].base) }
        find[d \in Classes] ==
            IF m \in DOMAIN slot[d] THEN d
            ELSE LET found == { i \in zero(d) : find[bases[d][i].base] # 0 }
                 IN  IF found = {} THEN 0
                     ELSE find[bases[d][CHOOSE i \in found : \A j \in found : i <= j].base]
    IN  find[c]

\* The list with voffsets assigned from `start' on; a class without a table
\* takes no room (its voffset keeps the 0 it was allocated with).
Room(entry) == size[entry.base]
RoomBefore(list, i) ==
    LET sum[k \in 0..Len(list)] == IF k = 0 THEN 0 ELSE sum[k - 1] + Room(list[k])
    IN  sum[i - 1]

Placed(list, start) ==
    [i \in 1..Len(list) |->
        IF HasTable(list[i].base)
        THEN [list[i] EXCEPT !.voffset = start + RoomBefore(list, i)]
        ELSE list[i]]

RoomOf(list) == RoomBefore(list, Len(list) + 1)

\* Where the virtual functions stand among the members.
Virtuals(objlist) == { k \in DOMAIN objlist : objlist[k] # "var" }

(***************************************************************************)
(* CABI_AllocateVTable: without a primary base a vptr is linked in after   *)
(* the last data member up to index xA, or before all of them.             *)
(***************************************************************************)
DataMembers(objlist, upTo) ==
    [i \in 1..Cardinality({k \in 1..upTo : objlist[k] = "var"}) |-> "var"]

Bug_AllocateVTable(shared, objlist, xA) ==
    LET front == DataMembers(objlist, xA)
        all == DataMembers(objlist, Len(objlist))
    IN  ivars' = Append(ivars,
            front \o <<"vptr">> \o SubSeq(all, Len(front) + 1, Len(all)))

AllocateVTable(shared, objlist, xA) ==
    LET front == DataMembers(objlist, xA)
        all == DataMembers(objlist, Len(objlist))
    IN  ivars' = Append(ivars,
            IF shared # 0 THEN all
            ELSE front \o <<"vptr">> \o SubSeq(all, Len(front) + 1, Len(all)))

(***************************************************************************)
(* CABI_MakeVTableLayout.  `list' holds the non-virtual bases, the primary *)
(* one first; `vlist' the virtual ones.                                    *)
(***************************************************************************)
IsNew(m, shared) == FindZeroVirtualBaseMember(shared, m) = 0

Bug_NewSlot(start, m, objlist, shared) == start

NewSlot(start, m, objlist, shared) ==
    LET k == CHOOSE k \in Virtuals(objlist) : objlist[k] = m
    IN  start + Cardinality({ j \in Virtuals(objlist) : j < k /\ IsNew(objlist[j], shared) })

\* Without a primary base the loop counts the slots and assigns none of them.
MethodSlots(start, objlist, shared) ==
    [m \in {objlist[k] : k \in Virtuals(objlist)} |->
        IF shared = 0 THEN Unset
        ELSE IF IsNew(m, shared) THEN NewSlot(start, m, objlist, shared)
        ELSE slot[FindZeroVirtualBaseMember(shared, m)][m]]

NewSlots(objlist, shared) ==
    Cardinality({ k \in Virtuals(objlist) : shared = 0 \/ IsNew(objlist[k], shared) })

Bug_MakeVTableLayout(shared, single, list, direct, vlist, objlist) ==
    LET hdr == IF shared # 0 THEN 0 ELSE IF single THEN PtrSize ELSE Header
        own == hdr + RoomOf(list)
        end == own + NewSlots(objlist, shared) + RoomOf(vlist)
    IN  /\ bases' = Append(bases, Placed(list, hdr) \o direct)
        /\ slot' = Append(slot, MethodSlots(own, objlist, shared))
        /\ size' = Append(size, end)
        /\ vbases' = Append(vbases, Placed(vlist, end - RoomOf(vlist)))
        /\ total' = Append(total, end)

MakeVTableLayout(shared, single, list, direct, vlist, objlist) ==
    LET hdr == IF shared # 0 THEN 0 ELSE IF single THEN PtrSize ELSE Header
        own == hdr + RoomOf(list)
        end == own + NewSlots(objlist, shared)
    IN  /\ bases' = Append(bases, Placed(list, hdr) \o direct)
        /\ slot' = Append(slot, MethodSlots(own, objlist, shared))
        /\ size' = Append(size, end)
        /\ vbases' = Append(vbases, Placed(vlist, end))
        /\ total' = Append(total, end + RoomOf(vlist))

-----------------------------------------------------------------------------
(***************************************************************************)
(* The caller, which is not part of this code.  It completes a class when  *)
(* its bases are complete, puts the base whose table is shared first and   *)
(* at offset 0, and lists every virtual base of the class once.            *)
(***************************************************************************)
Entry(b, virtual, offset) ==
    [base |-> b, virtual |-> virtual, offset |-> offset, voffset |-> 0]

\* The sequences of distinct elements of S.
Orders(S) ==
    UNION { {s \in [1..n -> S] : \A i, j \in 1..n : s[i] = s[j] => i = j} :
              n \in 0..Cardinality(S) }

InheritedVBases(S) ==
    UNION { {vbases[b][i].base : i \in DOMAIN vbases[b]} : b \in S }

InOrder(S) ==
    CHOOSE s \in [1..Cardinality(S) -> S] : \A i, j \in DOMAIN s : i < j => s[i] < s[j]

CompleteClass(nonvirtual, virtuals, shared, single, objlist, xA) ==
    LET c == Len(size) + 1
        direct == nonvirtual \o InOrder(virtuals)
        allV == virtuals \cup InheritedVBases({direct[i] : i \in DOMAIN direct})
        list == [i \in DOMAIN nonvirtual |->
                    Entry(nonvirtual[i], FALSE, IF nonvirtual[i] = shared THEN 0 ELSE 1)]
        ventries == [i \in 1..Cardinality(virtuals) |-> Entry(InOrder(virtuals)[i], TRUE, 1)]
        vlist == [i \in 1..Cardinality(allV) |-> Entry(InOrder(allV)[i], TRUE, 1)]
    IN  /\ c <= MaxClass
        /\ shared # 0 => nonvirtual # <<>> /\ nonvirtual[1] = shared /\ HasTable(shared)
        /\ single => shared = 0
        /\ primary' = Append(primary, shared)
        /\ IF Virtuals(objlist) = {} /\ \A b \in allV \cup {nonvirtual[i] : i \in DOMAIN nonvirtual} :
                ~HasTable(b)
           THEN /\ bases' = Append(bases, list \o ventries)
                /\ vbases' = Append(vbases, vlist)
                /\ slot' = Append(slot, <<>>) /\ size' = Append(size, 0)
                /\ total' = Append(total, 0)
                /\ ivars' = Append(ivars, DataMembers(objlist, Len(objlist)))
           ELSE /\ AllocateVTable(shared, objlist, xA)
                /\ MakeVTableLayout(shared, single, list, ventries, vlist, objlist)

Init ==
    /\ bases = <<>> /\ vbases = <<>> /\ primary = <<>> /\ slot = <<>>
    /\ size = <<>> /\ total = <<>> /\ ivars = <<>>

Next ==
    \E virtuals \in SUBSET Classes :
        \E nonvirtual \in Orders(Classes \ virtuals),
           shared \in {0} \cup Classes, single \in BOOLEAN, objlist \in ObjLists :
              \E xA \in 0..Len(objlist) :
                  CompleteClass(nonvirtual, virtuals, shared, single, objlist, xA)

Spec == Init /\ [][Next]_vars

-----------------------------------------------------------------------------
\* Types; a slot that the layout assigned is inside the table of its class, and
\* the table object has room for the table.
TypeOK ==
    /\ \A c \in Classes :
          /\ size[c] \in Nat /\ total[c] \in Nat /\ size[c] <= total[c]
          /\ primary[c] \in 0..(c - 1)
          /\ DOMAIN slot[c] \subseteq Method
          /\ \A m \in DOMAIN slot[c] : slot[c][m] \in {Unset} \cup 0..(size[c] - 1)
          /\ \A i \in DOMAIN bases[c] : bases[c][i].base \in 1..(c - 1)
    /\ Len(bases) = Len(size) /\ Len(slot) = Len(size) /\ Len(total) = Len(size)

\* The room an entry of a table takes.
TableRange(entry) == entry.voffset..(entry.voffset + size[entry.base] - 1)
Tabled(list) == { i \in DOMAIN list : HasTable(list[i].base) }
NonVirtual(c) == { i \in Tabled(bases[c]) : ~bases[c][i].virtual }

(***************************************************************************)
(* The tables inside a table do not overlap: each base has its own range   *)
(* below vtable->size, where classes derived from this one expect it, and  *)
(* each virtual base its own range between size and the end of the object. *)
(***************************************************************************)
BaseTablesDisjoint ==
    \A c \in Classes :
        /\ \A i \in NonVirtual(c) : TableRange(bases[c][i]) \subseteq 0..(size[c] - 1)
        /\ \A i \in Tabled(vbases[c]) :
              TableRange(vbases[c][i]) \subseteq size[c]..(total[c] - 1)
        /\ \A i, j \in NonVirtual(c) :
              i # j => TableRange(bases[c][i]) \cap TableRange(bases[c][j]) = {}
        /\ \A i, j \in Tabled(vbases[c]) :
              i # j => TableRange(vbases[c][i]) \cap TableRange(vbases[c][j]) = {}

\* The classes whose table c's begins with: c, its primary base, and so on.
PrimaryChain(c) ==
    LET chain[d \in 0..Len(size)] == IF d = 0 THEN {} ELSE {d} \cup chain[primary[d]]
    IN  chain[c]

(***************************************************************************)
(* A call through a pointer to any class of the chain reaches the function *)
(* that overrides: one signature has one slot all along the chain.         *)
(***************************************************************************)
OverrideKeepsSlot ==
    \A c \in Classes : \A b \in PrimaryChain(c) :
        \A m \in DOMAIN slot[c] \cap DOMAIN slot[b] : slot[c][m] = slot[b][m]

(***************************************************************************)
(* A slot that the layout assigned is outside the tables of the bases the  *)
(* class does not share, and no other signature of the chain has it.       *)
(***************************************************************************)
AssignedSlotsDistinct ==
    \A c \in Classes : \A m \in DOMAIN slot[c] : slot[c][m] # Unset =>
        /\ \A i \in NonVirtual(c) :
              bases[c][i].base # primary[c] => slot[c][m] \notin TableRange(bases[c][i])
        /\ \A b \in PrimaryChain(c) : \A n \in DOMAIN slot[b] :
              slot[b][n] = slot[c][m] => n = m

\* Calls go to the right slot: types, overriding and distinctness together.
SlotsAgree == TypeOK /\ OverrideKeepsSlot /\ AssignedSlotsDistinct

(***************************************************************************)
(* An object with a table has one pointer to it: of the classes whose      *)
(* tables begin at the same place exactly one, the last of the chain, has  *)
(* a vptr among its data members; a class without a table has none.        *)
(***************************************************************************)
HasVPtr(c) == \E i \in DOMAIN ivars[c] : ivars[c][i] = "vptr"

OneVPtrPerChain ==
    \A c \in Classes :
        Cardinality({b \in PrimaryChain(c) : HasVPtr(b)}) = IF HasTable(c) THEN 1 ELSE 0
=============================================================================
