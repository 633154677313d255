----------------------------- MODULE SliceFile -----------------------------
(***************************************************************************)
(* tools/slicelib.py: load_slice_file turns the slices of a configuration  *)
(* into a list that also has a filler slice for every gap; configure.py    *)
(* and slice_exe.py take the object files to build and to link from that   *)
(* list.  The configuration is any list of slices, each with one address   *)
(* range in some of the sections; one step loads one slice.                *)
(***************************************************************************)
EXTENDS Integers, Sequences, FiniteSets

CONSTANTS
    Section,    \* the names of the sections in the meta data
    Addr, Size, \* the address and the size of each section
    Source,     \* the source files that slices name
    Filler,     \* slice.source of a filler: the empty string
    MaxSlices   \* bound: the slices of a configuration

ASSUME SliceAssumption ==
    /\ Addr \in [Section -> Nat] /\ Size \in [Section -> Nat]
    /\ Filler \notin Source /\ MaxSlices \in Nat

VARIABLES
    parsed,     \* slice_file.parsed_slices
    positions,  \* curr_sec_positions
    fillers,    \* filler_slice_idx
    loaded,     \* how many slices of the configuration have been loaded
    phase       \* "loading", "loaded", or "failed" by a KeyError

vars == <<parsed, positions, fillers, loaded, phase>>

SectionEnd(s) == Addr[s] + Size[s]
AddrRange(b, e) == [begin |-> b, end |-> e]

\* bound: the ranges a configuration mentions are inside their section
Ranges(s) == { r \in { AddrRange(b, e) : b, e \in Addr[s]..SectionEnd(s) } : r.begin <= r.end }

\* memoryRanges: a range in each section of some set
MemoryRanges == UNION { { r \in [S -> UNION {Ranges(s) : s \in S}] :
                            \A s \in S : r[s] \in Ranges(s) } : S \in SUBSET Section }

Used == { s \in Section : Size[s] # 0 }

Bug_make_filler_slice(n, gaps) ==
    <<[name |-> n, source |-> Filler, nonMatching |-> FALSE, secs |-> gaps]>>

\* The filler for the gaps that are not empty, as a sequence of one or none.
make_filler_slice(n, gaps) ==
    LET open == { s \in DOMAIN gaps : gaps[s].begin # gaps[s].end }
    IN  IF open = {} THEN <<>>
        ELSE <<[name |-> n, source |-> Filler, nonMatching |-> FALSE,
                secs |-> [s \in open |-> gaps[s]]]>>

(***************************************************************************)
(* One round of the loop.  Asking for the position of a section that is    *)
(* unknown or of size 0 is a KeyError, and nothing is returned.            *)
(***************************************************************************)
GapsBefore(ranges) ==
    [s \in DOMAIN positions |->
        IF s \in DOMAIN ranges THEN AddrRange(positions[s], ranges[s].begin) ELSE AddrRange(0, 0)]

Bug_Positions(ranges) == positions

Positions(ranges) ==
    [s \in DOMAIN positions |->
        IF s \in DOMAIN ranges THEN ranges[s].end ELSE positions[s]]

LoadSlice(src, nonMatching, ranges) ==
    LET filler == make_filler_slice(fillers, GapsBefore(ranges))
    IN  /\ phase = "loading" /\ loaded < MaxSlices
        /\ DOMAIN ranges \subseteq DOMAIN positions
        /\ positions' = Positions(ranges)
        /\ parsed' = parsed \o filler \o
                <<[name |-> src, source |-> src, nonMatching |-> nonMatching, secs |-> ranges]>>
        /\ fillers' = fillers + Len(filler)
        /\ loaded' = loaded + 1
        /\ UNCHANGED phase

Fail(ranges) ==
    /\ phase = "loading" /\ loaded < MaxSlices
    /\ ~(DOMAIN ranges \subseteq DOMAIN positions)
    /\ phase' = "failed"
    /\ UNCHANGED <<parsed, positions, fillers, loaded>>

\* After the last slice of the configuration: the rest of each section.
Bug_GapsAtEnd == [s \in DOMAIN positions |-> AddrRange(positions[s], Size[s])]

GapsAtEnd == [s \in DOMAIN positions |-> AddrRange(positions[s], SectionEnd(s))]

Finish ==
    /\ phase = "loading"
    /\ parsed' = parsed \o make_filler_slice(fillers, GapsAtEnd)
    /\ phase' = "loaded"
    /\ UNCHANGED <<positions, fillers, loaded>>

Init ==
    /\ parsed = <<>> /\ fillers = 0 /\ loaded = 0 /\ phase = "loading"
    /\ positions = [s \in Used |-> Addr[s]]

Next ==
    \/ \E src \in Source, nonMatching \in BOOLEAN, ranges \in MemoryRanges :
          LoadSlice(src, nonMatching, ranges) \/ Fail(ranges)
    \/ Finish

Spec == Init /\ [][Next]_vars

-----------------------------------------------------------------------------
(***************************************************************************)
(* The object files.  A slice that has a source is compiled; one that has  *)
(* none, or does not match yet, is cut out of the original program.        *)
(***************************************************************************)
Elements(seq) == { seq[i] : i \in DOMAIN seq }

sliced_o_files ==
    { <<"sliced", x.name>> :
        x \in {y \in Elements(parsed) : y.source = Filler \/ y.nonMatching} }

compiled_o_files ==
    { <<"compiled", x.name>> : x \in {y \in Elements(parsed) : y.source # Filler} }

ld_o_files ==
    [i \in DOMAIN parsed |->
        IF parsed[i].source # Filler /\ ~parsed[i].nonMatching
        THEN <<"compiled", parsed[i].name>> ELSE <<"sliced", parsed[i].name>>]

-----------------------------------------------------------------------------
IntRange == [begin : Int, end : Int]

\* Types; only sections that have a size are in a slice.
TypeOK ==
    /\ phase \in {"loading", "loaded", "failed"}
    /\ fillers \in Nat /\ loaded \in 0..MaxSlices
    /\ positions \in [Used -> Int]
    /\ \A i \in DOMAIN parsed :
          /\ parsed[i].source \in Source \cup {Filler}
          /\ DOMAIN parsed[i].secs \subseteq Used
          /\ \A s \in DOMAIN parsed[i].secs : parsed[i].secs[s] \in IntRange

Has(p, i, s) == s \in DOMAIN p[i].secs

\* The ranges of section s in the slices p form a chain that ends at r.
Chain(p, s, r) ==
    LET between(i, j) == \E k \in (i + 1)..(j - 1) : Has(p, k, s)
    IN  /\ \A i \in DOMAIN p : Has(p, i, s) =>
              /\ ~between(0, i) => p[i].secs[s].begin = Addr[s]
              /\ ~between(i, Len(p) + 1) => p[i].secs[s].end = r
              /\ \A j \in DOMAIN p : i < j /\ Has(p, j, s) /\ ~between(i, j) =>
                    p[i].secs[s].end = p[j].secs[s].begin
        /\ ~between(0, Len(p) + 1) => r = Addr[s]

Reached(s) == IF phase = "loaded" THEN SectionEnd(s) ELSE positions[s]

(***************************************************************************)
(* Whatever the configuration says, the ranges of a section form a chain:  *)
(* each begins where the one before it ends, the first at the address of   *)
(* the section, and the last ends at the position that loading has reached *)
(* or, when everything is loaded, at the end of the section.               *)
(***************************************************************************)
Chained == \A s \in Used : Chain(parsed, s, Reached(s))

\* The configured ranges of a section come in order and inside the section.
IsConfigured(p, i, s) == p[i].source # Filler /\ Has(p, i, s)
InConfigOrder(p) ==
    \A i \in DOMAIN p : \A s \in Used : IsConfigured(p, i, s) =>
        /\ Addr[s] <= p[i].secs[s].begin
        /\ p[i].secs[s].begin <= p[i].secs[s].end
        /\ p[i].secs[s].end <= SectionEnd(s)
        /\ \A j \in 1..(i - 1) : IsConfigured(p, j, s) =>
              p[j].secs[s].end <= p[i].secs[s].begin

\* Each address of s below r, and no other, is in exactly one slice.
Holds(p, i, s, a) ==
    Has(p, i, s) /\ p[i].secs[s].begin <= a /\ a < p[i].secs[s].end
Covered(p, s, r) ==
    \A a \in Addr[s]..SectionEnd(s) :
        /\ a < r <=> \E i \in DOMAIN p : Holds(p, i, s, a)
        /\ \A i, j \in DOMAIN p : Holds(p, i, s, a) /\ Holds(p, j, s, a) => i = j

(***************************************************************************)
(* From a configuration in order, the slices partition every section: each *)
(* address from its beginning to the position reached is in exactly one,   *)
(* no other address is in any, and what is reached once all are loaded is  *)
(* the end.  Linked in their order they give back the original sections.   *)
(***************************************************************************)
SlicesPartition ==
    InConfigOrder(parsed) => \A s \in Used : Covered(parsed, s, Reached(s))

\* Every object file that is linked is one that the build makes.
LinkInputsBuilt ==
    \A i \in DOMAIN parsed : ld_o_files[i] \in sliced_o_files \cup compiled_o_files

(***************************************************************************)
(* A filler is there for a gap: it has a range, none of its ranges is      *)
(* empty, a configured slice follows it unless it is the last, and the     *)
(* fillers are numbered in order, so that no two have the same object      *)
(* file.  The build makes each object file that is linked.                 *)
(***************************************************************************)
FillersFillGaps ==
    LET isFiller(i) == parsed[i].source = Filler
    IN  /\ \A i \in DOMAIN parsed : isFiller(i) =>
              /\ DOMAIN parsed[i].secs # {}
              /\ \A s \in DOMAIN parsed[i].secs :
                    parsed[i].secs[s].begin # parsed[i].secs[s].end
              /\ i < Len(parsed) => ~isFiller(i + 1)
              /\ parsed[i].name = Cardinality({ j \in 1..(i - 1) : isFiller(j) })
        /\ LinkInputsBuilt
=============================================================================
