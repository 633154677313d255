------------------------------- MODULE Slicing -------------------------------
(***************************************************************************)
(* tools/slice_exe.py as a whole: the configuration is loaded (SliceFile), *)
(* every slice that it gives is cut out of the program (SliceObject), and  *)
(* the object files are linked.  The list that SliceObject takes is the    *)
(* one that SliceFile has made.                                            *)
(***************************************************************************)
EXTENDS SliceFile, SliceObject

CONSTANT SectionOrder   \* the sections in the order of the meta data

Addresses(s) == Addr[s]..(SectionEnd(s) - 1)

\* The sections of the meta data are those of the program, each once.
ASSUME SlicingAssumption ==
    /\ SectionOrder \in Seq(Section) /\ Elements(SectionOrder) = Section
    /\ \A i, j \in DOMAIN SectionOrder : SectionOrder[i] = SectionOrder[j] => i = j
    /\ Program = UNION { Addresses(s) : s \in Used }
    /\ \A s \in Used : \E section \in {Text, Data, Bss} : Addresses(s) \subseteq section
    /\ \A s, t \in Used : Addresses(s) \cap Addresses(t) # {} => s = t

loading == <<parsed, positions, fillers, loaded, phase>>

\* The ranges of a slice in the order of their sections.
SliceSecs(x) ==
    LET has == Kept(SectionOrder, { k \in DOMAIN SectionOrder : SectionOrder[k] \in DOMAIN x.secs })
    IN  [i \in DOMAIN has |-> [start |-> x.secs[has[i]].begin, end |-> x.secs[has[i]].end]]

\* slice_file.parsed_slices; that it is a filler is told from its name.
LoadedSlices ==
    [i \in DOMAIN parsed |->
        [filler |-> parsed[i].source = Filler, secs |-> SliceSecs(parsed[i])]]

(***************************************************************************)
(* The program is opened when the slices are loaded.  A slice that is      *)
(* compiled instead is not cut; here none is, so that all can be linked.   *)
(* The slices of a configuration out of order overlap: slice_exe cuts them *)
(* too, which is not followed here.                                        *)
(***************************************************************************)
Loads ==
    /\ stage = "start"
    /\ Next /\ UNCHANGED cutting

CanLink ==
    /\ \A x \in Elements(parsed) : x.source # Filler => x.nonMatching
    /\ InConfigOrder(parsed)
    /\ LoadedSlices \in SliceLists

Cuts ==
    /\ phase = "loaded"
    /\ (CanLink /\ Open(LoadedSlices)) \/ CutNext
    /\ UNCHANGED loading

\* The only ways to end; anything else without a next step is a deadlock.
Done ==
    /\ \/ phase = "failed"
       \/ phase = "loaded" /\ stage = "start" /\ ~CanLink
       \/ stage \in {"linked", "unlinkable", "failed"}
    /\ UNCHANGED <<loading, cutting>>

SlicingInit == Init /\ CutInit

SlicingNext == Loads \/ Cuts \/ Done

SlicingSpec == SlicingInit /\ [][SlicingNext]_<<loading, cutting>>
=============================================================================
