--------------------------- MODULE OSResourcesMC ---------------------------
(***************************************************************************)
(* Two OSHandles and two blocks, so that a block can move or find no room; *)
(* handles at both ends of the 16-bit range, which is eight numbers        *)
(* wide; files on both sides of every test on links.  Memory and handles   *)
(* of files share nothing, so one of the two is at rest in each state.     *)
(***************************************************************************)
EXTENDS OSResources

MCHand == {1, 2}
MCBlock == 1..2
MCHandle == {1, 2, 3, 7}

MCArgv == { <<>>, <<"mwcc">>, <<"mwcc", Option>>, <<"mwcc", Option, "a">>,
            <<"mwcc", "a", Option>>, <<"mwcc", Option, "a", "b", Option>> }

Plain == [lnk |-> FALSE, len |-> 11, shortcut |-> FALSE, appended |-> TRUE, magic |-> TRUE, size |-> 24]
Lnk == [Plain EXCEPT !.lnk = TRUE]

MCLinkFile ==
    { [Plain EXCEPT !.size = n] : n \in {9, 10, 11, 24, 25} } \cup { [Plain EXCEPT !.magic = FALSE] }
    \cup { Lnk, [Lnk EXCEPT !.shortcut = TRUE, !.magic = FALSE], [Lnk EXCEPT !.len = 4], [Lnk EXCEPT !.len = 16] }

AtRest == (heap = [b \in Block |-> 0] /\ hand = [h \in Hand |-> NoHandle]) \/ open = {}

MCSpec == Init /\ [][Next /\ AtRest']_vars
=============================================================================
