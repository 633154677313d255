------------------------------ MODULE SlicingMC ------------------------------
(***************************************************************************)
(* Configurations of up to two slices over three sections and an empty     *)
(* one, with every range in every order.  Some are cut and linked, for all *)
(* programs with two instructions from a set that has every kind of        *)
(* operand, below, at and above symbols.                                   *)
(***************************************************************************)
EXTENDS Slicing

CONSTANTS main, table, handler

MCSectionOrder == <<".text", ".data", ".bss", ".rsc">>
MCSection == Elements(MCSectionOrder)
MCAddr == [s \in MCSection |-> CASE s = ".text" -> 11 [] s = ".data" -> 14 [] s = ".bss" -> 15 [] OTHER -> 16]
MCSize == [s \in MCSection |-> CASE s = ".text" -> 3 [] s = ".data" -> 1 [] s = ".bss" -> 1 [] OTHER -> 0]

MCName == {main, table, handler}
MCLongName == {table}
MCText == 11..13
MCData == 14..14
MCBss == 15..15

LineAt(n, a) == [name |-> n, addr |-> a]
MCSymbolFiles == { <<>>, <<LineAt(main, 12)>>, <<LineAt(table, 14), LineAt(main, 11)>>, <<LineAt(main, 14), LineAt(main, 12)>> }
MCDebugSymbols == { <<>>, <<LineAt(handler, 13)>>, <<LineAt(main, 12), LineAt(handler, 15)>> }

W(kind, fields) == [kind |-> kind, fields |-> fields]
Words(a) ==
    { W(k, <<t - (a + 1)>>) : k \in {"call", "jump"}, t \in {11, 12, 14} }
        \cup { W("mem", <<v>>) : v \in {10, 11, 12, 16, 30} }
        \cup { W("mem", <<13, 12>>), W("junk", <<12>>) }
MCImages == { [a \in MCText |-> IF a = 11 THEN v ELSE IF a = 12 THEN w ELSE W("mem", <<14>>)] :
                v \in Words(11), w \in Words(12) }

\* What a configuration may add to the last instruction, which has operand 14.
MCAddRelocations == { {}, {[location |-> 13, symbol |-> 12, offset |-> 2]},
                      {[location |-> 13, symbol |-> 15, offset |-> -1]} }

T(b, e) == [start |-> b, end |-> e]
Configured(secs) == [filler |-> FALSE, secs |-> secs]
Filled(secs) == [filler |-> TRUE, secs |-> secs]
MCSliceLists ==
    { << Configured(<<T(11, 12), T(14, 15)>>), Configured(<<T(12, 14), T(15, 16)>>) >>,
      << Configured(<<T(11, 12), T(14, 15)>>), Configured(<<T(12, 12)>>), Filled(<<T(12, 14), T(15, 16)>>) >>,
      << Configured(<<T(11, 12), T(14, 15)>>), Filled(<<T(12, 14), T(15, 16)>>) >>,
      << Filled(<<T(11, 12)>>), Configured(<<T(12, 14), T(15, 16)>>), Filled(<<T(14, 15)>>) >>,
      << Configured(<<T(11, 14), T(14, 15), T(15, 16)>>) >>,
      << Filled(<<T(11, 14), T(14, 15), T(15, 16)>>) >> }
=============================================================================
