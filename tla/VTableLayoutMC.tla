--------------------------- MODULE VTableLayoutMC ---------------------------
(***************************************************************************)
(* Up to three classes with two virtual functions, every choice of bases,  *)
(* virtual bases and shared table, and data members before and after the   *)
(* virtual functions.                                                      *)
(***************************************************************************)
EXTENDS VTableLayout

CONSTANTS f, g

MCMethod == {f, g}
MCObjLists == { <<>>, <<f>>, <<"var", g>>, <<f, g>>, <<f, "var">> }
=============================================================================
