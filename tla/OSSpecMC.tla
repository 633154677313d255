------------------------------ MODULE OSSpecMC ------------------------------
(***************************************************************************)
(* Paths and names that together are shorter than a buffer of four, fill   *)
(* it, and do not fit; a path alone that does not fit.                     *)
(***************************************************************************)
EXTENDS OSSpec

CONSTANTS a, b

MCPathString == { <<>>, <<a, Backslash>>, <<a, b, a, Backslash>> }
MCNameString == { <<>>, <<a>>, <<b, a>> }
MCSizes == {0, 1, 3}
=============================================================================
