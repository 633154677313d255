------------------------------ MODULE OSFileMC ------------------------------
(***************************************************************************)
(* Words of three bits: sizes and positions on both sides of the SInt32    *)
(* limit (4) and of the value that is taken for an error (7).  A gap is up *)
(* to five bytes, filled two at a time.                                    *)
(***************************************************************************)
EXTENDS OSFile

CONSTANTS u, w

MCUser == {u, w}
MCBuffer == { <<>>, <<u>>, <<u, w>> }
=============================================================================
