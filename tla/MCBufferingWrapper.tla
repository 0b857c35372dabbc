------------------------- MODULE MCBufferingWrapper -------------------------
(***************************************************************************)
(* Small instances of BufferingWrapper for TLC.                            *)
(***************************************************************************)
EXTENDS BufferingWrapper

CONSTANTS p1, p2, f1, f2, s1, s2
=============================================================================
