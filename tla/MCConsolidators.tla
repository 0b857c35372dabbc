--------------------------- MODULE MCConsolidators ---------------------------
(***************************************************************************)
(* A small instance of Reexport for TLC.                                   *)
(***************************************************************************)
EXTENDS Reexport

\* Scalars, series, and one or several images of 2 pixels.
MCShapes == {<<>>, <<1>>, <<3>>, <<1, 2>>, <<3, 2>>, <<4, 2>>}
MCChunkShapes == {<<>>, <<1>>, <<2>>, <<2, 2>>, <<1, 2>>, <<2, 2, 1>>}
=============================================================================
