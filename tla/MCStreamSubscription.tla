------------------------ MODULE MCStreamSubscription ------------------------
(***************************************************************************)
(* Small catalogs for TLC: a run with one stream of data nodes, or several *)
(* data nodes directly below what is subscribed to.                        *)
(***************************************************************************)
EXTENDS StreamSubscription

CONSTANTS catalog, run, primary, baseline, x, y, user, other

\* The parents of the nodes used.
MCParent ==
  [n \in Nodes \ {Root} |->
     CASE n = run -> catalog
       [] n \in {primary, baseline} -> run
       [] OTHER -> primary]
=============================================================================
