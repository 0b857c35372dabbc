---------------------------- MODULE DocumentPipe ----------------------------
(***************************************************************************)
(* What a document callback that runs in a thread of its own promises to   *)
(* its caller: items are accepted in some order, and are handed to the     *)
(* wrapped callback one at a time, in that order, each exactly once.       *)
(* BufferingWrapper implements this specification.                         *)
(***************************************************************************)
EXTENDS Naturals, Sequences

CONSTANT Items        \* what can be accepted

VARIABLES
  accepted,           \* every item accepted so far, in order
  delivered           \* every item handed to the callback so far, in order

vars == <<accepted, delivered>>

Init == accepted = <<>> /\ delivered = <<>>

Accept(i) ==
  /\ accepted' = Append(accepted, i)
  /\ UNCHANGED delivered

Deliver ==
  /\ Len(delivered) < Len(accepted)
  /\ delivered' = Append(delivered, accepted[Len(delivered) + 1])
  /\ UNCHANGED accepted

Next == (\E i \in Items : Accept(i)) \/ Deliver

\* Safety only: delivery may stop (the wrapper may be shut down).
SafeSpec == Init /\ [][Next]_vars

\* Nothing accepted is kept back forever.
Liveness == WF_vars(Deliver)
=============================================================================
