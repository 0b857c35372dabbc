------------------------------ MODULE Utilities ------------------------------
(***************************************************************************)
(* utils.py: list_summands(), which consolidators and the validator share. *)
(***************************************************************************)
EXTENDS Naturals, Sequences

\* Mutant: the remainder is left out.
SummandsWhole(a, b) == [i \in 1..(a \div b) |-> b]

\* A in parts of b and a remainder, without the (0,) for an empty result.
Summands(a, b) ==
  [i \in 1..(a \div b) |-> b] \o (IF a % b > 0 THEN <<a % b>> ELSE <<>>)

list_summands(a, b, repeat) ==
  LET once == Summands(a, b)
      all  == [i \in 1..(Len(once) * repeat) |-> once[((i - 1) % Len(once)) + 1]]
  IN IF all = <<>> THEN <<0>> ELSE all
=============================================================================
