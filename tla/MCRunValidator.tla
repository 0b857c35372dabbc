--------------------------- MODULE MCRunValidator ----------------------------
(***************************************************************************)
(* A small instance of RunValidator for TLC.                               *)
(***************************************************************************)
EXTENDS RunValidator

Simple(t) == [names |-> <<>>, types |-> <<t>>]
Fields(names, types) == [names |-> names, types |-> types]
Array(type, shape, chunks, dims, layout) ==
  [data_type |-> type, shape |-> shape, chunks |-> chunks, dims |-> dims, layout |-> layout]

Frames == Array(Simple(1), <<4, 2>>, << <<3, 1>>, <<2>> >>, 0, <<>>)
Rows   == Array(Simple(2), <<3, 2>>, << <<3>>, <<2>> >>, 0, <<>>)
Table  == Array(Fields(<<"x", "y">>, <<1, 2>>), <<3>>, << <<3>> >>, 0, <<>>)
Case(stored, file, multiplier) == [stored |-> stored, file |-> file, multiplier |-> multiplier]

ImageCases ==
  { Case(Frames, Frames, 0),
    \* two frames for each event: stored as they are in the file, or by events
    Case([Frames EXCEPT !.dims = 2], Frames, 2),
    Case(Array(Simple(1), <<2, 2, 2>>, << <<2>>, <<2>>, <<2>> >>, 0, <<>>), Frames, 2),
    \* frames that do not make whole events, of another type, with a name too many
    Case(Array(Simple(2), <<2, 3, 2>>, << <<1, 1>>, <<3>>, <<2>> >>, 3, <<>>), Frames, 3),
    \* fields stored, fields, values of one type, and too few of them in the file
    Case(Array(Fields(<<"a", "b">>, <<1, 1>>), <<3>>, << <<3>> >>, 1, <<>>), Table, 0),
    Case(Array(Fields(<<"a", "b">>, <<1, 1>>), <<3, 1>>, << <<1, 1, 1>>, <<1>> >>, 0, <<>>), Rows, 0),
    Case(Array(Fields(<<"a", "b", "c">>, <<1, 1, 1>>), <<3>>, << <<3>> >>, 0, <<>>), Rows, 0),
    \* values of one type stored, fields in the file
    Case(Array(Simple(1), <<4>>, << <<4>> >>, 0, <<>>), Table, 0) }

SumCases ==
  { Case(Array(Simple(1), <<4>>, << <<4>> >>, 0, <<>>), Array(Simple(1), <<4>>, << <<4>> >>, 0, <<>>), 0),
    Case(Array(Simple(2), <<4>>, << <<4>> >>, 0, <<>>), Array(Simple(1), <<4>>, << <<2, 2>> >>, 0, <<>>), 0) }

MCKeys == <<"img", "sum">>
MCCases == [img |-> ImageCases, sum |-> SumCases]
MCIgnores == {{}, {"asset", "structure", "other"}}
=============================================================================
