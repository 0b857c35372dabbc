------------------------------- MODULE Reexport -------------------------------
(***************************************************************************)
(* External data through json_seq_exporter (exporters.py) and back: the    *)
(* exporter sees the array, its files and the shape in the descriptor, not *)
(* the parameters of the StreamResource, and emits one StreamResource and  *)
(* one StreamDatum, from which TiledWriter makes another consolidator.     *)
(***************************************************************************)
EXTENDS Consolidators

VARIABLE shape  \* of the data key in the descriptor

ReexportInit ==
  /\ Init
  /\ shape \in {s \in Shapes : datum_shape = DatumShape(s, join_method, sres.multiplier)}

ReexportSpec == ReexportInit /\ [][Next /\ UNCHANGED shape]_<<vars, shape>>

-----------------------------------------------------------------------------
is_stacked == Len(Shape) = Len(shape) + 1

ExportedJoin == IF is_stacked THEN "stack" ELSE "concat"

\* Mutant: each row is taken for a datum.
DatumsRows == Shape[1]

\* n_datums
Datums == IF is_stacked THEN Shape[1] ELSE Shape[1] \div shape[1]

\* _synthesize_multipart_template(): a template for several files numbered from 0.
Templated == Len(assets) > 1

\* Several StreamResources become one, with their files only if the names fit one
\* template; files of a multipart type without a template cannot be written again.
Reexportable ==
  /\ num_rows > 0 /\ resources = 1
  /\ kind \in {"single", "multipart"} /\ (kind = "multipart" => Templated)

\* The consolidator made from what is exported: a chunk shape of [1] with the
\* template, and neither multiplier nor files_per_datum.
Reingested ==
  LET params == [multiplier |-> 0, files_per_datum |-> 0]
      datum  == DatumShape(shape, ExportedJoin, 0)
      chunk  == Coerced(datum, <<1>>, ExportedJoin)
      files  == IF kind = "single" THEN 1 ELSE Datums * FilesOfDatum(datum, chunk, ExportedJoin, params)
  IN [shape |-> ArrayShape(ExportedJoin, datum, Datums), files |-> files]

-----------------------------------------------------------------------------
(***************************************************************************)
(* Properties                                                              *)
(***************************************************************************)
\* "re-ingested with the same semantics regardless of the consolidator's default
\* join_method" (exporters.py:282-284): without a multiplier, the shape is the same,
\* and so are the files, if each had a frame or, stacked images, a datum.
ReexportedAlike ==
  (Reexportable /\ sres.multiplier = 0) =>
    /\ Reingested.shape = Shape
    /\ (/\ kind = "multipart" /\ sres.files_per_datum = 0
        /\ CASE join_method = "concat" -> chunk_shape[1] = 1
             [] join_method = "stack" -> IF Len(datum_shape) = 1 THEN chunk_shape = <<1>> ELSE files_per_datum = 1) =>
         Reingested.files = Len(assets)
=============================================================================
