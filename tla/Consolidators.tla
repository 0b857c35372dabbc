---------------------------- MODULE Consolidators ----------------------------
(***************************************************************************)
(* writing/consolidators.py: one consolidator, from its construction on,   *)
(* with the structure, the files and the patches it derives from           *)
(* StreamResources and StreamDatums.  "single" is ConsolidatorBase with    *)
(* the CSV and HDF5 consolidators, "multipart" one file or several for     *)
(* each datum, "bytes" files that are not interpreted.                     *)
(***************************************************************************)
EXTENDS Integers, SequencesExt, Utilities

CONSTANTS
  Shapes,        \* shapes in a descriptor
  ChunkShapes,   \* parameter chunk_shape, <<>> if not given
  Multipliers,   \* parameter multiplier, 0 if not given
  FilesPerDatum, \* parameter files_per_datum, 0 if not given
  MaxRows,       \* bound on the number of datums
  MaxResources   \* bound on the number of StreamResources

Sizes == Seq(Nat \ {0})
ASSUME ShapesAssumption == Shapes \subseteq Sizes /\ ChunkShapes \subseteq Sizes
ASSUME ParametersAssumption == Multipliers \subseteq Nat /\ FilesPerDatum \subseteq Nat
ASSUME BoundsAssumption == MaxRows \in Nat /\ MaxResources \in Nat \ {0}

VARIABLES
  kind, join_method, join_chunks,
  sres,             \* _sres_parameters
  datum_shape, chunk_shape,
  files_per_datum,
  num_rows,
  assets,           \* files by StreamResource and number in the template
  indx_offset,
  orig_chunks,      \* <<>> for None
  resources,        \* the number of StreamResources, the last one in the template
  index,            \* history: stop of the last indices
  patches,          \* history: what consume_stream_datum() returned
  layouts           \* history: files per datum of all StreamResources

fixed == <<kind, join_method, join_chunks, datum_shape, chunk_shape>>
vars == <<fixed, sres, files_per_datum, num_rows, assets, indx_offset, orig_chunks,
          resources, index, patches, layouts>>

-----------------------------------------------------------------------------
(***************************************************************************)
(* Construction                                                            *)
(***************************************************************************)
\* The number of frames per point becomes the first dimension of a datum.
Multiplied(shape, m) ==
  CASE m = 0 -> shape
    [] m # 0 /\ shape = <<>> -> <<m>>
    [] OTHER -> IF shape[1] = m THEN shape
                ELSE <<m>> \o (IF shape[1] = 1 THEN Tail(shape) ELSE shape)

DatumShape(shape, join, m) ==
  Multiplied(IF shape = <<1>> /\ join = "stack" THEN <<>> ELSE shape, m)

\* Mutant: the frames of a file need not divide those of a datum.
CoercedNot(shape, chunk, join) == IF chunk = <<>> THEN <<1>> ELSE chunk

\* A file of a multipart consolidator must not go across datums.
Coerced(shape, chunk, join) ==
  LET given == IF chunk = <<>> THEN <<1>> ELSE chunk
  IN IF join = "concat" /\ shape[1] % given[1] # 0 THEN <<shape[1]>> ELSE given

\* The parameter comes first, then what the formats do.
FramesPerFile(shape, chunk, join, params) ==
  CASE shape = <<>> -> 1
    [] shape # <<>> /\ params.files_per_datum # 0 -> Max({1, shape[1] \div params.files_per_datum})
    [] OTHER ->
         CASE join = "concat" -> chunk[1]
           [] join = "stack" /\ params.multiplier # 0 -> 1
           [] OTHER -> IF Len(chunk) = Len(shape) /\ Tail(chunk) = Tail(shape) /\ shape[1] % chunk[1] = 0
                       THEN chunk[1] ELSE shape[1]

FilesOfDatum(shape, chunk, join, params) ==
  CASE params.files_per_datum # 0 -> params.files_per_datum
    [] params.files_per_datum = 0 /\ shape = <<>> -> 1
    [] OTHER -> Max({1, shape[1] \div FramesPerFile(shape, chunk, join, params)})

Parameters == [multiplier : Multipliers, files_per_datum : FilesPerDatum]

Init ==
  /\ kind \in {"single", "multipart", "bytes"}
  /\ join_method \in {"stack", "concat"} /\ join_chunks \in BOOLEAN
  /\ sres \in Parameters
  /\ \E shape \in Shapes : datum_shape = DatumShape(shape, join_method, sres.multiplier)
  /\ \E chunk \in ChunkShapes :
       IF kind = "multipart"
       THEN /\ join_method = "concat" => datum_shape # <<>>
            /\ chunk_shape = Coerced(datum_shape, chunk, join_method)
            /\ files_per_datum = FilesOfDatum(datum_shape, chunk_shape, join_method, sres)
       ELSE /\ sres.files_per_datum = 0 /\ files_per_datum = 1
            /\ chunk_shape = chunk
            \* chunks without joining need a first dimension to be chunked
            /\ datum_shape = <<>> => (join_method = "stack" \/ join_chunks \/ chunk = <<>>)
  /\ kind = "bytes" => datum_shape = <<>> /\ chunk_shape = <<>> /\ join_method = "stack" /\ join_chunks
  /\ num_rows = 0
  /\ assets = IF kind = "single" THEN <<[sres |-> 1, file |-> 0]>> ELSE <<>>
  /\ indx_offset = 0 /\ orig_chunks = <<>>
  /\ resources = 1 /\ index = 0 /\ patches = <<>> /\ layouts = {files_per_datum}

-----------------------------------------------------------------------------
(***************************************************************************)
(* Structure                                                               *)
(***************************************************************************)
ArrayShape(join, shape, rows) ==
  IF join = "concat" /\ shape # <<>>
  THEN <<rows * shape[1]>> \o Tail(shape)
  ELSE <<rows>> \o shape

ShapeOf(rows) == ArrayShape(join_method, datum_shape, rows)
Shape == ShapeOf(num_rows)

Joined == join_method = "stack" \/ join_chunks

Chunks ==
  [d \in DOMAIN Shape |->
     CASE d > Len(chunk_shape) -> <<Shape[d]>>
       [] d = 1 /\ chunk_shape # <<>> /\ ~Joined ->
            list_summands(datum_shape[1], chunk_shape[1], num_rows)
       [] OTHER -> list_summands(Shape[d], chunk_shape[d], 1)]

\* chunks raises ValueError otherwise.
Readable == kind # "bytes" /\ Len(chunk_shape) <= Len(Shape)

\* Patch.combine_patches(): the smallest box around the patches.
combine_patches(ps) ==
  LET first  == [d \in DOMAIN ps[1].offset |-> Min({ps[i].offset[d] : i \in DOMAIN ps})]
      extent == [d \in DOMAIN first |-> Max({ps[i].offset[d] + ps[i].shape[d] : i \in DOMAIN ps})]
  IN [offset |-> first, shape |-> [d \in DOMAIN first |-> extent[d] - first[d]]]

-----------------------------------------------------------------------------
(***************************************************************************)
(* Documents                                                               *)
(***************************************************************************)
Files(first, last) == [i \in 1..(last - first) |-> [sres |-> resources, file |-> first + i - 1 - indx_offset]]

\* Mutant: of the files only those of the new datums.
LayoutNew(fpf, new) ==
  << [i \in 1..new |-> 1] >> \o (IF fpf > 1 THEN << <<fpf>> >> ELSE <<>>)
    \o [i \in 1..(Len(datum_shape) - 1) |-> <<datum_shape[i + 1]>>]

\* The files as they are on disk, when a stacked datum has several of them.
Layout(fpf, new) ==
  << [i \in DOMAIN assets' |-> 1] >> \o (IF fpf > 1 THEN << <<fpf>> >> ELSE <<>>)
    \o [i \in 1..(Len(datum_shape) - 1) |-> <<datum_shape[i + 1]>>]

Split ==
  /\ join_method = "stack" /\ Len(datum_shape) > 1
  /\ files_per_datum > 1 /\ datum_shape[1] % files_per_datum = 0

\* What every consume_stream_datum() does, and the patch it returns: new rows at
\* the end.  Indices of StreamDatums follow one another.
Received(n) ==
  /\ index + n <= MaxRows
  /\ index' = index + n
  /\ UNCHANGED <<fixed, sres, files_per_datum, indx_offset, resources, layouts>>

NewRows(n) ==
  [offset |-> [d \in DOMAIN Shape |-> IF d = 1 THEN Shape[1] ELSE 0],
   shape  |-> [d \in DOMAIN Shape |-> IF d = 1 THEN ShapeOf(num_rows + n)[1] - Shape[1] ELSE Shape[d]]]

ConsumeSingle(n) ==
  /\ kind = "single" /\ Received(n)
  /\ num_rows' = num_rows + n
  /\ patches' = Append(patches, NewRows(n))
  /\ UNCHANGED <<assets, orig_chunks>>

ConsumeMultipart(n) ==
  /\ kind = "multipart" /\ Received(n)
  /\ assets' = assets \o Files(index * files_per_datum, (index + n) * files_per_datum)
  /\ orig_chunks' = IF Split
                    THEN Layout(FramesPerFile(datum_shape, chunk_shape, join_method, sres), n * files_per_datum)
                    ELSE orig_chunks
  /\ num_rows' = num_rows + n
  /\ patches' = Append(patches, NewRows(n))

\* A file for each index, and no rows.
ConsumeBytes(n) ==
  /\ kind = "bytes" /\ Received(n)
  /\ assets' = assets \o Files(index, index + n)
  /\ patches' = Append(patches, [offset |-> <<index>>, shape |-> <<n>>])
  /\ UNCHANGED <<num_rows, orig_chunks>>

\* What every update_from_stream_resource() leaves alone.
Added ==
  /\ resources < MaxResources
  /\ resources' = resources + 1
  /\ layouts' = layouts \cup {files_per_datum'}
  /\ UNCHANGED <<fixed, num_rows, orig_chunks, index, patches>>

\* Another HDF5 file.  Other datasets and chunks are refused; ConsolidatorBase and
\* CSVConsolidator refuse all.
UpdateSingle ==
  /\ kind = "single"
  /\ assets' = Append(assets, [sres |-> resources + 1, file |-> 0])
  /\ UNCHANGED <<sres, files_per_datum, indx_offset>>
  /\ Added

\* Mutant: the numbers of the files go on with a new template.
UpdateMultipartUncounted(params) ==
  /\ kind = "multipart"
  /\ params.multiplier = sres.multiplier
  /\ sres' = params
  /\ files_per_datum' = FilesOfDatum(datum_shape, chunk_shape, join_method, params)
  /\ UNCHANGED <<assets, indx_offset>>
  /\ Added

\* A new template, possibly with another number of files for a datum.
UpdateMultipart(params) ==
  /\ kind = "multipart"
  /\ params.multiplier = sres.multiplier
  /\ sres' = params
  /\ files_per_datum' = FilesOfDatum(datum_shape, chunk_shape, join_method, params)
  /\ indx_offset' = Len(assets)
  /\ UNCHANGED assets
  /\ Added

UpdateBytes ==
  /\ kind = "bytes"
  /\ indx_offset' = Len(assets)
  /\ UNCHANGED <<sres, files_per_datum, assets>>
  /\ Added

Next ==
  \/ \E n \in 1..MaxRows : ConsumeSingle(n) \/ ConsumeMultipart(n) \/ ConsumeBytes(n)
  \/ \E params \in Parameters : UpdateMultipart(params)
  \/ UpdateSingle \/ UpdateBytes

Spec == Init /\ [][Next]_vars

-----------------------------------------------------------------------------
(***************************************************************************)
(* Properties                                                              *)
(***************************************************************************)
Total(sizes) ==
  LET sum[i \in 0..Len(sizes)] == IF i = 0 THEN 0 ELSE sum[i - 1] + sizes[i]
  IN sum[Len(sizes)]

Elements(sizes) ==
  LET product[i \in 0..Len(sizes)] == IF i = 0 THEN 1 ELSE product[i - 1] * sizes[i]
  IN product[Len(sizes)]

\* The chunks fill the shape in every dimension, whatever was appended (tiled
\* rejects a structure otherwise); none is larger than the chunk shape, and
\* only the last is smaller, or the last of each datum when chunks are not
\* joined (line 238: "consecutive chunks do not join").
ChunksTileShape ==
  Readable => \A d \in DOMAIN Shape :
    /\ Total(Chunks[d]) = Shape[d]
    /\ d <= Len(chunk_shape) =>
         \A i \in DOMAIN Chunks[d] :
           \/ Chunks[d][i] = chunk_shape[d]
           \/ /\ Chunks[d][i] < chunk_shape[d]
              /\ \/ i = Len(Chunks[d])
                 \/ d = 1 /\ ~Joined /\ Total(SubSeq(Chunks[d], 1, i)) % datum_shape[1] = 0

\* "files_per_datum * frames_per_file == datum_shape[0]" (line 616), and so
\* the files hold the frames of all rows, unless the parameter files_per_datum does
\* not divide the frames or changes between StreamResources.
FilesHoldFrames ==
  (/\ kind = "multipart" /\ layouts = {files_per_datum} /\ datum_shape # <<>>
   /\ sres.files_per_datum = 0 \/ datum_shape[1] % sres.files_per_datum = 0) =>
    Len(assets) * FramesPerFile(datum_shape, chunk_shape, join_method, sres) = num_rows * datum_shape[1]

\* The layout sent to tiled for reading parts of a datum has one chunk for each
\* file, and as many elements as the array, after every StreamResource.
OrigChunksFit ==
  (orig_chunks # <<>> /\ layouts = {files_per_datum}) =>
    /\ Len(orig_chunks[1]) = Len(assets)
    /\ Elements([d \in DOMAIN orig_chunks |-> Total(orig_chunks[d])]) = Elements(Shape)

\* The files of each StreamResource are numbered from 0 in their order (lines
\* 718 and 472, "to reset the file index counter to start from 0"), if all of
\* them have the same number of files for a datum.
FilesRestartAtZero ==
  layouts = {files_per_datum} =>
    \A i \in DOMAIN assets :
      assets[i].file = Cardinality({j \in 1..(i - 1) : assets[j].sres = assets[i].sres})

\* What is sent to live subscribers for the StreamDatums cached at the end of a
\* run, the box around their patches, is the union of the patches, and the
\* last one ends where the array does.
PatchesCombine ==
  \A i, j \in DOMAIN patches : i <= j =>
    LET Rows(p) == p.offset[1]..(p.offset[1] + p.shape[1] - 1)
        box == combine_patches(SubSeq(patches, i, j))
    IN /\ Rows(box) = UNION {Rows(patches[k]) : k \in i..j}
       /\ j = Len(patches) =>
            box.offset[1] + box.shape[1] = IF kind = "bytes" THEN index ELSE Shape[1]
       /\ \A d \in DOMAIN box.shape \ {1} : box.offset[d] = 0 /\ box.shape[d] = Shape[d]
=============================================================================
