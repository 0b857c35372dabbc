---------------------------- MODULE ExternalData ----------------------------
(***************************************************************************)
(* writing/tiled_writer.py, _RunWriter, the data of StreamDatum documents: *)
(* frames that a detector writes to files of its own are announced by      *)
(* ranges of indices.  The writer concatenates the ranges up to batch_size,*)
(* lets a consolidator turn them into a list of files, and sends the data  *)
(* source of the node to the server together with the patch that changed.  *)
(*                                                                         *)
(* There is one external data key, of the multipart kind with one file per *)
(* frame (writing/consolidators.py, MultipartRelatedConsolidator), served  *)
(* by one StreamResource after another; each of them numbers its files     *)
(* from 0.  A step is what happens between two requests to the server.     *)
(***************************************************************************)
EXTENDS Integers, Sequences, SequencesExt

CONSTANTS
  BatchSizes,     \* values of batch_size
  NumResources,   \* bound: StreamResources
  NumFrames,      \* bound: the indices they reach
  MaxDatum,       \* bound: frames of one StreamDatum
  MaxGaps,        \* bound: jumps between the indices of two StreamDatums
  MaxFaults       \* bound: requests that fail

ASSUME SizesAssumption ==
  /\ BatchSizes \subseteq Nat /\ NumResources \in Nat /\ NumFrames \in Nat
  /\ MaxGaps \in Nat /\ MaxFaults \in Nat /\ MaxDatum \in Nat \ {0}

VARIABLES
  batch_size,     \* batch_size
  backed,         \* is the writer the primary of a _ConditionalBackup
  pc,             \* "idle", or what the handler at hand does next
  stopping,       \* is that handler stop()
  cached,         \* _external_data_cache, in the order of the dictionary
  todo,           \* StreamDatums the handler has still to consume
  registered,     \* StreamResources in _sres_nodes
  cons,           \* the consolidator of the data key
  fresh,          \* rows consumed since the last data source was sent
  raised,         \* did a handler raise
  made,           \* server: the node of the data key exists
  source,         \* server: the data source, its rows and its files
  patches,        \* server: the patches that came with it
  stopDoc,        \* server: the Stop document is in the metadata
  resources,      \* the StreamResources received are 1..resources
  index,          \* the index after the last one announced
  first,          \* history: the first index of each StreamResource
  frames,         \* history: the file of every frame announced, in order
  gaps, faults    \* counters for the bounds

writer == <<cached, todo, registered, cons, fresh>>
server == <<made, source, patches, stopDoc>>
run == <<resources, index, first, frames, gaps>>
options == <<batch_size, backed>>
vars == <<options, pc, stopping, writer, raised, server, run, faults>>

Init ==
  /\ batch_size \in BatchSizes /\ backed \in BOOLEAN
  /\ pc = "idle" /\ stopping = FALSE /\ raised = FALSE
  /\ cached = <<>> /\ todo = <<>> /\ registered = {} /\ fresh = 0
  /\ cons = [rows |-> 0, files |-> <<>>, template |-> 0, offset |-> 0]
  /\ made = FALSE /\ source = [rows |-> 0, files |-> <<>>] /\ patches = <<>> /\ stopDoc = FALSE
  /\ resources = 0 /\ index = 0 /\ first = <<>> /\ frames = <<>>
  /\ gaps = 0 /\ faults = 0

Receiving == pc = "idle" /\ ~stopping /\ (backed => ~raised)

Fault == faults < MaxFaults /\ faults' = faults + 1
Raise == pc' = "idle" /\ raised' = TRUE /\ todo' = <<>>

\* A StreamDatum: the frames of resource r with start <= index < stop.
Datum(r, start, stop) == [sres |-> r, start |-> start, stop |-> stop]
Size(doc) == doc.stop - doc.start

\* Frame i of resource r is in the file <<r, i - first[r]>>.
FilesOf(r, start, stop) == [k \in 1..(stop - start) |-> <<r, start + k - 1 - first[r]>>]

(***************************************************************************)
(* stream_resource(): the document is cached until a datum needs it.       *)
(***************************************************************************)
StreamResource ==
  /\ Receiving /\ resources < NumResources
  /\ resources' = resources + 1
  /\ first' = Append(first, index)
  /\ UNCHANGED <<options, pc, stopping, writer, raised, server, index, frames, gaps,
                  faults>>

(***************************************************************************)
(* stream_datum(): write it, cache it, or both it and the cached one.      *)
(***************************************************************************)
\* Where the dictionary has the datum of resource r; there is one at most.
CachedAt(r) == {i \in 1..Len(cached) : cached[i].sres = r}

\* concatenate_stream_datums() of a cached datum and the next one.
Consecutive(old, new) == old.stop = new.start
Concatenated(old, new) == Datum(new.sres, old.start, new.stop)

\* Mutant: the new datum is written before the cached one.
HandledNewFirst(doc) ==
  LET k == CHOOSE i \in CachedAt(doc.sres) : TRUE
  IN IF batch_size <= 1 THEN [write |-> <<doc>>, cache |-> cached]
     ELSE IF CachedAt(doc.sres) = {} THEN [write |-> <<>>, cache |-> Append(cached, doc)]
     ELSE [write |-> <<doc, cached[k]>>, cache |-> RemoveAt(cached, k)]

\* What is written at once, and what is cached, when doc arrives: a datum of its
\* resource that is cached is popped.
Handled(doc) ==
  LET k == CHOOSE i \in CachedAt(doc.sres) : TRUE
      old == cached[k]
      others == RemoveAt(cached, k)
  IN
  IF batch_size <= 1 THEN [write |-> <<doc>>, cache |-> cached]
  ELSE IF CachedAt(doc.sres) = {} THEN [write |-> <<>>, cache |-> Append(cached, doc)]
  ELSE IF ~Consecutive(old, doc) THEN [write |-> <<old, doc>>, cache |-> others]
  ELSE IF Size(Concatenated(old, doc)) >= batch_size
    THEN [write |-> <<Concatenated(old, doc)>>, cache |-> others]
  ELSE [write |-> <<>>, cache |-> Append(others, Concatenated(old, doc))]

StreamDatum(size, gap) ==
  LET r == resources
      start == index + gap
      doc == Datum(r, start, start + size)
      handled == Handled(doc)
  IN
  /\ Receiving /\ r > 0 /\ doc.stop <= NumFrames
  /\ gaps + gap <= MaxGaps /\ gaps' = gaps + gap
  /\ index' = doc.stop
  /\ frames' = frames \o FilesOf(r, start, doc.stop)
  /\ cached' = handled.cache /\ todo' = handled.write
  /\ pc' = IF todo' = <<>> THEN "idle" ELSE "consume"
  /\ UNCHANGED <<options, stopping, registered, cons, fresh, raised, server,
                  resources, first, faults>>

(***************************************************************************)
(* _update_consolidator(): get_sres_node() creates the node at the first   *)
(* StreamResource and points the consolidator to the template of every     *)
(* later one; then the consolidator takes in the datum.                    *)
(***************************************************************************)
\* Mutant: the index of the files is not reset.
PointedUncounted(r) == IF r \in registered THEN cons ELSE [cons EXCEPT !.template = r]

\* update_from_stream_resource(): the files of resource r count from 0.
Pointed(r) ==
  IF r \in registered THEN cons
  ELSE [cons EXCEPT !.template = r, !.offset = Len(cons.files)]

\* consume_stream_datum(): one file per index, under the current template.
Consumed(c, doc) ==
  [c EXCEPT
     !.rows = @ + Size(doc),
     !.files = @ \o [k \in 1..Size(doc) |-> <<c.template, doc.start + k - 1 - c.offset>>]]

Consume ==
  LET doc == Head(todo) IN
  /\ pc = "consume"
  /\ registered = {} => ~made
  /\ made' = TRUE
  /\ registered' = registered \cup {doc.sres}
  /\ cons' = Consumed(Pointed(doc.sres), doc)
  /\ fresh' = fresh + Size(doc)
  /\ todo' = Tail(todo)
  \* stream_datum() sends after every datum, stop() after the last one
  /\ pc' = IF stopping /\ todo' # <<>> THEN "consume" ELSE "send"
  /\ UNCHANGED <<options, stopping, cached, raised, source, patches, stopDoc, run,
                  faults>>

\* Creating the node of the data key fails; if it was created all the same,
\* the writer does not know it and the server refuses to create it again.
ConsumeFails ==
  /\ pc = "consume" /\ registered = {}
  /\ Raise
  /\ IF made THEN UNCHANGED <<made, faults>> ELSE Fault /\ made' \in BOOLEAN
  /\ UNCHANGED <<options, stopping, cached, registered, cons, fresh, source, patches,
                  stopDoc, run>>

(***************************************************************************)
(* _update_data_source_for_node(): PUT the whole data source, with the     *)
(* patch that the datums consumed make.  A request whose response is lost  *)
(* is sent again, and in the end its error is raised.                      *)
(***************************************************************************)
\* Mutant: the offset of a patch is taken after the rows are added.
ReceivedBehind ==
  /\ source' = [rows |-> cons.rows, files |-> cons.files]
  /\ patches' = Append(patches, [offset |-> cons.rows, rows |-> fresh])

Received ==
  /\ source' = [rows |-> cons.rows, files |-> cons.files]
  /\ patches' = Append(patches, [offset |-> cons.rows - fresh, rows |-> fresh])

Send ==
  /\ pc = "send"
  /\ Received
  /\ fresh' = 0
  /\ pc' = IF todo # <<>> THEN "consume" ELSE IF stopping THEN "stop" ELSE "idle"
  /\ UNCHANGED <<options, stopping, cached, todo, registered, cons, raised, made,
                  stopDoc, run, faults>>

\* The request was processed, and is sent again.
SendRepeated ==
  /\ pc = "send"
  /\ Fault /\ Received
  /\ UNCHANGED <<options, pc, stopping, writer, raised, made, stopDoc, run>>

SendFails ==
  /\ pc = "send"
  /\ Fault /\ Raise
  /\ fresh' = 0
  /\ Received \/ UNCHANGED <<source, patches>>
  /\ UNCHANGED <<options, stopping, cached, registered, cons, made, stopDoc, run>>

(***************************************************************************)
(* stop(): consume what is cached, send the data source once, then write   *)
(* the Stop document.                                                      *)
(***************************************************************************)
\* Mutant: what is cached is not flushed.
StopUnflushed ==
  /\ Receiving
  /\ stopping' = TRUE /\ pc' = "stop"
  /\ UNCHANGED <<options, writer, raised, server, run, faults>>

Stop ==
  /\ Receiving
  /\ stopping' = TRUE
  /\ todo' = cached
  /\ pc' = IF cached = <<>> THEN "stop" ELSE "consume"
  /\ UNCHANGED <<options, cached, registered, cons, fresh, raised, server, run, faults>>

StopWrite ==
  /\ pc = "stop"
  /\ stopDoc' = TRUE /\ pc' = "idle"
  /\ UNCHANGED <<options, stopping, writer, raised, made, source, patches, run, faults>>

StopWriteFails ==
  /\ pc = "stop"
  /\ Fault /\ Raise
  /\ stopDoc' \in BOOLEAN
  /\ UNCHANGED <<options, stopping, cached, registered, cons, fresh, made, source,
                  patches, run>>

-----------------------------------------------------------------------------
Next ==
  \/ StreamResource
  \/ \E size \in 1..MaxDatum, gap \in 0..1 : StreamDatum(size, gap)
  \/ Consume \/ ConsumeFails \/ Send \/ SendRepeated \/ SendFails
  \/ Stop \/ StopWrite \/ StopWriteFails

Spec == Init /\ [][Next]_vars

-----------------------------------------------------------------------------
(***************************************************************************)
(* Properties                                                              *)
(***************************************************************************)
\* Whatever a client reads, row n of the array is in the file that the
\* detector wrote frame n to: files are never out of order, doubled, missing
\* or numbered for another StreamResource (lines 1183-1184: the data of an
\* additional one "should be concatenated with the existing one").
AssetsAreFrames ==
  backed => /\ Len(source.files) <= Len(frames)
            /\ \A n \in 1..Len(source.files) : source.files[n] = frames[n]

\* The code gives this for a single StreamResource, and for several whose
\* datums are not batched and leave no index out: the files of a later one are
\* numbered from the count of those before.
Unmixed == resources <= 1 \/ (batch_size <= 1 /\ gaps = 0)
AssetsAreFramesUnmixed == Unmixed => AssetsAreFrames

\* A run that has its Stop document has every frame, the last incomplete
\* batches included, in its rows, and each in one file.
FramesComplete ==
  (backed /\ stopDoc) =>
    /\ source.rows = Len(frames) /\ Len(source.files) = Len(frames)
    /\ Unmixed => source.files = frames

\* The patches tell a live subscriber of every row: each is where the one
\* before it ended, unless it is the same one sent again, and the last one ends
\* where the data source does.
PatchesTile ==
  LET Ends(p) == p.offset + p.rows IN
  backed =>
    /\ \A i \in 1..Len(patches) :
         IF i = 1 THEN patches[1].offset = 0
         ELSE patches[i] = patches[i - 1] \/ patches[i].offset = Ends(patches[i - 1])
    /\ patches # <<>> => Ends(patches[Len(patches)]) = source.rows
=============================================================================
