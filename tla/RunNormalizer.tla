---------------------------- MODULE RunNormalizer ---------------------------
(***************************************************************************)
(* writing/tiled_writer.py, RunNormalizer: the values of an Event that are *)
(* internal are emitted in an Event.  Others reference a Datum by its id,  *)
(* and a Datum belongs to a Resource; the normalizer turns both into       *)
(* StreamDatum and StreamResource documents when it has the Event and the  *)
(* Datum, whichever comes last, and then the StreamResource first if it    *)
(* was not emitted before.                                                 *)
(*                                                                         *)
(* There is one data key that may be external.  The documents of a run     *)
(* come from one thread: a step is one document, with everything that is   *)
(* emitted for it.  An exception ends the run, as below _ConditionalBackup.*)
(***************************************************************************)
EXTENDS Integers, FiniteSets, Sequences

CONSTANTS
  Descriptors,    \* uids of EventDescriptors
  Runs,           \* what may be given of a run, values of declared, filled and uses_frame
  Image,          \* the data key that may be external
  MinFrames,      \* frames in a Resource before the next one follows
  MaxSize,        \* bound: frames of a Datum
  NumDatums,      \* bound
  NumResources    \* bound

ASSUME RunsAssumption ==
  \A run \in Runs :
    LET f == run[1] IN
    /\ DOMAIN f = Descriptors
    /\ \A d \in Descriptors : \A k \in DOMAIN f[d].data_keys :
         f[d].data_keys[k] \in BOOLEAN /\ (f[d].data_keys[k] => k = Image)
    /\ \A d, e \in Descriptors : f[d].name = f[e].name => f[d] = f[e]
    /\ run[2] \in {"absent", "unfilled", "filled"} /\ run[3] \in BOOLEAN
ASSUME SizesAssumption ==
  /\ MinFrames \in Nat \ {0} /\ MaxSize \in Nat \ {0}
  /\ NumDatums \in Nat /\ NumResources \in Nat

VARIABLES
  declared,       \* the stream's name and the data_keys of each descriptor, external
                  \* (TRUE) or internal
  filled,         \* what `filled` says of external keys: "absent", "unfilled" or "filled"
  uses_frame,     \* do datum_kwargs have `frame`, the last frame of the Datum
  desc_name,      \* _desc_name_by_uid: the descriptors received
  int_keys,       \* _int_keys, of all streams
  ext_keys,       \* _ext_keys, of all streams
  sres_cache,     \* Resources received: 1.._
  next_frame,     \* _next_frame_index, by stream
  datum_cache,    \* _datum_cache: the numbers of the Datums in it
  ext_refs,       \* _ext_ref_cache
  emitted,        \* _emitted: StreamResource uids
  out,            \* documents emitted
  status,         \* "open", "stopped" or "raised"
  datums,         \* history: the Datums received
  refs,           \* history: the references of the Events received
  inFile          \* history: frames written to the last Resource

given == <<declared, filled, uses_frame>>
keyVars == <<desc_name, int_keys, ext_keys>>
emitter == <<next_frame, datum_cache, emitted, out>>
vars == <<given, keyVars, sres_cache, emitter, ext_refs, status, datums, refs, inFile>>

\* _desc_name_by_uid
Stream(d) == declared[d].name
Streams == {Stream(d) : d \in Descriptors}

Init ==
  /\ \E run \in Runs : declared = run[1] /\ filled = run[2] /\ uses_frame = run[3]
  /\ desc_name = {} /\ int_keys = {} /\ ext_keys = {}
  /\ sres_cache = 0
  /\ next_frame = [s \in Streams |-> [carry |-> 0, index |-> 0]]
  /\ datum_cache = {} /\ ext_refs = <<>> /\ emitted = {} /\ out = <<>>
  /\ status = "open" /\ datums = <<>> /\ refs = <<>> /\ inFile = 0

(***************************************************************************)
(* _convert_datum_to_stream_datum(): the indices of a Datum follow from    *)
(* its frame number, the one before it and what was carried over from      *)
(* earlier Resources, or else from the seq_num of the Event.               *)
(***************************************************************************)
Total(f) == f.carry + f.index

\* Mutant: a frame number that starts again is not noticed.
AdvancedOnly(f, frame) == [f EXCEPT !.index = frame + 1]

Advanced(f, frame) ==
  IF f.carry + frame + 1 < Total(f)
  THEN [carry |-> Total(f), index |-> frame + 1]
  ELSE [f EXCEPT !.index = frame + 1]

\* The uid of the StreamResource: one for each Resource and descriptor.
StreamResourceUid(ref) == <<datums[ref.datum].resource, ref.desc>>

\* Mutant: the StreamResource is emitted before every Datum.
NewResourceAlways(e, uid) == <<[type |-> "stream_resource", sres |-> uid]>>

NewResource(e, uid) ==
  IF uid \in e.emitted THEN <<>> ELSE <<[type |-> "stream_resource", sres |-> uid]>>

Popped(cache, n) == cache \ {n}

\* The Datum popped from the cache is emitted, with its StreamResource if new.
Emit(e, ref) ==
  LET s == Stream(ref.desc)
      uid == StreamResourceUid(ref)
      moved == IF uses_frame THEN Advanced(e.next_frame[s], datums[ref.datum].frame)
               ELSE e.next_frame[s]
      datum == [type |-> "stream_datum", sres |-> uid, datum |-> ref.datum,
                start |-> IF uses_frame THEN Total(e.next_frame[s]) ELSE ref.seq_num - 1,
                stop |-> IF uses_frame THEN Total(moved) ELSE ref.seq_num]
  IN
  [next_frame |-> [e.next_frame EXCEPT ![s] = moved],
   datum_cache |-> Popped(e.datum_cache, ref.datum),
   emitted |-> e.emitted \cup {uid},
   out |-> e.out \o NewResource(e, uid) \o <<datum>>]

Emitter == [next_frame |-> next_frame, datum_cache |-> datum_cache,
            emitted |-> emitted, out |-> out]
Becomes(e) == /\ next_frame' = e.next_frame /\ datum_cache' = e.datum_cache
              /\ emitted' = e.emitted /\ out' = e.out

-----------------------------------------------------------------------------
(***************************************************************************)
(* descriptor(): data keys with the name of a column that each table has   *)
(* are renamed.                                                            *)
(***************************************************************************)
RESERVED_DATA_KEYS == {"time", "seq_num"}

Renamed(k) ==
  CASE k = "time" -> "time_" [] k = "seq_num" -> "seq_num_" [] k \notin RESERVED_DATA_KEYS -> k

DataKeys(d) == {Renamed(k) : k \in DOMAIN declared[d].data_keys}
External(d) == DataKeys(d) \cap {k \in DOMAIN declared[d].data_keys : declared[d].data_keys[k]}

Clashes(d) == \E k \in RESERVED_DATA_KEYS \cap DOMAIN declared[d].data_keys : Renamed(k) \in DOMAIN declared[d].data_keys

Descriptor(d) ==
  /\ status = "open" /\ d \notin desc_name /\ ~Clashes(d)
  /\ int_keys' = int_keys \cup (DataKeys(d) \ External(d))
  /\ ext_keys' = ext_keys \cup External(d)
  /\ desc_name' = desc_name \cup {d}
  /\ out' = Append(out, [type |-> "descriptor", desc |-> d, keys |-> DataKeys(d)])
  /\ UNCHANGED <<given, sres_cache, next_frame, datum_cache, emitted, ext_refs, status, datums, refs, inFile>>

DescriptorRaises(d) ==
  /\ status = "open" /\ d \notin desc_name /\ Clashes(d)
  /\ status' = "raised"
  /\ UNCHANGED <<given, keyVars, sres_cache, emitter, ext_refs, datums, refs, inFile>>

\* resource(): the detector goes on in another file, its frames start again.
Resource ==
  /\ status = "open" /\ sres_cache < NumResources
  /\ sres_cache > 0 => inFile >= MinFrames
  /\ sres_cache' = sres_cache + 1
  /\ inFile' = 0
  /\ UNCHANGED <<given, keyVars, emitter, ext_refs, status, datums, refs>>

\* datum(): size frames more in the last Resource; kept until an Event comes.
\* Without `frame` the indices are those of the Events, one for each.
Datum(size) ==
  /\ status = "open" /\ sres_cache > 0 /\ Len(datums) < NumDatums
  /\ uses_frame \/ size = 1
  /\ inFile' = inFile + size
  /\ datums' = Append(datums, [resource |-> sres_cache, frame |-> inFile' - 1, size |-> size])
  /\ datum_cache' = datum_cache \cup {Len(datums')}
  /\ UNCHANGED <<given, keyVars, sres_cache, next_frame, emitted, out, ext_refs, status, refs>>

(***************************************************************************)
(* event(): the values of internal keys, and of external ones that are     *)
(* filled, then the Datum another one references, if it is there.          *)
(***************************************************************************)
\* filled.get(k, default), `filled` having external keys only
Filled(d, k, default) ==
  CASE k \in External(d) /\ filled = "filled" -> TRUE
    [] k \in External(d) /\ filled = "unfilled" -> FALSE
    [] k \notin External(d) \/ filled = "absent" -> default

\* Mutant: external keys are not looked up in `filled`.
EventKeysDeclared(d) == {k \in int_keys : Filled(d, k, TRUE)}

\* event_keys
EventKeys(d) == {k \in int_keys : Filled(d, k, TRUE)} \cup {k \in ext_keys : Filled(d, k, FALSE)}

\* The value of an external key is the id of a Datum, unless it was filled.
References(d) == External(d) # {} /\ filled # "filled"

Events == {i \in 1..Len(out) : out[i].type = "event"}

\* Events reference the Datums one after the other, each before or after the Datum
\* is received.
Event(d) ==
  LET routed == Image \in DataKeys(d) \cap (ext_keys \ EventKeys(d))
      before == {i \in Events : Stream(out[i].desc) = Stream(d)}
      ref == [datum |-> Len(refs) + 1, desc |-> d, seq_num |-> Cardinality(before) + 1]
      e == [Emitter EXCEPT
             !.out = Append(@, [type |-> "event", desc |-> d, keys |-> DataKeys(d) \cap EventKeys(d)])]
  IN
  /\ status = "open" /\ d \in desc_name /\ Cardinality(Events) < NumDatums
  /\ refs' = IF References(d) THEN Append(refs, ref) ELSE refs
  /\ \/ routed /\ ref.datum \in datum_cache
        /\ Becomes(Emit(e, ref)) /\ UNCHANGED ext_refs
     \/ routed /\ ref.datum \notin datum_cache
        /\ Becomes(e) /\ ext_refs' = Append(ext_refs, ref)
     \/ ~routed
        /\ Becomes(e) /\ UNCHANGED ext_refs
  /\ UNCHANGED <<given, keyVars, sres_cache, status, datums, inFile>>

(***************************************************************************)
(* stop(): the references that were left, in order, then the document.     *)
(***************************************************************************)
\* Mutant: what was left is not looked at.
StopAtOnce ==
  /\ status = "open" /\ status' = "stopped"
  /\ out' = Append(out, [type |-> "stop"])
  /\ UNCHANGED <<given, keyVars, sres_cache, next_frame, datum_cache, emitted, ext_refs, datums, refs, inFile>>

Stop ==
  LET Known(k) == \A i \in 1..k : ext_refs[i].datum \in datum_cache
      count == CHOOSE k \in 0..Len(ext_refs) :
                 Known(k) /\ (k < Len(ext_refs) => ~Known(k + 1))
      emitting[k \in 0..count] ==
        IF k = 0 THEN Emitter ELSE Emit(emitting[k - 1], ext_refs[k])
      e == emitting[count]
  IN
  /\ status = "open"
  /\ IF count = Len(ext_refs)
     THEN Becomes([e EXCEPT !.out = Append(@, [type |-> "stop"])]) /\ status' = "stopped"
     ELSE Becomes(e) /\ status' = "raised"
  /\ UNCHANGED <<given, keyVars, sres_cache, ext_refs, datums, refs, inFile>>

Next ==
  \/ Resource
  \/ \E size \in 1..MaxSize : Datum(size)
  \/ \E d \in Descriptors : Descriptor(d) \/ DescriptorRaises(d) \/ Event(d)
  \/ Stop

Spec == Init /\ [][Next]_vars

-----------------------------------------------------------------------------
(***************************************************************************)
(* Properties                                                              *)
(***************************************************************************)
StreamDatums == {i \in 1..Len(out) : out[i].type = "stream_datum"}

\* Whoever gets the documents has the StreamResource of a StreamDatum before
\* it, and once ("only before first SDatum", docs/explanations/writer.md:65):
\* a second one would start the numbering of the files again.
ResourceOnceBeforeDatum ==
  \A i \in StreamDatums :
    LET announced == {j \in 1..Len(out) : out[j].type = "stream_resource" /\ out[j].sres = out[i].sres}
    IN \E j \in announced : announced = {j} /\ j < i

\* The keys of all streams are collected, so without `filled` a key that is internal
\* in one stream is taken as internal in another one too.
Ambiguous == Image \in int_keys \cap ext_keys /\ filled = "absent"

\* No value is lost or given twice: what an Event has for the keys of its descriptor,
\* renamed or not, is in the Event emitted, except for a reference, which leads
\* to one StreamDatum, in a run that gets its Stop document, whether the Datum
\* came before the Event or after it.
EveryValueEmitted ==
  /\ \A i, j \in StreamDatums : out[i].datum = out[j].datum => i = j
  /\ ~Ambiguous =>
       /\ \A i \in Events : \E j \in 1..(i - 1) :
            /\ out[j].type = "descriptor" /\ out[j].desc = out[i].desc
            /\ out[i].keys = out[j].keys \ (IF References(out[i].desc) THEN {Image} ELSE {})
       /\ status = "stopped" =>
            {out[i].datum : i \in StreamDatums} = {refs[n].datum : n \in 1..Len(refs)}

\* Frame numbers belong to a Resource: streams that share one would each see
\* gaps in them, which the code does not provide for.
ResourcesShared ==
  \E m, n \in 1..Len(refs) :
    /\ datums[refs[m].datum].resource = datums[refs[n].datum].resource
    /\ Stream(refs[m].desc) # Stream(refs[n].desc)

\* As long as no Event precedes its Datum, the StreamDatums of a stream tile its
\* frames: each is as long as its Datum and starts where the one before it
\* ended, also when the frame numbers start again in another Resource (lines
\* 375-377: "the 'carry' field is used to keep track of the previous frame
\* index").
FramesTile ==
  (ext_refs = <<>> /\ ~Ambiguous /\ ~(uses_frame /\ ResourcesShared)) =>
    \A i \in StreamDatums :
      LET s == Stream(out[i].sres[2])
          before == {j \in StreamDatums : j < i /\ Stream(out[j].sres[2]) = s}
      IN /\ out[i].stop - out[i].start = datums[out[i].datum].size
         /\ out[i].start = IF before = {} THEN 0
                           ELSE out[CHOOSE j \in before : \A k \in before : k <= j].stop
=============================================================================
