------------------------- MODULE RunNormalizerProofs ------------------------
(***************************************************************************)
(* Proofs about RunNormalizer, for any descriptors, any order of Events,   *)
(* Resources and Datums, and any number of them; and about the Dispatcher  *)
(* through which it emits, for any callbacks, any kinds of documents and   *)
(* any number of subscriptions and documents.                              *)
(***************************************************************************)
EXTENDS RunNormalizer, Dispatcher, SequenceTheorems, FiniteSetTheorems, WellFoundedInduction, TLAPS

Uids == Nat \X Descriptors
AllKeys == UNION {DataKeys(d) : d \in Descriptors}
Docs ==
  [type : {"descriptor", "event"}, desc : Descriptors, keys : SUBSET AllKeys]
    \cup [type : {"stream_resource"}, sres : Uids]
    \cup [type : {"stream_datum"}, sres : Uids, datum : Nat, start : Int, stop : Int]
    \cup [type : {"stop"}]
Frames == [carry : Int, index : Int]
Refs == [datum : Nat, desc : Descriptors, seq_num : Nat]
DatumDocs == [resource : Nat \ {0}, frame : Nat, size : Nat]

TypeOK ==
  /\ \E run \in Runs : declared = run[1] /\ filled = run[2] /\ uses_frame = run[3]
  /\ desc_name \subseteq Descriptors /\ sres_cache \in Nat
  /\ next_frame \in [Streams -> Frames] /\ datum_cache \subseteq 1..Len(datums)
  /\ ext_refs \in Seq(Refs) /\ emitted \subseteq Uids /\ out \in Seq(Docs)
  /\ status \in {"open", "stopped", "raised"}
  /\ datums \in Seq(DatumDocs) /\ refs \in Seq(Refs) /\ inFile \in Nat

(***************************************************************************)
(* The inductive invariant.  First what holds of the documents emitted, at *)
(* any time of the emission: o are the documents and em is _emitted.       *)
(***************************************************************************)
Announces(o, uid, j) == o[j].type = "stream_resource" /\ o[j].sres = uid

AnnouncedOnce(o, em) ==
  /\ \A uid \in em : \E j \in 1..Len(o) :
       Announces(o, uid, j) /\ \A k \in 1..Len(o) : Announces(o, uid, k) => k = j
  /\ \A j \in 1..Len(o) : o[j].type = "stream_resource" => o[j].sres \in em
  /\ \A i \in 1..Len(o) : o[i].type = "stream_datum" =>
       o[i].sres \in em /\ \E j \in 1..Len(o) : j < i /\ Announces(o, o[i].sres, j)

\* The numbers of the Datums that were emitted; one still in the cache was not.
IsDatum(o, i) == o[i].type = "stream_datum"
Numbers(o) == {n \in 1..Len(datums) : \E i \in 1..Len(o) : IsDatum(o, i) /\ o[i].datum = n}

EmittedOnce(o, cache) ==
  /\ \A i, j \in 1..Len(o) : IsDatum(o, i) /\ IsDatum(o, j) /\ o[i].datum = o[j].datum => i = j
  /\ \A i \in 1..Len(o) : IsDatum(o, i) => o[i].datum \in 1..Len(datums) /\ o[i].datum \notin cache

\* The references of the Events wait in _ext_ref_cache or have led to a StreamDatum.
Referenced ==
  /\ \A n \in 1..Len(refs) : refs[n].datum = n
  /\ Numbers(out) \subseteq 1..Len(refs)
  /\ \A k \in 1..Len(ext_refs) :
       /\ ext_refs[k].datum \in 1..Len(refs)
       /\ status = "open" => ext_refs[k].datum \notin Numbers(out)
  /\ \A k, l \in 1..Len(ext_refs) : ext_refs[k].datum = ext_refs[l].datum => k = l
  /\ ~Ambiguous =>
       /\ status = "open" => \A n \in 1..Len(refs) :
            n \in Numbers(out) \/ \E k \in 1..Len(ext_refs) : ext_refs[k].datum = n
       /\ status = "stopped" => \A n \in 1..Len(refs) : n \in Numbers(out)

\* The keys of the descriptors are known; an Event has what it should have.
DescribedAs(o, j, d) == o[j].type = "descriptor" /\ o[j].desc = d /\ o[j].keys = DataKeys(d)

\* What is emitted of the values of an Event.
EventAs(o, i) ==
  /\ \E j \in 1..Len(o) : j < i /\ DescribedAs(o, j, o[i].desc)
  /\ o[i].keys = DataKeys(o[i].desc) \ (IF References(o[i].desc) THEN {Image} ELSE {})

Described ==
  /\ \A d \in desc_name :
       /\ DataKeys(d) \ External(d) \subseteq int_keys /\ External(d) \subseteq ext_keys
       /\ \E j \in 1..Len(out) : DescribedAs(out, j, d)
  /\ ~Ambiguous => \A i \in 1..Len(out) : out[i].type = "event" => EventAs(out, i)

\* The Datums of a Resource follow each other; the file of one that is followed by
\* another is full.
Follows(d, e) ==
  \/ e.resource = d.resource /\ e.frame = d.frame + e.size
  \/ e.resource # d.resource /\ e.frame = e.size - 1 /\ d.frame + 1 >= MinFrames

Numbered ==
  /\ \A n \in 1..Len(datums) :
       /\ datums[n].size \in 1..MaxSize /\ datums[n].frame >= datums[n].size - 1
       /\ datums[n].resource <= sres_cache
       /\ ~uses_frame => datums[n].size = 1
  /\ datums # <<>> => datums[1].frame = datums[1].size - 1
  /\ \A n \in 1..(Len(datums) - 1) : Follows(datums[n], datums[n + 1])
  /\ IF datums = <<>> THEN inFile = 0
     ELSE LET last == datums[Len(datums)] IN
          \/ last.resource = sres_cache /\ inFile = last.frame + 1
          \/ last.resource < sres_cache /\ inFile = 0 /\ last.frame + 1 >= MinFrames

\* The last StreamDatum of a stream stops at the frame that comes next: it follows
\* from the last Datum that an Event of the stream references, or from its Events.
Direct == ext_refs = <<>> /\ ~Ambiguous /\ ~(uses_frame /\ ResourcesShared)

OfStream(o, s, i) == o[i].type = "stream_datum" /\ Stream(o[i].sres[2]) = s
EventsOf(o, s) == {i \in 1..Len(o) : o[i].type = "event" /\ Stream(o[i].desc) = s}

\* The last StreamDatum of stream s among the first n documents stops at end.
StopsAt(o, s, n, end) ==
  \/ end = 0 /\ \A i \in 1..n : ~OfStream(o, s, i)
  \/ \E i \in 1..n : /\ OfStream(o, s, i) /\ o[i].stop = end
                    /\ \A j \in 1..n : OfStream(o, s, j) => j <= i

Tiles(o, i) ==
  /\ o[i].stop - o[i].start = datums[o[i].datum].size
  /\ StopsAt(o, Stream(o[i].sres[2]), i - 1, o[i].start)

Counts(s) ==
  \/ /\ next_frame[s] = [carry |-> 0, index |-> 0]
     /\ \A n \in 1..Len(refs) : Stream(refs[n].desc) # s
  \/ \E m \in 1..Len(refs) :
       /\ Stream(refs[m].desc) = s /\ next_frame[s].index = datums[m].frame + 1
       /\ \A n \in 1..Len(refs) : Stream(refs[n].desc) = s => n <= m

Ends(s) ==
  IF uses_frame
  THEN StopsAt(out, s, Len(out), Total(next_frame[s])) /\ Counts(s)
  ELSE StopsAt(out, s, Len(out), Cardinality(EventsOf(out, s)))

Tiled ==
  Direct =>
    /\ \A i \in 1..Len(out) : IsDatum(out, i) => Tiles(out, i)
    /\ \A s \in Streams : (\E d \in Descriptors : Stream(d) = s /\ References(d)) => Ends(s)

IInv ==
  /\ TypeOK /\ AnnouncedOnce(out, emitted) /\ EmittedOnce(out, datum_cache)
  /\ Referenced /\ Described /\ Numbered

-----------------------------------------------------------------------------
(***************************************************************************)
(* Facts about sequences                                                   *)
(***************************************************************************)

\* A nonempty set of numbers has a least one: induction is done with it, for a
\* statement about numbers that fails somewhere has a first number where it fails.
LEMMA LeastIndex ==
  ASSUME NEW S \in SUBSET Nat, S # {}
  PROVE  \E x \in S : \A y \in S : x <= y
<1> DEFINE Less == {ss \in Nat \X Nat : ss[1] < ss[2]}
<1>1. Less = OpToRel(<, Nat)
  BY Zenon DEF OpToRel
<1>2. IsWellFoundedOn(OpToRel(<, Nat), Nat)
  BY NatLessThanWellFounded
<1>3. IsWellFoundedOn(Less, Nat)
  BY ONLY <1>1, <1>2, Zenon
<1>4. \A x, y \in Nat : <<y, x>> \notin Less => x <= y
  OBVIOUS
<1> HIDE DEF Less
<1>5. \E x \in S : \A y \in S : <<y, x>> \notin Less
  BY <1>3, WFMin
<1> QED  BY <1>4, <1>5

\* p continues o.
Continues(o, p) ==
  /\ Len(o) \in Nat /\ Len(p) \in Nat /\ Len(o) <= Len(p)
  /\ \A i \in 1..Len(o) : p[i] = o[i]

\* p is o and the document x.
Adds(o, x, p) ==
  /\ Continues(o, p) /\ Len(p) = Len(o) + 1 /\ p[Len(o) + 1] = x
  /\ \A i : i \in 1..Len(p) <=> i \in 1..Len(o) \/ i = Len(o) + 1
  /\ \A i \in 1..Len(o) : i < Len(o) + 1

\* Append adds its element.
LEMMA AppendAdds ==
  ASSUME NEW S, NEW o \in Seq(S), NEW x \in S
  PROVE  Append(o, x) \in Seq(S) /\ Adds(o, x, Append(o, x))
<1> DEFINE p == Append(o, x)
<1>0. Len(o) \in Nat
  OBVIOUS
<1>1. /\ p \in Seq(S) /\ Len(p) = Len(o) + 1
      /\ \A i \in 1..Len(o) : p[i] = o[i]
      /\ p[Len(o) + 1] = x
  BY AppendProperties
<1> HIDE DEF p
<1>2. Continues(o, p)
  BY <1>0, <1>1 DEF Continues
<1>3. /\ \A i : i \in 1..Len(p) <=> i \in 1..Len(o) \/ i = Len(o) + 1
      /\ \A i \in 1..Len(o) : i < Len(o) + 1
  BY <1>0, <1>1
<1>4. Adds(o, x, p)
  BY <1>1, <1>2, <1>3 DEF Adds
<1> QED  BY <1>1, <1>4 DEF p

\* A sequence followed by nothing, or by one element.
LEMMA ConcatAtMostOne ==
  ASSUME NEW S, NEW o \in Seq(S), NEW x \in S
  PROVE  o \o <<>> = o /\ o \o <<x>> = Append(o, x)
OBVIOUS

\* Continuing what continues.
LEMMA ContinuesFurther ==
  ASSUME NEW o, NEW p, NEW q, Continues(o, p), Continues(p, q)
  PROVE  Continues(o, q)
BY DEF Continues

-----------------------------------------------------------------------------
(***************************************************************************)
(* One more document                                                       *)
(***************************************************************************)

\* A document that is neither a StreamResource nor a StreamDatum changes nothing.
LEMMA OtherKeeps ==
  ASSUME NEW o, NEW x, NEW p, Adds(o, x, p), x.type \notin {"stream_resource", "stream_datum"},
         NEW em, AnnouncedOnce(o, em), NEW cache, EmittedOnce(o, cache)
  PROVE  AnnouncedOnce(p, em) /\ EmittedOnce(p, cache) /\ Numbers(p) = Numbers(o)
<1>0. /\ \A i : i \in 1..Len(p) <=> i \in 1..Len(o) \/ i = Len(o) + 1
      /\ \A i \in 1..Len(o) : p[i] = o[i]
      /\ p[Len(o) + 1] = x
  BY DEF Adds, Continues
<1>1. \A i \in 1..Len(p) : p[i].type \in {"stream_resource", "stream_datum"} => i \in 1..Len(o)
  BY <1>0
<1>2. ASSUME NEW uid \in em
      PROVE  \E j \in 1..Len(p) :
               Announces(p, uid, j) /\ \A k \in 1..Len(p) : Announces(p, uid, k) => k = j
  <2>1. PICK j \in 1..Len(o) :
          Announces(o, uid, j) /\ \A k \in 1..Len(o) : Announces(o, uid, k) => k = j
    BY <1>2 DEF AnnouncedOnce
  <2> QED  BY <1>0, <1>1, <2>1 DEF Announces
<1>3. ASSUME NEW i \in 1..Len(p), p[i].type = "stream_datum"
      PROVE  p[i].sres \in em /\ \E j \in 1..Len(p) : j < i /\ Announces(p, p[i].sres, j)
  <2>1. i \in 1..Len(o) /\ p[i] = o[i]
    BY <1>0, <1>1, <1>3
  <2>2. o[i].sres \in em /\ \E j \in 1..Len(o) : j < i /\ Announces(o, o[i].sres, j)
    BY <1>3, <2>1 DEF AnnouncedOnce
  <2> QED  BY <1>0, <2>1, <2>2 DEF Announces
<1>4. AnnouncedOnce(p, em)
  <2>1. \A j \in 1..Len(p) : p[j].type = "stream_resource" => p[j].sres \in em
    BY <1>0, <1>1 DEF AnnouncedOnce
  <2> QED  BY <1>2, <1>3, <2>1 DEF AnnouncedOnce
<1>5. EmittedOnce(p, cache)
  BY <1>0, <1>1 DEF EmittedOnce, IsDatum
<1>6. Numbers(p) = Numbers(o)
  BY <1>0, <1>1 DEF Numbers, IsDatum
<1> QED  BY <1>4, <1>5, <1>6

\* A StreamResource with a new uid.
LEMMA ResourceKeeps ==
  ASSUME NEW o, NEW x, NEW p, Adds(o, x, p), x.type = "stream_resource",
         NEW em, AnnouncedOnce(o, em), x.sres \notin em, NEW cache, EmittedOnce(o, cache)
  PROVE  AnnouncedOnce(p, em \cup {x.sres}) /\ EmittedOnce(p, cache) /\ Numbers(p) = Numbers(o)
<1>0. /\ \A i : i \in 1..Len(p) <=> i \in 1..Len(o) \/ i = Len(o) + 1
      /\ \A i \in 1..Len(o) : p[i] = o[i]
      /\ p[Len(o) + 1] = x
  BY DEF Adds, Continues
<1>1. \A i \in 1..Len(p) : p[i].type = "stream_datum" => i \in 1..Len(o)
  BY <1>0
<1>a. \A k \in 1..Len(o) : ~Announces(o, x.sres, k)
  BY DEF AnnouncedOnce, Announces
<1>2. ASSUME NEW uid \in em \cup {x.sres}
      PROVE  \E j \in 1..Len(p) :
               Announces(p, uid, j) /\ \A k \in 1..Len(p) : Announces(p, uid, k) => k = j
  <2>1. CASE uid \in em
    <3>1. PICK j \in 1..Len(o) :
            Announces(o, uid, j) /\ \A k \in 1..Len(o) : Announces(o, uid, k) => k = j
      BY <2>1 DEF AnnouncedOnce
    <3>2. uid # x.sres
      BY <2>1
    <3> QED  BY <1>0, <3>1, <3>2 DEF Announces
  <2>2. CASE uid = x.sres
    <3>1. Announces(p, uid, Len(o) + 1) /\ Len(o) + 1 \in 1..Len(p)
      BY <1>0, <2>2 DEF Announces
    <3>2. \A k \in 1..Len(p) : Announces(p, uid, k) => k = Len(o) + 1
      BY <1>0, <1>a, <2>2 DEF Announces
    <3> QED  BY <3>1, <3>2
  <2> QED  BY <2>1, <2>2
<1>3. ASSUME NEW i \in 1..Len(p), p[i].type = "stream_datum"
      PROVE  p[i].sres \in em /\ \E j \in 1..Len(p) : j < i /\ Announces(p, p[i].sres, j)
  <2>1. i \in 1..Len(o) /\ p[i] = o[i]
    BY <1>0, <1>1, <1>3
  <2>2. o[i].sres \in em /\ \E j \in 1..Len(o) : j < i /\ Announces(o, o[i].sres, j)
    BY <1>3, <2>1 DEF AnnouncedOnce
  <2> QED  BY <1>0, <2>1, <2>2 DEF Announces
<1>4. AnnouncedOnce(p, em \cup {x.sres})
  <2>1. \A j \in 1..Len(p) : p[j].type = "stream_resource" => p[j].sres \in em \cup {x.sres}
    BY <1>0 DEF AnnouncedOnce
  <2> QED  BY <1>2, <1>3, <2>1 DEF AnnouncedOnce
<1>5. EmittedOnce(p, cache)
  BY <1>0, <1>1 DEF EmittedOnce, IsDatum
<1>6. Numbers(p) = Numbers(o)
  BY <1>0, <1>1 DEF Numbers, IsDatum
<1> QED  BY <1>4, <1>5, <1>6

\* A StreamDatum whose Datum was in the cache, after its StreamResource.
LEMMA DatumKeeps ==
  ASSUME NEW o, NEW x, NEW p, Adds(o, x, p), x.type = "stream_datum",
         NEW em, AnnouncedOnce(o, em), x.sres \in em,
         NEW cache, EmittedOnce(o, cache), x.datum \in cache, cache \subseteq 1..Len(datums)
  PROVE  /\ AnnouncedOnce(p, em) /\ EmittedOnce(p, Popped(cache, x.datum))
         /\ Numbers(p) = Numbers(o) \cup {x.datum}
<1>0. /\ \A i : i \in 1..Len(p) <=> i \in 1..Len(o) \/ i = Len(o) + 1
      /\ \A i \in 1..Len(o) : p[i] = o[i] /\ i < Len(o) + 1
      /\ p[Len(o) + 1] = x
  BY DEF Adds, Continues
<1>1. \A i \in 1..Len(p) : p[i].type = "stream_resource" => i \in 1..Len(o)
  BY <1>0
<1>2. ASSUME NEW uid \in em
      PROVE  \E j \in 1..Len(p) :
               Announces(p, uid, j) /\ \A k \in 1..Len(p) : Announces(p, uid, k) => k = j
  <2>1. PICK j \in 1..Len(o) :
          Announces(o, uid, j) /\ \A k \in 1..Len(o) : Announces(o, uid, k) => k = j
    BY <1>2 DEF AnnouncedOnce
  <2> QED  BY <1>0, <1>1, <2>1 DEF Announces
<1>3. ASSUME NEW i \in 1..Len(p), p[i].type = "stream_datum"
      PROVE  p[i].sres \in em /\ \E j \in 1..Len(p) : j < i /\ Announces(p, p[i].sres, j)
  <2>1. CASE i \in 1..Len(o)
    <3>1. o[i].sres \in em /\ \E j \in 1..Len(o) : j < i /\ Announces(o, o[i].sres, j)
      BY <1>0, <1>3, <2>1 DEF AnnouncedOnce
    <3> QED  BY <1>0, <2>1, <3>1 DEF Announces
  <2>2. CASE i = Len(o) + 1
    <3>1. PICK j \in 1..Len(o) : Announces(o, x.sres, j)
      BY DEF AnnouncedOnce
    <3> QED  BY <1>0, <2>2, <3>1 DEF Announces
  <2> QED  BY <1>0, <2>1, <2>2
<1>4. AnnouncedOnce(p, em)
  <2>1. \A j \in 1..Len(p) : p[j].type = "stream_resource" => p[j].sres \in em
    BY <1>0, <1>1 DEF AnnouncedOnce
  <2> QED  BY <1>2, <1>3, <2>1 DEF AnnouncedOnce
<1>a. \A i \in 1..Len(o) : IsDatum(o, i) => o[i].datum # x.datum
  BY DEF EmittedOnce
<1>5. EmittedOnce(p, Popped(cache, x.datum))
  <2>1. ASSUME NEW i \in 1..Len(p), NEW j \in 1..Len(p), IsDatum(p, i), IsDatum(p, j), p[i].datum = p[j].datum
        PROVE  i = j
    <3>1. i \in 1..Len(o) => IsDatum(o, i) /\ o[i].datum = p[i].datum
      BY <1>0, <2>1 DEF IsDatum
    <3>2. j \in 1..Len(o) => IsDatum(o, j) /\ o[j].datum = p[j].datum
      BY <1>0, <2>1 DEF IsDatum
    <3>3. i \in 1..Len(o) /\ j \in 1..Len(o) => i = j
      BY <2>1, <3>1, <3>2 DEF EmittedOnce
    <3> QED  BY <1>0, <1>a, <2>1, <3>1, <3>2, <3>3
  <2>2. ASSUME NEW i \in 1..Len(p), IsDatum(p, i)
        PROVE  p[i].datum \in 1..Len(datums) /\ p[i].datum \notin Popped(cache, x.datum)
    <3>1. i \in 1..Len(o) => p[i].datum \in 1..Len(datums) /\ p[i].datum \notin cache
      BY <1>0, <2>2 DEF EmittedOnce, IsDatum
    <3>2. i = Len(o) + 1 => p[i].datum = x.datum
      BY <1>0
    <3> QED  BY <1>0, <3>1, <3>2 DEF Popped
  <2> QED  BY <2>1, <2>2 DEF EmittedOnce
<1>6. Numbers(p) = Numbers(o) \cup {x.datum}
  <2>1. IsDatum(p, Len(o) + 1) /\ p[Len(o) + 1].datum = x.datum /\ x.datum \in 1..Len(datums)
    BY <1>0 DEF IsDatum
  <2>2. \A i \in 1..Len(o) : IsDatum(p, i) <=> IsDatum(o, i)
    BY <1>0 DEF IsDatum
  <2> QED  BY <1>0, <2>1, <2>2 DEF Numbers
<1> QED  BY <1>4, <1>5, <1>6

-----------------------------------------------------------------------------
(***************************************************************************)
(* What Emit does                                                          *)
(***************************************************************************)
Emitters ==
  [next_frame : [Streams -> Frames], datum_cache : SUBSET (1..Len(datums)),
   emitted : SUBSET Uids, out : Seq(Docs)]

Good(e) ==
  e \in Emitters /\ AnnouncedOnce(e.out, e.emitted) /\ EmittedOnce(e.out, e.datum_cache)

Moved(e, ref) ==
  IF uses_frame THEN Advanced(e.next_frame[Stream(ref.desc)], datums[ref.datum].frame)
  ELSE e.next_frame[Stream(ref.desc)]

Converted(e, ref) ==
  [type |-> "stream_datum", sres |-> StreamResourceUid(ref), datum |-> ref.datum,
   start |-> IF uses_frame THEN Total(e.next_frame[Stream(ref.desc)]) ELSE ref.seq_num - 1,
   stop |-> IF uses_frame THEN Total(Moved(e, ref)) ELSE ref.seq_num]

\* The documents of f are those of e, for one StreamDatum x at the end, maybe after
\* a StreamResource.
Emits(e, x, f) ==
  /\ Continues(e.out, f.out) /\ Len(f.out) > Len(e.out) /\ f.out[Len(f.out)] = x
  /\ \A i \in 1..Len(f.out) : \/ i \in 1..Len(e.out) \/ i = Len(f.out)
                              \/ f.out[i].type = "stream_resource"

\* The parameters of a run.
LEMMA GivenFacts ==
  ASSUME TypeOK
  PROVE  /\ uses_frame \in BOOLEAN /\ filled \in {"absent", "unfilled", "filled"}
         /\ \A d \in Descriptors : \A k \in DOMAIN declared[d].data_keys :
              declared[d].data_keys[k] \in BOOLEAN /\ (declared[d].data_keys[k] => k = Image)
         /\ \A d, e \in Descriptors : Stream(d) = Stream(e) => declared[d] = declared[e]
         /\ \A d \in Descriptors : Stream(d) \in Streams
<1>1. PICK run \in Runs : declared = run[1] /\ filled = run[2] /\ uses_frame = run[3]
  BY DEF TypeOK
<1> QED  BY <1>1, RunsAssumption DEF Stream, Streams

\* The documents are of the types they should be.
LEMMA DocTypes ==
  /\ \A d \in Descriptors : \A keys \in SUBSET AllKeys :
       /\ [type |-> "event", desc |-> d, keys |-> keys] \in Docs
       /\ [type |-> "descriptor", desc |-> d, keys |-> keys] \in Docs
  /\ \A uid \in Uids : [type |-> "stream_resource", sres |-> uid] \in Docs
  /\ \A uid \in Uids : \A n \in Nat : \A a, b \in Int :
       [type |-> "stream_datum", sres |-> uid, datum |-> n, start |-> a, stop |-> b] \in Docs
  /\ [type |-> "stop"] \in Docs
BY DEF Docs

\* The counters stay numbers.
LEMMA FrameTypes ==
  ASSUME NEW f \in Frames, NEW frame \in Nat
  PROVE  /\ Total(f) \in Int /\ Advanced(f, frame) \in Frames
         /\ f.carry + frame + 1 < Total(f) => Advanced(f, frame) = [carry |-> Total(f), index |-> frame + 1]
         /\ ~(f.carry + frame + 1 < Total(f)) => Advanced(f, frame) = [carry |-> f.carry, index |-> frame + 1]
<1>1. f.carry \in Int /\ f.index \in Int /\ f = [carry |-> f.carry, index |-> f.index]
  BY DEF Frames
<1>2. [f EXCEPT !.index = frame + 1] = [carry |-> f.carry, index |-> frame + 1]
  BY <1>1
<1> QED  BY <1>1, <1>2 DEF Total, Advanced, Frames

\* Emitting the StreamDatum of a Datum in the cache.
LEMMA EmitFacts ==
  ASSUME TypeOK, NEW e, Good(e), NEW ref \in Refs, ref.datum \in e.datum_cache
  PROVE  /\ Good(Emit(e, ref)) /\ Emits(e, Converted(e, ref), Emit(e, ref))
         /\ Emit(e, ref).datum_cache = Popped(e.datum_cache, ref.datum)
         /\ Numbers(Emit(e, ref).out) = Numbers(e.out) \cup {ref.datum}
         /\ Emit(e, ref).next_frame = [e.next_frame EXCEPT ![Stream(ref.desc)] = Moved(e, ref)]
<1> DEFINE uid == StreamResourceUid(ref)
           s == Stream(ref.desc)
           x == Converted(e, ref)
           res == [type |-> "stream_resource", sres |-> uid]
           new == NewResource(e, uid)
           f == [next_frame |-> [e.next_frame EXCEPT ![s] = Moved(e, ref)],
                 datum_cache |-> Popped(e.datum_cache, ref.datum),
                 emitted |-> e.emitted \cup {uid},
                 out |-> e.out \o new \o <<x>>]
<1>0. Emit(e, ref) = f
  BY DEF Emit, Converted, Moved
<1>1. /\ e.next_frame \in [Streams -> Frames] /\ e.datum_cache \subseteq 1..Len(datums)
      /\ e.emitted \subseteq Uids /\ e.out \in Seq(Docs)
  BY DEF Good, Emitters
<1>2. ref.desc \in Descriptors /\ ref.datum \in Nat /\ ref.seq_num \in Nat
  BY DEF Refs
<1>3. s \in Streams /\ uses_frame \in BOOLEAN
  BY <1>2, GivenFacts
<1>4. ref.datum \in 1..Len(datums)
  BY <1>1
<1>5. datums[ref.datum] \in DatumDocs
  BY <1>4 DEF TypeOK
<1>6. datums[ref.datum].frame \in Nat /\ datums[ref.datum].resource \in Nat
  BY <1>5 DEF DatumDocs
<1>7. uid \in Uids
  BY <1>2, <1>6 DEF StreamResourceUid, Uids
<1>8. e.next_frame[s] \in Frames
  BY <1>1, <1>3
<1>9. Moved(e, ref) \in Frames
  BY <1>3, <1>6, <1>8, FrameTypes DEF Moved
<1>10. x \in Docs /\ x.type = "stream_datum" /\ x.datum = ref.datum /\ x.sres = uid
  <2>1. Total(e.next_frame[s]) \in Int /\ Total(Moved(e, ref)) \in Int
    BY <1>8, <1>9, FrameTypes
  <2> DEFINE a == IF uses_frame THEN Total(e.next_frame[s]) ELSE ref.seq_num - 1
             b == IF uses_frame THEN Total(Moved(e, ref)) ELSE ref.seq_num
  <2>2. a \in Int /\ b \in Int
    BY <1>2, <1>3, <2>1
  <2>3. x = [type |-> "stream_datum", sres |-> uid, datum |-> ref.datum, start |-> a, stop |-> b]
    BY DEF Converted
  <2> HIDE DEF a, b, x, uid
  <2>4. x \in Docs
    BY <1>2, <1>7, <2>2, <2>3, DocTypes
  <2> QED  BY <2>3, <2>4
<1>11. res \in Docs
  BY <1>7, DocTypes
<1> HIDE DEF uid, x
<1>12. CASE uid \in e.emitted
  <2>1. f.out = Append(e.out, x)
    <3>1. new = <<>>
      BY <1>12 DEF NewResource
    <3>2. e.out \o <<>> \o <<x>> = Append(e.out, x)
      BY ONLY <1>1, <1>10, ConcatAtMostOne
    <3> QED  BY <3>1, <3>2
  <2>2. f.out \in Seq(Docs) /\ Adds(e.out, x, f.out)
    BY <1>1, <1>10, <2>1, AppendAdds
  <2>3. f.emitted = e.emitted
    BY <1>12
  <2>4. /\ AnnouncedOnce(f.out, f.emitted) /\ EmittedOnce(f.out, f.datum_cache)
        /\ Numbers(f.out) = Numbers(e.out) \cup {ref.datum}
    <3>1. AnnouncedOnce(e.out, e.emitted) /\ EmittedOnce(e.out, e.datum_cache)
      BY DEF Good
    <3> DEFINE p == f.out
    <3>2. Adds(e.out, x, p)
      BY <2>2
    <3> HIDE DEF p
    <3>3. /\ AnnouncedOnce(p, e.emitted) /\ EmittedOnce(p, Popped(e.datum_cache, x.datum))
          /\ Numbers(p) = Numbers(e.out) \cup {x.datum}
      BY <1>1, <1>10, <1>12, <3>1, <3>2, DatumKeeps
    <3> QED  BY <1>10, <2>3, <3>3 DEF p
  <2>5. f \in Emitters
    <3>1. f.next_frame \in [Streams -> Frames] /\ f.datum_cache \subseteq 1..Len(datums) /\ f.emitted \subseteq Uids
      BY <1>1, <1>7, <1>9 DEF Popped
    <3> QED  BY <2>2, <3>1 DEF Emitters
  <2>6. Emits(e, x, f)
    <3> DEFINE p == f.out
    <3>1. Adds(e.out, x, p)
      BY <2>2
    <3> HIDE DEF f
    <3>2. Emits(e, x, f)
      BY <3>1 DEF Emits, Adds, Continues
    <3> QED  BY <3>2
  <2> QED  BY <1>0, <2>4, <2>5, <2>6 DEF Good, x
<1>13. CASE uid \notin e.emitted
  <2> DEFINE q == Append(e.out, res)
  <2>1. f.out = Append(q, x)
    <3>1. new = <<res>>
      BY <1>13 DEF NewResource
    <3>2. q \in Seq(Docs)
      BY <1>1, <1>11, AppendProperties
    <3>3. e.out \o <<res>> = q
      BY ONLY <1>1, <1>11, ConcatAtMostOne
    <3> HIDE DEF q
    <3>4. q \o <<x>> = Append(q, x)
      BY ONLY <1>10, <3>2, ConcatAtMostOne
    <3> QED  BY <3>1, <3>3, <3>4
  <2>2. q \in Seq(Docs) /\ Adds(e.out, res, q)
    BY <1>1, <1>11, AppendAdds
  <2> HIDE DEF q
  <2>3. f.out \in Seq(Docs) /\ Adds(q, x, f.out)
    BY <1>10, <2>1, <2>2, AppendAdds
  <2>4. /\ AnnouncedOnce(f.out, f.emitted) /\ EmittedOnce(f.out, f.datum_cache)
        /\ Numbers(f.out) = Numbers(e.out) \cup {ref.datum}
    <3>1. AnnouncedOnce(e.out, e.emitted) /\ EmittedOnce(e.out, e.datum_cache)
      BY DEF Good
    <3>2. res.type = "stream_resource" /\ res.sres = uid
      OBVIOUS
    <3> HIDE DEF res
    <3>3. /\ AnnouncedOnce(q, e.emitted \cup {uid}) /\ EmittedOnce(q, e.datum_cache)
          /\ Numbers(q) = Numbers(e.out)
      BY <1>13, <2>2, <3>1, <3>2, ResourceKeeps
    <3> DEFINE p == f.out
               em == e.emitted \cup {uid}
    <3>4. Adds(q, x, p) /\ x.sres \in em
      BY <1>10, <2>3
    <3> HIDE DEF p, em
    <3>5. /\ AnnouncedOnce(p, em) /\ EmittedOnce(p, Popped(e.datum_cache, x.datum))
          /\ Numbers(p) = Numbers(q) \cup {x.datum}
      BY <1>1, <1>10, <3>3, <3>4, DatumKeeps DEF em
    <3> QED  BY <1>10, <3>3, <3>5 DEF p, em
  <2>5. f \in Emitters
    <3>1. f.next_frame \in [Streams -> Frames] /\ f.datum_cache \subseteq 1..Len(datums) /\ f.emitted \subseteq Uids
      BY <1>1, <1>7, <1>9 DEF Popped
    <3> QED  BY <2>3, <3>1 DEF Emitters
  <2>6. Emits(e, x, f)
    <3> DEFINE p == f.out
    <3>1. Adds(q, x, p) /\ Adds(e.out, res, q) /\ res.type = "stream_resource"
      BY <2>2, <2>3
    <3> HIDE DEF f, res
    <3>2. Continues(e.out, p)
      BY <3>1, ContinuesFurther DEF Adds
    <3>3. Len(p) > Len(e.out) /\ p[Len(p)] = x
      BY <3>1 DEF Adds, Continues
    <3>4. ASSUME NEW i \in 1..Len(p)
          PROVE  i \in 1..Len(e.out) \/ i = Len(p) \/ p[i].type = "stream_resource"
      <4>1. i \in 1..Len(q) \/ i = Len(p)
        BY <3>1 DEF Adds
      <4>2. i \in 1..Len(q) => p[i] = q[i] /\ (i \in 1..Len(e.out) \/ q[i] = res)
        BY <3>1 DEF Adds, Continues
      <4> QED  BY <3>1, <4>1, <4>2
    <3> QED  BY <3>2, <3>3, <3>4 DEF Emits
  <2> QED  BY <1>0, <2>4, <2>5, <2>6 DEF Good, x
<1> QED  BY <1>12, <1>13

-----------------------------------------------------------------------------
(***************************************************************************)
(* What a step leaves alone                                                *)
(***************************************************************************)

\* The run that is given determines these.
LEMMA SameGiven ==
  ASSUME UNCHANGED given
  PROVE  /\ \A d : /\ DataKeys(d)' = DataKeys(d) /\ External(d)' = External(d)
                   /\ References(d)' <=> References(d)
                   /\ Stream(d)' = Stream(d)
         /\ Streams' = Streams /\ AllKeys' = AllKeys /\ Docs' = Docs
<1>0. declared' = declared /\ filled' = filled
  BY DEF given
<1>1. \A d : DataKeys(d)' = DataKeys(d)
  BY <1>0 DEF DataKeys
<1>2. \A d : External(d)' = External(d)
  BY <1>0, <1>1 DEF External
<1>3. \A d : Stream(d)' = Stream(d)
  BY <1>0 DEF Stream
<1>4. \A d : References(d)' <=> References(d)
  BY <1>0, <1>2 DEF References
<1>5. Streams' = Streams
  BY <1>3 DEF Streams
<1>6. AllKeys' = AllKeys
  BY <1>1 DEF AllKeys
<1>7. Docs' = Docs
  BY <1>6 DEF Docs
<1> QED  BY <1>1, <1>2, <1>3, <1>4, <1>5, <1>6, <1>7

\* The keys only become more, and with them what is ambiguous.
LEMMA AmbiguousStays ==
  ASSUME UNCHANGED given, int_keys \subseteq int_keys', ext_keys \subseteq ext_keys', Ambiguous
  PROVE  Ambiguous'
BY DEF given, Ambiguous

\* Nothing is referenced and nothing emitted.
LEMMA ReferencedKept ==
  ASSUME Referenced, status = "open", status' \in {"open", "raised"}, UNCHANGED <<refs, ext_refs>>,
         Ambiguous => Ambiguous', Numbers(out)' = Numbers(out)
  PROVE  Referenced'
BY DEF Referenced

\* The documents emitted are no descriptors, and Events as they should be.
LEMMA DescribedKept ==
  ASSUME Described, UNCHANGED <<given, keyVars>>, Continues(out, out'),
         ~Ambiguous => \A i \in 1..Len(out') :
           out'[i].type = "event" => i \in 1..Len(out) \/ EventAs(out', i)
  PROVE  Described'
<1>0. desc_name' = desc_name /\ int_keys' = int_keys /\ ext_keys' = ext_keys /\ filled' = filled
  BY DEF keyVars, given
<1>1. Ambiguous' <=> Ambiguous
  BY <1>0 DEF Ambiguous
<1>2. /\ \A d : DataKeys(d)' = DataKeys(d) /\ External(d)' = External(d) /\ (References(d)' <=> References(d))
      /\ \A j, d : DescribedAs(out, j, d)' <=> DescribedAs(out', j, d)
  BY SameGiven DEF DescribedAs
<1>3. /\ Len(out) \in Nat /\ Len(out') \in Nat /\ \A i \in 1..Len(out) : i \in 1..Len(out') /\ out'[i] = out[i]
  BY DEF Continues
<1>4. \A j \in 1..Len(out) : \A d : DescribedAs(out, j, d) => DescribedAs(out', j, d)
  BY <1>3 DEF DescribedAs
<1>5. \A i : EventAs(out, i)' <=> EventAs(out', i)
  BY <1>2 DEF EventAs
<1>6. ASSUME NEW i \in 1..Len(out), EventAs(out, i)
      PROVE  EventAs(out', i)
  BY <1>3, <1>4, <1>6 DEF EventAs
<1>7. ASSUME NEW d \in desc_name
      PROVE  /\ (DataKeys(d) \ External(d))' \subseteq int_keys' /\ External(d)' \subseteq ext_keys'
             /\ \E j \in 1..Len(out') : DescribedAs(out, j, d)'
  BY <1>0, <1>2, <1>3, <1>4, <1>7 DEF Described
<1>8. ASSUME ~Ambiguous, NEW i \in 1..Len(out'), out'[i].type = "event"
      PROVE  EventAs(out, i)'
  <2>1. i \in 1..Len(out) => out[i].type = "event"
    BY <1>3, <1>8
  <2>2. i \in 1..Len(out) => EventAs(out, i)
    BY <1>8, <2>1 DEF Described
  <2> QED  BY <1>5, <1>6, <1>8, <2>2
<1> QED  BY <1>0, <1>1, <1>7, <1>8 DEF Described

\* What is said of the documents does not depend on anything else.
LEMMA DocsKept ==
  ASSUME AnnouncedOnce(out', emitted'), EmittedOnce(out', datum_cache'), UNCHANGED datums
  PROVE  /\ AnnouncedOnce(out, emitted)' /\ EmittedOnce(out, datum_cache)'
         /\ Numbers(out)' = Numbers(out')
<1>1. EmittedOnce(out, datum_cache)'
  BY DEF EmittedOnce, IsDatum
<1>2. Numbers(out)' = Numbers(out')
  BY DEF Numbers, IsDatum
<1> QED  BY <1>1, <1>2

\* No Datum and no Resource is received.
LEMMA NumberedKept ==
  ASSUME Numbered, UNCHANGED <<uses_frame, datums, sres_cache, inFile>>
  PROVE  Numbered'
BY DEF Numbered, Follows

-----------------------------------------------------------------------------
(***************************************************************************)
(* The inductive invariant holds                                           *)
(***************************************************************************)

\* Nothing has been received at first.
LEMMA InitIInv == Init => IInv
<1> SUFFICES ASSUME Init PROVE IInv
  OBVIOUS
<1>0. /\ \A S : <<>> \in Seq(S)
      /\ Len(<<>>) = 0 /\ 1..0 = {}
  OBVIOUS
<1>1. /\ desc_name = {} /\ int_keys = {} /\ ext_keys = {} /\ sres_cache = 0 /\ datum_cache = {}
      /\ ext_refs = <<>> /\ emitted = {} /\ out = <<>> /\ status = "open" /\ datums = <<>>
      /\ refs = <<>> /\ inFile = 0
  BY DEF Init
<1>2. TypeOK
  <2>1. next_frame \in [Streams -> Frames]
    BY DEF Init, Frames
  <2>2. \E run \in Runs : declared = run[1] /\ filled = run[2] /\ uses_frame = run[3]
    BY DEF Init
  <2> QED  BY <1>0, <1>1, <2>1, <2>2 DEF TypeOK
<1>3. AnnouncedOnce(out, emitted) /\ EmittedOnce(out, datum_cache) /\ Numbers(out) = {}
  BY <1>0, <1>1 DEF AnnouncedOnce, EmittedOnce, Numbers
<1>4. Referenced /\ Described
  BY <1>0, <1>1, <1>3 DEF Referenced, Described
<1>5. Numbered
  <2>1. 1..(0 - 1) = {}
    OBVIOUS
  <2> QED  BY <1>0, <1>1, <2>1 DEF Numbered
<1> QED  BY <1>2, <1>3, <1>4, <1>5 DEF IInv

\* A step that changes nothing.
LEMMA UnchangedStep ==
  ASSUME IInv, UNCHANGED vars
  PROVE  IInv'
<1>0. /\ UNCHANGED given /\ UNCHANGED keyVars
      /\ UNCHANGED <<declared, filled, uses_frame, desc_name, int_keys, ext_keys, sres_cache, next_frame>>
      /\ UNCHANGED <<datum_cache, emitted, out, ext_refs, status, datums, refs, inFile>>
  BY DEF vars, emitter, given, keyVars
<1>1. TypeOK /\ AnnouncedOnce(out, emitted) /\ EmittedOnce(out, datum_cache) /\ Referenced /\ Described /\ Numbered
  BY DEF IInv
<1>2. TypeOK'
  BY <1>0, <1>1, SameGiven DEF TypeOK
<1>3. AnnouncedOnce(out, emitted)' /\ EmittedOnce(out, datum_cache)' /\ Numbers(out)' = Numbers(out)
  BY <1>0, <1>1, DocsKept
<1>4. Referenced'
  <2>1. Ambiguous' <=> Ambiguous
    BY <1>0 DEF Ambiguous
  <2> QED  BY <1>0, <1>1, <1>3, <2>1 DEF Referenced
<1>5. Continues(out, out') /\ 1..Len(out') = 1..Len(out)
  BY <1>0, <1>1 DEF TypeOK, Continues
<1>6. Described'
  BY <1>0, <1>1, <1>5, DescribedKept
<1>7. Numbered'
  BY <1>0, <1>1, NumberedKept
<1> QED  BY <1>2, <1>3, <1>4, <1>6, <1>7 DEF IInv

\* The next Resource follows one with MinFrames frames.
LEMMA ResourceStep ==
  ASSUME IInv, Resource
  PROVE  IInv'
<1>0. /\ UNCHANGED given /\ UNCHANGED keyVars
      /\ UNCHANGED <<declared, filled, uses_frame, desc_name, int_keys, ext_keys, next_frame>>
      /\ UNCHANGED <<datum_cache, emitted, out, ext_refs, status, datums, refs>>
      /\ status = "open" /\ sres_cache' = sres_cache + 1 /\ inFile' = 0
      /\ sres_cache > 0 => inFile >= MinFrames
  BY DEF Resource, emitter, given, keyVars
<1>1. TypeOK /\ AnnouncedOnce(out, emitted) /\ EmittedOnce(out, datum_cache) /\ Referenced /\ Described /\ Numbered
  BY DEF IInv
<1>2. TypeOK'
  <2>1. sres_cache' \in Nat /\ inFile' \in Nat
    BY <1>0, <1>1 DEF TypeOK
  <2> QED  BY <1>0, <1>1, <2>1, SameGiven DEF TypeOK
<1>3. AnnouncedOnce(out, emitted)' /\ EmittedOnce(out, datum_cache)' /\ Numbers(out)' = Numbers(out)
  BY <1>0, <1>1, DocsKept
<1>4. Referenced'
  <2>1. Ambiguous' <=> Ambiguous
    BY <1>0 DEF Ambiguous
  <2> QED  BY <1>0, <1>1, <1>3, <2>1 DEF Referenced
<1>5. Continues(out, out') /\ 1..Len(out') = 1..Len(out)
  BY <1>0, <1>1 DEF TypeOK, Continues
<1>6. Described'
  BY <1>0, <1>1, <1>5, DescribedKept
<1>7. Numbered'
  <2>1. sres_cache \in Nat /\ inFile \in Nat /\ datums \in Seq(DatumDocs) /\ MinFrames \in Nat \ {0}
    BY <1>1, SizesAssumption DEF TypeOK
  <2>2. ASSUME NEW n \in 1..Len(datums)
        PROVE  datums[n].resource <= sres_cache'
    <3>1. datums[n] \in DatumDocs
      BY <2>1, ElementOfSeq
    <3>2. datums[n].resource \in Nat
      BY <3>1 DEF DatumDocs
    <3> QED  BY <1>0, <1>1, <2>1, <3>2 DEF Numbered
  <2>3. ASSUME datums # <<>>
        PROVE  LET last == datums[Len(datums)] IN
               last.resource < sres_cache' /\ inFile' = 0 /\ last.frame + 1 >= MinFrames
    <3> DEFINE last == datums[Len(datums)]
    <3>1. last \in DatumDocs
      BY <2>1, <2>3, ElementOfSeq, EmptySeq
    <3>2. last.resource \in Nat \ {0} /\ last.frame \in Nat
      BY <3>1 DEF DatumDocs
    <3>3. \/ last.resource = sres_cache /\ inFile = last.frame + 1
          \/ last.resource < sres_cache /\ inFile = 0 /\ last.frame + 1 >= MinFrames
      BY <1>1, <2>3 DEF Numbered
    <3> HIDE DEF last
    <3>4. last.resource < sres_cache' /\ inFile' = 0 /\ last.frame + 1 >= MinFrames
      BY <1>0, <2>1, <3>2, <3>3
    <3> QED  BY <3>4 DEF last
  <2> QED  BY <1>0, <1>1, <2>2, <2>3 DEF Numbered, Follows
<1> QED  BY <1>2, <1>3, <1>4, <1>6, <1>7 DEF IInv

\* A descriptor is emitted, its keys are known.
LEMMA DescriptorStep ==
  ASSUME IInv, NEW d \in Descriptors, Descriptor(d)
  PROVE  IInv'
<1> DEFINE x == [type |-> "descriptor", desc |-> d, keys |-> DataKeys(d)]
<1>0. /\ UNCHANGED given
      /\ UNCHANGED <<declared, filled, uses_frame, sres_cache, next_frame>>
      /\ UNCHANGED <<datum_cache, emitted, ext_refs, status, datums, refs, inFile>>
      /\ status = "open" /\ out' = Append(out, x) /\ desc_name' = desc_name \cup {d}
      /\ int_keys' = int_keys \cup (DataKeys(d) \ External(d))
      /\ ext_keys' = ext_keys \cup External(d)
  BY DEF Descriptor, given
<1>1. TypeOK /\ AnnouncedOnce(out, emitted) /\ EmittedOnce(out, datum_cache) /\ Referenced /\ Described /\ Numbered
  BY DEF IInv
<1>2. x \in Docs
  <2>1. DataKeys(d) \in SUBSET AllKeys
    BY DEF AllKeys
  <2> QED  BY <2>1, DocTypes
<1>3. x.type = "descriptor" /\ x.desc = d /\ x.keys = DataKeys(d)
  OBVIOUS
<1> HIDE DEF x
<1>4. out \in Seq(Docs) /\ out' \in Seq(Docs) /\ Adds(out, x, out')
  BY <1>0, <1>1, <1>2, AppendAdds DEF TypeOK
<1>5. TypeOK'
  BY <1>0, <1>1, <1>4, SameGiven DEF TypeOK
<1>6. /\ AnnouncedOnce(out', emitted') /\ EmittedOnce(out', datum_cache') /\ Numbers(out') = Numbers(out)
  BY <1>0, <1>1, <1>3, <1>4, OtherKeeps
<1>7. AnnouncedOnce(out, emitted)' /\ EmittedOnce(out, datum_cache)' /\ Numbers(out)' = Numbers(out)
  BY <1>0, <1>6, DocsKept
<1>8. Ambiguous => Ambiguous'
  BY <1>0, AmbiguousStays
<1>9. Referenced'
  BY <1>0, <1>1, <1>7, <1>8, ReferencedKept
<1>10. Described'
  <2>1. /\ \A dd : DataKeys(dd)' = DataKeys(dd) /\ External(dd)' = External(dd) /\ (References(dd)' <=> References(dd))
        /\ \A j, dd : DescribedAs(out, j, dd)' <=> DescribedAs(out', j, dd)
    BY <1>0, SameGiven DEF DescribedAs
  <2>2. /\ \A i \in 1..Len(out) : i \in 1..Len(out') /\ out'[i] = out[i]
        /\ Len(out) + 1 \in 1..Len(out') /\ out'[Len(out) + 1] = x
        /\ \A i \in 1..Len(out') : i \in 1..Len(out) \/ out'[i] = x
    BY <1>4 DEF Adds, Continues
  <2>3. \A j \in 1..Len(out) : \A dd : DescribedAs(out, j, dd) => DescribedAs(out', j, dd)
    BY <2>2 DEF DescribedAs
  <2>4. \A i : EventAs(out, i)' <=> EventAs(out', i)
    BY <2>1 DEF EventAs
  <2>5. \A i \in 1..Len(out) : EventAs(out, i) => EventAs(out', i)
    BY <2>2, <2>3 DEF EventAs
  <2>6. ASSUME NEW c \in desc_name'
        PROVE  /\ (DataKeys(c) \ External(c))' \subseteq int_keys' /\ External(c)' \subseteq ext_keys'
               /\ \E j \in 1..Len(out') : DescribedAs(out, j, c)'
    <3>1. CASE c \in desc_name
      BY <1>0, <1>1, <2>1, <2>2, <2>3, <3>1 DEF Described
    <3>2. CASE c = d
      <4>1. DescribedAs(out', Len(out) + 1, c)
        BY <1>3, <2>2, <3>2 DEF DescribedAs
      <4> QED  BY <1>0, <2>1, <2>2, <3>2, <4>1
    <3> QED  BY <1>0, <2>6, <3>1, <3>2
  <2>7. ASSUME ~Ambiguous, NEW i \in 1..Len(out'), out'[i].type = "event"
        PROVE  EventAs(out, i)'
    <3>1. i \in 1..Len(out) /\ out[i].type = "event"
      BY <1>3, <2>2, <2>7
    <3>2. EventAs(out, i)
      BY <1>1, <2>7, <3>1 DEF Described
    <3> QED  BY <2>4, <2>5, <3>1, <3>2
  <2> QED  BY <1>8, <2>6, <2>7 DEF Described
<1>11. Numbered'
  BY <1>0, <1>1, NumberedKept
<1> QED  BY <1>5, <1>7, <1>9, <1>10, <1>11 DEF IInv

\* The run ends at a key that cannot be renamed.
LEMMA DescriptorRaisesStep ==
  ASSUME IInv, NEW d \in Descriptors, DescriptorRaises(d)
  PROVE  IInv'
<1>0. /\ UNCHANGED given /\ UNCHANGED keyVars
      /\ UNCHANGED <<declared, filled, uses_frame, desc_name, int_keys, ext_keys, sres_cache, next_frame>>
      /\ UNCHANGED <<datum_cache, emitted, out, ext_refs, datums, refs, inFile>>
      /\ status = "open" /\ status' = "raised"
  BY DEF DescriptorRaises, emitter, given, keyVars
<1>1. TypeOK /\ AnnouncedOnce(out, emitted) /\ EmittedOnce(out, datum_cache) /\ Referenced /\ Described /\ Numbered
  BY DEF IInv
<1>2. TypeOK'
  BY <1>0, <1>1, SameGiven DEF TypeOK
<1>3. AnnouncedOnce(out, emitted)' /\ EmittedOnce(out, datum_cache)' /\ Numbers(out)' = Numbers(out)
  BY <1>0, <1>1, DocsKept
<1>4. Referenced'
  <2>1. Ambiguous' <=> Ambiguous
    BY <1>0 DEF Ambiguous
  <2> QED  BY <1>0, <1>1, <1>3, <2>1, ReferencedKept
<1>5. Continues(out, out') /\ 1..Len(out') = 1..Len(out)
  BY <1>0, <1>1 DEF TypeOK, Continues
<1>6. Described'
  BY <1>0, <1>1, <1>5, DescribedKept
<1>7. Numbered'
  BY <1>0, <1>1, NumberedKept
<1> QED  BY <1>2, <1>3, <1>4, <1>6, <1>7 DEF IInv

\* What Datum receives.
LEMMA DatumFacts ==
  ASSUME TypeOK, NEW size \in 1..MaxSize, Datum(size)
  PROVE  LET x == [resource |-> sres_cache, frame |-> inFile + size - 1, size |-> size] IN
         /\ UNCHANGED given /\ UNCHANGED keyVars
         /\ UNCHANGED <<declared, filled, uses_frame, desc_name, int_keys, ext_keys, sres_cache, next_frame>>
         /\ UNCHANGED <<emitted, out, ext_refs, status, refs>>
         /\ status = "open" /\ x \in DatumDocs /\ inFile' = inFile + size /\ inFile' \in Nat
         /\ datums' \in Seq(DatumDocs) /\ Adds(datums, x, datums')
         /\ datum_cache' = datum_cache \cup {Len(datums')} /\ (uses_frame \/ size = 1)
<1> DEFINE x == [resource |-> sres_cache, frame |-> inFile + size - 1, size |-> size]
<1>0. /\ UNCHANGED given /\ UNCHANGED keyVars
      /\ UNCHANGED <<declared, filled, uses_frame, desc_name, int_keys, ext_keys, sres_cache, next_frame>>
      /\ UNCHANGED <<emitted, out, ext_refs, status, refs>>
      /\ status = "open" /\ sres_cache > 0 /\ inFile' = inFile + size /\ (uses_frame \/ size = 1)
      /\ datum_cache' = datum_cache \cup {Len(datums')}
  BY DEF Datum, given, keyVars
<1>1. /\ sres_cache \in Nat /\ inFile \in Nat /\ datums \in Seq(DatumDocs)
      /\ size \in Nat /\ size >= 1
  BY SizesAssumption DEF TypeOK
<1>2. datums' = Append(datums, x)
  <2>1. inFile' - 1 = inFile + size - 1
    BY <1>0, <1>1
  <2> QED  BY <2>1 DEF Datum
<1>3. x \in DatumDocs /\ inFile' \in Nat
  BY <1>0, <1>1 DEF DatumDocs
<1> HIDE DEF x
<1>4. datums' \in Seq(DatumDocs) /\ Adds(datums, x, datums')
  BY <1>1, <1>2, <1>3, AppendAdds
<1> QED  BY <1>0, <1>3, <1>4 DEF x

\* A Datum is received.
LEMMA DatumStep ==
  ASSUME IInv, NEW size \in 1..MaxSize, Datum(size)
  PROVE  IInv'
<1> DEFINE x == [resource |-> sres_cache, frame |-> inFile + size - 1, size |-> size]
<1>1. TypeOK /\ AnnouncedOnce(out, emitted) /\ EmittedOnce(out, datum_cache) /\ Referenced /\ Described /\ Numbered
  BY DEF IInv
<1>0. /\ UNCHANGED given /\ UNCHANGED keyVars
      /\ UNCHANGED <<declared, filled, uses_frame, desc_name, int_keys, ext_keys, sres_cache, next_frame>>
      /\ UNCHANGED <<emitted, out, ext_refs, status, refs>>
      /\ status = "open" /\ x \in DatumDocs /\ inFile' = inFile + size /\ inFile' \in Nat
      /\ datums' \in Seq(DatumDocs) /\ Adds(datums, x, datums')
      /\ datum_cache' = datum_cache \cup {Len(datums')} /\ (uses_frame \/ size = 1)
  BY <1>1, DatumFacts
<1>2. x.resource = sres_cache /\ x.frame = inFile + size - 1 /\ x.size = size
  OBVIOUS
<1> HIDE DEF x
<1>3. /\ Len(datums) \in Nat /\ Len(datums') = Len(datums) + 1 /\ datums'[Len(datums) + 1] = x
      /\ \A n \in 1..Len(datums) : n \in 1..Len(datums') /\ datums'[n] = datums[n] /\ n # Len(datums')
      /\ \A n \in 1..Len(datums') : n \in 1..Len(datums) \/ n = Len(datums) + 1
      /\ Len(datums') \in 1..Len(datums')
  BY <1>0 DEF Adds, Continues
<1>4. TypeOK'
  <2>1. datum_cache' \subseteq 1..Len(datums')
    BY <1>0, <1>1, <1>3 DEF TypeOK
  <2> QED  BY <1>0, <1>1, <2>1, SameGiven DEF TypeOK
<1>5. AnnouncedOnce(out, emitted)'
  BY <1>0, <1>1
<1>6. EmittedOnce(out, datum_cache)'
  BY <1>0, <1>1, <1>3 DEF EmittedOnce, IsDatum
<1>7. Numbers(out)' = Numbers(out)
  <2>1. \A n \in 1..Len(datums') : \A i \in 1..Len(out) : IsDatum(out, i) /\ out[i].datum = n => n \in 1..Len(datums)
    BY <1>1 DEF EmittedOnce
  <2> QED  BY <1>0, <1>3, <2>1 DEF Numbers, IsDatum
<1>8. Referenced'
  <2>1. Ambiguous' <=> Ambiguous
    BY <1>0 DEF Ambiguous
  <2> QED  BY <1>0, <1>1, <1>7, <2>1, ReferencedKept
<1>9. Continues(out, out') /\ 1..Len(out') = 1..Len(out)
  BY <1>0, <1>1 DEF TypeOK, Continues
<1>10. Described'
  BY <1>0, <1>1, <1>9, DescribedKept
<1>11. Numbered'
  <2>0. /\ sres_cache \in Nat /\ inFile \in Nat /\ size \in 1..MaxSize /\ size \in Nat /\ size >= 1
    BY <1>1, SizesAssumption DEF TypeOK
  <2>1. ASSUME NEW n \in 1..Len(datums')
        PROVE  /\ datums'[n].size \in 1..MaxSize /\ datums'[n].frame >= datums'[n].size - 1
               /\ datums'[n].resource <= sres_cache
               /\ ~uses_frame => datums'[n].size = 1
    <3>1. CASE n \in 1..Len(datums)
      BY <1>1, <1>3, <3>1 DEF Numbered
    <3>2. CASE n = Len(datums) + 1
      <4>1. datums'[n] = x
        BY <1>3, <3>2
      <4>2. x.frame >= x.size - 1 /\ x.resource <= sres_cache
        BY <1>2, <2>0
      <4> QED  BY <1>0, <1>2, <2>0, <4>1, <4>2
    <3> QED  BY <1>3, <3>1, <3>2
  <2>2. CASE datums = <<>>
    <3>1. Len(datums) = 0 /\ inFile = 0
      BY <1>1, <2>2 DEF Numbered
    <3>2. datums'[1] = x /\ Len(datums') = 1 /\ 1..(Len(datums') - 1) = {}
      BY <1>3, <3>1
    <3>3. x.frame = x.size - 1 /\ inFile' = x.frame + 1 /\ x.resource = sres_cache'
      BY <1>0, <1>2, <2>0, <3>1
    <3>4. datums' # <<>>
      BY <3>2
    <3> QED  BY <1>0, <2>1, <3>2, <3>3, <3>4 DEF Numbered
  <2>3. CASE datums # <<>>
    <3> DEFINE last == datums[Len(datums)]
    <3>0. Len(datums) # 0 /\ datums \in Seq(DatumDocs)
      BY <1>1, <2>3, EmptySeq DEF TypeOK
    <3>1. Len(datums) \in 1..Len(datums) /\ 1 \in 1..Len(datums)
      BY <1>3, <3>0
    <3>2. datums'[1].frame = datums'[1].size - 1
      BY <1>1, <1>3, <2>3, <3>1 DEF Numbered
    <3>3. last \in DatumDocs
      BY <3>0, <3>1, ElementOfSeq
    <3>4. last.resource \in Nat /\ last.frame \in Nat
      BY <3>3 DEF DatumDocs
    <3>5. \/ last.resource = sres_cache /\ inFile = last.frame + 1
          \/ last.resource < sres_cache /\ inFile = 0 /\ last.frame + 1 >= MinFrames
      BY <1>1, <2>3 DEF Numbered
    <3> HIDE DEF last
    <3>6. Follows(last, x)
      BY <1>2, <2>0, <3>4, <3>5 DEF Follows
    <3>7. ASSUME NEW n \in 1..(Len(datums') - 1)
          PROVE  Follows(datums'[n], datums'[n + 1])
      <4>1. n \in 1..Len(datums)
        BY <1>3
      <4>2. CASE n \in 1..(Len(datums) - 1)
        <5>1. n + 1 \in 1..Len(datums)
          BY <1>3, <4>2
        <5>2. Follows(datums[n], datums[n + 1])
          BY <1>1, <4>2 DEF Numbered
        <5> QED  BY <1>3, <4>1, <5>1, <5>2
      <4>3. CASE n = Len(datums)
        <5>1. datums'[n] = last
          BY <1>3, <4>1, <4>3 DEF last
        <5> QED  BY <1>3, <3>6, <4>3, <5>1
      <4> QED  BY <1>3, <4>1, <4>2, <4>3
    <3>8. datums' # <<>>
      BY <1>3
    <3>9. x.resource = sres_cache' /\ inFile' = x.frame + 1
      BY <1>0, <1>2, <2>0
    <3>10. LET l == datums'[Len(datums')] IN l.resource = sres_cache' /\ inFile' = l.frame + 1
      BY <1>3, <3>9
    <3> QED  BY <1>0, <2>1, <3>2, <3>7, <3>8, <3>10 DEF Numbered, Follows
  <2> QED  BY <2>2, <2>3
<1> QED  BY <1>4, <1>5, <1>6, <1>8, <1>10, <1>11 DEF IInv

-----------------------------------------------------------------------------
(***************************************************************************)
(* Events                                                                  *)
(***************************************************************************)
Routed(d) == Image \in DataKeys(d) \cap (ext_keys \ EventKeys(d))
EventDoc(d) == [type |-> "event", desc |-> d, keys |-> DataKeys(d) \cap EventKeys(d)]
EventRef(d) ==
  [datum |-> Len(refs) + 1, desc |-> d,
   seq_num |-> Cardinality({i \in Events : Stream(out[i].desc) = Stream(d)}) + 1]
WithEvent(d) == [Emitter EXCEPT !.out = Append(@, EventDoc(d))]

\* What is looked up in `filled`.
LEMMA FilledCases ==
  ASSUME TypeOK, NEW d, NEW k, NEW default \in BOOLEAN
  PROVE  /\ k \in External(d) /\ filled = "filled" => Filled(d, k, default) = TRUE
         /\ k \in External(d) /\ filled = "unfilled" => Filled(d, k, default) = FALSE
         /\ k \notin External(d) \/ filled = "absent" => Filled(d, k, default) = default
BY GivenFacts DEF Filled

\* Only a reference is routed as one; unless the keys of two streams are confused each
\* reference is, and everything else is a value of the Event.
LEMMA Routing ==
  ASSUME TypeOK, Described, NEW d \in desc_name
  PROVE  /\ Routed(d) => References(d)
         /\ ~Ambiguous /\ References(d) => Routed(d)
         /\ ~Ambiguous => DataKeys(d) \cap EventKeys(d) =
                            DataKeys(d) \ (IF References(d) THEN {Image} ELSE {})
<1>0. /\ d \in Descriptors /\ filled \in {"absent", "unfilled", "filled"}
      /\ DataKeys(d) \ External(d) \subseteq int_keys /\ External(d) \subseteq ext_keys
  BY GivenFacts DEF TypeOK, Described
<1>1. External(d) \subseteq {Image} /\ External(d) \subseteq DataKeys(d)
  BY <1>0, GivenFacts DEF External
<1>2. \A k : k \in EventKeys(d) <=> \/ k \in int_keys /\ Filled(d, k, TRUE)
                                    \/ k \in ext_keys /\ Filled(d, k, FALSE)
  BY DEF EventKeys
<1>3. \A k \in External(d) : filled = "filled" => k \in EventKeys(d)
  BY <1>0, <1>2, FilledCases
<1>4. \A k \in DataKeys(d) \ External(d) : k \in EventKeys(d)
  <2>1. ASSUME NEW k \in DataKeys(d) \ External(d)
        PROVE  k \in int_keys /\ Filled(d, k, TRUE)
    BY <1>0, FilledCases
  <2> QED  BY <1>2, <2>1
<1>5. ASSUME ~Ambiguous, NEW k \in External(d), filled # "filled"
      PROVE  k \notin EventKeys(d)
  <2>1. k = Image /\ k \in ext_keys
    BY <1>0, <1>1
  <2>2. CASE filled = "unfilled"
    <3>1. Filled(d, k, TRUE) = FALSE /\ Filled(d, k, FALSE) = FALSE
      BY <2>2, FilledCases
    <3> QED  BY <1>2, <3>1
  <2>3. CASE filled = "absent"
    <3>1. Filled(d, k, FALSE) = FALSE
      BY <2>3, FilledCases
    <3>2. k \notin int_keys
      BY <1>5, <2>1, <2>3 DEF Ambiguous
    <3> QED  BY <1>2, <3>1, <3>2
  <2> QED  BY <1>0, <1>5, <2>2, <2>3
<1>6. References(d) <=> Image \in External(d) /\ filled # "filled"
  BY <1>1 DEF References
<1>7. Routed(d) => References(d)
  BY <1>1, <1>3, <1>4, <1>6 DEF Routed
<1>8. ~Ambiguous /\ References(d) => Routed(d)
  BY <1>0, <1>1, <1>5, <1>6 DEF Routed
<1>9. ASSUME ~Ambiguous
      PROVE  DataKeys(d) \cap EventKeys(d) = DataKeys(d) \ (IF References(d) THEN {Image} ELSE {})
  <2>1. CASE References(d)
    BY <1>1, <1>4, <1>5, <1>6, <1>9, <2>1
  <2>2. CASE ~References(d)
    BY <1>1, <1>3, <1>4, <1>6, <2>2
  <2> QED  BY <2>1, <2>2
<1> QED  BY <1>7, <1>8, <1>9

\* The variables of the emitter, as the handlers see them.
LEMMA EmitterGood ==
  ASSUME IInv
  PROVE  /\ Good(Emitter) /\ Emitter.next_frame = next_frame /\ Emitter.datum_cache = datum_cache
         /\ Emitter.emitted = emitted /\ Emitter.out = out
<1>1. TypeOK /\ AnnouncedOnce(out, emitted) /\ EmittedOnce(out, datum_cache)
  BY DEF IInv
<1>2. Emitter \in Emitters
  BY <1>1 DEF Emitter, Emitters, TypeOK
<1> QED  BY <1>1, <1>2 DEF Good, Emitter

\* The Event alone.
LEMMA EventAlone ==
  ASSUME IInv, NEW d \in desc_name
  PROVE  /\ EventRef(d) \in Refs
         /\ Good(WithEvent(d)) /\ Adds(out, EventDoc(d), WithEvent(d).out)
         /\ Numbers(WithEvent(d).out) = Numbers(out)
         /\ WithEvent(d).datum_cache = datum_cache /\ WithEvent(d).next_frame = next_frame
<1> DEFINE x == EventDoc(d)
           e == WithEvent(d)
<1>0. TypeOK /\ AnnouncedOnce(out, emitted) /\ EmittedOnce(out, datum_cache) /\ d \in Descriptors
  BY DEF IInv, TypeOK
<1>1. x \in Docs
  <2>1. DataKeys(d) \cap EventKeys(d) \in SUBSET AllKeys
    BY <1>0 DEF AllKeys
  <2> HIDE DEF x
  <2>2. x = [type |-> "event", desc |-> d, keys |-> DataKeys(d) \cap EventKeys(d)]
    BY DEF x, EventDoc
  <2> QED  BY <1>0, <2>1, <2>2, DocTypes
<1>2. x.type = "event"
  BY DEF EventDoc
<1>3. EventRef(d) \in Refs
  <2> DEFINE before == {i \in Events : Stream(out[i].desc) = Stream(d)}
  <2>1. before \subseteq 1..Len(out) /\ Len(out) \in Nat
    BY <1>0 DEF Events, TypeOK
  <2>2. IsFiniteSet(1..Len(out))
    BY <2>1, FS_Interval
  <2>3. Cardinality(before) \in Nat
    BY <2>1, <2>2, FS_Subset, FS_CardinalityType
  <2>4. Len(refs) \in Nat
    BY <1>0 DEF TypeOK
  <2> HIDE DEF before
  <2>5. [datum |-> Len(refs) + 1, desc |-> d, seq_num |-> Cardinality(before) + 1] \in Refs
    BY <1>0, <2>3, <2>4 DEF Refs
  <2> QED  BY <2>5 DEF EventRef, before
<1> HIDE DEF x
<1>4. /\ e = [next_frame |-> next_frame, datum_cache |-> datum_cache, emitted |-> emitted,
              out |-> Append(out, x)]
  BY DEF WithEvent, Emitter, x
<1>5. Append(out, x) \in Seq(Docs) /\ Adds(out, x, Append(out, x))
  BY <1>0, <1>1, AppendAdds DEF TypeOK
<1>6. /\ AnnouncedOnce(Append(out, x), emitted) /\ EmittedOnce(Append(out, x), datum_cache)
      /\ Numbers(Append(out, x)) = Numbers(out)
  BY <1>0, <1>2, <1>5, OtherKeeps
<1> HIDE DEF e
<1>7. e \in Emitters
  BY <1>0, <1>4, <1>5 DEF Emitters, TypeOK
<1>8. Good(e)
  BY <1>4, <1>6, <1>7 DEF Good
<1> QED  BY <1>3, <1>4, <1>5, <1>6, <1>8 DEF e, x

\* The three ways through the handler: the reference leads to its StreamDatum, is
\* left for the end, or there is none.
LEMMA EventCases ==
  ASSUME NEW d \in Descriptors, Event(d)
  PROVE  /\ status = "open" /\ d \in desc_name
         /\ UNCHANGED given /\ UNCHANGED keyVars
         /\ UNCHANGED <<declared, filled, uses_frame, desc_name, int_keys, ext_keys>>
         /\ UNCHANGED <<sres_cache, status, datums, inFile>>
         /\ refs' = IF References(d) THEN Append(refs, EventRef(d)) ELSE refs
         /\ \/ /\ Routed(d) /\ EventRef(d).datum \in datum_cache
               /\ Becomes(Emit(WithEvent(d), EventRef(d))) /\ ext_refs' = ext_refs
            \/ /\ Routed(d) /\ EventRef(d).datum \notin datum_cache
               /\ Becomes(WithEvent(d)) /\ ext_refs' = Append(ext_refs, EventRef(d))
            \/ ~Routed(d) /\ Becomes(WithEvent(d)) /\ ext_refs' = ext_refs
<1>1. /\ status = "open" /\ d \in desc_name
      /\ UNCHANGED <<given, keyVars, sres_cache, status, datums, inFile>>
      /\ refs' = IF References(d) THEN Append(refs, EventRef(d)) ELSE refs
  BY DEF Event, EventRef
<1>2. \/ /\ Routed(d) /\ EventRef(d).datum \in datum_cache
         /\ Becomes(Emit(WithEvent(d), EventRef(d))) /\ ext_refs' = ext_refs
      \/ /\ Routed(d) /\ EventRef(d).datum \notin datum_cache
         /\ Becomes(WithEvent(d)) /\ ext_refs' = Append(ext_refs, EventRef(d))
      \/ ~Routed(d) /\ Becomes(WithEvent(d)) /\ ext_refs' = ext_refs
  BY Zenon DEF Event, EventRef, WithEvent, EventDoc, Routed
<1> QED  BY <1>1, <1>2 DEF given, keyVars

\* What the variables become is of the right types.
LEMMA BecomesGood ==
  ASSUME NEW f, Good(f), Becomes(f)
  PROVE  /\ next_frame' \in [Streams -> Frames] /\ datum_cache' \subseteq 1..Len(datums)
         /\ emitted' \subseteq Uids /\ out' \in Seq(Docs)
         /\ AnnouncedOnce(out', emitted') /\ EmittedOnce(out', datum_cache')
BY DEF Becomes, Good, Emitters

\* The documents that follow from an Event: itself, then maybe a StreamResource and
\* a StreamDatum.
LEMMA EventOut ==
  ASSUME IInv, NEW d \in Descriptors, Event(d)
  PROVE  /\ \E f : Good(f) /\ Becomes(f)
         /\ Continues(out, out') /\ Len(out) + 1 \in 1..Len(out') /\ out'[Len(out) + 1] = EventDoc(d)
         /\ \A i \in 1..Len(out') : \/ i \in 1..Len(out) \/ i = Len(out) + 1
                                    \/ out'[i].type = "stream_resource"
                                    \/ i = Len(out') /\ out'[i].type = "stream_datum"
         /\ IF Routed(d) /\ EventRef(d).datum \in datum_cache
            THEN Numbers(out') = Numbers(out) \cup {EventRef(d).datum}
            ELSE Numbers(out') = Numbers(out)
<1> DEFINE e == WithEvent(d)
           ref == EventRef(d)
<1>0. TypeOK /\ d \in desc_name
  BY EventCases DEF IInv
<1>1. /\ ref \in Refs /\ Good(e) /\ Adds(out, EventDoc(d), e.out) /\ Numbers(e.out) = Numbers(out)
      /\ e.datum_cache = datum_cache
  BY <1>0, EventAlone
<1>2. \/ Routed(d) /\ ref.datum \in datum_cache /\ Becomes(Emit(e, ref))
      \/ ~(Routed(d) /\ ref.datum \in datum_cache) /\ Becomes(e)
  BY EventCases
<1> HIDE DEF e, ref
<1>3. CASE Routed(d) /\ ref.datum \in datum_cache /\ Becomes(Emit(e, ref))
  <2> DEFINE f == Emit(e, ref)
             x == Converted(e, ref)
  <2>1. /\ Good(f) /\ Emits(e, x, f) /\ Numbers(f.out) = Numbers(e.out) \cup {ref.datum}
    BY <1>0, <1>1, <1>3, EmitFacts
  <2>2. x.type = "stream_datum"
    BY DEF Converted
  <2>3. Becomes(f)
    BY <1>3
  <2> HIDE DEF f, x
  <2>4. out' = f.out
    BY <2>3 DEF Becomes
  <2>5. Continues(e.out, f.out) /\ Len(f.out) > Len(e.out) /\ f.out[Len(f.out)] = x
    BY <2>1 DEF Emits
  <2>6. Continues(out, out')
    BY <1>1, <2>4, <2>5, ContinuesFurther DEF Adds
  <2>7. Len(out) + 1 \in 1..Len(e.out) /\ e.out[Len(out) + 1] = EventDoc(d)
    BY <1>1 DEF Adds
  <2>8. Len(out) + 1 \in 1..Len(out') /\ out'[Len(out) + 1] = EventDoc(d)
    BY <2>4, <2>5, <2>7 DEF Continues
  <2>9. ASSUME NEW i \in 1..Len(out')
        PROVE  \/ i \in 1..Len(out) \/ i = Len(out) + 1
               \/ out'[i].type = "stream_resource"
               \/ i = Len(out') /\ out'[i].type = "stream_datum"
    <3>1. i \in 1..Len(e.out) \/ i = Len(f.out) \/ f.out[i].type = "stream_resource"
      BY <2>1, <2>4 DEF Emits
    <3>2. i \in 1..Len(e.out) => i \in 1..Len(out) \/ i = Len(out) + 1
      BY <1>1 DEF Adds
    <3> QED  BY <2>2, <2>4, <2>5, <3>1, <3>2
  <2> QED  BY <1>1, <1>3, <2>1, <2>3, <2>4, <2>6, <2>8, <2>9 DEF ref
<1>4. CASE ~(Routed(d) /\ ref.datum \in datum_cache) /\ Becomes(e)
  <2>1. out' = e.out
    BY <1>4 DEF Becomes
  <2>2. Adds(out, EventDoc(d), out')
    BY <1>1, <2>1
  <2>3. /\ Continues(out, out') /\ Len(out) + 1 \in 1..Len(out') /\ out'[Len(out) + 1] = EventDoc(d)
        /\ \A i \in 1..Len(out') : i \in 1..Len(out) \/ i = Len(out) + 1
    BY <2>2 DEF Adds
  <2> QED  BY <1>1, <1>4, <2>1, <2>3 DEF ref
<1> QED  BY <1>2, <1>3, <1>4

\* An Event.
LEMMA EventStep ==
  ASSUME IInv, NEW d \in Descriptors, Event(d)
  PROVE  IInv'
<1> DEFINE ref == EventRef(d)
           n == Len(refs)
<1>0. /\ status = "open" /\ d \in desc_name
      /\ UNCHANGED given /\ UNCHANGED keyVars
      /\ UNCHANGED <<declared, filled, uses_frame, desc_name, int_keys, ext_keys>>
      /\ UNCHANGED <<sres_cache, status, datums, inFile>>
      /\ refs' = IF References(d) THEN Append(refs, ref) ELSE refs
      /\ \/ /\ Routed(d) /\ ref.datum \in datum_cache /\ ext_refs' = ext_refs
         \/ /\ Routed(d) /\ ref.datum \notin datum_cache /\ ext_refs' = Append(ext_refs, ref)
         \/ ~Routed(d) /\ ext_refs' = ext_refs
  BY EventCases
<1>1. TypeOK /\ AnnouncedOnce(out, emitted) /\ EmittedOnce(out, datum_cache) /\ Referenced /\ Described /\ Numbered
  BY DEF IInv
<1>2. PICK f : Good(f) /\ Becomes(f)
  BY EventOut
<1>3. /\ next_frame' \in [Streams -> Frames] /\ datum_cache' \subseteq 1..Len(datums)
      /\ emitted' \subseteq Uids /\ out' \in Seq(Docs)
      /\ AnnouncedOnce(out', emitted') /\ EmittedOnce(out', datum_cache')
  BY <1>2, BecomesGood
<1>4. ref \in Refs /\ ref.datum = n + 1
  <2>1. ref.datum = n + 1
    BY DEF EventRef
  <2> QED  BY <1>0, <2>1, EventAlone
<1>5. /\ refs \in Seq(Refs) /\ ext_refs \in Seq(Refs) /\ n \in Nat /\ Len(ext_refs) \in Nat
  BY <1>1 DEF TypeOK
<1> HIDE DEF ref
<1>6. Append(refs, ref) \in Seq(Refs) /\ Adds(refs, ref, Append(refs, ref))
  BY <1>4, <1>5, AppendAdds
<1>7. Append(ext_refs, ref) \in Seq(Refs) /\ Adds(ext_refs, ref, Append(ext_refs, ref))
  BY <1>4, <1>5, AppendAdds
<1>8. TypeOK'
  <2>1. refs' \in Seq(Refs) /\ ext_refs' \in Seq(Refs)
    BY <1>0, <1>5, <1>6, <1>7
  <2> QED  BY <1>0, <1>1, <1>3, <2>1, SameGiven DEF TypeOK
<1>9. AnnouncedOnce(out, emitted)' /\ EmittedOnce(out, datum_cache)' /\ Numbers(out)' = Numbers(out')
  BY <1>0, <1>3, DocsKept
<1>10. IF Routed(d) /\ ref.datum \in datum_cache
       THEN Numbers(out') = Numbers(out) \cup {ref.datum}
       ELSE Numbers(out') = Numbers(out)
  BY EventOut DEF ref
<1>11. Ambiguous' <=> Ambiguous
  BY <1>0 DEF Ambiguous
<1>12. (Routed(d) => References(d)) /\ (~Ambiguous /\ References(d) => Routed(d))
  BY <1>0, <1>1, Routing
<1>13. Referenced'
  <2>0. /\ \A k \in 1..n : refs[k].datum = k
        /\ Numbers(out) \subseteq 1..n
        /\ \A k \in 1..Len(ext_refs) : ext_refs[k].datum \in 1..n /\ ext_refs[k].datum \notin Numbers(out)
        /\ \A k, l \in 1..Len(ext_refs) : ext_refs[k].datum = ext_refs[l].datum => k = l
        /\ ~Ambiguous => \A m \in 1..n : m \in Numbers(out) \/ \E k \in 1..Len(ext_refs) : ext_refs[k].datum = m
    BY <1>0, <1>1 DEF Referenced
  <2>1. CASE ~Routed(d) /\ ~References(d)
    <3>1. refs' = refs /\ ext_refs' = ext_refs /\ Numbers(out)' = Numbers(out)
      BY <1>0, <1>9, <1>10, <2>1
    <3> QED  BY <1>0, <1>1, <1>11, <3>1, ReferencedKept
  <2>2. CASE References(d)
    <3> DEFINE rr == Append(refs, ref)
    <3>0. refs' = rr
      BY <1>0, <2>2
    <3>1. /\ Len(rr) = n + 1 /\ rr[n + 1] = ref
          /\ \A k \in 1..n : k \in 1..Len(rr) /\ rr[k] = refs[k]
          /\ \A k \in 1..Len(rr) : k \in 1..n \/ k = n + 1
          /\ n + 1 \in 1..Len(rr) /\ n + 1 \notin 1..n
      BY <1>5, <1>6 DEF Adds, Continues
    <3> HIDE DEF rr, n
    <3>2. \A k \in 1..Len(rr) : rr[k].datum = k
      BY <1>4, <2>0, <3>1
    <3>3. Numbers(out') \subseteq 1..Len(rr)
      BY <1>4, <1>10, <2>0, <3>1
    <3>4. CASE Routed(d) /\ ref.datum \in datum_cache
      <4>1. ext_refs' = ext_refs /\ Numbers(out') = Numbers(out) \cup {n + 1}
        BY <1>0, <1>4, <1>10, <3>4
      <4>2. \A k \in 1..Len(ext_refs) : ext_refs[k].datum \in 1..Len(rr) /\ ext_refs[k].datum \notin Numbers(out')
        BY <2>0, <3>1, <4>1
      <4>3. ~Ambiguous => \A m \in 1..Len(rr) :
              m \in Numbers(out') \/ \E k \in 1..Len(ext_refs) : ext_refs[k].datum = m
        BY <2>0, <3>1, <4>1
      <4> QED  BY <1>0, <1>9, <1>11, <2>0, <3>0, <3>2, <3>3, <4>1, <4>2, <4>3 DEF Referenced
    <3>5. CASE Routed(d) /\ ref.datum \notin datum_cache
      <4> DEFINE er == Append(ext_refs, ref)
                 l == Len(ext_refs)
      <4>1. ext_refs' = er /\ Numbers(out') = Numbers(out)
        BY <1>0, <1>10, <3>5
      <4>2. /\ Len(er) = l + 1 /\ er[l + 1] = ref
            /\ \A k \in 1..l : k \in 1..Len(er) /\ er[k] = ext_refs[k]
            /\ \A k \in 1..Len(er) : k \in 1..l \/ k = l + 1
            /\ l + 1 \in 1..Len(er)
        BY <1>5, <1>7 DEF Adds, Continues
      <4> HIDE DEF er, l
      <4>a. /\ \A k \in 1..l : ext_refs[k].datum \in 1..n /\ ext_refs[k].datum \notin Numbers(out)
            /\ \A k, kk \in 1..l : ext_refs[k].datum = ext_refs[kk].datum => k = kk
            /\ ~Ambiguous => \A m \in 1..n : m \in Numbers(out) \/ \E k \in 1..l : ext_refs[k].datum = m
        BY <2>0 DEF l
      <4>3. \A k \in 1..Len(er) : er[k].datum \in 1..Len(rr) /\ er[k].datum \notin Numbers(out')
        BY <1>4, <2>0, <3>1, <4>1, <4>2, <4>a
      <4>4. \A k, kk \in 1..Len(er) : er[k].datum = er[kk].datum => k = kk
        BY <1>4, <3>1, <4>2, <4>a
      <4>5. ~Ambiguous => \A m \in 1..Len(rr) :
              m \in Numbers(out') \/ \E k \in 1..Len(er) : er[k].datum = m
        BY <1>4, <3>1, <4>1, <4>2, <4>a
      <4> QED  BY <1>0, <1>9, <1>11, <3>0, <3>2, <3>3, <4>1, <4>3, <4>4, <4>5 DEF Referenced
    <3>6. CASE ~Routed(d)
      <4>1. ext_refs' = ext_refs /\ Numbers(out') = Numbers(out) /\ Ambiguous
        BY <1>0, <1>10, <1>12, <2>2, <3>6
      <4>2. \A k \in 1..Len(ext_refs) : ext_refs[k].datum \in 1..Len(rr) /\ ext_refs[k].datum \notin Numbers(out')
        BY <2>0, <3>1, <4>1
      <4> QED  BY <1>0, <1>9, <1>11, <2>0, <3>0, <3>2, <3>3, <4>1, <4>2 DEF Referenced
    <3> QED  BY <3>4, <3>5, <3>6
  <2> QED  BY <1>12, <2>1, <2>2
<1>14. Described'
  <2>1. /\ Continues(out, out') /\ Len(out) + 1 \in 1..Len(out') /\ out'[Len(out) + 1] = EventDoc(d)
        /\ \A i \in 1..Len(out') : \/ i \in 1..Len(out) \/ i = Len(out) + 1
                                   \/ out'[i].type = "stream_resource"
                                   \/ i = Len(out') /\ out'[i].type = "stream_datum"
    BY EventOut
  <2>2. ASSUME ~Ambiguous
        PROVE  EventAs(out', Len(out) + 1)
    <3>1. EventDoc(d).desc = d /\ EventDoc(d).keys = DataKeys(d) \cap EventKeys(d)
      BY DEF EventDoc
    <3>2. PICK j \in 1..Len(out) : DescribedAs(out, j, d)
      BY <1>0, <1>1 DEF Described
    <3>3. j \in 1..Len(out') /\ j < Len(out) + 1 /\ DescribedAs(out', j, d)
      BY <2>1, <3>2 DEF Continues, DescribedAs
    <3>4. DataKeys(d) \cap EventKeys(d) = DataKeys(d) \ (IF References(d) THEN {Image} ELSE {})
      BY <1>0, <1>1, <2>2, Routing
    <3> QED  BY <2>1, <3>1, <3>3, <3>4 DEF EventAs
  <2>3. ~Ambiguous => \A i \in 1..Len(out') :
          out'[i].type = "event" => i \in 1..Len(out) \/ EventAs(out', i)
    BY <2>1, <2>2
  <2> QED  BY <1>0, <1>1, <2>1, <2>3, DescribedKept
<1>15. Numbered'
  BY <1>0, <1>1, NumberedKept
<1> QED  BY <1>8, <1>9, <1>13, <1>14, <1>15 DEF IInv

-----------------------------------------------------------------------------
(***************************************************************************)
(* The Stop document, by induction over the references that were left      *)
(***************************************************************************)
KnownUpto(k) == \A i \in 1..k : ext_refs[i].datum \in datum_cache
Count == CHOOSE k \in 0..Len(ext_refs) :
           KnownUpto(k) /\ (k < Len(ext_refs) => ~KnownUpto(k + 1))
EmitNext(f, k) == IF k = 0 THEN Emitter ELSE Emit(f[k - 1], ext_refs[k])
IsEmitting(f, n) == f = [k \in 0..n |-> EmitNext(f, k)]
Emitting == CHOOSE f : IsEmitting(f, Count)

\* The definitions that are local to Stop.
LEMMA StopCases ==
  ASSUME Stop
  PROVE  /\ status = "open"
         /\ IF Count = Len(ext_refs)
            THEN /\ Becomes([Emitting[Count] EXCEPT !.out = Append(@, [type |-> "stop"])])
                 /\ status' = "stopped"
            ELSE Becomes(Emitting[Count]) /\ status' = "raised"
         /\ UNCHANGED given /\ UNCHANGED keyVars
         /\ UNCHANGED <<declared, filled, uses_frame, desc_name, int_keys, ext_keys>>
         /\ UNCHANGED <<sres_cache, ext_refs, datums, refs, inFile>>
<1>1. /\ status = "open"
      /\ IF Count = Len(ext_refs)
         THEN /\ Becomes([Emitting[Count] EXCEPT !.out = Append(@, [type |-> "stop"])])
              /\ status' = "stopped"
         ELSE Becomes(Emitting[Count]) /\ status' = "raised"
      /\ UNCHANGED <<given, keyVars, sres_cache, ext_refs, datums, refs, inFile>>
  BY Zenon DEF Stop, Count, KnownUpto, Emitting, IsEmitting, EmitNext
<1> QED  BY <1>1 DEF given, keyVars

\* There are so many references at the beginning whose Datums are there.
LEMMA CountFacts ==
  ASSUME TypeOK
  PROVE  /\ Count \in 0..Len(ext_refs) /\ KnownUpto(Count)
         /\ Count < Len(ext_refs) => ~KnownUpto(Count + 1)
<1> DEFINE N == Len(ext_refs)
           Bad == {k \in 0..N : ~KnownUpto(k)}
           Fits(k) == KnownUpto(k) /\ (k < N => ~KnownUpto(k + 1))
<1>0. N \in Nat
  BY DEF TypeOK
<1>1. KnownUpto(0)
  BY DEF KnownUpto
<1> HIDE DEF N
<1>2. \E k \in 0..N : Fits(k)
  <2>1. CASE Bad = {}
    <3>1. KnownUpto(N) /\ N \in 0..N /\ ~(N < N)
      BY <1>0, <2>1
    <3> QED  BY <3>1
  <2>2. CASE Bad # {}
    <3>1. PICK m \in Bad : \A k \in Bad : m <= k
      <4>1. Bad \in SUBSET Nat
        BY <1>0
      <4> HIDE DEF Bad
      <4> QED  BY <2>2, <4>1, LeastIndex
    <3>2. m \in 0..N /\ ~KnownUpto(m) /\ m # 0
      BY <1>1, <3>1
    <3>3. m - 1 \in 0..N /\ ~(m <= m - 1) /\ (m - 1) + 1 = m
      BY <1>0, <3>2
    <3>4. KnownUpto(m - 1)
      BY <3>1, <3>3
    <3>5. Fits(m - 1)
      BY <3>2, <3>3, <3>4
    <3> QED  BY <3>3, <3>5
  <2> QED  BY <2>1, <2>2
<1>3. Count = CHOOSE k \in 0..N : Fits(k)
  BY Zenon DEF Count, N
<1> HIDE DEF Fits
<1>4. Count \in 0..N /\ Fits(Count)
  BY ONLY <1>2, <1>3, Zenon
<1> QED  BY <1>4 DEF Fits, N

\* The recursion of Stop defines a function.
LEMMA EmittingExists ==
  ASSUME NEW n \in Nat
  PROVE  \E f : IsEmitting(f, n)
<1> DEFINE Bad == {m \in Nat : ~\E f : IsEmitting(f, m)}
<1>1. ASSUME NEW m \in Bad, \A k \in Bad : m <= k
      PROVE  FALSE
  <2>1. CASE m = 0
    <3> DEFINE g == [k \in 0..0 |-> Emitter]
    <3>1. g = [k \in 0..0 |-> EmitNext(g, k)]
      BY DEF EmitNext
    <3>2. IsEmitting(g, 0)
      BY <3>1 DEF IsEmitting
    <3> QED  BY <2>1, <3>2
  <2>2. CASE m # 0
    <3>1. m \in Nat \ {0} /\ m - 1 \in Nat /\ ~(m <= m - 1)
      BY <2>2
    <3>2. \E f : IsEmitting(f, m - 1)
      BY <1>1, <3>1
    <3>3. PICK f : IsEmitting(f, m - 1)
      BY <3>2
    <3> DEFINE g == [k \in 0..m |-> IF k < m THEN f[k] ELSE EmitNext(f, m)]
    <3>4. f = [k \in 0..(m - 1) |-> EmitNext(f, k)]
      BY <3>3 DEF IsEmitting
    <3>5. ASSUME NEW k \in 0..m
          PROVE  g[k] = EmitNext(g, k)
      <4>1. CASE k = 0
        <5>1. 0 \in 0..m /\ 0 < m /\ 0 \in 0..(m - 1)
          BY <3>1
        <5>2. g[0] = f[0]
          BY <5>1
        <5>3. f[0] = EmitNext(f, 0)
          BY <3>4, <5>1
        <5> QED  BY <4>1, <5>2, <5>3 DEF EmitNext
      <4>2. CASE k # 0
        <5>1. k - 1 \in 0..m /\ k - 1 < m
          BY <3>1, <4>2
        <5>2. g[k - 1] = f[k - 1]
          BY <5>1
        <5>3. EmitNext(g, k) = EmitNext(f, k)
          BY <5>2, <4>2 DEF EmitNext
        <5>4. k < m => k \in 0..(m - 1)
          BY <3>1
        <5>5. k < m => f[k] = EmitNext(f, k)
          BY <3>4, <5>4
        <5>6. ~(k < m) => k = m
          BY <3>1
        <5> QED  BY <5>3, <5>5, <5>6
      <4> QED  BY <4>1, <4>2
    <3>6. g = [k \in 0..m |-> g[k]]
      OBVIOUS
    <3> HIDE DEF g
    <3>7. g = [k \in 0..m |-> EmitNext(g, k)]
      BY <3>5, <3>6
    <3>8. IsEmitting(g, m)
      BY <3>7 DEF IsEmitting
    <3> QED  BY <3>8
  <2> QED  BY <2>1, <2>2
<1>2. Bad = {}
  <2>1. Bad \in SUBSET Nat
    OBVIOUS
  <2> HIDE DEF Bad
  <2> QED  BY <2>1, <1>1, LeastIndex
<1> QED  BY <1>2

\* After k references.
Gone(k) == {ext_refs[i].datum : i \in 1..k}
After(e, k) ==
  /\ Good(e) /\ e.datum_cache = datum_cache \ Gone(k) /\ Numbers(e.out) = Numbers(out) \cup Gone(k)
  /\ Continues(out, e.out)
  /\ \A i \in 1..Len(e.out) : i \in 1..Len(out) \/ e.out[i].type \in {"stream_resource", "stream_datum"}

LEMMA EmittingFacts ==
  ASSUME IInv, status = "open"
  PROVE  /\ \A k \in 0..Count : After(Emitting[k], k)
         /\ Emitting[0] = Emitter
<1> DEFINE E == Emitting
           Bad == {k \in 0..Count : ~After(E[k], k)}
<1>0. TypeOK /\ Referenced
  BY DEF IInv
<1>1. Len(ext_refs) \in Nat /\ Count \in 0..Len(ext_refs) /\ KnownUpto(Count)
  BY <1>0, CountFacts DEF TypeOK
<1>2. IsEmitting(E, Count)
  <2>1. Count \in Nat
    BY <1>1
  <2>2. \E f : IsEmitting(f, Count)
    BY <2>1, EmittingExists
  <2> QED  BY <2>2 DEF Emitting
<1> HIDE DEF E
<1>3. \A k \in 0..Count : E[k] = EmitNext(E, k)
  BY <1>2 DEF IsEmitting
<1>a. E[0] = Emitter
  BY <1>1, <1>3 DEF EmitNext
<1>4. After(E[0], 0)
  <2>1. Gone(0) = {}
    BY DEF Gone
  <2>2. Len(out) \in Nat
    BY <1>0 DEF TypeOK
  <2>3. Continues(out, out)
    BY <2>2 DEF Continues
  <2> QED  BY <1>a, <2>1, <2>3, EmitterGood DEF After
<1>5. ASSUME NEW m \in Bad, \A k \in Bad : m <= k
      PROVE  FALSE
  <2>1. m \in 0..Count /\ ~After(E[m], m) /\ m # 0
    BY <1>4, <1>5
  <2>2. m - 1 \in 0..Count /\ ~(m <= m - 1) /\ m \in 1..Count /\ m \in 1..Len(ext_refs)
    BY <1>1, <2>1
  <2>3. After(E[m - 1], m - 1)
    BY <1>5, <2>2
  <2> DEFINE e == E[m - 1]
             ref == ext_refs[m]
             f == Emit(e, ref)
  <2>4. E[m] = f
    BY <1>3, <2>1 DEF EmitNext
  <2>5. ref \in Refs /\ ref.datum \in datum_cache
    <3>1. ref.datum \in datum_cache
      BY <1>1, <2>2 DEF KnownUpto
    <3>2. ext_refs \in Seq(Refs)
      BY <1>0 DEF TypeOK
    <3> QED  BY <2>2, <3>1, <3>2, ElementOfSeq
  <2>6. ref.datum \notin Gone(m - 1)
    <3>1. \A i \in 1..(m - 1) : i \in 1..Len(ext_refs) /\ i # m
      BY <1>1, <2>2
    <3> QED  BY <1>0, <2>2, <3>1 DEF Gone, Referenced
  <2>7. Gone(m) = Gone(m - 1) \cup {ref.datum}
    <3>1. \A i : i \in 1..m <=> i \in 1..(m - 1) \/ i = m
      BY <2>2
    <3> QED  BY <3>1 DEF Gone
  <2>8. After(e, m - 1)
    BY <2>3
  <2> HIDE DEF e, ref
  <2>9. ref.datum \in e.datum_cache /\ Good(e)
    BY <2>5, <2>6, <2>8 DEF After
  <2>10. /\ Good(f) /\ Emits(e, Converted(e, ref), f)
         /\ f.datum_cache = Popped(e.datum_cache, ref.datum)
         /\ Numbers(f.out) = Numbers(e.out) \cup {ref.datum}
    BY <1>0, <2>5, <2>9, EmitFacts
  <2> DEFINE x == Converted(e, ref)
  <2>11. x.type = "stream_datum"
    BY DEF Converted
  <2>12. Emits(e, x, f)
    BY <2>10
  <2> HIDE DEF f, x
  <2>13. f.datum_cache = datum_cache \ Gone(m) /\ Numbers(f.out) = Numbers(out) \cup Gone(m)
    BY <2>7, <2>8, <2>10 DEF After, Popped
  <2>14. Continues(out, e.out) /\ Continues(e.out, f.out) /\ f.out[Len(f.out)] = x
    BY <2>8, <2>12 DEF After, Emits
  <2>15. Continues(out, f.out)
    BY <2>14, ContinuesFurther
  <2>16. ASSUME NEW i \in 1..Len(f.out)
         PROVE  i \in 1..Len(out) \/ f.out[i].type \in {"stream_resource", "stream_datum"}
    <3>1. i \in 1..Len(e.out) \/ i = Len(f.out) \/ f.out[i].type = "stream_resource"
      BY <2>12 DEF Emits
    <3>2. i \in 1..Len(e.out) => f.out[i] = e.out[i]
      BY <2>14 DEF Continues
    <3>3. i \in 1..Len(e.out) => i \in 1..Len(out) \/ e.out[i].type \in {"stream_resource", "stream_datum"}
      BY <2>8 DEF After
    <3> QED  BY <2>11, <2>14, <3>1, <3>2, <3>3
  <2>17. After(f, m)
    BY <2>10, <2>13, <2>15, <2>16 DEF After
  <2> QED  BY <2>1, <2>4, <2>17
<1>6. Bad = {}
  <2>1. Bad \in SUBSET Nat
    BY <1>1
  <2> HIDE DEF Bad
  <2> QED  BY <2>1, <1>5, LeastIndex
<1> QED  BY <1>6, <1>a DEF E

\* The Stop document after what was left, or an exception.
LEMMA StopOut ==
  ASSUME IInv, Stop
  PROVE  /\ next_frame' \in [Streams -> Frames] /\ datum_cache' \subseteq 1..Len(datums)
         /\ emitted' \subseteq Uids /\ out' \in Seq(Docs)
         /\ AnnouncedOnce(out', emitted') /\ EmittedOnce(out', datum_cache')
         /\ Numbers(out') = Numbers(out) \cup Gone(Count)
         /\ Continues(out, out')
         /\ \A i \in 1..Len(out') : i \in 1..Len(out) \/ out'[i].type # "event"
<1> DEFINE e == Emitting[Count]
           x == [type |-> "stop"]
           g == [e EXCEPT !.out = Append(@, x)]
<1>0. /\ status = "open"
      /\ IF Count = Len(ext_refs) THEN Becomes(g) ELSE Becomes(e)
  BY StopCases
<1>1. After(e, Count)
  <2>1. TypeOK /\ Len(ext_refs) \in Nat
    BY DEF IInv, TypeOK
  <2>2. Count \in 0..Count
    BY <2>1, CountFacts
  <2> QED  BY <1>0, <2>2, EmittingFacts
<1> HIDE DEF e
<1>2. Good(e) /\ Continues(out, e.out) /\ Numbers(e.out) = Numbers(out) \cup Gone(Count)
  BY <1>1 DEF After
<1>3. \A i \in 1..Len(e.out) : i \in 1..Len(out) \/ e.out[i].type # "event"
  BY <1>1 DEF After
<1>4. CASE Becomes(e)
  <2>1. out' = e.out
    BY <1>4 DEF Becomes
  <2> QED  BY <1>2, <1>3, <1>4, <2>1, BecomesGood
<1>5. CASE Becomes(g)
  <2>0. x \in Docs /\ x.type = "stop"
    BY DocTypes
  <2>1. e.out \in Seq(Docs) /\ e \in Emitters
    BY <1>2 DEF Good, Emitters
  <2>2. g = [next_frame |-> e.next_frame, datum_cache |-> e.datum_cache, emitted |-> e.emitted,
             out |-> Append(e.out, x)]
    <3>1. e = [next_frame |-> e.next_frame, datum_cache |-> e.datum_cache, emitted |-> e.emitted, out |-> e.out]
      BY <2>1 DEF Emitters
    <3> DEFINE p == Append(e.out, x)
    <3> HIDE DEF p
    <3>2. [e EXCEPT !.out = p] = [next_frame |-> e.next_frame, datum_cache |-> e.datum_cache,
                                  emitted |-> e.emitted, out |-> p]
      BY ONLY <3>1
    <3> QED  BY <3>2 DEF p
  <2> HIDE DEF x
  <2>3. Append(e.out, x) \in Seq(Docs) /\ Adds(e.out, x, Append(e.out, x))
    BY <2>0, <2>1, AppendAdds
  <2> DEFINE p == Append(e.out, x)
  <2>4. p \in Seq(Docs) /\ Adds(e.out, x, p)
    BY <2>3
  <2> HIDE DEF p
  <2>5. AnnouncedOnce(p, e.emitted) /\ EmittedOnce(p, e.datum_cache) /\ Numbers(p) = Numbers(e.out)
    BY <1>2, <2>0, <2>4, OtherKeeps DEF Good
  <2>6. g = [next_frame |-> e.next_frame, datum_cache |-> e.datum_cache, emitted |-> e.emitted, out |-> p]
    BY <2>2 DEF p
  <2> HIDE DEF g
  <2>7. g \in Emitters /\ g.out = p
    BY <2>1, <2>4, <2>6 DEF Emitters
  <2>8. Good(g)
    BY <2>5, <2>6, <2>7 DEF Good
  <2>9. out' = p
    BY <1>5, <2>7 DEF Becomes
  <2>10. Continues(out, p)
    BY <1>2, <2>4, ContinuesFurther DEF Adds
  <2>11. \A i \in 1..Len(p) : i \in 1..Len(out) \/ p[i].type # "event"
    BY <1>3, <2>0, <2>4 DEF Adds, Continues
  <2> QED  BY <1>2, <1>5, <2>5, <2>8, <2>9, <2>10, <2>11, BecomesGood
<1> QED  BY <1>0, <1>4, <1>5

\* The Stop document.
LEMMA StopStep ==
  ASSUME IInv, Stop
  PROVE  IInv'
<1>0. /\ status = "open" /\ status' \in {"stopped", "raised"}
      /\ status' = "stopped" => Count = Len(ext_refs)
      /\ UNCHANGED given /\ UNCHANGED keyVars
      /\ UNCHANGED <<declared, filled, uses_frame, desc_name, int_keys, ext_keys>>
      /\ UNCHANGED <<sres_cache, ext_refs, datums, refs, inFile>>
  BY StopCases
<1>1. TypeOK /\ Referenced /\ Described /\ Numbered
  BY DEF IInv
<1>2. /\ next_frame' \in [Streams -> Frames] /\ datum_cache' \subseteq 1..Len(datums)
      /\ emitted' \subseteq Uids /\ out' \in Seq(Docs)
      /\ AnnouncedOnce(out', emitted') /\ EmittedOnce(out', datum_cache')
      /\ Numbers(out') = Numbers(out) \cup Gone(Count)
      /\ Continues(out, out')
      /\ \A i \in 1..Len(out') : i \in 1..Len(out) \/ out'[i].type # "event"
  BY StopOut
<1>3. TypeOK'
  BY <1>0, <1>1, <1>2, SameGiven DEF TypeOK
<1>4. AnnouncedOnce(out, emitted)' /\ EmittedOnce(out, datum_cache)' /\ Numbers(out)' = Numbers(out')
  BY <1>0, <1>2, DocsKept
<1>5. Referenced'
  <2>0. Ambiguous' <=> Ambiguous
    BY <1>0 DEF Ambiguous
  <2>1. Count \in 0..Len(ext_refs) /\ Len(ext_refs) \in Nat
    BY <1>1, CountFacts DEF TypeOK
  <2>2. \A k \in 1..Count : k \in 1..Len(ext_refs)
    BY <2>1
  <2>3. Gone(Count) \subseteq 1..Len(refs)
    BY <1>1, <2>2 DEF Gone, Referenced
  <2>4. Numbers(out)' \subseteq 1..Len(refs)
    BY <1>1, <1>2, <1>4, <2>3 DEF Referenced
  <2>5. ASSUME ~Ambiguous, status' = "stopped", NEW n \in 1..Len(refs)
        PROVE  n \in Numbers(out)'
    <3>1. n \in Numbers(out) \/ \E k \in 1..Len(ext_refs) : ext_refs[k].datum = n
      BY <1>0, <1>1, <2>5 DEF Referenced
    <3>2. \A k \in 1..Len(ext_refs) : ext_refs[k].datum \in Gone(Count)
      BY <1>0, <2>5 DEF Gone
    <3> QED  BY <1>2, <1>4, <3>1, <3>2
  <2> QED  BY <1>0, <1>1, <2>0, <2>4, <2>5 DEF Referenced
<1>6. Described'
  BY <1>0, <1>1, <1>2, DescribedKept
<1>7. Numbered'
  BY <1>0, <1>1, NumberedKept
<1> QED  BY <1>3, <1>4, <1>5, <1>6, <1>7 DEF IInv

\* Every step.
LEMMA NextIInv == IInv /\ [Next]_vars => IInv'
<1> SUFFICES ASSUME IInv, [Next]_vars PROVE IInv'
  OBVIOUS
<1>1. CASE Resource
  BY <1>1, ResourceStep
<1>2. ASSUME NEW size \in 1..MaxSize, Datum(size)
      PROVE  IInv'
  BY <1>2, DatumStep
<1>3. ASSUME NEW d \in Descriptors, Descriptor(d)
      PROVE  IInv'
  BY <1>3, DescriptorStep
<1>4. ASSUME NEW d \in Descriptors, DescriptorRaises(d)
      PROVE  IInv'
  BY <1>4, DescriptorRaisesStep
<1>5. ASSUME NEW d \in Descriptors, Event(d)
      PROVE  IInv'
  BY <1>5, EventStep
<1>6. CASE Stop
  BY <1>6, StopStep
<1>7. CASE UNCHANGED vars
  BY <1>7, UnchangedStep
<1> QED  BY <1>1, <1>2, <1>3, <1>4, <1>5, <1>6, <1>7 DEF Next

\* The invariant holds of every run.
THEOREM Invariance == Spec => []IInv
<1> QED  BY InitIInv, NextIInv, PTL DEF Spec

\* A StreamResource comes before its StreamDatums, and once: _emitted has the
\* uids of those that were emitted.
THEOREM ResourceOnceBeforeDatumThm == Spec => []ResourceOnceBeforeDatum
<1>1. ASSUME IInv PROVE ResourceOnceBeforeDatum
  <2>0. AnnouncedOnce(out, emitted)
    BY <1>1 DEF IInv
  <2> SUFFICES ASSUME NEW i \in StreamDatums
               PROVE  \E j \in {j \in 1..Len(out) : out[j].type = "stream_resource" /\ out[j].sres = out[i].sres} :
                        /\ {k \in 1..Len(out) : out[k].type = "stream_resource" /\ out[k].sres = out[i].sres} = {j}
                        /\ j < i
    BY DEF ResourceOnceBeforeDatum
  <2> DEFINE uid == out[i].sres
  <2>1. i \in 1..Len(out) /\ out[i].type = "stream_datum"
    BY DEF StreamDatums
  <2>2. uid \in emitted /\ \E j \in 1..Len(out) : j < i /\ Announces(out, uid, j)
    BY <2>0, <2>1 DEF AnnouncedOnce
  <2>3. PICK j \in 1..Len(out) : Announces(out, uid, j) /\ \A k \in 1..Len(out) : Announces(out, uid, k) => k = j
    BY <2>0, <2>2 DEF AnnouncedOnce
  <2>4. j < i
    BY <2>2, <2>3
  <2>5. {k \in 1..Len(out) : out[k].type = "stream_resource" /\ out[k].sres = uid} = {j}
    BY <2>3 DEF Announces
  <2> QED  BY <2>4, <2>5
<1> QED  BY <1>1, Invariance, PTL

\* An Event has the values of its descriptor, a reference leads to one StreamDatum, in
\* the end.
THEOREM EveryValueEmittedThm == Spec => []EveryValueEmitted
<1>1. ASSUME IInv PROVE EveryValueEmitted
  <2>0. /\ EmittedOnce(out, datum_cache) /\ Referenced /\ Described /\ Len(out) \in Nat
    BY <1>1 DEF IInv, TypeOK
  <2>1. \A i, j \in StreamDatums : out[i].datum = out[j].datum => i = j
    BY <2>0 DEF StreamDatums, EmittedOnce, IsDatum
  <2>2. ASSUME ~Ambiguous, NEW i \in Events
        PROVE  \E j \in 1..(i - 1) :
                 /\ out[j].type = "descriptor" /\ out[j].desc = out[i].desc
                 /\ out[i].keys = out[j].keys \ (IF References(out[i].desc) THEN {Image} ELSE {})
    <3>1. i \in 1..Len(out) /\ out[i].type = "event"
      BY DEF Events
    <3>2. EventAs(out, i)
      BY <2>0, <2>2, <3>1 DEF Described
    <3>3. PICK j \in 1..Len(out) : j < i /\ DescribedAs(out, j, out[i].desc)
      BY <3>2 DEF EventAs
    <3>4. j \in 1..(i - 1)
      BY <2>0, <3>1, <3>3
    <3> QED  BY <3>2, <3>3, <3>4 DEF EventAs, DescribedAs
  <2>3. ASSUME ~Ambiguous, status = "stopped"
        PROVE  {out[i].datum : i \in StreamDatums} = {refs[n].datum : n \in 1..Len(refs)}
    <3>1. {out[i].datum : i \in StreamDatums} = Numbers(out)
      BY <2>0 DEF StreamDatums, Numbers, EmittedOnce, IsDatum
    <3>2. {refs[n].datum : n \in 1..Len(refs)} = 1..Len(refs)
      BY <2>0 DEF Referenced
    <3>3. Numbers(out) = 1..Len(refs)
      BY <2>0, <2>3 DEF Referenced
    <3> QED  BY <3>1, <3>2, <3>3
  <2> QED  BY <2>1, <2>2, <2>3 DEF EveryValueEmitted
<1> QED  BY <1>1, Invariance, PTL

-----------------------------------------------------------------------------
(***************************************************************************)
(* StreamDatums tile the frames of their stream                            *)
(***************************************************************************)

\* As long as no reference waits, those that were made have led to their StreamDatum.
LEMMA DirectRefs ==
  ASSUME IInv, Direct, status = "open"
  PROVE  \A n \in 1..Len(refs) : n \in 1..Len(datums) /\ refs[n].datum = n
<1>1. Referenced /\ Len(ext_refs) = 0
  BY DEF IInv, Direct
<1>2. 1..0 = {}
  OBVIOUS
<1>3. ~Ambiguous
  BY DEF Direct
<1>4. \A n \in 1..Len(refs) : n \in Numbers(out) /\ refs[n].datum = n
  BY <1>1, <1>2, <1>3 DEF Referenced
<1> QED  BY <1>4 DEF Numbers

\* What makes an exception stays.
LEMMA DirectStays ==
  ASSUME IInv, UNCHANGED given, UNCHANGED ext_refs, Direct',
         int_keys \subseteq int_keys', ext_keys \subseteq ext_keys',
         status = "open", Continues(refs, refs'), Continues(datums, datums')
  PROVE  Direct
<1>0. uses_frame' = uses_frame /\ ext_refs = <<>> /\ ~Ambiguous
  BY AmbiguousStays DEF given, Direct
<1>1. ASSUME uses_frame, ResourcesShared
      PROVE  FALSE
  <2>1. PICK m \in 1..Len(refs), n \in 1..Len(refs) :
          /\ datums[refs[m].datum].resource = datums[refs[n].datum].resource
          /\ Stream(refs[m].desc) # Stream(refs[n].desc)
    BY <1>1 DEF ResourcesShared
  <2>2. Referenced /\ Len(ext_refs) = 0 /\ 1..0 = {}
    BY <1>0 DEF IInv
  <2>3. refs[m].datum \in 1..Len(datums) /\ refs[n].datum \in 1..Len(datums)
    <3>1. m \in Numbers(out) /\ n \in Numbers(out) /\ refs[m].datum = m /\ refs[n].datum = n
      BY <1>0, <2>2 DEF Referenced
    <3> QED  BY <3>1 DEF Numbers
  <2>4. m \in 1..Len(refs') /\ n \in 1..Len(refs') /\ refs'[m] = refs[m] /\ refs'[n] = refs[n]
    BY DEF Continues
  <2>5. datums'[refs[m].datum] = datums[refs[m].datum] /\ datums'[refs[n].datum] = datums[refs[n].datum]
    BY <2>3 DEF Continues
  <2>6. ResourcesShared'
    BY <2>1, <2>4, <2>5, SameGiven DEF ResourcesShared
  <2> QED  BY <1>0, <1>1, <2>6 DEF Direct
<1> QED  BY <1>0, <1>1 DEF Direct

\* More documents, none of them a StreamDatum of the stream.
LEMMA StopsKept ==
  ASSUME NEW o, NEW p, Continues(o, p), NEW s, NEW end, NEW n \in Nat, Len(o) <= n, n <= Len(p),
         \A i \in 1..n : i \in 1..Len(o) \/ ~OfStream(p, s, i), StopsAt(o, s, Len(o), end)
  PROVE  StopsAt(p, s, n, end)
<1>1. \A i \in 1..Len(o) : i \in 1..n /\ p[i] = o[i]
  BY DEF Continues
<1>2. \A i \in 1..Len(o) : OfStream(p, s, i) <=> OfStream(o, s, i)
  BY <1>1 DEF OfStream
<1> QED  BY <1>1, <1>2 DEF StopsAt

\* The documents before i stay as they are.
LEMMA StopsSame ==
  ASSUME NEW o, NEW p, Continues(o, p), NEW s, NEW end, NEW i \in 1..Len(o)
  PROVE  StopsAt(o, s, i - 1, end) <=> StopsAt(p, s, i - 1, end)
<1>1. \A j \in 1..(i - 1) : p[j] = o[j]
  BY DEF Continues
<1>2. \A j \in 1..(i - 1) : OfStream(p, s, j) <=> OfStream(o, s, j)
  BY <1>1 DEF OfStream
<1> QED  BY <1>1, <1>2 DEF StopsAt

\* What is said of the stream of a document depends on what was given only.
LEMMA SameStops ==
  ASSUME UNCHANGED given
  PROVE  /\ \A s, n, end : StopsAt(out, s, n, end)' <=> StopsAt(out', s, n, end)
         /\ \A s : EventsOf(out, s)' = EventsOf(out', s)
         /\ \A s, i : OfStream(out, s, i)' <=> OfStream(out', s, i)
<1>1. \A d : Stream(d)' = Stream(d)
  BY SameGiven
<1>2. \A s, i : OfStream(out, s, i)' <=> OfStream(out', s, i)
  BY <1>1 DEF OfStream
<1>3. \A s, n, end : StopsAt(out, s, n, end)' <=> StopsAt(out', s, n, end)
  BY <1>2 DEF StopsAt
<1>4. \A s : EventsOf(out, s)' = EventsOf(out', s)
  BY <1>1 DEF EventsOf
<1> QED  BY <1>2, <1>3, <1>4

\* A StreamDatum that was emitted stays where it is.
LEMMA TilesKept ==
  ASSUME IInv, UNCHANGED given, Continues(out, out'), Continues(datums, datums'),
         NEW i \in 1..Len(out), IsDatum(out, i), Tiles(out, i)
  PROVE  Tiles(out, i)'
<1>1. out'[i] = out[i]
  BY DEF Continues
<1>2. out[i].datum \in 1..Len(datums)
  BY DEF IInv, EmittedOnce
<1>3. datums'[out[i].datum] = datums[out[i].datum]
  BY <1>2 DEF Continues
<1>4. \A d : Stream(d)' = Stream(d)
  BY SameGiven
<1>5. \A s, n, end : StopsAt(out, s, n, end)' <=> StopsAt(out', s, n, end)
  BY SameStops
<1>6. \A s, end : StopsAt(out, s, i - 1, end) => StopsAt(out', s, i - 1, end)
  BY StopsSame
<1> QED  BY <1>1, <1>3, <1>4, <1>5, <1>6 DEF Tiles

\* Another stream.
LEMMA EndsKept ==
  ASSUME IInv, UNCHANGED given, NEW s, next_frame'[s] = next_frame[s],
         Continues(out, out'), Continues(datums, datums'), Continues(refs, refs'),
         \A n \in 1..Len(refs) : n \in 1..Len(datums),
         \A i \in 1..Len(out') : \/ i \in 1..Len(out)
                                 \/ ~OfStream(out', s, i) /\ i \notin EventsOf(out', s),
         \A n \in 1..Len(refs') : n \in 1..Len(refs) \/ Stream(refs'[n].desc) # s,
         Ends(s)
  PROVE  Ends(s)'
<1>0. uses_frame' = uses_frame /\ (\A d : Stream(d)' = Stream(d)) /\ uses_frame \in BOOLEAN
  BY SameGiven, GivenFacts DEF given, IInv
<1>1. ASSUME NEW end, StopsAt(out, s, Len(out), end)
      PROVE  StopsAt(out', s, Len(out'), end)
  <2>1. Len(out') \in Nat /\ Len(out) <= Len(out') /\ Len(out') <= Len(out')
    BY DEF Continues
  <2> QED  BY <1>1, <2>1, StopsKept
<1>2. \A end : StopsAt(out, s, Len(out), end)' <=> StopsAt(out', s, Len(out'), end)
  BY SameStops
<1>3. CASE uses_frame
  <2>1. Counts(s)'
    <3>1. \A n \in 1..Len(refs) : n \in 1..Len(refs') /\ refs'[n] = refs[n] /\ datums'[n] = datums[n]
      BY DEF Continues
    <3>2. \A n \in 1..Len(refs') : Stream(refs'[n].desc) = s => n \in 1..Len(refs) /\ Stream(refs[n].desc) = s
      BY <3>1
    <3>3. Counts(s)
      BY <1>3 DEF Ends
    <3>4. CASE /\ next_frame[s] = [carry |-> 0, index |-> 0]
               /\ \A n \in 1..Len(refs) : Stream(refs[n].desc) # s
      BY <1>0, <3>2, <3>4 DEF Counts
    <3>5. ASSUME NEW m \in 1..Len(refs), Stream(refs[m].desc) = s, next_frame[s].index = datums[m].frame + 1,
                 \A n \in 1..Len(refs) : Stream(refs[n].desc) = s => n <= m
          PROVE  Counts(s)'
      <4>1. m \in 1..Len(refs') /\ refs'[m] = refs[m] /\ datums'[m] = datums[m]
        BY <3>1
      <4>2. \A n \in 1..Len(refs') : Stream(refs'[n].desc) = s => n <= m
        BY <3>2, <3>5
      <4> QED  BY <1>0, <3>5, <4>1, <4>2 DEF Counts
    <3> QED  BY <3>3, <3>4, <3>5 DEF Counts
  <2>2. StopsAt(out, s, Len(out), Total(next_frame[s]))
    BY <1>3 DEF Ends
  <2>3. Total(next_frame'[s]) = Total(next_frame[s])
    OBVIOUS
  <2>4. StopsAt(out, s, Len(out), Total(next_frame[s]))'
    BY <1>1, <1>2, <2>2, <2>3
  <2> QED  BY <1>0, <1>3, <2>1, <2>4 DEF Ends
<1>4. CASE ~uses_frame
  <2>1. EventsOf(out', s) = EventsOf(out, s)
    <3>1. \A i \in 1..Len(out) : i \in 1..Len(out') /\ out'[i] = out[i]
      BY DEF Continues
    <3> QED  BY <3>1 DEF EventsOf
  <2>2. EventsOf(out, s)' = EventsOf(out, s)
    BY <2>1, SameStops
  <2>3. StopsAt(out, s, Len(out), Cardinality(EventsOf(out, s)))
    BY <1>4 DEF Ends
  <2>4. StopsAt(out', s, Len(out'), Cardinality(EventsOf(out', s)))
    BY <1>1, <2>1, <2>3
  <2>5. StopsAt(out, s, Len(out), Cardinality(EventsOf(out, s)))'
    BY <1>2, <2>1, <2>2, <2>4
  <2> QED  BY <1>0, <1>4, <2>5 DEF Ends
<1> QED  BY <1>0, <1>3, <1>4

\* No Event and no StreamDatum.
LEMMA TiledKept ==
  ASSUME IInv, Tiled, UNCHANGED given, UNCHANGED <<ext_refs, next_frame, refs>>, status = "open",
         int_keys \subseteq int_keys', ext_keys \subseteq ext_keys',
         Continues(datums, datums'), Continues(out, out'),
         \A i \in 1..Len(out') : i \in 1..Len(out) \/ out'[i].type \notin {"event", "stream_datum"}
  PROVE  Tiled'
<1> SUFFICES ASSUME Direct'
             PROVE  /\ \A i \in 1..Len(out') : IsDatum(out', i) => Tiles(out, i)'
                    /\ \A s \in Streams' : (\E d \in Descriptors : Stream(d)' = s /\ References(d)') => Ends(s)'
  BY DEF Tiled
<1>0. Continues(refs, refs')
  BY DEF IInv, TypeOK, Continues
<1>1. Direct
  BY <1>0, DirectStays
<1>2. ASSUME NEW i \in 1..Len(out'), IsDatum(out', i)
      PROVE  Tiles(out, i)'
  <2>1. i \in 1..Len(out) /\ out'[i] = out[i]
    BY <1>2 DEF IsDatum, Continues
  <2>2. IsDatum(out, i) /\ Tiles(out, i)
    BY <1>1, <1>2, <2>1 DEF Tiled, IsDatum
  <2> QED  BY <2>1, <2>2, TilesKept
<1>3. ASSUME NEW s \in Streams', \E d \in Descriptors : Stream(d)' = s /\ References(d)'
      PROVE  Ends(s)'
  <2>1. s \in Streams /\ \E d \in Descriptors : Stream(d) = s /\ References(d)
    BY <1>3, SameGiven
  <2>2. Ends(s)
    BY <1>1, <2>1 DEF Tiled
  <2>3. \A i \in 1..Len(out') : \/ i \in 1..Len(out)
                                \/ ~OfStream(out', s, i) /\ i \notin EventsOf(out', s)
    BY DEF OfStream, EventsOf
  <2>4. \A n \in 1..Len(refs) : n \in 1..Len(datums)
    BY <1>1, DirectRefs
  <2> QED  BY <1>0, <2>2, <2>3, <2>4, EndsKept
<1> QED  BY <1>2, <1>3

\* The arithmetic of the frame number: the next Datum of a stream, n, goes on where the
\* last one ended, in the same Resource or in a new one, in which the frame number is
\* less than the last one was, as the Resource was full.
LEMMA GoesOn ==
  ASSUME MaxSize < MinFrames, IInv, uses_frame, NEW s \in Streams, Counts(s),
         NEW n \in 1..Len(datums), n = Len(refs) + 1,
         \A m \in 1..Len(refs) : Stream(refs[m].desc) # s => datums[m].resource # datums[n].resource,
         \A m, k \in 1..Len(refs) : Stream(refs[m].desc) # Stream(refs[k].desc) =>
           datums[m].resource # datums[k].resource
  PROVE  LET a == Advanced(next_frame[s], datums[n].frame) IN
         /\ Total(a) - Total(next_frame[s]) = datums[n].size
         /\ a.index = datums[n].frame + 1
<1> DEFINE f == next_frame[s]
           x == datums[n]
           a == Advanced(f, x.frame)
           l == Len(refs)
<1>0. TypeOK /\ Numbered /\ MinFrames \in Nat /\ MaxSize \in Nat
  BY SizesAssumption DEF IInv
<1>1. f \in Frames /\ datums \in Seq(DatumDocs) /\ l \in Nat
  BY <1>0 DEF TypeOK
<1>2. \A m \in 1..Len(datums) :
        /\ datums[m] \in DatumDocs
        /\ datums[m].frame \in Nat /\ datums[m].size \in Nat /\ datums[m].size <= MaxSize
  <2>1. \A m \in 1..Len(datums) : datums[m] \in DatumDocs
    BY <1>1
  <2>2. \A m \in 1..Len(datums) : datums[m].size \in 1..MaxSize
    BY <1>0 DEF Numbered
  <2> QED  BY <2>1, <2>2 DEF DatumDocs
<1>3. n = l + 1 /\ Len(datums) \in Nat
  BY <1>1
<1>4. \A m \in 1..l : m \in 1..Len(datums)
  BY <1>1, <1>3
<1>5. \A m \in 1..l : m + 1 \in 1..Len(datums) /\ Follows(datums[m], datums[m + 1])
  <2>1. \A m \in 1..l : m \in 1..(Len(datums) - 1) /\ m + 1 \in 1..Len(datums)
    BY <1>1, <1>3
  <2> QED  BY <1>0, <2>1 DEF Numbered
<1>6. x.frame \in Nat /\ x.size \in Nat /\ x.size <= MaxSize
  BY <1>2
<1>7. f.carry \in Int /\ f.index \in Int
  BY <1>1 DEF Frames
<1>8. l = 0 => x.frame = x.size - 1
  <2>1. l = 0 => n = 1 /\ datums # <<>>
    BY <1>1, <1>3, EmptySeq
  <2> QED  BY <1>0, <2>1 DEF Numbered
<1>9. /\ f.carry + x.frame + 1 < Total(f) => a = [carry |-> Total(f), index |-> x.frame + 1]
      /\ ~(f.carry + x.frame + 1 < Total(f)) => a = [carry |-> f.carry, index |-> x.frame + 1]
  BY <1>1, <1>6, FrameTypes
<1>10. Total(f) = f.carry + f.index /\ Total(a) = a.carry + a.index
  BY DEF Total
<1> HIDE DEF f, a
\* In a new Resource, or before any other Datum, frames start again.
<1>11. l # 0 /\ datums[l].resource # x.resource => x.frame = x.size - 1
  <2>1. l # 0 => l \in 1..l
    BY <1>1
  <2> QED  BY <1>3, <1>5, <2>1 DEF Follows
<1>12. CASE f = [carry |-> 0, index |-> 0] /\ \A m \in 1..l : Stream(refs[m].desc) # s
  <2>1. x.frame = x.size - 1
    <3>1. l # 0 => l \in 1..l
      BY <1>1
    <3> QED  BY <1>8, <1>11, <1>12, <3>1
  <2>2. f.carry = 0 /\ f.index = 0
    BY <1>12
  <2> HIDE DEF x
  <2>3. ~(f.carry + x.frame + 1 < Total(f))
    BY <1>6, <1>10, <2>2
  <2>4. a.carry = 0 /\ a.index = x.frame + 1
    BY <1>9, <2>2, <2>3
  <2>5. Total(a) - Total(f) = x.size
    BY <1>6, <1>10, <2>1, <2>2, <2>4
  <2> QED  BY <2>4, <2>5 DEF a, f, x
<1>13. ASSUME NEW m \in 1..l, Stream(refs[m].desc) = s, f.index = datums[m].frame + 1,
              \A k \in 1..l : Stream(refs[k].desc) = s => k <= m
       PROVE  Total(a) - Total(f) = x.size /\ a.index = x.frame + 1
  <2>0. m \in 1..Len(datums) /\ datums[m].frame \in Nat
    BY <1>2, <1>4
  <2>1. CASE m = l /\ datums[m].resource = x.resource
    <3>1. x.frame = datums[m].frame + x.size
      BY <1>3, <1>5, <2>1 DEF Follows
    <3> HIDE DEF x
    <3>2. ~(f.carry + x.frame + 1 < Total(f))
      BY <1>6, <1>7, <1>10, <1>13, <2>0, <3>1
    <3>3. a.carry = f.carry /\ a.index = x.frame + 1
      BY <1>9, <3>2
    <3>4. f.index = datums[m].frame + 1
      BY <1>13
    <3>5. Total(f) = f.carry + f.index /\ Total(a) = f.carry + (x.frame + 1)
      BY <1>10, <3>3
    <3>6. PICK c \in Int, p \in Nat, q \in Nat : c = f.carry /\ p = datums[m].frame /\ q = x.size
      BY <1>6, <1>7, <2>0
    <3>7. Total(f) = c + (p + 1) /\ Total(a) = c + ((p + q) + 1)
      BY <3>1, <3>4, <3>5, <3>6
    <3>8. Total(a) - Total(f) = x.size
      BY <3>6, <3>7
    <3> QED  BY <3>3, <3>8
  <2>2. CASE ~(m = l /\ datums[m].resource = x.resource)
    <3>1. x.frame = x.size - 1 /\ datums[m].frame + 1 >= MinFrames
      <4>1. CASE m = l
        <5>1. Follows(datums[m], x) /\ datums[m].resource # x.resource
          BY <1>3, <1>5, <2>2, <4>1
        <5> QED  BY <5>1 DEF Follows
      <4>2. CASE m # l
        <5>1. l \in 1..l /\ m + 1 \in 1..l /\ ~(m + 1 <= m) /\ ~(l <= m) /\ l # 0
          BY <1>1, <4>2
        <5>2. Stream(refs[l].desc) # s /\ Stream(refs[m + 1].desc) # s
          BY <1>13, <5>1
        <5>3. datums[l].resource # x.resource
          BY <5>1, <5>2
        <5>4. datums[m + 1].resource # datums[m].resource
          BY <1>13, <5>1, <5>2
        <5>5. Follows(datums[m], datums[m + 1])
          BY <1>5
        <5> QED  BY <1>11, <5>1, <5>3, <5>4, <5>5 DEF Follows
      <4> QED  BY <4>1, <4>2
    <3> HIDE DEF x
    <3>2. f.carry + x.frame + 1 < Total(f)
      <4>0. MaxSize < MinFrames /\ MaxSize \in Nat /\ MinFrames \in Nat
        BY <1>0
      <4>1. x.frame + 1 <= MaxSize
        BY ONLY <1>6, <3>1, <4>0
      <4>2. f.index >= MinFrames
        BY <1>13, <3>1
      <4> QED  BY ONLY <1>6, <1>7, <1>10, <4>0, <4>1, <4>2
    <3>3. a.carry = Total(f) /\ a.index = x.frame + 1
      BY <1>9, <3>2
    <3>4. Total(f) \in Int
      BY <1>7, <1>10
    <3> QED  BY <1>6, <1>10, <3>1, <3>3, <3>4
  <2> QED  BY <2>1, <2>2
<1>14. Counts(s)
  OBVIOUS
<1> QED  BY <1>12, <1>13, <1>14 DEF Counts, a, f, x, l

\* Descriptors of one stream reference alike.
LEMMA AlikeReferences ==
  ASSUME TypeOK, NEW d \in Descriptors, NEW e \in Descriptors, Stream(d) = Stream(e)
  PROVE  References(d) <=> References(e)
<1>1. declared[d] = declared[e]
  BY GivenFacts
<1> QED  BY <1>1 DEF References, External, DataKeys

\* An Event with values only.
LEMMA EventTiledValues ==
  ASSUME IInv, Tiled, NEW d \in Descriptors, Event(d), ~References(d)
  PROVE  Tiled'
<1>0. /\ status = "open" /\ d \in desc_name
      /\ UNCHANGED given /\ UNCHANGED keyVars
      /\ UNCHANGED <<declared, filled, uses_frame, desc_name, int_keys, ext_keys>>
      /\ UNCHANGED <<sres_cache, status, datums, inFile, refs, ext_refs>>
      /\ Becomes(WithEvent(d))
  <2>1. ~Routed(d)
    BY EventCases, Routing DEF IInv
  <2> QED  BY <2>1, EventCases
<1>1. TypeOK /\ Adds(out, EventDoc(d), WithEvent(d).out) /\ WithEvent(d).next_frame = next_frame
  BY <1>0, EventAlone DEF IInv
<1>2. out' = WithEvent(d).out /\ next_frame' = next_frame
  BY <1>0, <1>1 DEF Becomes
<1>3. /\ Continues(out, out')
      /\ \A i \in 1..Len(out') : i \in 1..Len(out) \/ out'[i] = EventDoc(d)
  BY <1>1, <1>2 DEF Adds
<1>4. EventDoc(d).type = "event" /\ EventDoc(d).desc = d
  BY DEF EventDoc
<1>5. Continues(refs, refs') /\ Continues(datums, datums')
  BY <1>0, <1>1 DEF TypeOK, Continues
<1> SUFFICES ASSUME Direct'
             PROVE  /\ \A i \in 1..Len(out') : IsDatum(out', i) => Tiles(out, i)'
                    /\ \A s \in Streams' : (\E c \in Descriptors : Stream(c)' = s /\ References(c)') => Ends(s)'
  BY DEF Tiled
<1>6. Direct
  BY <1>0, <1>5, DirectStays
<1>7. ASSUME NEW i \in 1..Len(out'), IsDatum(out', i)
      PROVE  Tiles(out, i)'
  <2>1. i \in 1..Len(out) /\ out'[i] = out[i]
    BY <1>3, <1>4, <1>7 DEF IsDatum, Continues
  <2>2. IsDatum(out, i) /\ Tiles(out, i)
    BY <1>6, <1>7, <2>1 DEF Tiled, IsDatum
  <2> QED  BY <1>0, <1>3, <1>5, <2>1, <2>2, TilesKept
<1>8. ASSUME NEW s \in Streams', NEW c \in Descriptors, Stream(c)' = s, References(c)'
      PROVE  Ends(s)'
  <2>1. s \in Streams /\ Stream(c) = s /\ References(c)
    BY <1>0, <1>8, SameGiven
  <2>2. Ends(s) /\ Stream(d) # s
    BY <1>1, <1>6, <2>1, AlikeReferences DEF Tiled
  <2>3. \A i \in 1..Len(out') : \/ i \in 1..Len(out)
                                \/ ~OfStream(out', s, i) /\ i \notin EventsOf(out', s)
    BY <1>3, <1>4, <2>2 DEF OfStream, EventsOf
  <2>4. \A n \in 1..Len(refs) : n \in 1..Len(datums)
    BY <1>0, <1>6, DirectRefs
  <2>5. \A n \in 1..Len(refs') : n \in 1..Len(refs) \/ Stream(refs'[n].desc) # s
    BY <1>0
  <2> QED  BY <1>0, <1>2, <1>3, <1>5, <2>2, <2>3, <2>4, <2>5, EndsKept
<1> QED  BY <1>7, <1>8

\* How many Events the stream has, with the one that is emitted.
LEMMA EventsCount ==
  ASSUME IInv, NEW d \in Descriptors, NEW p, Continues(out, p),
         Len(out) + 1 \in 1..Len(p), p[Len(out) + 1] = EventDoc(d),
         \A i \in 1..Len(p) : i \in 1..Len(out) \/ i = Len(out) + 1 \/ p[i].type # "event"
  PROVE  /\ EventRef(d).seq_num = Cardinality(EventsOf(out, Stream(d))) + 1
         /\ Cardinality(EventsOf(p, Stream(d))) = EventRef(d).seq_num
<1> DEFINE s == Stream(d)
           old == EventsOf(out, s)
           new == EventsOf(p, s)
<1>0. Len(out) \in Nat
  BY DEF IInv, TypeOK
<1>1. {i \in Events : Stream(out[i].desc) = s} = old
  BY DEF Events, EventsOf
<1>2. EventRef(d).seq_num = Cardinality(old) + 1
  BY <1>1 DEF EventRef
<1>3. EventDoc(d).type = "event" /\ EventDoc(d).desc = d
  BY DEF EventDoc
<1>4. \A i \in 1..Len(out) : i \in 1..Len(p) /\ p[i] = out[i] /\ i # Len(out) + 1
  BY <1>0 DEF Continues
<1>5. new = old \cup {Len(out) + 1} /\ Len(out) + 1 \notin old
  BY <1>3, <1>4 DEF EventsOf
<1>6. old \subseteq 1..Len(out)
  BY DEF EventsOf
<1> HIDE DEF old, new
<1>7. IsFiniteSet(old)
  <2>1. IsFiniteSet(1..Len(out))
    BY <1>0, FS_Interval
  <2> QED  BY <1>6, <2>1, FS_Subset
<1>8. Cardinality(new) = Cardinality(old) + 1
  BY <1>5, <1>7, FS_AddElement
<1> QED  BY <1>2, <1>8 DEF old, new

\* An Event with a reference to a Datum that is there.
LEMMA EventTiledReference ==
  ASSUME MaxSize < MinFrames, IInv, Tiled, NEW d \in Descriptors, Event(d), References(d), Direct'
  PROVE  Tiled'
<1>a. PICK s : s = Stream(d)
  OBVIOUS
<1>b. PICK n : n = Len(refs) + 1
  OBVIOUS
<1>c. PICK L : L = Len(out')
  OBVIOUS
<1> DEFINE ref == EventRef(d)
           e == WithEvent(d)
           f == Emit(e, ref)
           x == Converted(e, ref)
<1>0. /\ status = "open" /\ d \in desc_name
      /\ UNCHANGED given /\ UNCHANGED keyVars
      /\ UNCHANGED <<declared, filled, uses_frame, desc_name, int_keys, ext_keys>>
      /\ UNCHANGED <<sres_cache, status, datums, inFile>>
      /\ refs' = Append(refs, ref)
  BY EventCases
<1>1. TypeOK /\ Referenced /\ Described /\ Numbered
  BY DEF IInv
<1>2. ext_refs' = <<>> /\ ~Ambiguous
  BY <1>0 DEF Direct, Ambiguous
<1>3. /\ ref \in Refs /\ Good(e) /\ Adds(out, EventDoc(d), e.out)
      /\ e.datum_cache = datum_cache /\ e.next_frame = next_frame
  BY <1>0, EventAlone
<1>4. Routed(d) /\ ref.datum \in datum_cache /\ Becomes(f) /\ ext_refs' = ext_refs
  <2>1. Routed(d)
    BY <1>0, <1>1, <1>2, Routing
  <2>2. ext_refs' # Append(ext_refs, ref)
    <3>1. ext_refs \in Seq(Refs)
      BY <1>1 DEF TypeOK
    <3>2. Len(Append(ext_refs, ref)) = Len(ext_refs) + 1 /\ Len(ext_refs) \in Nat
      BY <1>3, <3>1, AppendProperties
    <3> QED  BY <1>2, <3>2
  <2> QED  BY <2>1, <2>2, EventCases
<1>5. ref.datum = n /\ ref.desc = d /\ n \in 1..Len(datums) /\ Len(refs) \in Nat
  <2>1. ref.datum = n /\ ref.desc = d
    BY <1>b DEF EventRef
  <2>2. datum_cache \subseteq 1..Len(datums) /\ Len(refs) \in Nat
    BY <1>1 DEF TypeOK
  <2> HIDE DEF ref
  <2> QED  BY <1>4, <2>1, <2>2
<1>6. refs \in Seq(Refs) /\ Adds(refs, ref, refs')
  BY <1>0, <1>1, <1>3, AppendAdds DEF TypeOK
<1>7. Continues(refs, refs') /\ Continues(datums, datums')
  BY <1>0, <1>1, <1>6 DEF TypeOK, Continues, Adds
<1>8. Direct
  BY <1>0, <1>4, <1>7, DirectStays
<1>9. \A m \in 1..Len(refs) : m \in 1..Len(datums) /\ refs[m].datum = m
  BY <1>0, <1>8, DirectRefs
<1>10. /\ Good(f) /\ Emits(e, x, f)
       /\ f.next_frame = [next_frame EXCEPT ![s] = Moved(e, ref)]
  BY <1>a, <1>1, <1>3, <1>4, <1>5, EmitFacts
<1>11. out' = f.out /\ next_frame' = [next_frame EXCEPT ![s] = Moved(e, ref)]
  BY <1>4, <1>10 DEF Becomes
<1>12. /\ x.type = "stream_datum" /\ x.datum = n /\ x.sres[2] = d
       /\ x.start = IF uses_frame THEN Total(next_frame[s]) ELSE ref.seq_num - 1
       /\ x.stop = IF uses_frame THEN Total(Moved(e, ref)) ELSE ref.seq_num
  BY <1>a, <1>3, <1>5 DEF Converted, StreamResourceUid
<1>13. Moved(e, ref) = IF uses_frame THEN Advanced(next_frame[s], datums[n].frame) ELSE next_frame[s]
  BY <1>a, <1>3, <1>5 DEF Moved
<1>14. s \in Streams /\ next_frame \in [Streams -> Frames] /\ uses_frame \in BOOLEAN
  BY <1>a, <1>1, GivenFacts DEF TypeOK
<1>15. next_frame'[s] = Moved(e, ref) /\ \A r \in Streams : r # s => next_frame'[r] = next_frame[r]
  BY <1>11, <1>14
<1> HIDE DEF f, x, e
<1>16. /\ Continues(out, out') /\ Len(out) + 1 \in 1..L /\ out'[Len(out) + 1] = EventDoc(d)
       /\ \A i \in 1..L : \/ i \in 1..Len(out) \/ i = Len(out) + 1
                          \/ out'[i].type = "stream_resource"
                          \/ i = L /\ out'[i].type = "stream_datum"
  BY <1>c, EventOut
<1>17. L \in 1..L /\ out'[L] = x /\ Len(out) \in Nat /\ Len(out) + 1 < L /\ L \in Nat
  <2>1. Continues(e.out, f.out) /\ Len(f.out) > Len(e.out) /\ f.out[Len(f.out)] = x
    BY <1>10 DEF Emits
  <2>2. Len(e.out) = Len(out) + 1 /\ Len(out) \in Nat
    BY <1>3 DEF Adds, Continues
  <2> QED  BY <1>c, <1>11, <2>1, <2>2 DEF Continues
<1>18. EventDoc(d).type = "event" /\ EventDoc(d).desc = d
  BY DEF EventDoc
<1>19. Ends(s)
  BY <1>a, <1>8, <1>14 DEF Tiled
<1>20. /\ ref.seq_num = Cardinality(EventsOf(out, s)) + 1 /\ Cardinality(EventsOf(out', s)) = ref.seq_num
       /\ ref.seq_num \in Nat
  <2>1. \A i \in 1..L : i \in 1..Len(out) \/ i = Len(out) + 1 \/ out'[i].type # "event"
    BY <1>16
  <2>2. ref.seq_num \in Nat
    BY <1>3 DEF Refs
  <2> QED  BY <1>a, <1>c, <1>16, <2>1, <2>2, EventsCount
\* It starts where the last one of the stream stopped.
<1>21. StopsAt(out, s, Len(out), x.start)
  <2>1. Cardinality(EventsOf(out, s)) = ref.seq_num - 1
    <3>1. IsFiniteSet(EventsOf(out, s))
      <4>1. IsFiniteSet(1..Len(out))
        BY <1>17, FS_Interval
      <4>2. EventsOf(out, s) \subseteq 1..Len(out)
        BY DEF EventsOf
      <4> QED  BY <4>1, <4>2, FS_Subset
    <3>2. Cardinality(EventsOf(out, s)) \in Nat
      BY <3>1, FS_CardinalityType
    <3> QED  BY <1>20, <3>2
  <2> QED  BY <1>12, <1>14, <1>19, <2>1 DEF Ends
<1>22. StopsAt(out', s, L - 1, x.start)
  <2>1. L - 1 \in Nat /\ Len(out) <= L - 1 /\ L - 1 <= L
    BY <1>17
  <2>2. \A i \in 1..(L - 1) : i \in 1..Len(out) \/ ~OfStream(out', s, i)
    BY <1>a, <1>16, <1>17, <1>18 DEF OfStream
  <2> QED  BY <1>c, <1>16, <1>21, <2>1, <2>2, StopsKept
\* It is as long as its Datum.
<1>23. ASSUME uses_frame
       PROVE  x.stop - x.start = datums[n].size /\ next_frame'[s].index = datums[n].frame + 1
  <2>0. ~ResourcesShared'
    BY <1>0, <1>23 DEF Direct
  <2>1. \A m \in 1..Len(refs') : /\ refs'[m].datum = m /\ m \in 1..Len(datums)
                                 /\ m \in 1..Len(refs) => refs'[m] = refs[m]
    <3>1. \A m \in 1..Len(refs) : refs'[m] = refs[m]
      BY <1>6 DEF Adds, Continues
    <3>2. \A m \in 1..Len(refs') : m \in 1..Len(refs) \/ (m = n /\ refs'[m] = ref)
      BY <1>b, <1>6 DEF Adds
    <3> QED  BY <1>5, <1>9, <3>1, <3>2
  <2>2. \A m, k \in 1..Len(refs') :
          Stream(refs'[m].desc) # Stream(refs'[k].desc) => datums[m].resource # datums[k].resource
    BY <1>0, <2>0, <2>1, SameGiven DEF ResourcesShared
  <2>3. n \in 1..Len(refs') /\ Stream(refs'[n].desc) = s /\ \A m \in 1..Len(refs) : m \in 1..Len(refs')
    BY <1>a, <1>b, <1>5, <1>6 DEF Adds
  <2>4. \A m, k \in 1..Len(refs) :
          Stream(refs[m].desc) # Stream(refs[k].desc) => datums[m].resource # datums[k].resource
    BY <2>1, <2>2, <2>3
  <2>5. \A m \in 1..Len(refs) : Stream(refs[m].desc) # s => datums[m].resource # datums[n].resource
    BY <2>1, <2>2, <2>3
  <2>6. Counts(s)
    BY <1>19, <1>23 DEF Ends
  <2> DEFINE a == Advanced(next_frame[s], datums[n].frame)
  <2>7. Total(a) - Total(next_frame[s]) = datums[n].size /\ a.index = datums[n].frame + 1
    BY <1>b, <1>5, <1>14, <1>23, <2>4, <2>5, <2>6, GoesOn
  <2> HIDE DEF a
  <2>8. Moved(e, ref) = a
    BY <1>13, <1>23 DEF a
  <2> QED  BY <1>12, <1>15, <1>23, <2>7, <2>8
<1>24. x.stop - x.start = datums[n].size
  <2>1. CASE ~uses_frame
    <3>1. datums[n].size = 1
      BY <1>1, <1>5, <2>1 DEF Numbered
    <3>2. x.stop = ref.seq_num /\ x.start = ref.seq_num - 1
      BY <1>12, <2>1
    <3> QED  BY <1>20, <3>1, <3>2
  <2> QED  BY <1>14, <1>23, <2>1
<1>25. \A c : Stream(c)' = Stream(c)
  BY <1>0, SameGiven
<1>26. Tiles(out, L)'
  <2>1. \A r, m, end : StopsAt(out, r, m, end)' <=> StopsAt(out', r, m, end)
    BY <1>0, SameStops
  <2>2. out'[L].stop - out'[L].start = datums'[out'[L].datum].size
    BY <1>0, <1>12, <1>17, <1>24
  <2>3. StopsAt(out', Stream(out'[L].sres[2]), L - 1, out'[L].start)
    BY <1>a, <1>12, <1>17, <1>22
  <2> QED  BY <1>25, <2>1, <2>2, <2>3 DEF Tiles
<1>27. ASSUME NEW i \in 1..L, IsDatum(out', i)
       PROVE  Tiles(out, i)'
  <2>1. i \in 1..Len(out) \/ i = L
    BY <1>16, <1>18, <1>27 DEF IsDatum
  <2>2. CASE i \in 1..Len(out)
    <3>1. out'[i] = out[i]
      BY <1>16, <2>2 DEF Continues
    <3>2. IsDatum(out, i) /\ Tiles(out, i)
      BY <1>8, <1>27, <2>2, <3>1 DEF Tiled, IsDatum
    <3> QED  BY <1>0, <1>7, <1>16, <2>2, <3>2, TilesKept
  <2> QED  BY <1>26, <2>1, <2>2
\* The stream stops where it does.
<1>28. Ends(s)'
  <2>0. OfStream(out', s, L) /\ out'[L].stop = x.stop
    BY <1>a, <1>12, <1>17 DEF OfStream
  <2>1. StopsAt(out', s, L, x.stop)
    <3>1. \A j \in 1..L : j <= L
      BY <1>17
    <3> QED  BY <1>17, <2>0, <3>1 DEF StopsAt
  <2>2. x.stop = IF uses_frame THEN Total(next_frame'[s]) ELSE Cardinality(EventsOf(out', s))
    BY <1>12, <1>14, <1>15, <1>20
  <2>3. uses_frame => Counts(s)'
    <3> SUFFICES ASSUME uses_frame PROVE Counts(s)'
      OBVIOUS
    <3>1. n \in 1..Len(refs') /\ Stream(refs'[n].desc) = s /\ \A m \in 1..Len(refs') : m <= n
      BY <1>a, <1>b, <1>5, <1>6 DEF Adds
    <3>2. next_frame'[s].index = datums'[n].frame + 1
      BY <1>0, <1>23
    <3> QED  BY <1>25, <3>1, <3>2 DEF Counts
  <2>4. \A r, m, end : StopsAt(out, r, m, end)' <=> StopsAt(out', r, m, end)
    BY <1>0, SameStops
  <2>5. EventsOf(out, s)' = EventsOf(out', s)
    BY <1>0, SameStops
  <2> QED  BY <1>c, <1>0, <1>14, <2>1, <2>2, <2>3, <2>4, <2>5 DEF Ends
<1>29. ASSUME NEW r \in Streams', NEW c \in Descriptors, Stream(c)' = r, References(c)', r # s
       PROVE  Ends(r)'
  <2>1. r \in Streams /\ Stream(c) = r /\ References(c)
    BY <1>0, <1>29, SameGiven
  <2>2. Ends(r)
    BY <1>8, <2>1 DEF Tiled
  <2>3. \A i \in 1..L : i \in 1..Len(out) \/ (~OfStream(out', r, i) /\ i \notin EventsOf(out', r))
    BY <1>a, <1>c, <1>12, <1>16, <1>17, <1>18, <1>29 DEF OfStream, EventsOf
  <2>4. \A m \in 1..Len(refs') : m \in 1..Len(refs) \/ Stream(refs'[m].desc) # r
    BY <1>a, <1>5, <1>6, <1>29 DEF Adds
  <2>5. next_frame'[r] = next_frame[r]
    BY <1>15, <1>29, <2>1
  <2> QED  BY <1>c, <1>0, <1>7, <1>9, <1>16, <2>2, <2>3, <2>4, <2>5, EndsKept
<1>30. \A r \in Streams' : (\E c \in Descriptors : Stream(c)' = r /\ References(c)') => Ends(r)'
  <2> SUFFICES ASSUME NEW r \in Streams', NEW c \in Descriptors, Stream(c)' = r, References(c)'
               PROVE  Ends(r)'
    OBVIOUS
  <2>1. CASE r # s
    BY <1>29, <2>1
  <2>2. CASE r = s
    <3>1. Stream(d)' = r
      BY <1>a, <1>25, <2>2
    <3> QED  BY <1>28, <3>1, <2>2
  <2> QED  BY <2>1, <2>2
<1> QED  BY <1>c, <1>27, <1>30 DEF Tiled, IsDatum

\* Nothing has been emitted at first.
LEMMA InitTiled == Init => Tiled
<1> SUFFICES ASSUME Init PROVE Tiled
  OBVIOUS
<1>0. out = <<>> /\ refs = <<>> /\ Len(<<>>) = 0 /\ 1..0 = {} /\ Len(out) = 0 /\ Len(refs) = 0
  BY DEF Init
<1>1. ASSUME NEW s \in Streams
      PROVE  Ends(s)
  <2>1. next_frame[s] = [carry |-> 0, index |-> 0]
    BY DEF Init
  <2>2. Total(next_frame[s]) = 0 /\ Counts(s)
    BY <1>0, <2>1 DEF Total, Counts
  <2>3. EventsOf(out, s) = {} /\ Cardinality({}) = 0
    BY <1>0, FS_EmptySet DEF EventsOf
  <2>4. StopsAt(out, s, Len(out), 0)
    BY <1>0 DEF StopsAt
  <2> QED  BY <2>2, <2>3, <2>4 DEF Ends
<1> QED  BY <1>0, <1>1 DEF Tiled

\* A step that changes nothing.
LEMMA UnchangedTiled ==
  ASSUME IInv, Tiled, UNCHANGED vars
  PROVE  Tiled'
<1>0. /\ UNCHANGED given /\ UNCHANGED <<uses_frame, filled, int_keys, ext_keys, next_frame>>
      /\ UNCHANGED <<out, ext_refs, datums, refs>>
  BY DEF vars, emitter, given, keyVars
<1>1. /\ \A d : Stream(d)' = Stream(d) /\ (References(d)' <=> References(d))
      /\ Streams' = Streams
      /\ \A s, n, end : StopsAt(out, s, n, end)' <=> StopsAt(out, s, n, end)
      /\ \A s : EventsOf(out, s)' = EventsOf(out, s)
  BY <1>0, SameGiven, SameStops
<1>2. Direct' <=> Direct
  <2>1. ResourcesShared' <=> ResourcesShared
    BY <1>0, <1>1 DEF ResourcesShared
  <2>2. Ambiguous' <=> Ambiguous
    BY <1>0 DEF Ambiguous
  <2> QED  BY <1>0, <2>1, <2>2 DEF Direct
<1>3. \A i : Tiles(out, i)' <=> Tiles(out, i)
  BY <1>0, <1>1 DEF Tiles
<1>4. \A s : Counts(s)' <=> Counts(s)
  BY <1>0, <1>1 DEF Counts
<1>5. \A s : Ends(s)' <=> Ends(s)
  BY <1>0, <1>1, <1>4 DEF Ends
<1> QED  BY <1>0, <1>1, <1>2, <1>3, <1>5 DEF Tiled, IsDatum

\* The Stop document, when no reference waits for it.
LEMMA StopTiled ==
  ASSUME IInv, Tiled, Stop
  PROVE  Tiled'
<1>0. /\ status = "open"
      /\ IF Count = Len(ext_refs)
         THEN Becomes([Emitting[Count] EXCEPT !.out = Append(@, [type |-> "stop"])])
         ELSE Becomes(Emitting[Count])
      /\ UNCHANGED given
      /\ UNCHANGED <<declared, filled, uses_frame, desc_name, int_keys, ext_keys>>
      /\ UNCHANGED <<sres_cache, ext_refs, datums, refs, inFile>>
  BY StopCases
<1>1. CASE ext_refs = <<>>
  <2> DEFINE x == [type |-> "stop"]
  <2>1. Len(ext_refs) = 0 /\ \A k \in 0..0 : k = 0
    BY <1>1
  <2>2. Count = 0
    BY <2>1, CountFacts DEF IInv
  <2>3. Emitting[0] = Emitter
    BY <1>0, EmittingFacts
  <2>4. Becomes([Emitter EXCEPT !.out = Append(@, x)])
    BY <1>0, <2>1, <2>2, <2>3
  <2>5. next_frame' = next_frame /\ out' = Append(out, x)
    BY <2>4 DEF Becomes, Emitter
  <2>6. x \in Docs /\ x.type = "stop"
    BY DocTypes
  <2> HIDE DEF x
  <2>7. Adds(out, x, out')
    BY <2>5, <2>6, AppendAdds DEF IInv, TypeOK
  <2>8. Continues(out, out') /\ \A i \in 1..Len(out') : i \in 1..Len(out) \/ out'[i] = x
    BY <2>7 DEF Adds
  <2>9. Continues(datums, datums')
    BY <1>0 DEF IInv, TypeOK, Continues
  <2> QED  BY <1>0, <2>5, <2>6, <2>8, <2>9, TiledKept
<1>2. CASE ext_refs # <<>>
  BY <1>0, <1>2 DEF Tiled, Direct
<1> QED  BY <1>1, <1>2

\* Every step.
LEMMA NextTiled ==
  ASSUME MaxSize < MinFrames, IInv, Tiled, [Next]_vars
  PROVE  Tiled'
<1>0. /\ Continues(out, out) /\ Continues(datums, datums) /\ Continues(refs, refs) /\ TypeOK
      /\ \A o : o = out => Continues(out, o)
      /\ \A o : o = datums => Continues(datums, o)
  BY DEF IInv, TypeOK, Continues
<1>1. CASE Resource
  <2>1. /\ UNCHANGED given /\ UNCHANGED <<ext_refs, next_frame, refs, int_keys, ext_keys, datums, out>>
        /\ status = "open"
    BY <1>1 DEF Resource, emitter, keyVars
  <2> QED  BY <1>0, <2>1, TiledKept
<1>2. ASSUME NEW size \in 1..MaxSize, Datum(size)
      PROVE  Tiled'
  <2>1. /\ UNCHANGED given /\ UNCHANGED <<ext_refs, next_frame, refs, int_keys, ext_keys, out>>
        /\ status = "open" /\ Continues(datums, datums')
    BY <1>0, <1>2, DatumFacts DEF Adds
  <2> QED  BY <1>0, <2>1, TiledKept
<1>3. ASSUME NEW d \in Descriptors, Descriptor(d)
      PROVE  Tiled'
  <2> DEFINE x == [type |-> "descriptor", desc |-> d, keys |-> DataKeys(d)]
  <2>1. /\ UNCHANGED given /\ UNCHANGED <<ext_refs, next_frame, refs, datums>>
        /\ int_keys \subseteq int_keys' /\ ext_keys \subseteq ext_keys'
        /\ status = "open" /\ out' = Append(out, x)
    BY <1>3 DEF Descriptor
  <2>2. x \in Docs
    <3>1. DataKeys(d) \in SUBSET AllKeys
      BY DEF AllKeys
    <3> QED  BY <3>1, DocTypes
  <2>3. x.type = "descriptor"
    OBVIOUS
  <2> HIDE DEF x
  <2>4. Adds(out, x, out')
    BY <1>0, <2>1, <2>2, AppendAdds DEF TypeOK
  <2>5. Continues(out, out') /\ \A i \in 1..Len(out') : i \in 1..Len(out) \/ out'[i] = x
    BY <2>4 DEF Adds
  <2> QED  BY <1>0, <2>1, <2>3, <2>5, TiledKept
<1>4. ASSUME NEW d \in Descriptors, DescriptorRaises(d)
      PROVE  Tiled'
  <2>1. /\ UNCHANGED given /\ UNCHANGED <<ext_refs, next_frame, refs, int_keys, ext_keys, datums, out>>
        /\ status = "open"
    BY <1>4 DEF DescriptorRaises, emitter, keyVars
  <2> QED  BY <1>0, <2>1, TiledKept
<1>5. ASSUME NEW d \in Descriptors, Event(d)
      PROVE  Tiled'
  <2>1. CASE ~References(d)
    BY <1>5, <2>1, EventTiledValues
  <2>2. CASE References(d) /\ Direct'
    BY <1>5, <2>2, EventTiledReference
  <2>3. CASE ~Direct'
    BY <2>3 DEF Tiled
  <2> QED  BY <2>1, <2>2, <2>3
<1>6. CASE Stop
  BY <1>6, StopTiled
<1>7. CASE UNCHANGED vars
  BY <1>7, UnchangedTiled
<1> QED  BY <1>1, <1>2, <1>3, <1>4, <1>5, <1>6, <1>7 DEF Next

\* If a Resource has more frames than a Datum, and no Event precedes its Datum, the
\* StreamDatums of a stream tile its frames in whatever order the streams take
\* turns and the Resources follow each other.
THEOREM FramesTileThm == MaxSize < MinFrames => (Spec => []FramesTile)
<1> SUFFICES ASSUME MaxSize < MinFrames PROVE Spec => []FramesTile
  OBVIOUS
<1>1. Init => IInv /\ Tiled
  BY InitIInv, InitTiled
<1>2. (IInv /\ Tiled) /\ [Next]_vars => (IInv /\ Tiled)'
  BY NextIInv, NextTiled
<1>3. IInv /\ Tiled => FramesTile
  <2> SUFFICES ASSUME IInv, Tiled, Direct, NEW i \in StreamDatums
               PROVE  LET s == Stream(out[i].sres[2])
                          before == {j \in StreamDatums : j < i /\ Stream(out[j].sres[2]) = s}
                      IN /\ out[i].stop - out[i].start = datums[out[i].datum].size
                         /\ out[i].start = IF before = {} THEN 0
                                           ELSE out[CHOOSE j \in before : \A k \in before : k <= j].stop
    BY DEF FramesTile, Direct
  <2> DEFINE s == Stream(out[i].sres[2])
             before == {j \in StreamDatums : j < i /\ Stream(out[j].sres[2]) = s}
  <2>1. i \in 1..Len(out) /\ Len(out) \in Nat /\ Tiles(out, i)
    BY DEF StreamDatums, Tiled, IsDatum, IInv, TypeOK
  <2>2. \A j : j \in before <=> j \in 1..(i - 1) /\ OfStream(out, s, j)
    <3>1. \A j : j \in 1..Len(out) /\ j < i <=> j \in 1..(i - 1)
      BY <2>1
    <3> QED  BY <3>1 DEF StreamDatums, OfStream
  <2>3. out[i].stop - out[i].start = datums[out[i].datum].size /\ StopsAt(out, s, i - 1, out[i].start)
    BY <2>1 DEF Tiles
  <2> HIDE DEF s, before
  <2>4. CASE out[i].start = 0 /\ \A j \in 1..(i - 1) : ~OfStream(out, s, j)
    <3>1. before = {}
      BY <2>2, <2>4
    <3> QED  BY <2>3, <2>4, <3>1 DEF before, s
  <2>5. ASSUME NEW j \in 1..(i - 1), OfStream(out, s, j), out[j].stop = out[i].start,
               \A k \in 1..(i - 1) : OfStream(out, s, k) => k <= j
        PROVE  out[i].start = IF before = {} THEN 0
                              ELSE out[CHOOSE k \in before : \A l \in before : l <= k].stop
    <3>1. j \in before /\ \A k \in before : k <= j /\ k \in Int
      BY <2>2, <2>5
    <3>2. \A k \in before : (\A l \in before : l <= k) => k = j
      BY <3>1
    <3>3. (CHOOSE k \in before : \A l \in before : l <= k) = j
      BY <3>1, <3>2
    <3> QED  BY <2>5, <3>1, <3>3
  <2> QED  BY <2>3, <2>4, <2>5 DEF StopsAt, before, s
<1> QED  BY <1>1, <1>2, <1>3, PTL DEF Spec
-----------------------------------------------------------------------------
(***************************************************************************)
(* The Dispatcher.  First the parts of its inductive invariant: what holds *)
(* of the ids, of the claims, and of the call of process() in progress.    *)
(***************************************************************************)
Entries == [cid : Nat, func : Funcs]
Claims == [func : Funcs, since : Nat]
Tokens == [func : Funcs, names : SUBSET Sigs, cids : SUBSET Nat]
Walks ==
  [phase : {"idle", "next", "callback", "returned", "raised"}, sig : Sigs,
   snapshot : SUBSET Entries, todo : SUBSET Entries, func : Funcs \cup {None}, exceptions : BOOLEAN,
   got : Seq(Funcs), owed : SUBSET Claims, entitled : SUBSET Funcs]

DispatcherTypeOK ==
  /\ ignore_exceptions \in BOOLEAN
  /\ callbacks \in [Sigs -> SUBSET Entries] /\ func_cid_map \in [Sigs -> SUBSET Entries]
  /\ cid \in Nat /\ tokens \in Seq(Tokens)
  /\ alive \subseteq Funcs /\ held \subseteq Entries
  /\ walk \in Walks /\ (walk.phase = "callback" => walk.func \in Funcs) /\ docs \in Nat
  /\ due \in [Sigs -> SUBSET Claims] /\ excused \subseteq Funcs

\* Who is called can be found.
Mapped == \A s \in Sigs : callbacks[s] \subseteq func_cid_map[s]

\* For one kind of documents a callback has one id.
OneIdEach == \A s \in Sigs : \A d, e \in func_cid_map[s] : d.func = e.func => d = e

\* An id is of one kind of documents and one callback, and not yet to come.
IdsDiffer ==
  /\ \A s \in Sigs : \A e \in func_cid_map[s] : e.cid <= cid
  /\ \A r, s \in Sigs : \A d \in func_cid_map[r], e \in func_cid_map[s] : d.cid = e.cid => r = s /\ d = e

\* The ids of a token that are in use belong to its callback.
IdsOfTokens ==
  \A t \in DOMAIN tokens : \A c \in tokens[t].cids :
    /\ c <= cid
    /\ \A s \in Sigs : \A e \in func_cid_map[s] :
         e.cid = c => s \in tokens[t].names /\ e.func = tokens[t].func

HasToken(s, e) ==
  \E t \in DOMAIN tokens : s \in tokens[t].names /\ tokens[t].func = e.func /\ e.cid \in tokens[t].cids

\* Who is called has a token with the id.
Tokened == \A s \in Sigs : \A e \in callbacks[s] : HasToken(s, e)

\* Nobody has been called who will be called, nobody is called twice.
ServedOnce ==
  /\ \A i, j \in DOMAIN walk.got : walk.got[i] = walk.got[j] => i = j
  /\ \A d, e \in walk.todo : d.func = e.func \/ d.cid = e.cid => d = e
  /\ \A i \in DOMAIN walk.got : \A e \in walk.todo : walk.got[i] # e.func
  /\ \A i \in DOMAIN walk.got : walk.got[i] \in walk.entitled
  /\ \A e \in walk.todo : e.func \in walk.entitled

Ids == Mapped /\ OneIdEach /\ IdsDiffer /\ IdsOfTokens /\ Tokened

\* A claim is that of a live callback, one for each kind of documents.
ClaimsValid ==
  \A s \in Sigs : \A d \in due[s] :
    /\ d.since \in DOMAIN tokens /\ tokens[d.since].func = d.func
    /\ d.func \in alive \ excused
    /\ \A e \in due[s] : e.func = d.func => e = d

\* Who has a claim will be called.
ClaimsHaveIds ==
  \A s \in Sigs : \A d \in due[s] : \E e \in callbacks[s] : e.func = d.func

\* Who can be found and lives has a claim.  So connect() gives a callback without
\* a claim a new id, and what is left in the map has no claim.
IdsHaveClaims ==
  \A s \in Sigs : \A e \in func_cid_map[s] :
    e.func \in alive \ excused => e \in callbacks[s] /\ \E d \in due[s] : d.func = e.func

\* Of the tokens of a callback that are not given back, those as old as its claim
\* or younger have its id, and the others do not.
ClaimsOfTokens ==
  \A s \in Sigs : \A d \in due[s], e \in callbacks[s] : e.func = d.func =>
    \A t \in DOMAIN tokens :
      tokens[t].func = d.func /\ s \in tokens[t].names /\ tokens[t].cids # {} =>
        (e.cid \in tokens[t].cids <=> d.since <= t)

\* Ids are in the order of claims.
SameOrder ==
  \A s \in Sigs : \A d1, d2 \in due[s], e1, e2 \in callbacks[s] :
    e1.func = d1.func /\ e2.func = d2.func /\ d1.since < d2.since => e1.cid < e2.cid

\* Who is owed the document has got it or is still to be called, in the order of
\* claims.
OwedServed ==
  /\ \A d \in walk.owed : d.func \in alive /\ d.since \in DOMAIN tokens
  /\ walk.phase \in {"next", "callback", "returned"} =>
       \A d \in walk.owed : (\E i \in DOMAIN walk.got : walk.got[i] = d.func)
                              \/ \E e \in walk.todo : e.func = d.func
  /\ \A d1, d2 \in walk.owed : d1.since < d2.since =>
       /\ \A i, j \in DOMAIN walk.got : walk.got[i] = d1.func /\ walk.got[j] = d2.func => i < j
       /\ \A e1, e2 \in walk.todo : e1.func = d1.func /\ e2.func = d2.func => e1.cid < e2.cid
       /\ \A j \in DOMAIN walk.got, e1 \in walk.todo : ~(e1.func = d1.func /\ walk.got[j] = d2.func)
  /\ walk.phase = "returned" => walk.todo = {}

Claimed == ClaimsValid /\ ClaimsHaveIds /\ IdsHaveClaims /\ ClaimsOfTokens /\ SameOrder

DispatcherIInv == DispatcherTypeOK /\ Ids /\ Claimed /\ ServedOnce /\ OwedServed

-----------------------------------------------------------------------------
\* Names are kinds of documents.
LEMMA NamesAreSigs == \A names \in Names : names \subseteq Sigs
BY DEF Names

\* The kinds of documents are finitely many.
LEMMA SigsFinite == IsFiniteSet(Sigs) /\ Sigs \subseteq Nat \ {0}
<1>1. IsFiniteSet(1..NumSigs)
  BY NumSigsAssumption, FS_Interval
<1> QED  BY <1>1, NumSigsAssumption DEF Sigs

\* The ids that connect() gives to one callback are new, as many as are counted,
\* and increase with the kind of documents.
LEMMA Ranks ==
  ASSUME NEW S \in SUBSET Sigs
  PROVE  /\ Cardinality(S) \in Nat
         /\ \A s \in S : /\ Cardinality({r \in S : r <= s}) \in 1..Cardinality(S)
                         /\ \A r \in S : r < s => Cardinality({q \in S : q <= r}) < Cardinality({q \in S : q <= s})
<1> DEFINE Upto(s) == {r \in S : r <= s}
<1>1. IsFiniteSet(S) /\ Cardinality(S) \in Nat
  BY SigsFinite, FS_Subset, FS_CardinalityType
<1>2. \A s : Upto(s) \subseteq S
  OBVIOUS
<1> HIDE DEF Upto
<1>3. \A s : IsFiniteSet(Upto(s)) /\ Cardinality(Upto(s)) \in Nat /\ Cardinality(Upto(s)) <= Cardinality(S)
  BY <1>1, <1>2, FS_Subset, FS_CardinalityType
<1>4. ASSUME NEW s \in S
      PROVE  Cardinality(Upto(s)) # 0
  <2>1. s \in Upto(s)
    BY SigsFinite DEF Upto
  <2> QED  BY <2>1, <1>3, FS_EmptySet
<1>5. ASSUME NEW r \in S, NEW s \in S, r < s
      PROVE  Cardinality(Upto(r)) < Cardinality(Upto(s))
  <2>1. Upto(r) \subseteq Upto(s) /\ s \in Upto(s) /\ s \notin Upto(r)
    <3>1. S \subseteq Nat /\ r \in Nat /\ s \in Nat
      BY SigsFinite
    <3>2. \A q \in Nat : q <= r => q <= s
      BY <3>1, <1>5
    <3>3. s <= s /\ ~ s <= r
      BY <3>1, <1>5
    <3>4. \A q \in Upto(r) : q \in S /\ q <= r /\ q \in Nat
      BY <3>1 DEF Upto
    <3>5. \A q \in Upto(r) : q \in S /\ q <= s
      BY <3>2, <3>4
    <3> QED  BY <3>3, <3>5, Zenon DEF Upto
  <2>2. Cardinality(Upto(r)) <= Cardinality(Upto(s)) /\ Cardinality(Upto(r)) # Cardinality(Upto(s))
    BY <2>1, <1>3, FS_Subset
  <2> QED  BY <2>2, <1>3
<1> QED  BY <1>1, <1>3, <1>4, <1>5 DEF Upto

\* The next callback is that of the least id.
LEMMA NextIsLeast ==
  ASSUME DispatcherTypeOK, walk.todo # {}
  PROVE  NextEntry \in walk.todo /\ NextEntry \in Entries /\ \A d \in walk.todo : NextEntry.cid <= d.cid
<1> DEFINE ids == {e.cid : e \in walk.todo}
<1>1. walk.todo \subseteq Entries
  BY DEF DispatcherTypeOK, Walks
<1>2. ids \in SUBSET Nat /\ ids # {}
  BY <1>1 DEF Entries
<1>3. PICK c \in ids : \A x \in ids : c <= x
  <2> HIDE DEF ids
  <2> QED  BY <1>2, LeastIndex
<1>4. \E e \in walk.todo : \A d \in walk.todo : e.cid <= d.cid
  BY <1>3
<1>5. NextEntry \in walk.todo /\ \A d \in walk.todo : NextEntry.cid <= d.cid
  <2> HIDE DEF ids
  <2> QED  BY <1>4 DEF NextEntry
<1> QED  BY <1>5, <1>1
\* The entries that connect() makes.
LEMMA EntryFacts ==
  ASSUME DispatcherTypeOK, NEW f \in Funcs, NEW names \in Names
  PROVE  /\ Fresh(f, names) \subseteq Sigs /\ Cardinality(Fresh(f, names)) \in Nat
         /\ \A s \in Fresh(f, names) :
              /\ Entry(f, names, s) \in Entries /\ Entry(f, names, s).func = f
              /\ cid < Entry(f, names, s).cid /\ Entry(f, names, s).cid <= cid + Cardinality(Fresh(f, names))
         /\ \A r, s \in Fresh(f, names) : Entry(f, names, r).cid = Entry(f, names, s).cid => r = s
<1> DEFINE S == Fresh(f, names)
           rank(s) == Cardinality({r \in S : r <= s})
<1>1. S \in SUBSET Sigs /\ cid \in Nat
  BY NamesAreSigs DEF Fresh, DispatcherTypeOK
<1>2. \A s : Entry(f, names, s) = [cid |-> cid + rank(s), func |-> f]
  BY Zenon DEF Entry
<1>3. /\ Cardinality(S) \in Nat
      /\ \A s \in S : rank(s) \in 1..Cardinality(S) /\ \A r \in S : r < s => rank(r) < rank(s)
  <2> HIDE DEF S
  <2> QED  BY <1>1, Ranks
<1> HIDE DEF rank, S
<1>4. ASSUME NEW s \in S
      PROVE  /\ Entry(f, names, s) \in Entries /\ Entry(f, names, s).func = f
             /\ cid < Entry(f, names, s).cid /\ Entry(f, names, s).cid <= cid + Cardinality(S)
  BY <1>1, <1>2, <1>3 DEF Entries
<1>5. ASSUME NEW r \in S, NEW s \in S, Entry(f, names, r).cid = Entry(f, names, s).cid
      PROVE  r = s
  <2>1. cid + rank(r) = cid + rank(s) /\ rank(r) \in Nat /\ rank(s) \in Nat /\ r \in Nat /\ s \in Nat
    BY <1>1, <1>2, <1>3, <1>5, SigsFinite
  <2> QED  BY <2>1, <1>1, <1>3
<1> QED  BY <1>1, <1>3, <1>4, <1>5 DEF S

\* Entered and Disconnected, kind by kind.
LEMMA RegistryTypes ==
  ASSUME DispatcherTypeOK, NEW reg \in [Sigs -> SUBSET Entries]
  PROVE  /\ \A f \in Funcs, names \in Names : Entered(reg, f, names) \in [Sigs -> SUBSET Entries]
         /\ \A cids : Disconnected(reg, cids) \in [Sigs -> SUBSET Entries]
<1>1. ASSUME NEW f \in Funcs, NEW names \in Names
      PROVE  Entered(reg, f, names) \in [Sigs -> SUBSET Entries]
  <2>1. \A s \in Sigs : s \in Fresh(f, names) => Entry(f, names, s) \in Entries
    BY EntryFacts
  <2> QED  BY <2>1 DEF Entered
<1>2. \A cids : Disconnected(reg, cids) \in [Sigs -> SUBSET Entries]
  BY DEF Disconnected
<1> QED  BY <1>1, <1>2

\* What _remove_proxy() leaves.
LEMMA RemoveProxyFacts ==
  ASSUME DispatcherTypeOK, Mapped, NEW f, RemoveProxy(f)
  PROVE  /\ callbacks' \in [Sigs -> SUBSET Entries] /\ func_cid_map' \in [Sigs -> SUBSET Entries]
         /\ \A s \in Sigs : /\ callbacks'[s] = {e \in callbacks[s] : e.func # f}
                            /\ callbacks'[s] \subseteq func_cid_map'[s]
                            /\ func_cid_map'[s] \subseteq func_cid_map[s]
<1>1. \A s \in Sigs : callbacks'[s] = callbacks[s] \ {e \in func_cid_map[s] : e.func = f}
  BY DEF RemoveProxy
<1>2. \A s \in Sigs : callbacks'[s] = {e \in callbacks[s] : e.func # f}
  BY <1>1 DEF Mapped
<1>3. \A s \in Sigs : Collected(func_cid_map, callbacks', Pinned)[s]
                        = {e \in func_cid_map[s] : e \in callbacks'[s] \/ e \in Pinned}
  BY DEF Collected
<1>4. func_cid_map' = [s \in Sigs |-> IF callbacks'[s] = {} THEN {}
                                      ELSE Collected(func_cid_map, callbacks', Pinned)[s]]
  BY DEF RemoveProxy
<1>5. \A s \in Sigs : callbacks'[s] \subseteq func_cid_map'[s] /\ func_cid_map'[s] \subseteq func_cid_map[s]
  BY <1>1, <1>2, <1>3, <1>4 DEF Mapped
<1>6. callbacks' = [s \in Sigs |-> callbacks[s] \ {e \in func_cid_map[s] : e.func = f}]
  BY DEF RemoveProxy
<1> QED  BY <1>2, <1>4, <1>5, <1>6 DEF DispatcherTypeOK
\* The tokens are records.
LEMMA TokensTyped ==
  ASSUME DispatcherTypeOK
  PROVE  /\ Len(tokens) \in Nat /\ DOMAIN tokens = 1..Len(tokens)
         /\ \A t \in DOMAIN tokens : /\ tokens[t] \in Tokens /\ tokens[t].func \in Funcs
                                     /\ tokens[t].names \subseteq Sigs /\ tokens[t].cids \subseteq Nat
<1>1. tokens \in Seq(Tokens)
  BY DEF DispatcherTypeOK
<1> HIDE DEF Tokens
<1>2. Len(tokens) \in Nat /\ DOMAIN tokens = 1..Len(tokens) /\ \A t \in DOMAIN tokens : tokens[t] \in Tokens
  BY <1>1
<1> QED  BY <1>2 DEF Tokens

\* The types of what the steps assign.
LEMMA PartsTyped ==
  ASSUME DispatcherTypeOK
  PROVE  /\ \A f, names, t : Waived(f, names, t) \in [Sigs -> SUBSET Claims]
         /\ \A f, names, t : Owing(f, names, t) \in Walks
         /\ \A keep : Collected(func_cid_map, callbacks, keep) \in [Sigs -> SUBSET Entries]
         /\ \A s \in Sigs : Entitled(s) \subseteq Funcs
<1>1. \A f, names, t : Waived(f, names, t) \in [Sigs -> SUBSET Claims]
  BY DEF DispatcherTypeOK, Waived, Without
<1>2. ASSUME NEW f, NEW names, NEW t
      PROVE  Owing(f, names, t) \in Walks
  <2>1. walk \in Walks
    BY DEF DispatcherTypeOK
  <2>2. Without(walk.owed, f, t) \in SUBSET Claims
    BY <2>1 DEF Walks, Without
  <2>3. [walk EXCEPT !.owed = Without(walk.owed, f, t)] \in Walks
    BY <2>1, <2>2 DEF Walks
  <2> QED  BY <2>1, <2>3 DEF Owing
<1>3. \A keep : Collected(func_cid_map, callbacks, keep) \in [Sigs -> SUBSET Entries]
  BY DEF DispatcherTypeOK, Collected
<1>4. \A t \in DOMAIN tokens : tokens[t].func \in Funcs
  BY TokensTyped
<1>5. \A s \in Sigs : Entitled(s) \subseteq Funcs
  BY <1>4 DEF Entitled
<1> QED  BY <1>1, <1>2, <1>3, <1>5

\* Claims that are given up change nothing else of a call of process().
LEMMA OwingFacts ==
  ASSUME DispatcherTypeOK, NEW f, NEW names, NEW t, NEW w, w = Owing(f, names, t)
  PROVE  /\ w.phase = walk.phase /\ w.sig = walk.sig /\ w.func = walk.func /\ w.got = walk.got /\ w.todo = walk.todo
         /\ w.entitled = walk.entitled
         /\ w.owed = IF walk.sig \in names THEN Without(walk.owed, f, t) ELSE walk.owed
<1>1. walk \in Walks
  BY DEF DispatcherTypeOK
<1>2. CASE walk.sig \in names
  <2>1. w = [walk EXCEPT !.owed = Without(walk.owed, f, t)]
    BY <1>2 DEF Owing
  <2> QED  BY <1>1, <1>2, <2>1 DEF Walks
<1>3. CASE walk.sig \notin names
  BY <1>3 DEF Owing
<1> QED  BY <1>2, <1>3

\* What the end of a call of process() leaves.
LEMMA OverFacts ==
  ASSUME DispatcherTypeOK, NEW phase \in {"returned", "raised"}, NEW keep \in SUBSET Entries, Over(phase, keep)
  PROVE  /\ held' \subseteq Entries /\ func_cid_map' \in [Sigs -> SUBSET Entries]
         /\ walk' \in Walks /\ walk'.phase = phase /\ walk'.todo = {} /\ walk'.got = walk.got
         /\ walk'.owed = walk.owed /\ walk'.entitled = walk.entitled
<1>1. held' \subseteq Entries /\ func_cid_map' \in [Sigs -> SUBSET Entries]
  BY PartsTyped DEF Over, DispatcherTypeOK
<1>2. walk \in Walks /\ walk' = [walk EXCEPT !.phase = phase, !.func = None, !.snapshot = {}, !.todo = {}]
  BY DEF Over, DispatcherTypeOK
<1> QED  BY <1>1, <1>2 DEF Walks

\* Types are kept.
LEMMA NextTyped ==
  ASSUME DispatcherTypeOK, Mapped, DispatcherNext
  PROVE  DispatcherTypeOK'
<1> USE DEF DispatcherTypeOK
<1>1. ASSUME NEW f \in Funcs, NEW names \in Names, Subscribe(f, names)
      PROVE  DispatcherTypeOK'
  <2>1. callbacks' \in [Sigs -> SUBSET Entries] /\ func_cid_map' \in [Sigs -> SUBSET Entries]
    BY <1>1, RegistryTypes DEF Subscribe
  <2>2. cid' \in Nat
    BY <1>1, EntryFacts DEF Subscribe
  <2>3. Cids(f, names) \subseteq Nat
    BY <2>1, NamesAreSigs DEF Cids, Entries
  <2>4. [func |-> f, names |-> names, cids |-> Cids(f, names)] \in Tokens
    BY <2>3, NamesAreSigs DEF Tokens
  <2>5. tokens' \in Seq(Tokens)
    BY <1>1, <2>4 DEF Subscribe
  <2>6. due' \in [Sigs -> SUBSET Claims]
    <3>1. [func |-> f, since |-> Len(tokens) + 1] \in Claims
      BY DEF Claims
    <3> QED  BY <1>1, <3>1 DEF Subscribe
  <2> QED  BY <1>1, <2>1, <2>2, <2>5, <2>6 DEF Subscribe
<1>2. ASSUME NEW t \in 1..MaxTokens, Unsubscribe(t)
      PROVE  DispatcherTypeOK'
  <2>1. callbacks' \in [Sigs -> SUBSET Entries] /\ func_cid_map' \in [Sigs -> SUBSET Entries]
    BY <1>2, RegistryTypes DEF Unsubscribe, Unmapped
  <2>2. tokens' \in Seq(Tokens)
    <3>1. t \in DOMAIN tokens /\ tokens' = [tokens EXCEPT ![t].cids = {}]
      BY <1>2 DEF Unsubscribe
    <3>2. [tokens[t] EXCEPT !.cids = {}] \in Tokens
      BY <3>1, TokensTyped DEF Tokens
    <3> QED  BY <3>1, <3>2, TokensTyped
  <2>3. walk' \in Walks /\ walk'.phase = walk.phase /\ walk'.func = walk.func
    BY <1>2, PartsTyped, OwingFacts DEF Unsubscribe
  <2> QED  BY <1>2, <2>1, <2>2, <2>3, PartsTyped DEF Unsubscribe
<1>3. ASSUME UnsubscribeAll
      PROVE  DispatcherTypeOK'
  <2>1. callbacks' \in [Sigs -> SUBSET Entries] /\ func_cid_map' \in [Sigs -> SUBSET Entries]
    BY <1>3, RegistryTypes DEF UnsubscribeAll, Unmapped
  <2>2. tokens' \in Seq(Tokens)
    <3>1. \A t \in DOMAIN tokens : [tokens[t] EXCEPT !.cids = {}] \in Tokens
      BY TokensTyped DEF Tokens
    <3>2. tokens' = [t \in 1..Len(tokens) |-> [tokens[t] EXCEPT !.cids = {}]]
      BY <1>3, TokensTyped DEF UnsubscribeAll
    <3> HIDE DEF Tokens
    <3> QED  BY <3>1, <3>2, TokensTyped
  <2>3. walk' \in Walks /\ walk'.phase = walk.phase /\ walk'.func = walk.func
    BY <1>3 DEF UnsubscribeAll, Walks
  <2> QED  BY <1>3, <2>1, <2>2, <2>3 DEF UnsubscribeAll
<1>4. ASSUME NEW f \in Weak, Die(f)
      PROVE  DispatcherTypeOK'
  <2>1. callbacks' \in [Sigs -> SUBSET Entries] /\ func_cid_map' \in [Sigs -> SUBSET Entries]
    BY <1>4, RemoveProxyFacts DEF Die, registry
  <2>2. walk' \in Walks /\ walk'.phase = walk.phase /\ walk'.func = walk.func
    BY <1>4, PartsTyped, OwingFacts DEF Die
  <2> QED  BY <1>4, <2>1, <2>2, PartsTyped DEF Die
<1>5. ASSUME Collect
      PROVE  DispatcherTypeOK'
  BY <1>5, PartsTyped DEF Collect
<1>6. ASSUME NEW s \in Sigs, Process(s)
      PROVE  DispatcherTypeOK'
  <2>1. walk' \in Walks
    <3>1. callbacks[s] \in SUBSET Entries /\ due[s] \in SUBSET Claims /\ Entitled(s) \in SUBSET Funcs
          /\ <<>> \in Seq(Funcs)
      BY PartsTyped
    <3> QED  BY <1>6, <3>1 DEF Process, Walks
  <2> QED  BY <1>6, <2>1 DEF Process
<1>7. ASSUME CallNext
      PROVE  DispatcherTypeOK'
  <2>1. NextEntry.func \in Funcs
    BY <1>7, NextIsLeast DEF CallNext, Entries
  <2>2. walk \in Walks /\ walk' = [walk EXCEPT !.phase = "callback", !.todo = walk.todo \ {NextEntry},
                         !.func = NextEntry.func, !.got = Append(walk.got, NextEntry.func)]
    BY <1>7 DEF CallNext
  <2>3. walk.got \in Seq(Funcs) /\ walk.todo \in SUBSET Entries
    BY <2>2 DEF Walks
  <2>4. Append(walk.got, NextEntry.func) \in Seq(Funcs)
    BY <2>1, <2>3
  <2>5. walk' \in Walks
    BY <2>1, <2>2, <2>3, <2>4 DEF Walks
  <2> QED  BY <1>7, <2>5 DEF CallNext
<1>8. ASSUME CallDead
      PROVE  DispatcherTypeOK'
  <2>1. callbacks' \in [Sigs -> SUBSET Entries] /\ func_cid_map' \in [Sigs -> SUBSET Entries]
    BY <1>8, RemoveProxyFacts DEF CallDead
  <2>2. walk' \in Walks
    BY <1>8 DEF CallDead, Walks
  <2> QED  BY <1>8, <2>1, <2>2 DEF CallDead
<1>9. ASSUME ProcessReturns \/ CallbackRaises
      PROVE  DispatcherTypeOK'
  <2>1. walk.snapshot \in SUBSET Entries
    BY DEF Walks
  <2>2. \E phase \in {"returned", "raised"}, keep \in SUBSET Entries : Over(phase, keep)
    BY <1>9, <2>1 DEF ProcessReturns, CallbackRaises
  <2>3. PICK phase \in {"returned", "raised"}, keep \in SUBSET Entries : Over(phase, keep)
    BY <2>2
  <2> QED  BY <2>3, OverFacts DEF Over
<1>10. ASSUME CallbackReturns \/ CallbackIgnored
      PROVE  DispatcherTypeOK'
  <2>1. walk' \in Walks /\ walk'.phase = "next"
    BY <1>10 DEF CallbackReturns, CallbackIgnored, Walks
  <2> QED  BY <1>10, <2>1 DEF CallbackReturns, CallbackIgnored
<1>11. ASSUME CallbackReferenceError
      PROVE  DispatcherTypeOK'
  <2>1. callbacks' \in [Sigs -> SUBSET Entries] /\ func_cid_map' \in [Sigs -> SUBSET Entries]
    BY <1>11, RemoveProxyFacts DEF CallbackReferenceError
  <2>2. walk' \in Walks
    <3>1. Owing(walk.func, Sigs, Len(tokens)) \in Walks
      BY PartsTyped
    <3>2. walk' = [Owing(walk.func, Sigs, Len(tokens)) EXCEPT !.phase = "next", !.func = None]
      BY <1>11 DEF CallbackReferenceError
    <3> QED  BY <3>1, <3>2 DEF Walks
  <2>3. excused' \subseteq Funcs
    <3>1. walk.func \in Funcs
      BY <1>11 DEF CallbackReferenceError
    <3> QED  BY <1>11, <3>1 DEF CallbackReferenceError
  <2> QED  BY <1>11, <2>1, <2>2, <2>3, PartsTyped DEF CallbackReferenceError
<1> QED  BY <1>1, <1>2, <1>3, <1>4, <1>5, <1>6, <1>7, <1>8, <1>9, <1>10, <1>11, Zenon DEF DispatcherNext
\* Entries that go do not make others wrong.
LEMMA IdsShrink ==
  ASSUME Ids,
         \A s \in Sigs : /\ callbacks'[s] \subseteq callbacks[s]
                         /\ callbacks'[s] \subseteq func_cid_map'[s] /\ func_cid_map'[s] \subseteq func_cid_map[s],
         cid' = cid, DOMAIN tokens' = DOMAIN tokens,
         \A t \in DOMAIN tokens : /\ tokens'[t].func = tokens[t].func /\ tokens'[t].names = tokens[t].names
                                  /\ tokens'[t].cids \subseteq tokens[t].cids
  PROVE  (Mapped /\ OneIdEach /\ IdsDiffer /\ IdsOfTokens)'
<1> USE DEF Ids
<1>1. Mapped'
  BY DEF Mapped
<1>2. OneIdEach'
  BY DEF OneIdEach
<1>3. IdsDiffer'
  BY DEF IdsDiffer
<1>4. IdsOfTokens'
  BY DEF IdsOfTokens
<1> QED  BY <1>1, <1>2, <1>3, <1>4

\* A callback is taken out of the registry, with its claims; or nobody is.
LEMMA TakenOut ==
  ASSUME DispatcherTypeOK, Ids, Claimed, NEW f,
         \A s \in Sigs : /\ callbacks'[s] = {e \in callbacks[s] : e.func # f}
                         /\ callbacks'[s] \subseteq func_cid_map'[s] /\ func_cid_map'[s] \subseteq func_cid_map[s]
                         /\ due'[s] = {d \in due[s] : d.func # f},
         alive' \ excused' = (alive \ excused) \ {f}, tokens' = tokens, cid' = cid
  PROVE  Ids' /\ Claimed'
<1>1. Mapped' /\ OneIdEach' /\ IdsDiffer' /\ IdsOfTokens'
  BY IdsShrink
<1>2. Tokened'
  BY DEF Ids, Tokened, HasToken
<1>3. ClaimsValid'
  <2>1. ClaimsValid
    BY DEF Claimed
  <2> QED  BY <2>1 DEF ClaimsValid
<1>4. ClaimsHaveIds'
  BY DEF Claimed, ClaimsHaveIds
<1>5. IdsHaveClaims'
  <2> SUFFICES ASSUME NEW s \in Sigs, NEW e \in func_cid_map'[s], e.func \in alive' \ excused'
               PROVE  e \in callbacks'[s] /\ \E d \in due'[s] : d.func = e.func
    BY DEF IdsHaveClaims
  <2>1. e \in func_cid_map[s] /\ e.func # f /\ e.func \in alive \ excused
    OBVIOUS
  <2>2. e \in callbacks[s] /\ \E d \in due[s] : d.func = e.func
    BY <2>1 DEF Claimed, IdsHaveClaims
  <2> QED  BY <2>1, <2>2
<1>6. ClaimsOfTokens'
  BY DEF Claimed, ClaimsOfTokens
<1>7. SameOrder'
  BY DEF Claimed, SameOrder
<1> QED  BY <1>1, <1>2, <1>3, <1>4, <1>5, <1>6, <1>7 DEF Ids, Claimed

Running == {"next", "callback", "returned"}

\* Callbacks that leave and claims that end do not make a call of process() wrong.
LEMMA WalkShrinks ==
  ASSUME DispatcherTypeOK, ServedOnce, OwedServed,
         walk'.got = walk.got, walk'.entitled = walk.entitled,
         walk'.todo \subseteq walk.todo, walk'.owed \subseteq walk.owed,
         \A d \in walk'.owed : d.func \in alive' /\ d.since \in DOMAIN tokens',
         walk'.phase \in Running => walk.phase \in Running,
         \A d \in walk'.owed, e \in walk.todo :
            walk'.phase \in Running /\ e.func = d.func => e \in walk'.todo,
         walk'.phase = "returned" => walk'.todo = {}
  PROVE  ServedOnce' /\ OwedServed'
<1>1. ServedOnce'
  BY DEF ServedOnce
<1>2. OwedServed'
  <2>1. ASSUME NEW d \in walk'.owed, walk'.phase \in Running
        PROVE  (\E i \in DOMAIN walk'.got : walk'.got[i] = d.func) \/ \E e \in walk'.todo : e.func = d.func
    <3>1. d \in walk.owed /\ walk.phase \in Running
      BY <2>1
    <3>2. (\E i \in DOMAIN walk.got : walk.got[i] = d.func) \/ \E e \in walk.todo : e.func = d.func
      BY <3>1 DEF OwedServed, Running
    <3> QED  BY <3>2, <2>1
  <2>2. ASSUME NEW d1 \in walk'.owed, NEW d2 \in walk'.owed, d1.since < d2.since
        PROVE  /\ \A i, j \in DOMAIN walk'.got : walk'.got[i] = d1.func /\ walk'.got[j] = d2.func => i < j
               /\ \A e1, e2 \in walk'.todo : e1.func = d1.func /\ e2.func = d2.func => e1.cid < e2.cid
               /\ \A j \in DOMAIN walk'.got, e1 \in walk'.todo : ~(e1.func = d1.func /\ walk'.got[j] = d2.func)
    BY <2>2 DEF OwedServed
  <2> QED  BY <2>1, <2>2 DEF OwedServed, Running
<1> QED  BY <1>1, <1>2
\* subscribe() gives new ids to a callback that the registry does not know, and
\* one that it knows has its claim already, unless it does not count any more.
LEMMA SubscribeKeeps ==
  ASSUME DispatcherIInv, NEW f \in Funcs, NEW names \in Names, Subscribe(f, names)
  PROVE  (Ids /\ Claimed /\ ServedOnce /\ OwedServed)'
<1> DEFINE S == Fresh(f, names)
           E(s) == Entry(f, names, s)
           n == Len(tokens) + 1
           news(s) == s \in names /\ f \notin Dues(s) \cup excused
<1>1. DispatcherTypeOK /\ Ids /\ Claimed /\ ServedOnce /\ OwedServed
  BY DEF DispatcherIInv
<1>2. names \subseteq Sigs
  BY NamesAreSigs
<1>3. /\ S \subseteq names
      /\ \A s \in S : \A e \in func_cid_map[s] : e.func # f
      /\ \A s \in names \ S : \E e \in func_cid_map[s] : e.func = f
  BY DEF Fresh, Known
<1>4. /\ S \subseteq Sigs /\ Cardinality(S) \in Nat /\ cid \in Nat
      /\ \A s \in S : E(s) \in Entries /\ E(s).func = f /\ cid < E(s).cid /\ E(s).cid <= cid + Cardinality(S)
      /\ \A r, s \in S : E(r).cid = E(s).cid => r = s
  BY <1>1, EntryFacts DEF DispatcherTypeOK
<1>5. \A s \in Sigs : /\ callbacks'[s] = callbacks[s] \cup (IF s \in S THEN {E(s)} ELSE {})
                      /\ func_cid_map'[s] = func_cid_map[s] \cup (IF s \in S THEN {E(s)} ELSE {})
  BY DEF Subscribe, Entered
<1>6. cid' = cid + Cardinality(S) /\ f \in alive /\ alive' = alive /\ excused' = excused /\ walk' = walk
  BY DEF Subscribe
<1>7. /\ Len(tokens) \in Nat /\ DOMAIN tokens = 1..Len(tokens) /\ DOMAIN tokens' = 1..n
      /\ \A t \in 1..Len(tokens) : tokens'[t] = tokens[t]
      /\ tokens'[n].func = f /\ tokens'[n].names = names /\ tokens'[n].cids = Cids(f, names)
  <2>1. tokens' = Append(tokens, [func |-> f, names |-> names, cids |-> Cids(f, names)])
    BY DEF Subscribe
  <2>2. Len(tokens) \in Nat /\ DOMAIN tokens = 1..Len(tokens) /\ tokens \in Seq(Tokens)
    BY <1>1, TokensTyped DEF DispatcherTypeOK
  <2>3. DOMAIN tokens' = 1..n /\ \A t \in 1..Len(tokens) : tokens'[t] = tokens[t]
    BY <2>1, <2>2
  <2>4. tokens'[n] = [func |-> f, names |-> names, cids |-> Cids(f, names)]
    BY <2>1, <2>2
  <2> QED  BY <2>2, <2>3, <2>4
<1>8. \A c : c \in Cids(f, names) <=> \E s \in names : \E e \in func_cid_map'[s] : e.func = f /\ e.cid = c
  BY DEF Cids
<1>9. \A s \in Sigs : \A d : d \in due'[s] <=> d \in due[s] \/ (news(s) /\ d = [func |-> f, since |-> n])
  BY DEF Subscribe
<1> HIDE DEF S, E
<1> DEFINE new == [func |-> f, since |-> n]
<1>10. new.func = f /\ new.since = n
  OBVIOUS
<1>11. n = Len(tokens) + 1
  OBVIOUS
<1> HIDE DEF new, n
<1>12. \A s \in Sigs : \A d : d \in due'[s] <=> d \in due[s] \/ (news(s) /\ d = new)
  BY <1>9 DEF new, n
<1>13. \A s \in Sigs : \A d \in due[s] : d.func \in Dues(s)
  BY DEF Dues
\* A new claim goes with a new id.
<1>14. \A s \in Sigs : news(s) => s \in S
  <2> SUFFICES ASSUME NEW s \in Sigs, news(s), s \notin S
               PROVE  FALSE
    OBVIOUS
  <2>1. PICK e \in func_cid_map[s] : e.func = f
    BY <1>3
  <2>2. \E d \in due[s] : d.func = f
    BY <2>1, <1>1, <1>6 DEF Claimed, IdsHaveClaims
  <2> QED  BY <2>2, <1>13
\* Old claims of the callback, and new ids, are for different kinds.
<1>15. \A s \in S : \A d \in due[s] : d.func # f
  BY <1>1, <1>3, <1>4 DEF Claimed, ClaimsHaveIds, Ids, Mapped
<1> HIDE DEF news
<1>16. Mapped'
  BY <1>1, <1>5 DEF Ids, Mapped
<1>17. OneIdEach'
  BY <1>1, <1>3, <1>4, <1>5 DEF Ids, OneIdEach
<1>18. \A s \in Sigs : \A e \in func_cid_map[s] : e.cid <= cid /\ e.cid \in Nat
  BY <1>1 DEF Ids, IdsDiffer, DispatcherTypeOK, Entries
<1>19. IdsDiffer'
  <2>1. ASSUME NEW s \in Sigs, NEW e \in func_cid_map'[s]
        PROVE  e.cid <= cid'
    BY <1>4, <1>5, <1>6, <1>18 DEF Entries
  <2>2. ASSUME NEW r \in Sigs, NEW s \in Sigs, NEW d \in func_cid_map'[r], NEW e \in func_cid_map'[s], d.cid = e.cid
        PROVE  r = s /\ d = e
    <3>1. (d \in func_cid_map[r] \/ (r \in S /\ d = E(r))) /\ (e \in func_cid_map[s] \/ (s \in S /\ e = E(s)))
      BY <1>5
    <3>2. CASE d \in func_cid_map[r] /\ e \in func_cid_map[s]
      BY <3>2, <2>2, <1>1 DEF Ids, IdsDiffer
    <3>3. CASE r \in S /\ d = E(r) /\ s \in S /\ e = E(s)
      BY <3>3, <2>2, <1>4
    <3>4. CASE d \in func_cid_map[r] /\ s \in S /\ e = E(s)
      BY <3>4, <2>2, <1>4, <1>18 DEF Entries
    <3>5. CASE r \in S /\ d = E(r) /\ e \in func_cid_map[s]
      BY <3>5, <2>2, <1>4, <1>18 DEF Entries
    <3> QED  BY <3>1, <3>2, <3>3, <3>4, <3>5
  <2> QED  BY <2>1, <2>2 DEF IdsDiffer
<1>20. IdsOfTokens'
  <2> SUFFICES ASSUME NEW t \in DOMAIN tokens', NEW c \in tokens'[t].cids
               PROVE  /\ c <= cid'
                      /\ \A s \in Sigs : \A e \in func_cid_map'[s] :
                           e.cid = c => s \in tokens'[t].names /\ e.func = tokens'[t].func
    BY DEF IdsOfTokens
  <2>1. CASE t = n
    <3>1. PICK s0 \in names : \E e \in func_cid_map'[s0] : e.func = f /\ e.cid = c
      BY <2>1, <1>7, <1>8
    <3>2. PICK e0 \in func_cid_map'[s0] : e0.func = f /\ e0.cid = c
      BY <3>1
    <3>3. c <= cid'
      BY <3>2, <1>2, <1>19 DEF IdsDiffer
    <3>4. \A s \in Sigs : \A e \in func_cid_map'[s] : e.cid = c => s = s0 /\ e = e0
      BY <3>2, <1>2, <1>19 DEF IdsDiffer
    <3> QED  BY <3>2, <3>3, <3>4, <2>1, <1>7
  <2>2. CASE t # n
    <3>1. t \in DOMAIN tokens /\ tokens'[t] = tokens[t]
      BY <2>2, <1>7, <1>11
    <3>2. /\ c <= cid /\ c \in Nat
          /\ \A s \in Sigs : \A e \in func_cid_map[s] :
               e.cid = c => s \in tokens[t].names /\ e.func = tokens[t].func
      BY <3>1, <1>1, TokensTyped DEF Ids, IdsOfTokens
    <3>3. \A s \in S : E(s).cid # c
      BY <3>2, <1>4 DEF Entries
    <3> QED  BY <3>1, <3>2, <3>3, <1>4, <1>5, <1>6
  <2> QED  BY <2>1, <2>2
<1>21. Tokened'
  <2> SUFFICES ASSUME NEW s \in Sigs, NEW e \in callbacks'[s]
               PROVE  HasToken(s, e)'
    BY DEF Tokened
  <2>1. CASE e \in callbacks[s]
    <3>1. PICK t \in DOMAIN tokens : s \in tokens[t].names /\ tokens[t].func = e.func /\ e.cid \in tokens[t].cids
      BY <2>1, <1>1 DEF Ids, Tokened, HasToken
    <3>2. t \in DOMAIN tokens' /\ tokens'[t] = tokens[t]
      BY <1>7, <1>11
    <3> QED  BY <3>1, <3>2 DEF HasToken
  <2>2. CASE s \in S /\ e = E(s)
    <3>1. e \in func_cid_map'[s] /\ s \in names /\ e.func = f
      BY <2>2, <1>3, <1>4, <1>5
    <3>2. n \in DOMAIN tokens' /\ s \in tokens'[n].names /\ tokens'[n].func = e.func /\ e.cid \in tokens'[n].cids
      BY <3>1, <1>7, <1>8, <1>11
    <3> QED  BY <3>2 DEF HasToken
  <2> QED  BY <2>1, <2>2, <1>5
<1>22. ClaimsValid'
  <2> SUFFICES ASSUME NEW s \in Sigs, NEW d \in due'[s]
               PROVE  /\ d.since \in DOMAIN tokens' /\ tokens'[d.since].func = d.func
                      /\ d.func \in alive' \ excused'
                      /\ \A e \in due'[s] : e.func = d.func => e = d
    BY DEF ClaimsValid
  <2>1. \A e \in due[s] : /\ e.since \in DOMAIN tokens /\ tokens[e.since].func = e.func
                          /\ e.func \in alive \ excused
                          /\ \A e2 \in due[s] : e2.func = e.func => e2 = e
    BY <1>1 DEF Claimed, ClaimsValid
  <2>2. CASE d \in due[s]
    <3>1. \A e \in due'[s] : e.func = d.func => e = d
      BY <2>1, <2>2, <1>10, <1>12, <1>14, <1>15
    <3> QED  BY <2>1, <2>2, <3>1, <1>6, <1>7, <1>11
  <2>3. CASE news(s) /\ d = new
    <3>1. f \in alive' \ excused'
      BY <2>3, <1>6 DEF news
    <3>2. \A e \in due'[s] : e.func = d.func => e = d
      BY <2>3, <1>10, <1>12, <1>14, <1>15
    <3> QED  BY <2>3, <3>1, <3>2, <1>7, <1>10, <1>11
  <2> QED  BY <2>2, <2>3, <1>12
<1>23. ClaimsHaveIds'
  BY <1>1, <1>4, <1>5, <1>10, <1>12, <1>14 DEF Claimed, ClaimsHaveIds
<1>24. IdsHaveClaims'
  <2> SUFFICES ASSUME NEW s \in Sigs, NEW e \in func_cid_map'[s], e.func \in alive' \ excused'
               PROVE  e \in callbacks'[s] /\ \E d \in due'[s] : d.func = e.func
    BY DEF IdsHaveClaims
  <2>1. CASE e \in func_cid_map[s]
    BY <2>1, <1>1, <1>5, <1>6, <1>12 DEF Claimed, IdsHaveClaims
  <2>2. CASE s \in S /\ e = E(s)
    <3>1. e \in callbacks'[s] /\ e.func = f /\ s \in names
      BY <2>2, <1>3, <1>4, <1>5
    <3>2. news(s) \/ f \in Dues(s)
      BY <3>1, <1>6 DEF news
    <3> QED  BY <3>1, <3>2, <1>10, <1>12 DEF Dues
  <2> QED  BY <2>1, <2>2, <1>5
\* Of the old claims, only those that the callback does not need a new id for
\* are affected by the new token.
<1>25. ClaimsOfTokens'
  <2> SUFFICES ASSUME NEW s \in Sigs, NEW d \in due'[s], NEW e \in callbacks'[s], e.func = d.func,
                      NEW t \in DOMAIN tokens', tokens'[t].func = d.func,
                      s \in tokens'[t].names, tokens'[t].cids # {}
               PROVE  e.cid \in tokens'[t].cids <=> d.since <= t
    BY DEF ClaimsOfTokens
  <2>1. t \in Nat /\ n \in Nat /\ (t = n \/ (t \in DOMAIN tokens /\ tokens'[t] = tokens[t] /\ t < n))
    BY <1>7, <1>11
  <2>2. CASE d \in due[s]
    <3>1. ~(s \in S /\ e = E(s))
      BY <2>2, <1>4, <1>15
    <3>2. e \in callbacks[s]
      BY <3>1, <1>5
    <3>3. CASE t = n
      <4>1. e \in func_cid_map'[s]
        BY <1>16 DEF Mapped
      <4>2. e.cid \in tokens'[t].cids
        BY <3>3, <4>1, <1>7, <1>8
      <4>3. d.since <= t
        BY <2>2, <3>3, <1>1, <1>7, <1>11 DEF Claimed, ClaimsValid
      <4> QED  BY <4>2, <4>3
    <3>4. CASE t \in DOMAIN tokens /\ tokens'[t] = tokens[t]
      BY <2>2, <3>2, <3>4, <1>1 DEF Claimed, ClaimsOfTokens
    <3> QED  BY <2>1, <3>3, <3>4
  <2>3. CASE news(s) /\ d = new
    <3>1. s \in S /\ d.func = f /\ d.since = n
      BY <2>3, <1>10, <1>14
    <3>2. e = E(s)
      BY <3>1, <1>1, <1>3, <1>5 DEF Ids, Mapped
    <3>3. CASE t = n
      BY <2>1, <3>1, <3>2, <3>3, <1>3, <1>4, <1>5, <1>7, <1>8
    <3>4. CASE t \in DOMAIN tokens /\ tokens'[t] = tokens[t] /\ t < n
      <4>1. \A c \in tokens[t].cids : c <= cid /\ c \in Nat
        BY <3>4, <1>1, TokensTyped DEF Ids, IdsOfTokens
      <4>2. e.cid \notin tokens[t].cids
        BY <3>1, <3>2, <4>1, <1>4 DEF Entries
      <4> QED  BY <2>1, <3>1, <3>4, <4>2
    <3> QED  BY <2>1, <3>3, <3>4
  <2> QED  BY <2>2, <2>3, <1>12
<1>26. SameOrder'
  <2> SUFFICES ASSUME NEW s \in Sigs, NEW d1 \in due'[s], NEW d2 \in due'[s],
                      NEW e1 \in callbacks'[s], NEW e2 \in callbacks'[s],
                      e1.func = d1.func, e2.func = d2.func, d1.since < d2.since
               PROVE  e1.cid < e2.cid
    BY DEF SameOrder
  <2>1. d1 \in due[s]
    <3>1. \A d \in due[s] : d.since \in 1..Len(tokens)
      BY <1>1, <1>7 DEF Claimed, ClaimsValid
    <3>2. d1 # new
      BY <3>1, <1>7, <1>10, <1>11, <1>12
    <3> QED  BY <3>2, <1>12
  <2>2. e1 \in callbacks[s]
    BY <2>1, <1>4, <1>5, <1>15
  <2>3. CASE d2 \in due[s]
    <3>1. e2 \in callbacks[s]
      BY <2>3, <1>4, <1>5, <1>15
    <3> QED  BY <2>1, <2>2, <2>3, <3>1, <1>1 DEF Claimed, SameOrder
  <2>4. CASE news(s) /\ d2 = new
    <3>1. s \in S /\ d2.func = f
      BY <2>4, <1>10, <1>14
    <3>2. e2 = E(s)
      BY <3>1, <1>1, <1>3, <1>5 DEF Ids, Mapped
    <3>3. e1 \in func_cid_map[s]
      BY <2>2, <1>1 DEF Ids, Mapped
    <3> QED  BY <3>1, <3>2, <3>3, <1>4, <1>18 DEF Entries
  <2> QED  BY <2>3, <2>4, <1>12
<1>27. ServedOnce' /\ OwedServed'
  <2>1. \A d \in walk'.owed : d.func \in alive' /\ d.since \in DOMAIN tokens'
    BY <1>1, <1>6, <1>7, <1>11 DEF OwedServed
  <2>2. walk.phase = "returned" => walk.todo = {}
    BY <1>1 DEF OwedServed
  <2> QED  BY <1>1, <1>6, <2>1, <2>2, WalkShrinks
<1> QED  BY <1>16, <1>17, <1>19, <1>20, <1>21, <1>22, <1>23, <1>24, <1>25, <1>26, <1>27 DEF Ids, Claimed
\* What disconnecting the ids of a token, or of all of them, does.
LEMMA DisconnectFacts ==
  ASSUME DispatcherTypeOK, Mapped, NEW cids,
         callbacks' = Disconnected(callbacks, cids), func_cid_map' = Unmapped(cids)
  PROVE  /\ \A s \in Sigs : /\ callbacks'[s] = {e \in callbacks[s] : e.cid \notin cids}
                            /\ callbacks'[s] \subseteq func_cid_map'[s]
                            /\ func_cid_map'[s] \subseteq func_cid_map[s]
         /\ \A s \in Sigs : \A e \in func_cid_map'[s] : e \in callbacks[s] => e \in callbacks'[s]
<1> DEFINE gone == {e.cid : e \in {d \in UNION {callbacks[s] : s \in Sigs} : d.cid \in cids}}
<1>1. \A s \in Sigs : callbacks'[s] = {e \in callbacks[s] : e.cid \notin cids}
  BY DEF Disconnected
<1>2. func_cid_map' = Disconnected(func_cid_map, gone)
  BY DEF Unmapped
<1>3. \A c \in gone : c \in cids
  OBVIOUS
<1>4. \A s \in Sigs : \A e \in callbacks[s] : e.cid \in cids => e.cid \in gone
  OBVIOUS
<1> HIDE DEF gone
<1>5. \A s \in Sigs : func_cid_map'[s] = {e \in func_cid_map[s] : e.cid \notin gone}
  BY <1>2 DEF Disconnected
<1> QED  BY <1>1, <1>3, <1>4, <1>5 DEF Mapped

\* unsubscribe() takes the claims with the ids.
LEMMA UnsubscribeKeeps ==
  ASSUME DispatcherIInv, NEW t, Unsubscribe(t)
  PROVE  (Ids /\ Claimed /\ ServedOnce /\ OwedServed)'
<1> DEFINE f == tokens[t].func
           N == tokens[t].names
           C == tokens[t].cids
<1>1. DispatcherTypeOK /\ Ids /\ Claimed /\ ServedOnce /\ OwedServed
  BY DEF DispatcherIInv
<1>2. /\ \A s \in Sigs : /\ callbacks'[s] = {e \in callbacks[s] : e.cid \notin C}
                         /\ callbacks'[s] \subseteq func_cid_map'[s]
                         /\ func_cid_map'[s] \subseteq func_cid_map[s]
      /\ \A s \in Sigs : \A e \in func_cid_map'[s] : e \in callbacks[s] => e \in callbacks'[s]
  BY <1>1, DisconnectFacts DEF Unsubscribe, Ids
<1>3. t \in DOMAIN tokens /\ C # {} /\ cid' = cid /\ alive' = alive /\ excused' = excused
  BY DEF Unsubscribe
<1>4. /\ DOMAIN tokens' = DOMAIN tokens
      /\ \A u \in DOMAIN tokens : /\ tokens'[u].func = tokens[u].func /\ tokens'[u].names = tokens[u].names
                                  /\ (u # t => tokens'[u].cids = tokens[u].cids)
      /\ tokens'[t].cids = {}
  <2>1. tokens' = [tokens EXCEPT ![t].cids = {}]
    BY DEF Unsubscribe
  <2>2. \A u \in DOMAIN tokens : u # t => tokens'[u] = tokens[u]
    BY <2>1, <1>1, TokensTyped
  <2>3. tokens[t] \in Tokens /\ tokens'[t] = [tokens[t] EXCEPT !.cids = {}]
    BY <2>1, <1>1, <1>3, TokensTyped
  <2>4. tokens'[t].func = f /\ tokens'[t].names = N /\ tokens'[t].cids = {}
    BY <2>3 DEF Tokens
  <2> QED  BY <2>1, <2>2, <2>4, <1>1, TokensTyped
<1>5. \A s \in Sigs : \A d : d \in due'[s] <=> d \in due[s] /\ (s \in N => d.func # f \/ d.since > t)
  BY DEF Unsubscribe, Waived, Without
<1>6. t \in Nat /\ \A s \in Sigs : \A d \in due[s] : d.since \in Nat
  BY <1>1, <1>3, TokensTyped DEF Claimed, ClaimsValid
\* A claim is given up if and only if the id is.
<1>7. ASSUME NEW s \in Sigs, NEW d \in due[s], NEW e \in callbacks[s], e.func = d.func
      PROVE  e.cid \in C <=> d \notin due'[s]
  <2>1. e.cid \in C => s \in N /\ e.func = f
    BY <1>1, <1>3 DEF Ids, IdsOfTokens, Mapped
  <2>2. s \in N /\ d.func = f => (e.cid \in C <=> d.since <= t)
    BY <1>1, <1>3, <1>7 DEF Claimed, ClaimsOfTokens
  <2> QED  BY <2>1, <2>2, <1>5, <1>6, <1>7
<1> HIDE DEF f, N, C
<1>8. Mapped' /\ OneIdEach' /\ IdsDiffer' /\ IdsOfTokens'
  <2>1. \A u \in DOMAIN tokens : tokens'[u].cids \subseteq tokens[u].cids
    BY <1>4
  <2> QED  BY <2>1, <1>1, <1>2, <1>3, <1>4, IdsShrink
<1>9. Tokened'
  <2> SUFFICES ASSUME NEW s \in Sigs, NEW e \in callbacks'[s]
               PROVE  HasToken(s, e)'
    BY DEF Tokened
  <2>1. PICK u \in DOMAIN tokens : s \in tokens[u].names /\ tokens[u].func = e.func /\ e.cid \in tokens[u].cids
    BY <1>1, <1>2 DEF Ids, Tokened, HasToken
  <2>2. u # t
    BY <2>1, <1>2 DEF C
  <2> QED  BY <2>1, <2>2, <1>4 DEF HasToken
<1>10. ClaimsValid'
  BY <1>1, <1>3, <1>4, <1>5 DEF Claimed, ClaimsValid
<1>11. ClaimsHaveIds'
  <2> SUFFICES ASSUME NEW s \in Sigs, NEW d \in due'[s]
               PROVE  \E e \in callbacks'[s] : e.func = d.func
    BY DEF ClaimsHaveIds
  <2>1. d \in due[s]
    BY <1>5
  <2>2. PICK e \in callbacks[s] : e.func = d.func
    BY <2>1, <1>1 DEF Claimed, ClaimsHaveIds
  <2> QED  BY <2>1, <2>2, <1>2, <1>7
<1>12. IdsHaveClaims'
  <2> SUFFICES ASSUME NEW s \in Sigs, NEW e \in func_cid_map'[s], e.func \in alive \ excused
               PROVE  e \in callbacks'[s] /\ \E d \in due'[s] : d.func = e.func
    BY <1>3 DEF IdsHaveClaims
  <2>1. e \in callbacks[s] /\ \E d \in due[s] : d.func = e.func
    BY <1>1, <1>2 DEF Claimed, IdsHaveClaims
  <2>2. PICK d \in due[s] : d.func = e.func
    BY <2>1
  <2>3. e \in callbacks'[s]
    BY <2>1, <1>2
  <2> QED  BY <2>1, <2>2, <2>3, <1>2, <1>7
<1>13. ClaimsOfTokens'
  <2> SUFFICES ASSUME NEW s \in Sigs, NEW d \in due'[s], NEW e \in callbacks'[s], e.func = d.func,
                      NEW u \in DOMAIN tokens', tokens'[u].func = d.func,
                      s \in tokens'[u].names, tokens'[u].cids # {}
               PROVE  e.cid \in tokens'[u].cids <=> d.since <= u
    BY DEF ClaimsOfTokens
  <2>1. u # t /\ d \in due[s] /\ e \in callbacks[s]
    BY <1>2, <1>4, <1>5
  <2> QED  BY <2>1, <1>1, <1>4 DEF Claimed, ClaimsOfTokens
<1>14. SameOrder'
  BY <1>1, <1>2, <1>5 DEF Claimed, SameOrder
<1>15. ServedOnce' /\ OwedServed'
  <2>1. walk' = Owing(tokens[t].func, tokens[t].names, t)
    BY DEF Unsubscribe
  <2>2. /\ walk'.phase = walk.phase /\ walk'.got = walk.got /\ walk'.todo = walk.todo
        /\ walk'.entitled = walk.entitled
        /\ walk'.owed = IF walk.sig \in tokens[t].names THEN Without(walk.owed, tokens[t].func, t) ELSE walk.owed
    BY <2>1, <1>1, OwingFacts
  <2>3. walk'.owed \subseteq walk.owed
    BY <2>2 DEF Without
  <2>4. \A d \in walk'.owed : d.func \in alive' /\ d.since \in DOMAIN tokens'
    BY <2>3, <1>1, <1>3, <1>4 DEF OwedServed
  <2>5. walk.phase = "returned" => walk.todo = {}
    BY <1>1 DEF OwedServed
  <2> QED  BY <2>2, <2>3, <2>4, <2>5, <1>1, WalkShrinks
<1> QED  BY <1>8, <1>9, <1>10, <1>11, <1>12, <1>13, <1>14, <1>15 DEF Ids, Claimed

\* unsubscribe_all() takes all of them.
LEMMA UnsubscribeAllKeeps ==
  ASSUME DispatcherIInv, UnsubscribeAll
  PROVE  (Ids /\ Claimed /\ ServedOnce /\ OwedServed)'
<1> DEFINE C == UNION {tokens[t].cids : t \in DOMAIN tokens}
<1>1. DispatcherTypeOK /\ Ids /\ Claimed /\ ServedOnce /\ OwedServed
  BY DEF DispatcherIInv
<1>2. callbacks' = Disconnected(callbacks, C) /\ func_cid_map' = Unmapped(C)
  BY DEF UnsubscribeAll
<1>3. \A t \in DOMAIN tokens : tokens[t].cids \subseteq C
  OBVIOUS
<1> HIDE DEF C
<1>4. /\ \A s \in Sigs : /\ callbacks'[s] = {e \in callbacks[s] : e.cid \notin C}
                         /\ callbacks'[s] \subseteq func_cid_map'[s]
                         /\ func_cid_map'[s] \subseteq func_cid_map[s]
      /\ \A s \in Sigs : \A e \in func_cid_map'[s] : e \in callbacks[s] => e \in callbacks'[s]
  BY <1>1, <1>2, DisconnectFacts DEF Ids
<1>5. \A s \in Sigs : callbacks'[s] = {}
  BY <1>1, <1>3, <1>4 DEF Ids, Tokened, HasToken
<1>6. /\ DOMAIN tokens' = DOMAIN tokens
      /\ \A u \in DOMAIN tokens : /\ tokens'[u].func = tokens[u].func /\ tokens'[u].names = tokens[u].names
                                  /\ tokens'[u].cids = {}
  <2>1. tokens' = [t \in DOMAIN tokens |-> [tokens[t] EXCEPT !.cids = {}]]
    BY DEF UnsubscribeAll
  <2>2. ASSUME NEW u \in DOMAIN tokens
        PROVE  tokens'[u].func = tokens[u].func /\ tokens'[u].names = tokens[u].names /\ tokens'[u].cids = {}
    <3>1. tokens[u] \in Tokens /\ tokens'[u] = [tokens[u] EXCEPT !.cids = {}]
      BY <2>1, <1>1, TokensTyped
    <3> QED  BY <3>1 DEF Tokens
  <2> QED  BY <2>1, <2>2
<1>7. cid' = cid /\ alive' = alive /\ excused' = excused /\ \A s \in Sigs : due'[s] = {}
  BY DEF UnsubscribeAll
<1>8. Mapped' /\ OneIdEach' /\ IdsDiffer' /\ IdsOfTokens'
  BY <1>1, <1>4, <1>6, <1>7, IdsShrink
<1>9. Tokened'
  BY <1>5 DEF Tokened
<1>10. ClaimsValid' /\ ClaimsHaveIds' /\ ClaimsOfTokens' /\ SameOrder'
  BY <1>7 DEF ClaimsValid, ClaimsHaveIds, ClaimsOfTokens, SameOrder
<1>11. IdsHaveClaims'
  <2>1. ASSUME NEW s \in Sigs, NEW e \in func_cid_map'[s], e.func \in alive \ excused
        PROVE  FALSE
    <3>1. e \in callbacks[s]
      BY <2>1, <1>1, <1>4 DEF Claimed, IdsHaveClaims
    <3> QED  BY <3>1, <1>4, <1>5
  <2> QED  BY <2>1, <1>7 DEF IdsHaveClaims
<1>12. ServedOnce' /\ OwedServed'
  <2>1. walk \in Walks /\ walk' = [walk EXCEPT !.owed = {}]
    BY <1>1 DEF UnsubscribeAll, DispatcherTypeOK
  <2>2. /\ walk'.phase = walk.phase /\ walk'.got = walk.got /\ walk'.todo = walk.todo
        /\ walk'.entitled = walk.entitled /\ walk'.owed = {}
    BY <2>1 DEF Walks
  <2>3. walk.phase = "returned" => walk.todo = {}
    BY <1>1 DEF OwedServed
  <2> QED  BY <2>2, <2>3, <1>1, WalkShrinks
<1> QED  BY <1>8, <1>9, <1>10, <1>11, <1>12 DEF Ids, Claimed
\* Where nobody leaves, only entries of proxies without a callback may go.
LEMMA NobodyLeaves ==
  ASSUME DispatcherIInv,
         callbacks' = callbacks, due' = due, alive' = alive, excused' = excused, tokens' = tokens, cid' = cid,
         \A s \in Sigs : callbacks[s] \subseteq func_cid_map'[s] /\ func_cid_map'[s] \subseteq func_cid_map[s]
  PROVE  Ids' /\ Claimed'
<1>1. DispatcherTypeOK /\ Ids /\ Claimed
  BY DEF DispatcherIInv
<1>2. \A s \in Sigs : /\ \A e \in callbacks[s] : e.func # None
                      /\ \A d \in due[s] : d.func # None
  BY <1>1, NoneAssumption DEF DispatcherTypeOK, Entries, Claims
<1>3. \A s \in Sigs : /\ callbacks'[s] = {e \in callbacks[s] : e.func # None}
                      /\ due'[s] = {d \in due[s] : d.func # None}
  BY <1>2
<1>4. alive' \ excused' = (alive \ excused) \ {None}
  BY <1>1, NoneAssumption DEF DispatcherTypeOK
<1> QED  BY <1>1, <1>3, <1>4, TakenOut

\* All claims of one callback end.
LEMMA WaivedAll ==
  ASSUME DispatcherIInv, NEW f
  PROVE  /\ \A s \in Sigs : Waived(f, Sigs, Len(tokens))[s] = {d \in due[s] : d.func # f}
         /\ Without(walk.owed, f, Len(tokens)) = {d \in walk.owed : d.func # f}
         /\ walk.sig \in Sigs
<1>1. DispatcherTypeOK /\ Claimed /\ OwedServed
  BY DEF DispatcherIInv
<1>2. walk.sig \in Sigs
  BY <1>1 DEF DispatcherTypeOK, Walks
<1>3. Len(tokens) \in Nat /\ DOMAIN tokens = 1..Len(tokens)
  BY <1>1, TokensTyped
<1>4. \A s \in Sigs : \A d \in due[s] : ~ d.since > Len(tokens)
  BY <1>1, <1>3 DEF Claimed, ClaimsValid
<1>5. \A d \in walk.owed : ~ d.since > Len(tokens)
  BY <1>1, <1>3 DEF OwedServed
<1>6. \A s \in Sigs : Waived(f, Sigs, Len(tokens))[s] = Without(due[s], f, Len(tokens))
  BY DEF Waived
<1>7. \A s \in Sigs : Without(due[s], f, Len(tokens)) = {d \in due[s] : d.func # f}
  BY <1>4 DEF Without
<1>8. Without(walk.owed, f, Len(tokens)) = {d \in walk.owed : d.func # f}
  BY <1>5 DEF Without
<1> QED  BY <1>2, <1>6, <1>7, <1>8

\* An object dies.
LEMMA DieKeeps ==
  ASSUME DispatcherIInv, NEW f \in Weak, Die(f)
  PROVE  (Ids /\ Claimed /\ ServedOnce /\ OwedServed)'
<1>1. DispatcherTypeOK /\ Ids /\ Claimed /\ ServedOnce /\ OwedServed
  BY DEF DispatcherIInv
<1>2. \A s \in Sigs : /\ callbacks'[s] = {e \in callbacks[s] : e.func # f}
                      /\ callbacks'[s] \subseteq func_cid_map'[s] /\ func_cid_map'[s] \subseteq func_cid_map[s]
  <2>1. CASE Proxied(f)
    BY <2>1, <1>1, RemoveProxyFacts DEF Die, Ids
  <2>2. CASE ~ Proxied(f)
    <3>1. callbacks' = callbacks /\ func_cid_map' = func_cid_map
      BY <2>2 DEF Die, registry
    <3>2. \A s \in Sigs : \A e \in func_cid_map[s] : e.func # f
      BY <2>2 DEF Proxied
    <3> QED  BY <3>1, <3>2, <1>1 DEF Ids, Mapped
  <2> QED  BY <2>1, <2>2
<1>3. \A s \in Sigs : due'[s] = {d \in due[s] : d.func # f}
  BY WaivedAll DEF Die
<1>4. alive' = alive \ {f} /\ excused' = excused /\ tokens' = tokens /\ cid' = cid
  BY DEF Die
<1>5. alive' \ excused' = (alive \ excused) \ {f}
  BY <1>4
<1>6. Ids' /\ Claimed'
  BY <1>1, <1>2, <1>3, <1>4, <1>5, TakenOut
<1>7. /\ walk'.phase = walk.phase /\ walk'.got = walk.got /\ walk'.todo = walk.todo
      /\ walk'.entitled = walk.entitled /\ walk'.owed = {d \in walk.owed : d.func # f}
  <2>1. walk' = Owing(f, Sigs, Len(tokens))
    BY DEF Die
  <2> QED  BY <2>1, <1>1, OwingFacts, WaivedAll
<1>8. \A d \in walk'.owed : d.func \in alive' /\ d.since \in DOMAIN tokens'
  BY <1>1, <1>4, <1>7 DEF OwedServed
<1>9. walk.phase = "returned" => walk.todo = {}
  BY <1>1 DEF OwedServed
<1>10. ServedOnce' /\ OwedServed'
  BY <1>1, <1>7, <1>8, <1>9, WalkShrinks
<1> QED  BY <1>6, <1>10

\* A callback raises a ReferenceError.
LEMMA ReferenceErrorKeeps ==
  ASSUME DispatcherIInv, CallbackReferenceError
  PROVE  (Ids /\ Claimed /\ ServedOnce /\ OwedServed)'
<1> DEFINE f == walk.func
<1>1. DispatcherTypeOK /\ Ids /\ Claimed /\ ServedOnce /\ OwedServed
  BY DEF DispatcherIInv
<1>2. /\ RemoveProxy(f) /\ walk.phase = "callback"
      /\ walk' = [Owing(f, Sigs, Len(tokens)) EXCEPT !.phase = "next", !.func = None]
      /\ due' = Waived(f, Sigs, Len(tokens)) /\ excused' = excused \cup {f}
      /\ alive' = alive /\ tokens' = tokens /\ cid' = cid
  BY DEF CallbackReferenceError
<1> HIDE DEF f
<1>3. \A s \in Sigs : /\ callbacks'[s] = {e \in callbacks[s] : e.func # f}
                      /\ callbacks'[s] \subseteq func_cid_map'[s] /\ func_cid_map'[s] \subseteq func_cid_map[s]
  BY <1>1, <1>2, RemoveProxyFacts DEF Ids
<1>4. \A s \in Sigs : due'[s] = {d \in due[s] : d.func # f}
  BY <1>2, WaivedAll
<1>5. alive' \ excused' = (alive \ excused) \ {f}
  BY <1>2
<1>6. Ids' /\ Claimed'
  BY <1>1, <1>2, <1>3, <1>4, <1>5, TakenOut
<1>7. /\ walk'.phase = "next" /\ walk'.got = walk.got /\ walk'.todo = walk.todo
      /\ walk'.entitled = walk.entitled /\ walk'.owed = {d \in walk.owed : d.func # f}
  <2> DEFINE w == Owing(f, Sigs, Len(tokens))
  <2>1. w \in Walks /\ w.got = walk.got /\ w.todo = walk.todo /\ w.entitled = walk.entitled
        /\ w.owed = {d \in walk.owed : d.func # f}
    BY <1>1, PartsTyped, OwingFacts, WaivedAll
  <2>2. walk' = [w EXCEPT !.phase = "next", !.func = None]
    BY <1>2
  <2> HIDE DEF w
  <2> QED  BY <2>1, <2>2 DEF Walks
<1>8. \A d \in walk'.owed : d.func \in alive' /\ d.since \in DOMAIN tokens'
  BY <1>1, <1>2, <1>7 DEF OwedServed
<1>9. walk.phase \in Running
  BY <1>2 DEF Running
<1>10. ServedOnce' /\ OwedServed'
  <2>1. \A d \in walk'.owed, e \in walk.todo : e.func = d.func => e \in walk'.todo
    BY <1>7
  <2>2. walk'.owed \subseteq walk.owed /\ walk'.todo \subseteq walk.todo /\ walk'.phase # "returned"
    BY <1>7
  <2> QED  BY <1>1, <1>7, <1>8, <1>9, <2>1, <2>2, WalkShrinks
<1> QED  BY <1>6, <1>10

\* The next callback's object is dead: its claims have ended.
LEMMA CallDeadKeeps ==
  ASSUME DispatcherIInv, CallDead
  PROVE  (Ids /\ Claimed /\ ServedOnce /\ OwedServed)'
<1> DEFINE f == NextEntry.func
<1>1. DispatcherTypeOK /\ Ids /\ Claimed /\ ServedOnce /\ OwedServed
  BY DEF DispatcherIInv
<1>2. /\ RemoveProxy(f) /\ walk.phase = "next" /\ f \notin alive
      /\ walk' = [walk EXCEPT !.todo = walk.todo \ {NextEntry}]
      /\ due' = due /\ excused' = excused /\ alive' = alive /\ tokens' = tokens /\ cid' = cid
  BY DEF CallDead
<1>3. \A s \in Sigs : /\ callbacks'[s] = {e \in callbacks[s] : e.func # f}
                      /\ callbacks'[s] \subseteq func_cid_map'[s] /\ func_cid_map'[s] \subseteq func_cid_map[s]
  BY <1>1, <1>2, RemoveProxyFacts DEF Ids
<1>4. \A s \in Sigs : due'[s] = {d \in due[s] : d.func # f}
  BY <1>1, <1>2 DEF Claimed, ClaimsValid
<1>5. alive' \ excused' = (alive \ excused) \ {f}
  BY <1>2
<1>6. Ids' /\ Claimed'
  BY <1>1, <1>2, <1>3, <1>4, <1>5, TakenOut
<1>7. /\ walk'.phase = "next" /\ walk'.got = walk.got /\ walk'.todo = walk.todo \ {NextEntry}
      /\ walk'.entitled = walk.entitled /\ walk'.owed = walk.owed
  <2>1. walk \in Walks
    BY <1>1 DEF DispatcherTypeOK
  <2> QED  BY <2>1, <1>2 DEF Walks
<1>8. \A d \in walk'.owed : d.func \in alive' /\ d.since \in DOMAIN tokens'
  BY <1>1, <1>2, <1>7 DEF OwedServed
<1>9. \A d \in walk'.owed, e \in walk.todo : e.func = d.func => e \in walk'.todo
  BY <1>2, <1>7, <1>8
<1>10. ServedOnce' /\ OwedServed'
  <2>1. walk'.owed \subseteq walk.owed /\ walk'.todo \subseteq walk.todo /\ walk'.phase # "returned"
        /\ walk.phase \in Running
    BY <1>2, <1>7 DEF Running
  <2> QED  BY <1>1, <1>7, <1>8, <1>9, <2>1, WalkShrinks
<1> QED  BY <1>6, <1>10

\* Between the callbacks, and when a document is done.
LEMMA WalkingKeeps ==
  ASSUME DispatcherIInv, Collect \/ CallbackReturns \/ CallbackIgnored \/ ProcessReturns \/ CallbackRaises
  PROVE  (Ids /\ Claimed /\ ServedOnce /\ OwedServed)'
<1>1. DispatcherTypeOK /\ Ids /\ Claimed /\ ServedOnce /\ OwedServed
  BY DEF DispatcherIInv
<1>2. /\ callbacks' = callbacks /\ due' = due /\ alive' = alive /\ excused' = excused /\ tokens' = tokens
      /\ cid' = cid
  BY DEF Collect, CallbackReturns, CallbackIgnored, ProcessReturns, CallbackRaises, Over
<1>3. \A keep : \A s \in Sigs :
        LET m == Collected(func_cid_map, callbacks, keep)
        IN callbacks[s] \subseteq m[s] /\ m[s] \subseteq func_cid_map[s]
  BY <1>1 DEF Ids, Mapped, Collected
<1>4. func_cid_map' = func_cid_map \/ \E keep : func_cid_map' = Collected(func_cid_map, callbacks, keep)
  BY DEF Collect, CallbackReturns, CallbackIgnored, ProcessReturns, CallbackRaises, Over
<1>5. \A s \in Sigs : callbacks[s] \subseteq func_cid_map'[s] /\ func_cid_map'[s] \subseteq func_cid_map[s]
  BY <1>1, <1>3, <1>4 DEF Ids, Mapped
<1>6. Ids' /\ Claimed'
  BY <1>2, <1>5, NobodyLeaves
<1>7. \A d \in walk.owed : d.func \in alive' /\ d.since \in DOMAIN tokens'
  BY <1>1, <1>2 DEF OwedServed
<1>8. walk \in Walks
  BY <1>1 DEF DispatcherTypeOK
<1>9. ServedOnce' /\ OwedServed'
  <2>1. CASE Collect
    <3>1. walk' = walk
      BY <2>1 DEF Collect
    <3>2. walk.phase = "returned" => walk.todo = {}
      BY <1>1 DEF OwedServed
    <3> QED  BY <3>1, <3>2, <1>1, <1>7, WalkShrinks
  <2>2. CASE CallbackReturns \/ CallbackIgnored
    <3>1. /\ walk'.phase = "next" /\ walk'.got = walk.got /\ walk'.todo = walk.todo
          /\ walk'.entitled = walk.entitled /\ walk'.owed = walk.owed /\ walk.phase \in Running
      BY <2>2, <1>8 DEF CallbackReturns, CallbackIgnored, Walks, Running
    <3> QED  BY <3>1, <1>1, <1>7, WalkShrinks
  <2>3. CASE ProcessReturns
    <3>1. PICK keep \in SUBSET Entries : Over("returned", keep)
      BY <2>3, <1>8 DEF ProcessReturns, Walks
    <3>2. walk.phase \in Running /\ walk.todo = {}
      BY <2>3 DEF ProcessReturns, Running
    <3>3. /\ walk'.phase = "returned" /\ walk'.got = walk.got /\ walk'.todo = {}
          /\ walk'.entitled = walk.entitled /\ walk'.owed = walk.owed
      BY <3>1, <1>1, OverFacts
    <3> QED  BY <3>2, <3>3, <1>1, <1>7, WalkShrinks
  <2>4. CASE CallbackRaises
    <3>1. PICK keep \in SUBSET Entries : Over("raised", keep)
      BY <2>4, <1>8 DEF CallbackRaises, Walks
    <3>2. /\ walk'.phase = "raised" /\ walk'.got = walk.got /\ walk'.todo = {}
          /\ walk'.entitled = walk.entitled /\ walk'.owed = walk.owed
      BY <3>1, <1>1, OverFacts
    <3>3. walk'.phase \notin Running
      BY <3>2 DEF Running
    <3> QED  BY <3>2, <3>3, <1>1, <1>7, WalkShrinks
  <2> QED  BY <2>1, <2>2, <2>3, <2>4
<1> QED  BY <1>6, <1>9
\* A document comes: those whose ids are in the registry will be called.
LEMMA ProcessKeeps ==
  ASSUME DispatcherIInv, NEW s \in Sigs, Process(s)
  PROVE  (Ids /\ Claimed /\ ServedOnce /\ OwedServed)'
<1>1. DispatcherTypeOK /\ Ids /\ Claimed
  BY DEF DispatcherIInv
<1>2. /\ callbacks' = callbacks /\ func_cid_map' = func_cid_map /\ due' = due /\ alive' = alive
      /\ excused' = excused /\ tokens' = tokens /\ cid' = cid
  BY DEF Process
<1>3. Ids' /\ Claimed'
  <2>1. \A r \in Sigs : callbacks[r] \subseteq func_cid_map'[r] /\ func_cid_map'[r] \subseteq func_cid_map[r]
    BY <1>1, <1>2 DEF Ids, Mapped
  <2> QED  BY <1>2, <2>1, NobodyLeaves
<1>4. /\ walk'.phase = "next" /\ walk'.todo = callbacks[s] /\ walk'.got = <<>>
      /\ walk'.owed = due[s] /\ walk'.entitled = Entitled(s)
  BY DEF Process
<1>5. DOMAIN walk'.got = {}
  BY <1>4
<1>6. \A e \in callbacks[s] : e \in func_cid_map[s] /\ e.func \in Entitled(s)
  <2> SUFFICES ASSUME NEW e \in callbacks[s]
               PROVE  e \in func_cid_map[s] /\ e.func \in Entitled(s)
    OBVIOUS
  <2>1. PICK t \in DOMAIN tokens : s \in tokens[t].names /\ tokens[t].func = e.func /\ e.cid \in tokens[t].cids
    BY <1>1 DEF Ids, Tokened, HasToken
  <2> QED  BY <2>1, <1>1 DEF Entitled, Ids, Mapped
<1>7. ServedOnce'
  <2>1. \A d, e \in walk'.todo : d.func = e.func \/ d.cid = e.cid => d = e
    BY <1>1, <1>4, <1>6 DEF Ids, OneIdEach, IdsDiffer
  <2> QED  BY <2>1, <1>4, <1>5, <1>6 DEF ServedOnce
<1>8. OwedServed'
  <2>1. \A d \in walk'.owed : d.func \in alive' /\ d.since \in DOMAIN tokens'
    BY <1>1, <1>2, <1>4 DEF Claimed, ClaimsValid
  <2>2. \A d \in walk'.owed : \E e \in walk'.todo : e.func = d.func
    BY <1>1, <1>4 DEF Claimed, ClaimsHaveIds
  <2>3. \A d1, d2 \in walk'.owed : d1.since < d2.since =>
          \A e1, e2 \in walk'.todo : e1.func = d1.func /\ e2.func = d2.func => e1.cid < e2.cid
    BY <1>1, <1>4 DEF Claimed, SameOrder
  <2> QED  BY <2>1, <2>2, <2>3, <1>4, <1>5 DEF OwedServed
<1> QED  BY <1>3, <1>7, <1>8

\* The callback of the least id is called: it comes after those that were called,
\* and before those that will be.
LEMMA CallNextKeeps ==
  ASSUME DispatcherIInv, CallNext
  PROVE  (Ids /\ Claimed /\ ServedOnce /\ OwedServed)'
<1> DEFINE n == Len(walk.got)
<1>1. DispatcherTypeOK /\ Ids /\ Claimed /\ ServedOnce /\ OwedServed
  BY DEF DispatcherIInv
<1>2. /\ callbacks' = callbacks /\ func_cid_map' = func_cid_map /\ due' = due /\ alive' = alive
      /\ excused' = excused /\ tokens' = tokens /\ cid' = cid /\ walk.phase = "next" /\ walk.todo # {}
  BY DEF CallNext
<1>3. Ids' /\ Claimed'
  <2>1. \A r \in Sigs : callbacks[r] \subseteq func_cid_map'[r] /\ func_cid_map'[r] \subseteq func_cid_map[r]
    BY <1>1, <1>2 DEF Ids, Mapped
  <2> QED  BY <1>2, <2>1, NobodyLeaves
<1>4. PICK e \in walk.todo : e = NextEntry /\ e \in Entries /\ \A d \in walk.todo : e.cid <= d.cid
  BY <1>1, <1>2, NextIsLeast
<1>5. walk \in Walks /\ walk' = [walk EXCEPT !.phase = "callback", !.todo = walk.todo \ {e},
                                 !.func = e.func, !.got = Append(walk.got, e.func)]
  BY <1>1, <1>4 DEF CallNext, DispatcherTypeOK
<1>6. /\ walk'.phase = "callback" /\ walk'.todo = walk.todo \ {e} /\ walk'.got = Append(walk.got, e.func)
      /\ walk'.owed = walk.owed /\ walk'.entitled = walk.entitled
  BY <1>5 DEF Walks
<1>7. walk.got \in Seq(Funcs) /\ walk.todo \subseteq Entries
  BY <1>5 DEF Walks
<1>8. /\ n \in Nat /\ DOMAIN walk.got = 1..n /\ DOMAIN walk'.got = 1..(n + 1)
      /\ \A i \in 1..n : walk'.got[i] = walk.got[i]
      /\ walk'.got[n + 1] = e.func
  BY <1>4, <1>6, <1>7 DEF Entries
<1> HIDE DEF n
<1>9. ServedOnce'
  <2>1. ASSUME NEW i \in 1..(n + 1)
        PROVE  i = n + 1 \/ i \in 1..n
    BY <1>8
  <2>2. \A i, j \in DOMAIN walk'.got : walk'.got[i] = walk'.got[j] => i = j
    BY <2>1, <1>1, <1>8 DEF ServedOnce
  <2>3. \A c, d \in walk'.todo : c.func = d.func \/ c.cid = d.cid => c = d
    BY <1>1, <1>6 DEF ServedOnce
  <2>4. \A i \in DOMAIN walk'.got : \A d \in walk'.todo : walk'.got[i] # d.func
    BY <2>1, <1>1, <1>6, <1>8 DEF ServedOnce
  <2>5. \A i \in DOMAIN walk'.got : walk'.got[i] \in walk'.entitled
    BY <2>1, <1>1, <1>6, <1>8 DEF ServedOnce
  <2>6. \A d \in walk'.todo : d.func \in walk'.entitled
    BY <1>1, <1>6 DEF ServedOnce
  <2> QED  BY <2>2, <2>3, <2>4, <2>5, <2>6 DEF ServedOnce
<1>10. OwedServed'
  <2>1. \A d \in walk'.owed : d.func \in alive' /\ d.since \in DOMAIN tokens'
    BY <1>1, <1>2, <1>6 DEF OwedServed
  <2>2. ASSUME NEW d \in walk'.owed
        PROVE  (\E i \in DOMAIN walk'.got : walk'.got[i] = d.func) \/ \E c \in walk'.todo : c.func = d.func
    <3>1. (\E i \in DOMAIN walk.got : walk.got[i] = d.func) \/ \E c \in walk.todo : c.func = d.func
      BY <1>1, <1>2, <1>6 DEF OwedServed
    <3>2. 1..n \subseteq 1..(n + 1) /\ n + 1 \in 1..(n + 1)
      BY <1>8
    <3> QED  BY <3>1, <3>2, <1>6, <1>8
  <2>3. ASSUME NEW d1 \in walk'.owed, NEW d2 \in walk'.owed, d1.since < d2.since
        PROVE  /\ \A i, j \in DOMAIN walk'.got : walk'.got[i] = d1.func /\ walk'.got[j] = d2.func => i < j
               /\ \A e1, e2 \in walk'.todo : e1.func = d1.func /\ e2.func = d2.func => e1.cid < e2.cid
               /\ \A j \in DOMAIN walk'.got, e1 \in walk'.todo : ~(e1.func = d1.func /\ walk'.got[j] = d2.func)
    <3>1. /\ \A i, j \in DOMAIN walk.got : walk.got[i] = d1.func /\ walk.got[j] = d2.func => i < j
          /\ \A e1, e2 \in walk.todo : e1.func = d1.func /\ e2.func = d2.func => e1.cid < e2.cid
          /\ \A j \in DOMAIN walk.got, e1 \in walk.todo : ~(e1.func = d1.func /\ walk.got[j] = d2.func)
      BY <2>3, <1>1, <1>6 DEF OwedServed
    <3>2. ~(e.func = d1.func /\ e.func = d2.func)
      BY <3>1, <1>4 DEF Entries
    <3>3. \A i \in 1..(n + 1) : i = n + 1 \/ (i \in 1..n /\ i < n + 1)
      BY <1>8
    <3>4. \A i, j \in DOMAIN walk'.got : walk'.got[i] = d1.func /\ walk'.got[j] = d2.func => i < j
      BY <3>1, <3>2, <3>3, <1>8
    <3>5. \A e1, e2 \in walk'.todo : e1.func = d1.func /\ e2.func = d2.func => e1.cid < e2.cid
      BY <3>1, <1>6
    <3>6. \A j \in DOMAIN walk'.got, e1 \in walk'.todo : ~(e1.func = d1.func /\ walk'.got[j] = d2.func)
      <4> SUFFICES ASSUME NEW j \in 1..(n + 1), NEW e1 \in walk'.todo,
                          e1.func = d1.func, walk'.got[j] = d2.func
                   PROVE  FALSE
        BY <1>8
      <4>1. e1 \in walk.todo /\ e.cid <= e1.cid /\ e.cid \in Nat /\ e1.cid \in Nat
        BY <1>4, <1>6, <1>7 DEF Entries
      <4>2. CASE j = n + 1
        <5>1. e.func = d2.func
          BY <4>2, <1>8
        <5>2. e1.cid < e.cid
          BY <4>1, <5>1, <3>1
        <5> QED  BY <4>1, <5>2
      <4>3. CASE j \in 1..n
        <5>1. walk.got[j] = d2.func /\ j \in DOMAIN walk.got
          BY <4>3, <1>8
        <5> QED  BY <4>1, <5>1, <3>1
      <4> QED  BY <4>2, <4>3, <3>3
    <3> QED  BY <3>4, <3>5, <3>6
  <2> QED  BY <2>1, <2>2, <2>3, <1>6 DEF OwedServed
<1> QED  BY <1>3, <1>9, <1>10

-----------------------------------------------------------------------------
\* At first nothing is registered.
LEMMA DispatcherInitIInv == DispatcherInit => DispatcherIInv
<1> SUFFICES ASSUME DispatcherInit
             PROVE  DispatcherIInv
  OBVIOUS
<1>1. /\ callbacks = [s \in Sigs |-> {}] /\ func_cid_map = [s \in Sigs |-> {}] /\ due = [s \in Sigs |-> {}]
      /\ cid = 0 /\ tokens = <<>> /\ alive = Funcs /\ held = {} /\ excused = {} /\ docs = 0
      /\ ignore_exceptions \in BOOLEAN
  BY DEF DispatcherInit
<1>2. /\ walk = [phase |-> "idle", sig |-> 1, snapshot |-> {}, todo |-> {}, func |-> None,
                 exceptions |-> FALSE, got |-> <<>>, owed |-> {}, entitled |-> {}]
  BY DEF DispatcherInit
<1>3. walk \in Walks /\ walk.phase = "idle" /\ walk.todo = {} /\ walk.got = <<>> /\ walk.owed = {}
  <2>1. 1 \in Sigs
    BY NumSigsAssumption DEF Sigs
  <2>2. <<>> \in Seq(Funcs)
    OBVIOUS
  <2> QED  BY <2>1, <2>2, <1>2 DEF Walks
<1>4. tokens \in Seq(Tokens) /\ DOMAIN tokens = {} /\ DOMAIN walk.got = {}
  BY <1>1, <1>3
<1>5. DispatcherTypeOK
  BY <1>1, <1>3, <1>4 DEF DispatcherTypeOK
<1>6. Ids
  BY <1>1, <1>4 DEF Ids, Mapped, OneIdEach, IdsDiffer, IdsOfTokens, Tokened
<1>7. Claimed
  BY <1>1 DEF Claimed, ClaimsValid, ClaimsHaveIds, IdsHaveClaims, ClaimsOfTokens, SameOrder
<1>8. ServedOnce /\ OwedServed
  BY <1>3, <1>4 DEF ServedOnce, OwedServed
<1> QED  BY <1>5, <1>6, <1>7, <1>8 DEF DispatcherIInv

\* Every step keeps the invariant.
LEMMA DispatcherNextIInv == DispatcherIInv /\ [DispatcherNext]_dispatcherVars => DispatcherIInv'
<1> SUFFICES ASSUME DispatcherIInv, [DispatcherNext]_dispatcherVars
             PROVE  DispatcherIInv'
  OBVIOUS
<1>1. CASE DispatcherNext
  <2>1. DispatcherTypeOK'
    BY <1>1, NextTyped DEF DispatcherIInv, Ids
  <2>2. (Ids /\ Claimed /\ ServedOnce /\ OwedServed)'
    BY <1>1, SubscribeKeeps, UnsubscribeKeeps, UnsubscribeAllKeeps, DieKeeps, ReferenceErrorKeeps, CallDeadKeeps,
       WalkingKeeps, ProcessKeeps, CallNextKeeps, Zenon DEF DispatcherNext
  <2> QED  BY <2>1, <2>2 DEF DispatcherIInv
<1>2. CASE UNCHANGED dispatcherVars
  <2>1. DispatcherTypeOK'
    BY <1>2 DEF dispatcherVars, DispatcherIInv, DispatcherTypeOK
  <2>2. Ids' /\ Claimed'
    BY <1>2, NobodyLeaves DEF dispatcherVars, DispatcherIInv, Ids, Mapped
  <2>3. ServedOnce' /\ OwedServed'
    BY <1>2 DEF dispatcherVars, DispatcherIInv, ServedOnce, OwedServed
  <2> QED  BY <2>1, <2>2, <2>3 DEF DispatcherIInv
<1> QED  BY <1>1, <1>2

\* The invariant holds in all reachable states.
THEOREM DispatcherInvariance == DispatcherSpec => []DispatcherIInv
<1> QED  BY DispatcherInitIInv, DispatcherNextIInv, PTL DEF DispatcherSpec

\* subscribe(), unsubscribe(), process(): the types of all that they keep.
THEOREM DispatcherTypeCorrect == DispatcherSpec => []DispatcherTypeOK
<1>1. DispatcherIInv => DispatcherTypeOK
  BY DEF DispatcherIInv
<1> QED  BY <1>1, DispatcherInvariance, PTL

\* process(): nobody gets a document twice, and nobody without a token gets it.
THEOREM OnlySubscribersOnceThm == DispatcherSpec => []OnlySubscribersOnce
<1>1. DispatcherIInv => OnlySubscribersOnce
  BY DEF DispatcherIInv, ServedOnce, OnlySubscribersOnce, IsInjective, Range
<1> QED  BY <1>1, DispatcherInvariance, PTL

\* process(): whoever has a claim when a document comes, and keeps it, gets the
\* document, in the order of the claims.
THEOREM EveryoneServedThm == DispatcherSpec => []EveryoneServed
<1>1. ASSUME DispatcherIInv
      PROVE  EveryoneServed
  <2> SUFFICES ASSUME walk.phase = "returned"
               PROVE  \E turn \in [walk.owed -> DOMAIN walk.got] :
                        /\ \A d \in walk.owed : walk.got[turn[d]] = d.func
                        /\ \A d, e \in walk.owed : d.since < e.since => turn[d] < turn[e]
    BY DEF EveryoneServed
  <2> DEFINE turn == [d \in walk.owed |-> CHOOSE i \in DOMAIN walk.got : walk.got[i] = d.func]
  <2>1. OwedServed
    BY <1>1 DEF DispatcherIInv
  <2>2. \A d \in walk.owed : \E i \in DOMAIN walk.got : walk.got[i] = d.func
    BY <2>1 DEF OwedServed
  <2>3. \A d \in walk.owed : turn[d] \in DOMAIN walk.got /\ walk.got[turn[d]] = d.func
    BY <2>2
  <2>4. turn \in [walk.owed -> DOMAIN walk.got]
    BY <2>3
  <2> HIDE DEF turn
  <2>5. \A d, e \in walk.owed : d.since < e.since => turn[d] < turn[e]
    BY <2>1, <2>3 DEF OwedServed
  <2> QED  BY <2>3, <2>4, <2>5
<1>2. DispatcherIInv => EveryoneServed
  BY <1>1
<1> QED  BY <1>2, DispatcherInvariance, PTL
=============================================================================
