------------------------- MODULE ExternalDataProofs -------------------------
(***************************************************************************)
(* Proofs about ExternalData, for any batch sizes, any number of           *)
(* StreamResources, frames, gaps between their indices, and faults.        *)
(***************************************************************************)
EXTENDS ExternalData, SequenceTheorems, TLAPS

Datums == [sres : Nat, start : Nat, stop : Nat]
FileNames == Nat \X Int
Patches == [offset : Int, rows : Nat]

TypeOK ==
  /\ batch_size \in Nat /\ backed \in BOOLEAN
  /\ pc \in {"idle", "consume", "send", "stop"}
  /\ stopping \in BOOLEAN /\ raised \in BOOLEAN /\ made \in BOOLEAN /\ stopDoc \in BOOLEAN
  /\ cached \in Seq(Datums) /\ todo \in Seq(Datums)
  /\ registered \subseteq Nat /\ fresh \in Nat
  /\ cons \in [rows : Nat, files : Seq(FileNames), template : Nat, offset : Nat]
  /\ source \in [rows : Nat, files : Seq(FileNames)] /\ patches \in Seq(Patches)
  /\ resources \in Nat /\ index \in Nat /\ first \in Seq(Nat) /\ frames \in Seq(FileNames)
  /\ gaps \in Nat /\ faults \in Nat

(***************************************************************************)
(* The inductive invariant.  A writer that works is one that no exception  *)
(* has taken the run away from.                                            *)
(***************************************************************************)
Working == backed /\ ~raised

Control ==
  /\ pc = "consume" => todo # <<>>
  /\ pc \in {"idle", "stop"} => todo = <<>>
  /\ pc = "send" /\ stopping => todo = <<>>
  /\ pc = "stop" => stopping
  /\ stopDoc => stopping /\ pc = "idle"
  /\ backed /\ raised => pc = "idle"

\* The datums at hand and in the cache; there is one of a StreamResource at most
\* in the cache, in the order of the StreamResources.
Announced ==
  /\ Len(first) = resources /\ registered \subseteq 1..resources
  /\ resources = 0 => index = 0
  /\ index = Len(frames) + gaps
  /\ \A i \in 1..Len(todo) : todo[i].sres \in 1..resources /\ todo[i].start <= todo[i].stop
  /\ \A i \in 1..Len(cached) : cached[i].sres \in 1..resources /\ cached[i].start <= cached[i].stop
  /\ \A i, j \in 1..Len(cached) : i < j => cached[i].sres < cached[j].sres
  /\ batch_size <= 1 => cached = <<>>

\* total is the number of frames of all docs.
Sums(docs, total) ==
  \E sum \in [0..Len(docs) -> Int] :
    /\ sum[0] = 0 /\ sum[Len(docs)] = total
    /\ \A i \in 1..Len(docs) : sum[i] = sum[i - 1] + Size(docs[i])

\* No frame is lost or counted twice on its way through the writer.
Waiting == IF stopping THEN <<>> ELSE cached
Counted ==
  /\ cons.rows = Len(cons.files) /\ source.rows = Len(source.files)
  /\ Working =>
       /\ fresh <= cons.rows /\ (pc \in {"idle", "stop"} => fresh = 0)
       /\ \E t, u \in Int : Sums(todo, t) /\ Sums(Waiting, u) /\ cons.rows + t + u = Len(frames)
  /\ backed /\ stopDoc => source.rows = Len(frames)

\* What the server has is what was consumed before the last data source was sent;
\* while a request is sent again it is what was consumed in all.
Patched ==
  /\ PatchesTile
  /\ Working =>
       /\ patches = <<>> => source.rows = 0
       /\ \/ source.rows = cons.rows - fresh
          \/ /\ pc = "send" /\ source.rows = cons.rows
             /\ patches # <<>>
             /\ patches[Len(patches)] = [offset |-> cons.rows - fresh, rows |-> fresh]

\* The files of one or two datums.
FilesOfDatum(doc) == FilesOf(doc.sres, doc.start, doc.stop)
FilesOfAll(docs) ==
  IF Len(docs) = 0 THEN <<>>
  ELSE IF Len(docs) = 1 THEN FilesOfDatum(docs[1])
  ELSE FilesOfDatum(docs[1]) \o FilesOfDatum(docs[2])

\* The consolidator knows the template of the last StreamResource and from which
\* file on it counts, or will at the next datum; and the files it has, those of
\* the datums at hand and those of the cached ones are the frames.
Named ==
  Working /\ Unmixed =>
    /\ resources \in registered => cons.template = resources /\ cons.offset = first[resources]
    /\ resources > 0 /\ resources \notin registered => first[resources] = Len(cons.files)
    /\ Len(todo) <= 2 /\ Len(Waiting) <= 1
    /\ \A i \in 1..Len(todo) : todo[i].sres = resources
    /\ frames = cons.files \o (FilesOfAll(todo) \o FilesOfAll(Waiting))

IInv == TypeOK /\ Control /\ Announced /\ Counted /\ Patched /\ Named /\ AssetsAreFramesUnmixed
-----------------------------------------------------------------------------
(***************************************************************************)
(* Sums                                                                    *)
(***************************************************************************)
\* No datum, no frame.
LEMMA SumsEmpty ==
  ASSUME NEW docs, Len(docs) = 0
  PROVE  Sums(docs, 0) /\ \A t : Sums(docs, t) => t = 0
<1>1. Sums(docs, 0)
  <2> DEFINE z == [i \in 0..0 |-> 0]
  <2>1. z \in [0..Len(docs) -> Int] /\ z[0] = 0 /\ z[Len(docs)] = 0
    OBVIOUS
  <2>2. 1..Len(docs) = {}
    OBVIOUS
  <2> QED  BY <2>1, <2>2 DEF Sums
<1> QED  BY <1>1 DEF Sums

\* One datum more.
LEMMA SumsAppend ==
  ASSUME NEW docs \in Seq(Datums), NEW d \in Datums, NEW t \in Int, Sums(docs, t)
  PROVE  Sums(Append(docs, d), t + Size(d))
<1> DEFINE all == Append(docs, d)
           n == Len(docs)
<1>1. n \in Nat /\ Len(all) = n + 1 /\ (\A i \in 1..n : all[i] = docs[i]) /\ all[n + 1] = d
  BY AppendProperties
<1>2. Size(d) \in Int
  BY DEF Size, Datums
<1>3. PICK f \in [0..n -> Int] :
        f[0] = 0 /\ f[n] = t /\ \A i \in 1..n : f[i] = f[i - 1] + Size(docs[i])
  BY DEF Sums
<1> DEFINE g == [i \in 0..(n + 1) |-> IF i <= n THEN f[i] ELSE t + Size(d)]
<1> HIDE DEF all, n
<1>4. g \in [0..(n + 1) -> Int]
  BY <1>1, <1>2, <1>3
<1>5. g[0] = 0 /\ g[n + 1] = t + Size(d)
  BY <1>1, <1>3
<1>6. ASSUME NEW i \in 1..(n + 1)  PROVE  g[i] = g[i - 1] + Size(all[i])
  <2>1. CASE i <= n
    <3>1. i \in 1..n /\ i - 1 \in 0..n
      BY <1>1, <2>1
    <3>2. g[i] = f[i] /\ g[i - 1] = f[i - 1] /\ all[i] = docs[i]
      BY <1>1, <3>1
    <3> QED  BY <1>3, <3>1, <3>2
  <2>2. CASE ~(i <= n)
    <3>1. i = n + 1 /\ i - 1 = n /\ n <= n
      BY <1>1, <2>2
    <3>2. g[i - 1] = f[n] /\ g[i] = t + Size(d)
      BY <1>1, <3>1
    <3> QED  BY <1>1, <1>3, <3>1, <3>2
  <2> QED  BY <2>1, <2>2
<1> HIDE DEF g
<1>7. \E sum \in [0..Len(all) -> Int] :
        /\ sum[0] = 0 /\ sum[Len(all)] = t + Size(d)
        /\ \A i \in 1..Len(all) : sum[i] = sum[i - 1] + Size(all[i])
  BY <1>1, <1>4, <1>5, <1>6
<1>8. Sums(all, t + Size(d))
  BY ONLY <1>7 DEF Sums
<1> QED  BY <1>8 DEF all

\* What RemoveAt leaves of a sequence when it takes its last element.
LEMMA WithoutLast ==
  ASSUME NEW S, NEW s \in Seq(S), Len(s) > 0
  PROVE  /\ RemoveAt(s, Len(s)) \in Seq(S) /\ Len(RemoveAt(s, Len(s))) = Len(s) - 1
         /\ \A i \in 1..(Len(s) - 1) : RemoveAt(s, Len(s))[i] = s[i]
<1> DEFINE a == SubSeq(s, 1, Len(s) - 1)
           b == SubSeq(s, Len(s) + 1, Len(s))
<1>1. Len(s) \in Nat
  OBVIOUS
<1>2. a \in Seq(S) /\ Len(a) = Len(s) - 1 /\ \A i \in 1..(Len(s) - 1) : a[i] = s[i]
  <2>1. \A k \in 0..Len(s) : /\ SubSeq(s, 1, k) \in Seq(S) /\ Len(SubSeq(s, 1, k)) = k
                             /\ \A i \in 1..k : SubSeq(s, 1, k)[i] = s[i]
    BY <1>1, SubSeqProperties
  <2>2. Len(s) - 1 \in 0..Len(s)
    BY <1>1
  <2> QED  BY ONLY <2>1, <2>2, Zenon
<1>3. b = <<>>
  BY <1>1, SubSeqProperties
<1>4. RemoveAt(s, Len(s)) = a \o b
  BY DEF RemoveAt
<1> HIDE DEF a, b
<1>5. a \o b = a
  BY ONLY <1>2, <1>3, ConcatEmptySeq
<1> QED  BY <1>1, <1>2, <1>4, <1>5

\* The last datum less.
LEMMA SumsFront ==
  ASSUME NEW docs \in Seq(Datums), Len(docs) > 0, NEW t \in Int, Sums(docs, t)
  PROVE  Sums(RemoveAt(docs, Len(docs)), t - Size(docs[Len(docs)]))
<1> DEFINE rest == RemoveAt(docs, Len(docs))
           n == Len(docs)
<1>1. n \in Nat /\ n > 0 /\ Len(rest) = n - 1 /\ \A i \in 1..(n - 1) : rest[i] = docs[i]
  BY WithoutLast
<1>2. Size(docs[n]) \in Int
  <2>1. docs[n] \in Datums
    BY <1>1
  <2> QED  BY <2>1 DEF Size, Datums
<1>3. PICK f \in [0..n -> Int] :
        f[0] = 0 /\ f[n] = t /\ \A i \in 1..n : f[i] = f[i - 1] + Size(docs[i])
  BY DEF Sums
<1> DEFINE g == [i \in 0..(n - 1) |-> f[i]]
<1> HIDE DEF rest, n
<1>4. g \in [0..(n - 1) -> Int] /\ g[0] = 0
  BY <1>1, <1>3
<1>5. g[n - 1] = t - Size(docs[n])
  <2>1. n \in 1..n /\ n - 1 \in 0..(n - 1) /\ f[n - 1] \in Int
    BY <1>1, <1>3
  <2>2. f[n] = f[n - 1] + Size(docs[n])
    BY <1>3, <2>1
  <2> QED  BY <1>2, <1>3, <2>1, <2>2
<1>6. ASSUME NEW i \in 1..(n - 1)  PROVE  g[i] = g[i - 1] + Size(rest[i])
  <2>1. i \in 1..n /\ i \in 0..(n - 1) /\ i - 1 \in 0..(n - 1)
    BY <1>1
  <2> QED  BY <1>1, <1>3, <2>1
<1> HIDE DEF g
<1>7. \E sum \in [0..Len(rest) -> Int] :
        /\ sum[0] = 0 /\ sum[Len(rest)] = t - Size(docs[n])
        /\ \A i \in 1..Len(rest) : sum[i] = sum[i - 1] + Size(rest[i])
  BY <1>1, <1>4, <1>5, <1>6
<1>8. Sums(rest, t - Size(docs[n]))
  BY ONLY <1>7 DEF Sums
<1> QED  BY <1>8 DEF rest, n

\* The first datum less.
LEMMA SumsTail ==
  ASSUME NEW docs \in Seq(Datums), docs # <<>>, NEW t \in Int, Sums(docs, t)
  PROVE  Sums(Tail(docs), t - Size(Head(docs)))
<1> DEFINE rest == Tail(docs)
           n == Len(docs)
           d == Head(docs)
<1>1. /\ n \in Nat /\ n > 0 /\ Len(rest) = n - 1 /\ d \in Datums /\ d = docs[1]
      /\ \A i \in 1..(n - 1) : rest[i] = docs[i + 1]
  BY HeadTailProperties
<1>2. Size(d) \in Int
  BY <1>1 DEF Size, Datums
<1>3. PICK f \in [0..n -> Int] :
        f[0] = 0 /\ f[n] = t /\ \A i \in 1..n : f[i] = f[i - 1] + Size(docs[i])
  BY DEF Sums
<1> DEFINE g == [i \in 0..(n - 1) |-> f[i + 1] - Size(d)]
<1> HIDE DEF rest, n, d
<1>4. g \in [0..(n - 1) -> Int]
  BY <1>1, <1>2, <1>3
<1>5. g[0] = 0 /\ g[n - 1] = t - Size(d)
  <2>1. 1 \in 1..n /\ f[1] = f[0] + Size(docs[1])
    BY <1>1, <1>3
  <2>2. g[0] = f[1] - Size(d) /\ g[n - 1] = f[n] - Size(d)
    BY <1>1
  <2> QED  BY <1>1, <1>2, <1>3, <2>1, <2>2
<1>6. ASSUME NEW i \in 1..(n - 1)  PROVE  g[i] = g[i - 1] + Size(rest[i])
  <2>1. i + 1 \in 1..n /\ i \in 0..(n - 1) /\ i - 1 \in 0..(n - 1) /\ (i + 1) - 1 = i /\ (i - 1) + 1 = i
    BY <1>1
  <2>2. f[i + 1] = f[i] + Size(docs[i + 1])
    BY <1>3, <2>1
  <2>3. docs[i + 1] \in Datums /\ Size(docs[i + 1]) \in Int
    <3>1. docs[i + 1] \in Datums
      BY <2>1 DEF n
    <3> QED  BY <3>1 DEF Size, Datums
  <2>4. f[i] \in Int /\ f[i + 1] \in Int /\ g[i] = f[i + 1] - Size(d) /\ g[i - 1] = f[i] - Size(d)
    BY <1>1, <1>3, <2>1
  <2>5. rest[i] = docs[i + 1]
    BY <1>1
  <2> QED  BY <1>2, <2>2, <2>3, <2>4, <2>5
<1> HIDE DEF g
<1>7. \E sum \in [0..Len(rest) -> Int] :
        /\ sum[0] = 0 /\ sum[Len(rest)] = t - Size(d)
        /\ \A i \in 1..Len(rest) : sum[i] = sum[i - 1] + Size(rest[i])
  BY <1>1, <1>4, <1>5, <1>6
<1>8. Sums(rest, t - Size(d))
  BY ONLY <1>7 DEF Sums
<1> QED  BY <1>8 DEF rest, d
-----------------------------------------------------------------------------
(***************************************************************************)
(* Files                                                                   *)
(***************************************************************************)
\* Appending files to files.
LEMMA Associative == \A f, g, h \in Seq(FileNames) : (f \o g) \o h = f \o (g \o h)
BY ConcatAssociative

\* A datum of a StreamResource that was announced.
Known(doc) == doc \in Datums /\ doc.sres \in 1..resources /\ doc.start <= doc.stop

\* A datum has a file for each of its frames.
LEMMA FilesFacts ==
  ASSUME TypeOK, Announced, NEW doc, Known(doc)
  PROVE  /\ Size(doc) \in Nat /\ FilesOfDatum(doc) \in Seq(FileNames)
         /\ Len(FilesOfDatum(doc)) = Size(doc)
         /\ \A k \in 1..Size(doc) :
              FilesOfDatum(doc)[k] = <<doc.sres, doc.start + k - 1 - first[doc.sres]>>
<1> DEFINE r == doc.sres
           m == doc.start
           n == doc.stop - doc.start
<1>1. r \in Nat /\ m \in Nat /\ n \in Nat /\ r \in 1..resources
  BY DEF Known, Datums
<1>2. first[r] \in Nat
  BY <1>1 DEF TypeOK, Announced
<1>3. FilesOfDatum(doc) = [k \in 1..n |-> <<r, m + k - 1 - first[r]>>] /\ Size(doc) = n
  BY DEF FilesOfDatum, FilesOf, Size
<1> HIDE DEF r, m, n
<1>4. \A k \in 1..n : <<r, m + k - 1 - first[r]>> \in FileNames
  BY <1>1, <1>2 DEF FileNames
<1>5. [k \in 1..n |-> <<r, m + k - 1 - first[r]>>] \in Seq(FileNames)
  BY <1>1, <1>4
<1> QED  BY <1>1, <1>3, <1>5 DEF r, m, n

\* The files of the concatenation of two datums are those of the one, then of the
\* other.
LEMMA FilesOfConcatenated ==
  ASSUME TypeOK, Announced, NEW old, NEW doc, Known(old), Known(doc),
         old.sres = doc.sres, Consecutive(old, doc)
  PROVE  /\ Known(Concatenated(old, doc)) /\ Size(Concatenated(old, doc)) = Size(old) + Size(doc)
         /\ Concatenated(old, doc).sres = doc.sres
         /\ FilesOfDatum(Concatenated(old, doc)) = FilesOfDatum(old) \o FilesOfDatum(doc)
<1> DEFINE both == Concatenated(old, doc)
<1>1. /\ old.start \in Nat /\ old.stop \in Nat /\ doc.start \in Nat /\ doc.stop \in Nat
      /\ doc.sres \in Nat /\ doc.sres \in 1..resources
      /\ old.start <= old.stop /\ doc.start <= doc.stop /\ old.stop = doc.start
  BY DEF Known, Datums, Consecutive
<1>2. both.sres = doc.sres /\ both.start = old.start /\ both.stop = doc.stop
      /\ both = [sres |-> doc.sres, start |-> old.start, stop |-> doc.stop]
  BY DEF Concatenated, Datum
<1>3. Known(both)
  BY <1>1, <1>2 DEF Known, Datums
<1>4. Size(both) = Size(old) + Size(doc)
  BY <1>1, <1>2 DEF Size
<1> HIDE DEF both
<1> DEFINE f == FilesOfDatum(old)
           g == FilesOfDatum(doc)
           h == FilesOfDatum(both)
<1>5. /\ f \in Seq(FileNames) /\ Len(f) = Size(old) /\ Size(old) \in Nat
      /\ \A k \in 1..Size(old) : f[k] = <<old.sres, old.start + k - 1 - first[old.sres]>>
  BY FilesFacts
<1>6. /\ g \in Seq(FileNames) /\ Len(g) = Size(doc) /\ Size(doc) \in Nat
      /\ \A k \in 1..Size(doc) : g[k] = <<doc.sres, doc.start + k - 1 - first[doc.sres]>>
  BY FilesFacts
<1>7. /\ h \in Seq(FileNames) /\ Len(h) = Size(both) /\ Size(both) \in Nat
      /\ \A k \in 1..Size(both) : h[k] = <<both.sres, both.start + k - 1 - first[both.sres]>>
  BY <1>3, FilesFacts
<1>8. first[doc.sres] \in Nat
  <2>1. first \in Seq(Nat) /\ doc.sres \in 1..Len(first)
    BY <1>1 DEF TypeOK, Announced
  <2> QED  BY ONLY <2>1
<1> HIDE DEF f, g, h
<1>9. /\ f \o g \in Seq(FileNames) /\ Len(f \o g) = Len(f) + Len(g)
      /\ \A i \in 1..(Len(f) + Len(g)) : (f \o g)[i] = IF i <= Len(f) THEN f[i] ELSE g[i - Len(f)]
  BY ONLY <1>5, <1>6, ConcatProperties
<1>10. ASSUME NEW i \in 1..Len(h)  PROVE  h[i] = (f \o g)[i]
  <2>0. i \in 1..(Len(f) + Len(g)) /\ i \in 1..Size(both)
    BY <1>4, <1>5, <1>6, <1>7
  <2>1. CASE i <= Len(f)
    <3>1. i \in 1..Size(old)
      BY <1>5, <2>0, <2>1
    <3>2. (f \o g)[i] = f[i]
      BY ONLY <1>9, <2>0, <2>1
    <3> QED  BY <1>2, <1>5, <1>7, <2>0, <3>1, <3>2
  <2>2. CASE ~(i <= Len(f))
    <3>1. i - Len(f) \in 1..Size(doc)
      BY <1>5, <1>6, <2>0, <2>2
    <3>2. (f \o g)[i] = g[i - Len(f)]
      BY ONLY <1>9, <2>0, <2>2
    <3>3. Size(old) = doc.start - old.start
      BY <1>1 DEF Size
    <3>4. doc.start + (i - Len(f)) - 1 - first[doc.sres] = old.start + i - 1 - first[doc.sres]
      BY <1>1, <1>5, <1>8, <3>3
    <3>5. g[i - Len(f)] = <<doc.sres, doc.start + (i - Len(f)) - 1 - first[doc.sres]>>
      BY <1>6, <3>1
    <3>6. h[i] = <<doc.sres, old.start + i - 1 - first[doc.sres]>>
      BY <1>2, <1>7, <2>0
    <3> QED  BY <3>2, <3>4, <3>5, <3>6
  <2> QED  BY <2>1, <2>2
<1>11. h = f \o g
  BY ONLY <1>4, <1>5, <1>6, <1>7, <1>9, <1>10, SeqEqual
<1> QED  BY <1>2, <1>3, <1>4, <1>11 DEF both, f, g, h

\* Files of at most two datums.
LEMMA FilesOfAllFacts ==
  ASSUME TypeOK, Announced, NEW docs \in Seq(Datums), Len(docs) <= 2,
         \A i \in 1..Len(docs) : Known(docs[i])
  PROVE  /\ FilesOfAll(docs) \in Seq(FileNames)
         /\ docs # <<>> => /\ FilesOfAll(Tail(docs)) \in Seq(FileNames)
                           /\ FilesOfAll(docs) = FilesOfDatum(Head(docs)) \o FilesOfAll(Tail(docs))
<1>0. Len(docs) \in Nat
  OBVIOUS
<1>1. CASE Len(docs) = 0
  <2>1. docs = <<>> /\ FilesOfAll(docs) = <<>>
    BY <1>1 DEF FilesOfAll
  <2> QED  BY <2>1, EmptySeq
<1>2. CASE Len(docs) = 1
  <2>1. docs # <<>> /\ Head(docs) = docs[1] /\ Len(Tail(docs)) = 0 /\ Known(docs[1])
    BY <1>2
  <2>2. FilesOfAll(docs) = FilesOfDatum(docs[1]) /\ FilesOfAll(Tail(docs)) = <<>>
    BY <1>2, <2>1 DEF FilesOfAll
  <2>3. FilesOfDatum(docs[1]) \in Seq(FileNames)
    BY <2>1, FilesFacts
  <2>4. FilesOfDatum(docs[1]) \o <<>> = FilesOfDatum(docs[1])
    BY ONLY <2>3, ConcatEmptySeq
  <2> QED  BY ONLY <2>1, <2>2, <2>3, <2>4, EmptySeq, Zenon
<1>3. CASE Len(docs) = 2
  <2>1. docs # <<>> /\ Head(docs) = docs[1] /\ Len(Tail(docs)) = 1 /\ Tail(docs)[1] = docs[2]
        /\ Known(docs[1]) /\ Known(docs[2])
    BY <1>3
  <2>2. /\ FilesOfAll(docs) = FilesOfDatum(docs[1]) \o FilesOfDatum(docs[2])
        /\ FilesOfAll(Tail(docs)) = FilesOfDatum(docs[2])
    BY <1>3, <2>1 DEF FilesOfAll
  <2>3. FilesOfDatum(docs[1]) \in Seq(FileNames) /\ FilesOfDatum(docs[2]) \in Seq(FileNames)
    BY <2>1, FilesFacts
  <2>4. FilesOfDatum(docs[1]) \o FilesOfDatum(docs[2]) \in Seq(FileNames)
    BY ONLY <2>3, ConcatProperties
  <2> QED  BY ONLY <2>1, <2>2, <2>3, <2>4, EmptySeq, Zenon
<1>4. Len(docs) = 0 \/ Len(docs) = 1 \/ Len(docs) = 2
  <2>1. \A n \in Nat : n <= 2 => n = 0 \/ n = 1 \/ n = 2
    OBVIOUS
  <2> QED  BY ONLY <1>0, <2>1, Len(docs) <= 2, Zenon
<1> QED  BY ONLY <1>1, <1>2, <1>3, <1>4, Zenon
-----------------------------------------------------------------------------
(***************************************************************************)
(* stream_datum()                                                          *)
(***************************************************************************)
\* A datum of the last StreamResource that is cached is the last one of the cache.
LEMMA PopsLast ==
  ASSUME TypeOK, Announced, CachedAt(resources) # {}
  PROVE  /\ Len(cached) > 0 /\ cached[Len(cached)].sres = resources
         /\ (CHOOSE i \in CachedAt(resources) : TRUE) = Len(cached)
<1>1. cached \in Seq(Datums) /\ Len(cached) \in Nat /\ resources \in Nat
  BY DEF TypeOK
<1>2. PICK p \in 1..Len(cached) : cached[p].sres = resources
  BY DEF CachedAt
<1>3. ASSUME NEW k \in CachedAt(resources)  PROVE  k = Len(cached)
  <2>1. k \in 1..Len(cached) /\ Len(cached) \in 1..Len(cached) /\ cached[k].sres = resources
    BY <1>1, <1>3 DEF CachedAt
  <2>2. cached[Len(cached)].sres \in 1..resources
    BY <2>1 DEF Announced
  <2>3. k < Len(cached) => cached[k].sres < cached[Len(cached)].sres
    BY <2>1 DEF Announced
  <2> QED  BY <1>1, <2>1, <2>2, <2>3
<1>4. (CHOOSE i \in CachedAt(resources) : TRUE) \in CachedAt(resources)
  OBVIOUS
<1>5. (CHOOSE i \in CachedAt(resources) : TRUE) = Len(cached)
  BY <1>3, <1>4
<1>6. Len(cached) \in CachedAt(resources)
  BY <1>4, <1>5
<1> QED  BY <1>1, <1>2, <1>5, <1>6 DEF CachedAt

\* The ways a datum is handled.
LEMMA HandledCases ==
  ASSUME TypeOK, Announced, NEW doc, Known(doc), doc.sres = resources
  PROVE  LET old == cached[Len(cached)]
             others == RemoveAt(cached, Len(cached))
             both == Concatenated(old, doc)
         IN
         \/ batch_size <= 1 /\ Handled(doc) = [write |-> <<doc>>, cache |-> cached]
         \/ /\ batch_size > 1 /\ \A i \in 1..Len(cached) : cached[i].sres # resources
            /\ Handled(doc) = [write |-> <<>>, cache |-> Append(cached, doc)]
         \/ /\ batch_size > 1 /\ Len(cached) > 0 /\ old.sres = resources
            /\ \/ Handled(doc) = [write |-> <<old, doc>>, cache |-> others]
               \/ Consecutive(old, doc) /\ Handled(doc) = [write |-> <<both>>, cache |-> others]
               \/ /\ Consecutive(old, doc)
                  /\ Handled(doc) = [write |-> <<>>, cache |-> Append(others, both)]
<1> DEFINE old == cached[Len(cached)]
           others == RemoveAt(cached, Len(cached))
           both == Concatenated(old, doc)
<1>0. batch_size \in Nat
  BY DEF TypeOK
<1>1. CASE batch_size <= 1
  BY <1>1 DEF Handled
<1>2. CASE batch_size > 1 /\ CachedAt(resources) = {}
  <2>1. Handled(doc) = [write |-> <<>>, cache |-> Append(cached, doc)]
    BY <1>0, <1>2 DEF Handled
  <2>2. \A i \in 1..Len(cached) : cached[i].sres # resources
    BY <1>2 DEF CachedAt
  <2> QED  BY <1>2, <2>1, <2>2
<1>3. CASE batch_size > 1 /\ CachedAt(resources) # {}
  <2>1. /\ Len(cached) > 0 /\ old.sres = resources
        /\ (CHOOSE i \in CachedAt(resources) : TRUE) = Len(cached)
    BY <1>3, PopsLast
  <2>2. ~(batch_size <= 1)
    BY <1>0, <1>3
  <2>3. Handled(doc) =
          IF ~Consecutive(old, doc) THEN [write |-> <<old, doc>>, cache |-> others]
          ELSE IF Size(both) >= batch_size THEN [write |-> <<both>>, cache |-> others]
          ELSE [write |-> <<>>, cache |-> Append(others, both)]
    BY ONLY <1>3, <2>1, <2>2, doc.sres = resources, Zenon DEF Handled
  <2> HIDE DEF old, others, both
  <2>4. \/ Handled(doc) = [write |-> <<old, doc>>, cache |-> others]
        \/ Consecutive(old, doc) /\ Handled(doc) = [write |-> <<both>>, cache |-> others]
        \/ Consecutive(old, doc) /\ Handled(doc) = [write |-> <<>>, cache |-> Append(others, both)]
    BY ONLY <2>3, Zenon
  <2> QED  BY ONLY <1>3, <2>1, <2>4, Zenon DEF old, others, both
<1> QED  BY <1>0, <1>1, <1>2, <1>3

\* What is written and what is cached.
Ordered(docs) == \A i, j \in 1..Len(docs) : i < j => docs[i].sres < docs[j].sres
AllKnown(docs) == docs \in Seq(Datums) /\ \A i \in 1..Len(docs) : Known(docs[i])

LEMMA AtHand ==
  ASSUME TypeOK, Announced
  PROVE  AllKnown(todo) /\ AllKnown(cached) /\ AllKnown(Waiting)
<1>1. todo \in Seq(Datums) /\ cached \in Seq(Datums)
  BY DEF TypeOK
<1>2. ASSUME NEW i \in 1..Len(todo)  PROVE  Known(todo[i])
  <2>1. todo[i] \in Datums
    BY <1>1
  <2> QED  BY <2>1 DEF Known, Announced
<1>3. ASSUME NEW i \in 1..Len(cached)  PROVE  Known(cached[i])
  <2>1. cached[i] \in Datums
    BY <1>1
  <2> QED  BY <2>1 DEF Known, Announced
<1>4. AllKnown(todo) /\ AllKnown(cached) /\ AllKnown(<<>>)
  BY <1>1, <1>2, <1>3 DEF AllKnown
<1> QED  BY <1>4 DEF Waiting

LEMMA FrontOfCache ==
  ASSUME TypeOK, Announced, Len(cached) > 0
  PROVE  LET others == RemoveAt(cached, Len(cached)) IN
         /\ AllKnown(others) /\ Ordered(others) /\ Len(others) = Len(cached) - 1
         /\ \A i \in 1..Len(others) : others[i].sres < cached[Len(cached)].sres
<1> DEFINE others == RemoveAt(cached, Len(cached))
<1>1. cached \in Seq(Datums) /\ Len(cached) \in Nat
  BY DEF TypeOK
<1>2. /\ others \in Seq(Datums) /\ Len(others) = Len(cached) - 1
      /\ \A i \in 1..(Len(cached) - 1) : others[i] = cached[i]
  BY <1>1, WithoutLast
<1> HIDE DEF others
<1>3. ASSUME NEW i \in 1..Len(others)
      PROVE  i \in 1..Len(cached) /\ i < Len(cached) /\ others[i] = cached[i]
  BY <1>1, <1>2
<1>4. AllKnown(others)
  <2>1. ASSUME NEW i \in 1..Len(others)  PROVE  Known(others[i])
    BY <1>1, <1>3 DEF Known, Announced
  <2> QED  BY <1>2, <2>1 DEF AllKnown
<1>5. Ordered(others)
  BY <1>3 DEF Ordered, Announced
<1>6. ASSUME NEW i \in 1..Len(others)  PROVE  others[i].sres < cached[Len(cached)].sres
  <2>1. Len(cached) \in 1..Len(cached)
    BY <1>1
  <2> QED  BY <1>3, <2>1 DEF Announced
<1> QED  BY <1>2, <1>4, <1>5, <1>6 DEF others

LEMMA AppendToCache ==
  ASSUME TypeOK, NEW docs, AllKnown(docs), Ordered(docs), NEW doc, Known(doc),
         \A i \in 1..Len(docs) : docs[i].sres < doc.sres
  PROVE  AllKnown(Append(docs, doc)) /\ Ordered(Append(docs, doc))
<1> DEFINE n == Len(docs)
           all == Append(docs, doc)
<1>1. docs \in Seq(Datums) /\ doc \in Datums /\ n \in Nat
  BY DEF AllKnown, Known
<1>2. all \in Seq(Datums) /\ Len(all) = n + 1 /\ (\A i \in 1..n : all[i] = docs[i]) /\ all[n + 1] = doc
  BY ONLY <1>1, AppendProperties
<1> HIDE DEF all
<1>3. ASSUME NEW i \in 1..Len(all)  PROVE  i \in 1..n \/ i = n + 1
  BY <1>1, <1>2
<1>4. AllKnown(all)
  <2>1. ASSUME NEW i \in 1..Len(all)  PROVE  Known(all[i])
    BY <1>2, <1>3 DEF AllKnown
  <2> QED  BY <1>2, <2>1 DEF AllKnown
<1>5. Ordered(all)
  <2>1. ASSUME NEW i \in 1..Len(all), NEW j \in 1..Len(all), i < j
        PROVE  all[i].sres < all[j].sres
    <3>1. i \in 1..n /\ all[i] = docs[i]
      BY <1>1, <1>2, <2>1
    <3>2. CASE j \in 1..n
      BY <1>2, <2>1, <3>1, <3>2 DEF Ordered
    <3>3. CASE j = n + 1
      BY <1>2, <3>1, <3>3
    <3> QED  BY <1>3, <3>2, <3>3
  <2> QED  BY <2>1 DEF Ordered
<1> QED  BY <1>4, <1>5 DEF all

\* One or two datums.
LEMMA FewDatums ==
  ASSUME TypeOK, Announced, NEW d, Known(d), NEW e, Known(e)
  PROVE  /\ AllKnown(<<d>>) /\ Len(<<d>>) = 1 /\ Sums(<<d>>, Size(d))
         /\ AllKnown(<<d, e>>) /\ Len(<<d, e>>) = 2 /\ Sums(<<d, e>>, Size(d) + Size(e))
         /\ Size(d) \in Int /\ Size(e) \in Int
         /\ FilesOfAll(<<d>>) = FilesOfDatum(d)
         /\ FilesOfAll(<<d, e>>) = FilesOfDatum(d) \o FilesOfDatum(e)
<1>1. d \in Datums /\ e \in Datums /\ Size(d) \in Nat /\ Size(e) \in Nat
  BY FilesFacts DEF Known
<1>2. <<d>> = Append(<<>>, d) /\ <<d, e>> = Append(<<d>>, e) /\ <<d>> \in Seq(Datums)
      /\ <<d, e>> \in Seq(Datums)
  BY <1>1
<1>3. Sums(<<d>>, Size(d))
  <2>1. Sums(<<>>, 0)
    BY SumsEmpty
  <2>2. Sums(Append(<<>>, d), 0 + Size(d))
    BY ONLY <1>1, <2>1, SumsAppend, EmptySeq, 0 \in Int
  <2> QED  BY <1>1, <1>2, <2>2
<1>4. Sums(<<d, e>>, Size(d) + Size(e))
  <2>1. Size(d) \in Int
    BY <1>1
  <2>2. Sums(Append(<<d>>, e), Size(d) + Size(e))
    BY ONLY <1>1, <1>2, <1>3, <2>1, SumsAppend
  <2> QED  BY <1>2, <2>2
<1>5. AllKnown(<<d>>) /\ AllKnown(<<d, e>>)
  BY <1>2 DEF AllKnown
<1>6. FilesOfAll(<<d>>) = FilesOfDatum(d) /\ FilesOfAll(<<d, e>>) = FilesOfDatum(d) \o FilesOfDatum(e)
  BY DEF FilesOfAll
<1>7. Size(d) \in Int /\ Size(e) \in Int /\ Len(<<d>>) = 1 /\ Len(<<d, e>>) = 2
  BY <1>1
<1> QED  BY ONLY <1>3, <1>4, <1>5, <1>6, <1>7, Zenon

\* No frame gets lost, whatever is written and cached.
LEMMA HandledKeeps ==
  ASSUME TypeOK, Announced, NEW doc, Known(doc), doc.sres = resources,
         NEW u \in Int
  PROVE  LET h == Handled(doc) IN
         /\ AllKnown(h.write) /\ AllKnown(h.cache) /\ Ordered(h.cache)
         /\ batch_size <= 1 => h.cache = <<>>
         /\ Sums(cached, u) =>
              \E t, v \in Int : Sums(h.write, t) /\ Sums(h.cache, v) /\ t + v = u + Size(doc)
<1> DEFINE h == Handled(doc)
           n == Len(cached)
           old == cached[n]
           others == RemoveAt(cached, n)
           both == Concatenated(old, doc)
           Kept == /\ AllKnown(h.write) /\ AllKnown(h.cache) /\ Ordered(h.cache)
                   /\ batch_size <= 1 => h.cache = <<>>
                   /\ Sums(cached, u) =>
                        \E t, v \in Int :
                          Sums(h.write, t) /\ Sums(h.cache, v) /\ t + v = u + Size(doc)
<1>0. batch_size \in Nat /\ cached \in Seq(Datums) /\ n \in Nat /\ doc \in Datums
      /\ Size(doc) \in Int
  <2>1. Size(doc) \in Int
    BY FewDatums, Zenon
  <2> QED  BY <2>1 DEF TypeOK, Known
<1>1. AllKnown(cached) /\ Ordered(cached)
  BY AtHand DEF Ordered, Announced
<1>2. AllKnown(<<>>) /\ Sums(<<>>, 0)
  <2>1. Sums(<<>>, 0)
    BY SumsEmpty
  <2> QED  BY <2>1 DEF AllKnown
<1>3. CASE batch_size <= 1 /\ h = [write |-> <<doc>>, cache |-> cached]
  <2>1. h.write = <<doc>> /\ h.cache = cached
    BY <1>3
  <2>2. h.cache = <<>>
    BY <1>3, <2>1 DEF Announced
  <2>3. Sums(h.write, Size(doc)) /\ (Sums(cached, u) => Sums(h.cache, u))
    BY <2>1, FewDatums, Zenon
  <2>4. AllKnown(h.write)
    BY <2>1, FewDatums
  <2>5. Size(doc) + u = u + Size(doc)
    BY <1>0
  <2> QED  BY ONLY <1>0, <1>1, <2>1, <2>2, <2>3, <2>4, <2>5, u \in Int, Zenon
<1>4. CASE /\ batch_size > 1 /\ \A i \in 1..n : cached[i].sres # resources
           /\ h = [write |-> <<>>, cache |-> Append(cached, doc)]
  <2>1. h.write = <<>> /\ h.cache = Append(cached, doc)
    BY <1>4
  <2>2. \A i \in 1..n : cached[i].sres < doc.sres
    <3>1. ASSUME NEW i \in 1..n  PROVE  cached[i].sres < resources
      <4>1. cached[i].sres \in 1..resources /\ cached[i].sres # resources /\ resources \in Nat
        BY <1>4 DEF Announced, TypeOK
      <4> QED  BY ONLY <4>1
    <3> QED  BY <3>1
  <2>3. AllKnown(h.cache) /\ Ordered(h.cache)
    BY <1>1, <2>1, <2>2, AppendToCache
  <2>4. Sums(cached, u) => Sums(h.cache, u + Size(doc))
    BY <1>0, <2>1, SumsAppend
  <2>5. Sums(h.write, 0) /\ AllKnown(h.write) /\ ~(batch_size <= 1)
    BY <1>0, <1>2, <1>4, <2>1
  <2>6. 0 \in Int /\ u + Size(doc) \in Int /\ 0 + (u + Size(doc)) = u + Size(doc)
    BY <1>0
  <2> QED  BY ONLY <2>3, <2>4, <2>5, <2>6
<1>5. CASE n > 0 /\ batch_size > 1 /\ old.sres = resources
  <2>1. /\ AllKnown(others) /\ Ordered(others) /\ Len(others) = n - 1
        /\ \A i \in 1..Len(others) : others[i].sres < doc.sres
    BY <1>5, FrontOfCache
  <2>2. Known(old)
    <3>1. n \in 1..n
      BY <1>0, <1>5
    <3> QED  BY <1>1, <3>1 DEF AllKnown
  <2>3. (Sums(cached, u) => Sums(others, u - Size(old))) /\ Size(old) \in Int /\ ~(batch_size <= 1)
    <3>1. Sums(cached, u) => Sums(others, u - Size(old))
      BY <1>0, <1>5, SumsFront
    <3>2. Size(old) \in Int
      BY <2>2, FewDatums, Zenon
    <3>3. ~(batch_size <= 1)
      BY <1>0, <1>5
    <3> QED  BY ONLY <3>1, <3>2, <3>3, Zenon
  <2>4. CASE h = [write |-> <<old, doc>>, cache |-> others]
    <3>1. h.write = <<old, doc>> /\ h.cache = others
      BY <2>4
    <3>2. AllKnown(h.write) /\ Sums(h.write, Size(old) + Size(doc))
      BY <2>2, <3>1, FewDatums
    <3>3. (Sums(cached, u) => Sums(h.cache, u - Size(old))) /\ AllKnown(h.cache) /\ Ordered(h.cache)
      BY <2>1, <2>3, <3>1
    <3>4. /\ Size(old) + Size(doc) \in Int /\ u - Size(old) \in Int
          /\ (Size(old) + Size(doc)) + (u - Size(old)) = u + Size(doc)
      BY <1>0, <2>3
    <3> QED  BY ONLY <2>3, <3>2, <3>3, <3>4
  <2>5. ASSUME Consecutive(old, doc)
        PROVE  Known(both) /\ Size(both) = Size(old) + Size(doc) /\ both.sres = doc.sres
               /\ both \in Datums /\ Size(both) \in Int
    BY <1>0, <1>5, <2>2, <2>3, <2>5, FilesOfConcatenated DEF Known
  <2>6. CASE Consecutive(old, doc) /\ h = [write |-> <<both>>, cache |-> others]
    <3>1. h.write = <<both>> /\ h.cache = others
      BY <2>6
    <3>2. AllKnown(h.write) /\ Sums(h.write, Size(both))
      BY <2>5, <2>6, <3>1, FewDatums
    <3>3. (Sums(cached, u) => Sums(h.cache, u - Size(old))) /\ AllKnown(h.cache) /\ Ordered(h.cache)
      BY <2>1, <2>3, <3>1
    <3>4. /\ Size(both) \in Int /\ u - Size(old) \in Int
          /\ Size(both) + (u - Size(old)) = u + Size(doc)
      BY <1>0, <2>3, <2>5, <2>6
    <3> QED  BY ONLY <2>3, <3>2, <3>3, <3>4
  <2>7. CASE Consecutive(old, doc) /\ h = [write |-> <<>>, cache |-> Append(others, both)]
    <3>1. h.write = <<>> /\ h.cache = Append(others, both)
      BY <2>7
    <3>2. AllKnown(h.write) /\ Sums(h.write, 0)
      BY <1>2, <3>1
    <3>3. AllKnown(h.cache) /\ Ordered(h.cache)
      <4>1. Known(both) /\ \A i \in 1..Len(others) : others[i].sres < both.sres
        BY <2>1, <2>5, <2>7
      <4> HIDE DEF others, both, h
      <4> QED  BY <2>1, <3>1, <4>1, AppendToCache
    <3>4. Sums(cached, u) => Sums(h.cache, (u - Size(old)) + Size(both))
      <4>1. others \in Seq(Datums) /\ both \in Datums /\ u - Size(old) \in Int
        BY <1>0, <2>1, <2>3, <2>5, <2>7 DEF AllKnown
      <4> HIDE DEF others, both, h
      <4> QED  BY <2>3, <3>1, <4>1, SumsAppend
    <3>5. /\ 0 \in Int /\ (u - Size(old)) + Size(both) \in Int
          /\ 0 + ((u - Size(old)) + Size(both)) = u + Size(doc)
      BY <1>0, <2>3, <2>5, <2>7
    <3> QED  BY ONLY <2>3, <3>2, <3>3, <3>4, <3>5
  <2>8. \/ h = [write |-> <<old, doc>>, cache |-> others]
        \/ Consecutive(old, doc) /\ h = [write |-> <<both>>, cache |-> others]
        \/ Consecutive(old, doc) /\ h = [write |-> <<>>, cache |-> Append(others, both)]
    <3>1. \/ batch_size <= 1
          \/ \A i \in 1..n : cached[i].sres # resources
          \/ \/ h = [write |-> <<old, doc>>, cache |-> others]
             \/ Consecutive(old, doc) /\ h = [write |-> <<both>>, cache |-> others]
             \/ Consecutive(old, doc) /\ h = [write |-> <<>>, cache |-> Append(others, both)]
      BY HandledCases, Zenon
    <3>2. n \in 1..n
      BY <1>0, <1>5
    <3> QED  BY ONLY <1>5, <2>3, <3>1, <3>2, Zenon
  <2> QED  BY ONLY <2>4, <2>6, <2>7, <2>8, Zenon
<1>6. \/ batch_size <= 1 /\ h = [write |-> <<doc>>, cache |-> cached]
      \/ /\ batch_size > 1 /\ \A i \in 1..n : cached[i].sres # resources
         /\ h = [write |-> <<>>, cache |-> Append(cached, doc)]
      \/ n > 0 /\ batch_size > 1 /\ old.sres = resources
  BY HandledCases, Zenon
<1> QED  BY ONLY <1>3, <1>4, <1>5, <1>6, Zenon

\* With one StreamResource in the cache at most, the files stay in order.
LEMMA HandledFiles ==
  ASSUME TypeOK, Announced, NEW doc, Known(doc), doc.sres = resources,
         Len(cached) <= 1, \A i \in 1..Len(cached) : cached[i].sres = resources
  PROVE  LET h == Handled(doc) IN
         /\ Len(h.write) <= 2 /\ Len(h.cache) <= 1
         /\ \A i \in 1..Len(h.write) : h.write[i].sres = resources
         /\ FilesOfAll(h.write) \o FilesOfAll(h.cache) = FilesOfAll(cached) \o FilesOfDatum(doc)
<1> DEFINE h == Handled(doc)
           n == Len(cached)
           old == cached[n]
           others == RemoveAt(cached, n)
           both == Concatenated(old, doc)
           f == FilesOfDatum(doc)
<1>0. batch_size \in Nat /\ cached \in Seq(Datums) /\ n \in Nat /\ n <= 1
  BY DEF TypeOK
<1>1. f \in Seq(FileNames) /\ f \o <<>> = f /\ <<>> \o f = f /\ FilesOfAll(<<doc>>) = f
      /\ Len(<<doc>>) = 1 /\ FilesOfAll(<<>>) = <<>> /\ Len(<<>>) = 0
  <2>1. f \in Seq(FileNames)
    BY FilesFacts, Zenon
  <2>2. f \o <<>> = f /\ <<>> \o f = f
    BY ONLY <2>1, ConcatEmptySeq
  <2>3. FilesOfAll(<<doc>>) = f /\ FilesOfAll(<<>>) = <<>> /\ Len(<<doc>>) = 1 /\ Len(<<>>) = 0
    BY DEF FilesOfAll
  <2> QED  BY <2>1, <2>2, <2>3
<1>2. CASE batch_size <= 1 /\ h = [write |-> <<doc>>, cache |-> cached]
  <2>1. h.write = <<doc>> /\ h.cache = <<>> /\ cached = <<>>
    BY <1>2 DEF Announced
  <2>2. Len(h.write) <= 2 /\ Len(h.cache) <= 1 /\ \A i \in 1..Len(h.write) : h.write[i].sres = resources
    BY <2>1
  <2> QED  BY ONLY <1>1, <2>1, <2>2, Zenon
<1>3. CASE /\ \A i \in 1..n : cached[i].sres # resources
           /\ h = [write |-> <<>>, cache |-> Append(cached, doc)]
  <2>1. cached = <<>>
    <3>1. n = 0
      <4>1. 1 \notin 1..n
        BY <1>3
      <4> QED  BY ONLY <1>0, <4>1
    <3> QED  BY <1>0, <3>1
  <2>2. h.write = <<>> /\ h.cache = <<doc>>
    BY <1>3, <2>1
  <2>3. Len(h.write) <= 2 /\ Len(h.cache) <= 1 /\ \A i \in 1..Len(h.write) : h.write[i].sres = resources
    BY <2>2
  <2> QED  BY ONLY <1>1, <2>1, <2>2, <2>3, Zenon
<1>4. CASE n > 0 /\ old.sres = resources
  <2>1. n = 1 /\ n \in 1..n
    BY <1>0, <1>4
  <2>2. others = <<>>
    <3>1. others \in Seq(Datums) /\ Len(others) = n - 1
      BY <1>0, <1>4, WithoutLast
    <3>2. Len(others) = 0
      BY <2>1, <3>1
    <3> QED  BY <3>1, <3>2
  <2>3. Known(old) /\ FilesOfAll(cached) = FilesOfDatum(old)
    <3>1. FilesOfAll(cached) = FilesOfDatum(old)
      BY <2>1 DEF FilesOfAll
    <3>2. Known(old)
      BY <1>0, <2>1 DEF Known, Announced
    <3> QED  BY <3>1, <3>2
  <2>4. ~(batch_size <= 1)
    <3>1. batch_size <= 1 => cached = <<>>
      BY DEF Announced
    <3>2. cached # <<>>
      BY <2>1
    <3> QED  BY <3>1, <3>2
  <2>5. CASE h = [write |-> <<old, doc>>, cache |-> others]
    <3>1. h.write = <<old, doc>> /\ h.cache = <<>>
      BY <2>2, <2>5
    <3>2. Len(h.write) <= 2 /\ Len(h.cache) <= 1 /\ \A i \in 1..Len(h.write) : h.write[i].sres = resources
      BY <1>4, <3>1
    <3>3. FilesOfAll(h.write) = FilesOfDatum(old) \o f
      BY <3>1 DEF FilesOfAll
    <3>4. FilesOfDatum(old) \in Seq(FileNames)
      BY <2>3, FilesFacts, Zenon
    <3>5. FilesOfDatum(old) \o f \in Seq(FileNames)
      BY ONLY <1>1, <3>4, ConcatProperties
    <3>6. (FilesOfDatum(old) \o f) \o <<>> = FilesOfDatum(old) \o f
      BY ONLY <3>5, ConcatEmptySeq
    <3> QED  BY ONLY <1>1, <2>3, <3>1, <3>2, <3>3, <3>6, Zenon
  <2>6. CASE Consecutive(old, doc)
    <3>1. /\ Known(both) /\ both.sres = resources
          /\ FilesOfDatum(both) = FilesOfDatum(old) \o f
      BY <1>4, <2>3, <2>6, FilesOfConcatenated, Zenon
    <3>2. FilesOfDatum(both) \in Seq(FileNames)
      BY <3>1, FilesFacts, Zenon
    <3> HIDE DEF both
    <3>3. FilesOfDatum(both) \o <<>> = FilesOfDatum(both) /\ <<>> \o FilesOfDatum(both) = FilesOfDatum(both)
      BY ONLY <3>2, ConcatEmptySeq
    <3>4. FilesOfAll(<<both>>) = FilesOfDatum(both)
      BY DEF FilesOfAll
    <3>5. CASE h = [write |-> <<both>>, cache |-> others]
      <4>1. h.write = <<both>> /\ h.cache = <<>>
        BY <2>2, <3>5
      <4>2. Len(h.write) <= 2 /\ Len(h.cache) <= 1 /\ \A i \in 1..Len(h.write) : h.write[i].sres = resources
        BY <3>1, <4>1
      <4> QED  BY ONLY <1>1, <2>3, <3>1, <3>3, <3>4, <4>1, <4>2, Zenon
    <3>6. CASE h = [write |-> <<>>, cache |-> Append(others, both)]
      <4>1. h.write = <<>> /\ h.cache = <<both>>
        BY <2>2, <3>6
      <4>2. Len(h.write) <= 2 /\ Len(h.cache) <= 1 /\ \A i \in 1..Len(h.write) : h.write[i].sres = resources
        BY <3>1, <4>1
      <4> QED  BY ONLY <1>1, <2>3, <3>1, <3>3, <3>4, <4>1, <4>2, Zenon
    <3>7. \/ h = [write |-> <<both>>, cache |-> others]
          \/ h = [write |-> <<>>, cache |-> Append(others, both)]
          \/ h = [write |-> <<old, doc>>, cache |-> others]
      <4>1. \/ batch_size <= 1
            \/ \A i \in 1..n : cached[i].sres # resources
            \/ h = [write |-> <<both>>, cache |-> others]
            \/ h = [write |-> <<>>, cache |-> Append(others, both)]
            \/ h = [write |-> <<old, doc>>, cache |-> others]
        BY HandledCases, Zenon DEF both
      <4> QED  BY ONLY <1>4, <2>1, <2>4, <4>1, Zenon
    <3> QED  BY ONLY <2>5, <3>5, <3>6, <3>7, Zenon
  <2>7. CASE ~Consecutive(old, doc)
    <3>1. \/ batch_size <= 1
          \/ \A i \in 1..n : cached[i].sres # resources
          \/ h = [write |-> <<old, doc>>, cache |-> others]
          \/ Consecutive(old, doc)
      BY HandledCases, Zenon
    <3> QED  BY ONLY <1>4, <2>1, <2>5, <2>7, <2>4, <3>1, Zenon
  <2> QED  BY ONLY <2>6, <2>7, Zenon
<1>5. \/ batch_size <= 1 /\ h = [write |-> <<doc>>, cache |-> cached]
      \/ /\ \A i \in 1..n : cached[i].sres # resources
         /\ h = [write |-> <<>>, cache |-> Append(cached, doc)]
      \/ n > 0 /\ old.sres = resources
  BY HandledCases, Zenon
<1> QED  BY ONLY <1>2, <1>3, <1>4, <1>5, Zenon
-----------------------------------------------------------------------------
(***************************************************************************)
(* The steps                                                               *)
(***************************************************************************)
\* The frames stay as they are counted when nothing of the writer moves.
LEMMA UnchangedKeeps ==
  ASSUME IInv, UNCHANGED vars
  PROVE  IInv'
<1>1. /\ UNCHANGED <<batch_size, backed, pc, stopping, raised, cached, todo, registered, cons, fresh>>
      /\ UNCHANGED <<made, source, patches, stopDoc, resources, index, first, frames, gaps, faults>>
  BY DEF vars, options, writer, server, run
<1>2. TypeOK' /\ Control' /\ Announced'
  BY <1>1 DEF IInv, TypeOK, Control, Announced
<1>3. Counted'
  BY <1>1 DEF IInv, Counted, Working, Waiting
<1>4. Patched'
  BY <1>1 DEF IInv, Patched, PatchesTile, Working
<1>5. Named'
  BY <1>1 DEF IInv, Named, Working, Waiting, Unmixed, FilesOfAll, FilesOfDatum, FilesOf
<1>6. AssetsAreFramesUnmixed'
  BY <1>1 DEF IInv, AssetsAreFramesUnmixed, AssetsAreFrames, Unmixed
<1> QED  BY <1>2, <1>3, <1>4, <1>5, <1>6 DEF IInv

\* stream_resource()
LEMMA StreamResourceKeeps ==
  ASSUME IInv, StreamResource
  PROVE  IInv'
<1>0. TypeOK /\ Control /\ Announced /\ Counted /\ Patched /\ Named /\ AssetsAreFramesUnmixed
  BY DEF IInv
<1>u. /\ pc = "idle" /\ ~stopping /\ (backed => ~raised)
      /\ resources' = resources + 1 /\ first' = Append(first, index)
      /\ UNCHANGED <<batch_size, backed, pc, stopping, raised, cached, todo, registered, cons, fresh>>
      /\ UNCHANGED <<made, source, patches, stopDoc, index, frames, gaps, faults>>
  BY DEF StreamResource, Receiving, options, writer, server
<1>1. TypeOK'
  BY <1>0, <1>u DEF TypeOK
<1>2. Control'
  BY <1>0, <1>u DEF Control
<1>3. Len(first) = resources /\ first \in Seq(Nat) /\ index \in Nat /\ resources \in Nat
  BY <1>0 DEF TypeOK, Announced
<1>4. Len(first') = resources + 1 /\ first'[resources + 1] = index
  BY <1>3, <1>u, AppendProperties
<1>5. Announced'
  <2>1. 1..resources \subseteq 1..(resources + 1) /\ resources + 1 # 0
    BY <1>3
  <2> QED  BY <1>0, <1>4, <1>u, <2>1 DEF Announced
<1>6. Counted'
  BY <1>0, <1>u DEF Counted, Working, Waiting
<1>7. Patched'
  BY <1>0, <1>u DEF Patched, PatchesTile, Working
<1>8. AssetsAreFramesUnmixed'
  <2>1. Unmixed' => Unmixed
    BY <1>3, <1>u DEF Unmixed
  <2> QED  BY <1>0, <1>u, <2>1 DEF AssetsAreFramesUnmixed, AssetsAreFrames
<1>9. Named'
  <2> SUFFICES ASSUME Working, Unmixed'
               PROVE  Named'
    BY <1>u DEF Named, Working
  <2>1. todo = <<>> /\ Waiting = cached /\ Waiting' = cached
    BY <1>0, <1>u DEF Control, Waiting
  <2>2. cached = <<>> /\ index = Len(frames)
    <3>1. CASE resources = 0
      <4>1. Len(cached) = 0
        <5>1. 1 \notin 1..Len(cached)
          BY <1>0, <3>1 DEF Announced
        <5> QED  BY <1>0, <5>1 DEF TypeOK
      <4>2. index = Len(frames)
        <5>1. index = 0 /\ index = Len(frames) + gaps /\ gaps \in Nat /\ Len(frames) \in Nat
          BY <1>0, <3>1 DEF Announced, TypeOK
        <5> QED  BY ONLY <5>1
      <4> QED  BY <1>0, <4>1, <4>2 DEF TypeOK
    <3>2. CASE resources # 0
      <4>1. batch_size <= 1 /\ gaps = 0
        BY <1>3, <1>u, <3>2 DEF Unmixed
      <4>2. Len(frames) \in Nat
        BY <1>0 DEF TypeOK
      <4> QED  BY <1>0, <4>1, <4>2 DEF Announced
    <3> QED  BY <3>1, <3>2
  <2>3. Unmixed
    BY <1>3, <1>u DEF Unmixed
  <2>4. frames = cons.files /\ FilesOfAll(<<>>) = <<>> /\ FilesOfAll(<<>>)' = <<>>
    <3>1. frames = cons.files \o (FilesOfAll(<<>>) \o FilesOfAll(<<>>)) /\ FilesOfAll(<<>>) = <<>>
      BY <1>0, <2>1, <2>2, <2>3, Zenon DEF Named, FilesOfAll
    <3>2. cons.files \in Seq(FileNames)
      BY <1>0 DEF TypeOK
    <3>3. cons.files \o (<<>> \o <<>>) = cons.files
      BY ONLY <3>2, ConcatEmptySeq, EmptySeq
    <3> QED  BY <3>1, <3>3 DEF FilesOfAll
  <2>5. resources' \notin registered
    BY <1>0, <1>3, <1>u DEF Announced
  <2>6. first'[resources'] = Len(cons.files)
    BY <1>4, <1>u, <2>2, <2>4
  <2>7. frames' = cons'.files \o (FilesOfAll(todo)' \o FilesOfAll(Waiting)')
    <3>1. FilesOfAll(todo)' = <<>> /\ FilesOfAll(Waiting)' = <<>>
      BY <1>u, <2>1, <2>2 DEF FilesOfAll
    <3>2. cons.files \in Seq(FileNames)
      BY <1>0 DEF TypeOK
    <3>3. cons.files \o (<<>> \o <<>>) = cons.files
      BY ONLY <3>2, ConcatEmptySeq, EmptySeq
    <3> QED  BY <1>u, <2>4, <3>1, <3>3
  <2>8. Len(todo') <= 2 /\ Len(Waiting') <= 1 /\ \A i \in 1..Len(todo') : todo'[i].sres = resources'
    BY <1>u, <2>1, <2>2
  <2> QED  BY <1>u, <2>5, <2>6, <2>7, <2>8 DEF Named
<1> QED  BY <1>1, <1>2, <1>5, <1>6, <1>7, <1>8, <1>9 DEF IInv

\* stream_datum()
LEMMA StreamDatumKeeps ==
  ASSUME IInv, NEW size \in 1..MaxDatum, NEW gap \in 0..1, StreamDatum(size, gap)
  PROVE  IInv'
<1> DEFINE doc == Datum(resources, index + gap, index + gap + size)
           h == Handled(doc)
<1>0. TypeOK /\ Control /\ Announced /\ Counted /\ Patched /\ Named /\ AssetsAreFramesUnmixed
  BY DEF IInv
<1>u. /\ pc = "idle" /\ ~stopping /\ (backed => ~raised) /\ resources > 0
      /\ gaps' = gaps + gap /\ index' = doc.stop /\ frames' = frames \o FilesOfDatum(doc)
      /\ cached' = h.cache /\ todo' = h.write
      /\ pc' = IF todo' = <<>> THEN "idle" ELSE "consume"
      /\ UNCHANGED <<batch_size, backed, stopping, raised, registered, cons, fresh>>
      /\ UNCHANGED <<made, source, patches, stopDoc, resources, first, faults>>
  BY DEF StreamDatum, Receiving, options, server, FilesOfDatum, Datum
<1>1. /\ index \in Nat /\ gaps \in Nat /\ resources \in Nat /\ size \in Nat /\ gap \in Nat
      /\ Len(frames) \in Nat /\ frames \in Seq(FileNames) /\ size > 0 /\ batch_size \in Nat
  <2>1. size \in Nat /\ size > 0
    BY SizesAssumption
  <2> QED  BY <1>0, <2>1 DEF TypeOK
<1>2. /\ doc.sres = resources /\ doc.start = index + gap /\ doc.stop = index + gap + size
      /\ Known(doc) /\ Size(doc) = size
  BY <1>1, <1>u DEF Datum, Datums, Known, Size
<1> HIDE DEF doc, h
<1>3. PICK t \in Int, u \in Int :
        Working => Sums(todo, t) /\ Sums(Waiting, u) /\ cons.rows + t + u = Len(frames)
  <2>1. 0 \in Int
    OBVIOUS
  <2> QED  BY ONLY <1>0, <2>1, Zenon DEF Counted
<1>4. /\ AllKnown(h.write) /\ AllKnown(h.cache) /\ Ordered(h.cache)
      /\ batch_size <= 1 => h.cache = <<>>
  <2>1. 0 \in Int
    OBVIOUS
  <2> QED  BY <1>0, <1>2, <2>1, HandledKeeps DEF h
<1>5. FilesOfDatum(doc) \in Seq(FileNames) /\ Len(FilesOfDatum(doc)) = size
  BY <1>0, <1>2, FilesFacts
<1>6. frames' \in Seq(FileNames) /\ Len(frames') = Len(frames) + size
  BY ONLY <1>1, <1>5, <1>u, ConcatProperties
<1>7. TypeOK'
  <2>1. h.write \in Seq(Datums) /\ h.cache \in Seq(Datums)
    BY <1>4 DEF AllKnown
  <2>2. index' \in Nat /\ gaps' \in Nat
    BY <1>1, <1>2, <1>u
  <2> QED  BY <1>0, <1>6, <1>u, <2>1, <2>2 DEF TypeOK
<1>8. Control'
  BY <1>0, <1>u DEF Control
<1>9. Announced'
  <2>1. resources' = 0 => index' = 0
    BY <1>1, <1>u
  <2>2. index' = Len(frames') + gaps'
    <3>1. index = Len(frames) + gaps
      BY <1>0 DEF Announced
    <3> QED  BY <1>1, <1>2, <1>6, <1>u, <3>1
  <2>3. \A i \in 1..Len(todo') : todo'[i].sres \in 1..resources' /\ todo'[i].start <= todo'[i].stop
    BY <1>4, <1>u DEF AllKnown, Known
  <2>4. \A i \in 1..Len(cached') : cached'[i].sres \in 1..resources' /\ cached'[i].start <= cached'[i].stop
    BY <1>4, <1>u DEF AllKnown, Known
  <2>5. \A i, j \in 1..Len(cached') : i < j => cached'[i].sres < cached'[j].sres
    BY <1>4, <1>u DEF Ordered
  <2> QED  BY <1>0, <1>4, <1>u, <2>1, <2>2, <2>3, <2>4, <2>5 DEF Announced
<1>10. Counted'
  <2>1. cons'.rows = Len(cons'.files) /\ source'.rows = Len(source'.files)
    BY <1>0, <1>u DEF Counted
  <2>2. ~stopDoc
    BY <1>0, <1>u DEF Control
  <2>3. ASSUME Working
        PROVE  /\ fresh' <= cons'.rows /\ (pc' \in {"idle", "stop"} => fresh' = 0)
               /\ \E t1, u1 \in Int :
                    Sums(todo', t1) /\ Sums(Waiting', u1) /\ cons'.rows + t1 + u1 = Len(frames')
    <3>1. todo = <<>> /\ Waiting = cached /\ Waiting' = h.cache
      BY <1>0, <1>u DEF Control, Waiting
    <3>2. t = 0 /\ Sums(cached, u)
      BY <1>3, <2>3, <3>1, SumsEmpty
    <3>3. PICK t1, v \in Int : Sums(h.write, t1) /\ Sums(h.cache, v) /\ t1 + v = u + Size(doc)
      BY <1>0, <1>2, <3>2, HandledKeeps DEF h
    <3>4. cons.rows + t1 + v = Len(frames')
      <4> DEFINE a == cons.rows
                 n == Len(frames)
                 n1 == Len(frames')
      <4>1. a \in Int /\ n \in Int /\ size \in Int
        BY <1>0, <1>1 DEF TypeOK
      <4>2. n1 = n + size
        BY <1>6
      <4>3. a + t + u = n
        BY <1>3, <2>3
      <4>4. t1 + v = u + size /\ t = 0
        BY ONLY <1>2, <3>2, <3>3, Zenon
      <4> HIDE DEF a, n, n1
      <4>5. a + t1 + v = n1
        BY ONLY <4>1, <4>2, <4>3, <4>4
      <4> QED  BY ONLY <4>5 DEF a, n1
    <3>5. Sums(todo', t1) /\ Sums(Waiting', v) /\ cons'.rows + t1 + v = Len(frames')
      BY <1>u, <3>1, <3>3, <3>4
    <3>6. fresh' <= cons'.rows /\ fresh' = 0
      BY <1>0, <1>u, <2>3 DEF Counted
    <3> QED  BY <3>5, <3>6
  <2> QED  BY <1>u, <2>1, <2>2, <2>3 DEF Counted, Working
<1>11. Patched'
  <2>1. PatchesTile'
    BY <1>0, <1>u DEF Patched, PatchesTile
  <2> QED  BY <1>0, <1>u, <2>1 DEF Patched, Working
<1>12. Unmixed' => Unmixed /\ gaps' = gaps + gap
  BY <1>1, <1>u DEF Unmixed
<1>13. AssetsAreFramesUnmixed'
  <2> SUFFICES ASSUME Unmixed', backed
               PROVE  AssetsAreFrames'
    BY <1>u DEF AssetsAreFramesUnmixed, AssetsAreFrames
  <2>1. /\ Len(source.files) <= Len(frames)
        /\ \A n \in 1..Len(source.files) : source.files[n] = frames[n]
    BY <1>0, <1>12 DEF AssetsAreFramesUnmixed, AssetsAreFrames
  <2>2. \A n \in 1..Len(frames) : frames'[n] = frames[n]
    <3>1. \A n \in 1..(Len(frames) + Len(FilesOfDatum(doc))) :
            frames'[n] = IF n <= Len(frames) THEN frames[n] ELSE FilesOfDatum(doc)[n - Len(frames)]
      BY ONLY <1>1, <1>5, <1>u, ConcatProperties
    <3> QED  BY <1>1, <1>5, <3>1
  <2>3. Len(source.files) \in Nat
    BY <1>0 DEF TypeOK
  <2> QED  BY <1>1, <1>6, <1>u, <2>1, <2>2, <2>3 DEF AssetsAreFrames
<1>14. Named'
  <2> SUFFICES ASSUME Working, Unmixed'
               PROVE  Named'
    BY <1>u DEF Named, Working
  <2>1. todo = <<>> /\ Waiting = cached /\ Waiting' = h.cache
    BY <1>0, <1>u DEF Control, Waiting
  <2>2. /\ resources \in registered => cons.template = resources /\ cons.offset = first[resources]
        /\ resources > 0 /\ resources \notin registered => first[resources] = Len(cons.files)
        /\ Len(cached) <= 1
        /\ frames = cons.files \o (FilesOfAll(todo) \o FilesOfAll(cached))
    BY <1>0, <1>12, <2>1 DEF Named
  <2>3. \A i \in 1..Len(cached) : cached[i].sres = resources
    <3>1. CASE resources = 1
      BY <1>0, <3>1 DEF Announced
    <3>2. CASE resources # 1
      <4>1. batch_size <= 1
        BY <1>1, <1>u, <3>2 DEF Unmixed
      <4>2. cached = <<>>
        BY <1>0, <4>1 DEF Announced
      <4> QED  BY <4>2
    <3> QED  BY <3>1, <3>2
  <2>4. /\ Len(h.write) <= 2 /\ Len(h.cache) <= 1
        /\ \A i \in 1..Len(h.write) : h.write[i].sres = resources
        /\ FilesOfAll(h.write) \o FilesOfAll(h.cache) = FilesOfAll(cached) \o FilesOfDatum(doc)
    BY <1>0, <1>2, <2>2, <2>3, HandledFiles DEF h
  <2>5. frames' = cons.files \o (FilesOfAll(h.write) \o FilesOfAll(h.cache))
    <3>1. cons.files \in Seq(FileNames) /\ FilesOfAll(cached) \in Seq(FileNames)
      <4>1. cached \in Seq(Datums) /\ Len(cached) <= 2 /\ \A i \in 1..Len(cached) : Known(cached[i])
        BY <1>0, <2>2, AtHand DEF AllKnown
      <4>2. FilesOfAll(cached) \in Seq(FileNames)
        BY <1>0, <4>1, FilesOfAllFacts
      <4> QED  BY <1>0, <4>2 DEF TypeOK
    <3>2. FilesOfAll(todo) \o FilesOfAll(cached) = FilesOfAll(cached)
      <4>1. FilesOfAll(todo) = <<>>
        BY <2>1 DEF FilesOfAll
      <4>2. <<>> \o FilesOfAll(cached) = FilesOfAll(cached)
        BY ONLY <3>1, ConcatEmptySeq
      <4> QED  BY <4>1, <4>2
    <3>3. (cons.files \o FilesOfAll(cached)) \o FilesOfDatum(doc)
            = cons.files \o (FilesOfAll(cached) \o FilesOfDatum(doc))
      <4>1. FilesOfDatum(doc) \in Seq(FileNames)
        BY <1>5
      <4> QED  BY ONLY <3>1, <4>1, Associative, Zenon
    <3> QED  BY ONLY <1>u, <2>2, <2>4, <3>2, <3>3, Zenon
  <2>6. FilesOfAll(todo)' = FilesOfAll(h.write) /\ FilesOfAll(Waiting)' = FilesOfAll(h.cache)
    BY <1>u, <2>1 DEF FilesOfAll, FilesOfDatum, FilesOf
  <2> QED  BY ONLY <1>u, <2>1, <2>2, <2>4, <2>5, <2>6 DEF Named
<1> QED  BY <1>7, <1>8, <1>9, <1>10, <1>11, <1>13, <1>14 DEF IInv

\* _update_consolidator()
LEMMA ConsumeKeeps ==
  ASSUME IInv, Consume
  PROVE  IInv'
<1> DEFINE doc == Head(todo)
           c == Pointed(doc.sres)
           f == [k \in 1..Size(doc) |-> <<c.template, doc.start + k - 1 - c.offset>>]
<1>0. TypeOK /\ Control /\ Announced /\ Counted /\ Patched /\ Named /\ AssetsAreFramesUnmixed
  BY DEF IInv
<1>1. /\ todo \in Seq(Datums) /\ todo # <<>> /\ pc = "consume"
      /\ cons \in [rows : Nat, files : Seq(FileNames), template : Nat, offset : Nat]
  BY <1>0 DEF TypeOK, Control, Consume
<1>2. /\ doc \in Datums /\ doc = todo[1] /\ Tail(todo) \in Seq(Datums) /\ Len(todo) \in Nat
      /\ Len(todo) > 0 /\ Len(Tail(todo)) = Len(todo) - 1
      /\ \A i \in 1..Len(Tail(todo)) : Tail(todo)[i] = todo[i + 1] /\ i + 1 \in 1..Len(todo)
  BY <1>1, HeadTailProperties
<1>3. Known(doc) /\ doc.sres \in Nat /\ doc.start \in Nat
  BY <1>0, <1>2 DEF Known, Announced, Datums
<1>4. Size(doc) \in Nat
  BY <1>0, <1>3, FilesFacts
<1>5. /\ c \in [rows : Nat, files : Seq(FileNames), template : Nat, offset : Nat]
      /\ c.rows = cons.rows /\ c.files = cons.files
  <2> HIDE DEF doc
  <2>1. Len(cons.files) \in Nat /\ cons.files \in Seq(FileNames) /\ doc.sres \in Nat
    BY <1>1, <1>3
  <2> DEFINE e == [cons EXCEPT !.template = doc.sres, !.offset = Len(cons.files)]
  <2>2. /\ e \in [rows : Nat, files : Seq(FileNames), template : Nat, offset : Nat]
        /\ e.rows = cons.rows /\ e.files = cons.files
    BY <1>1, <2>1
  <2>3. c = cons \/ c = e
    BY DEF Pointed
  <2> QED  BY <1>1, <2>2, <2>3
<1> HIDE DEF doc, c
<1>6. f \in Seq(FileNames) /\ Len(f) = Size(doc)
  <2>1. \A k \in 1..Size(doc) : <<c.template, doc.start + k - 1 - c.offset>> \in FileNames
    BY <1>3, <1>4, <1>5 DEF FileNames
  <2> QED  BY <1>4, <2>1
<1>u. /\ pc' = IF stopping /\ todo' # <<>> THEN "consume" ELSE "send"
      /\ todo' = Tail(todo) /\ made' = TRUE /\ registered' = registered \cup {doc.sres}
      /\ fresh' = fresh + Size(doc)
      /\ UNCHANGED <<batch_size, backed, stopping, cached, raised, source, patches, stopDoc>>
      /\ UNCHANGED <<resources, index, first, frames, gaps, faults>>
  BY DEF Consume, options, run, doc
<1>7. cons' = [c EXCEPT !.rows = c.rows + Size(doc), !.files = c.files \o f]
  BY DEF Consume, Consumed, doc, c
<1> HIDE DEF f
<1>8. c.files \o f \in Seq(FileNames) /\ Len(c.files \o f) = Len(c.files) + Len(f)
  BY ONLY <1>5, <1>6, ConcatProperties
<1>9. /\ cons' \in [rows : Nat, files : Seq(FileNames), template : Nat, offset : Nat]
      /\ cons'.rows = cons.rows + Size(doc) /\ cons'.files = cons.files \o f
      /\ cons'.template = c.template /\ cons'.offset = c.offset
  <2>1. c.rows \in Nat /\ c.rows + Size(doc) \in Nat
    BY <1>4, <1>5
  <2> DEFINE files == c.files \o f
             rows == c.rows + Size(doc)
  <2>2. files \in Seq(FileNames) /\ rows \in Nat /\ cons' = [c EXCEPT !.rows = rows, !.files = files]
    BY <1>7, <1>8, <2>1
  <2> HIDE DEF files, rows
  <2>3. /\ cons' \in [rows : Nat, files : Seq(FileNames), template : Nat, offset : Nat]
        /\ cons'.rows = rows /\ cons'.files = files
        /\ cons'.template = c.template /\ cons'.offset = c.offset
    BY ONLY <1>5, <2>2
  <2> QED  BY ONLY <1>5, <2>3, Zenon DEF files, rows
<1>10. TypeOK'
  <2>1. registered' \subseteq Nat /\ made' \in BOOLEAN /\ pc' \in {"idle", "consume", "send", "stop"}
    BY <1>0, <1>3, <1>u DEF TypeOK
  <2>2. fresh' \in Nat
    BY <1>0, <1>4, <1>u DEF TypeOK
  <2>3. todo' \in Seq(Datums) /\ cached' \in Seq(Datums)
    BY <1>0, <1>2, <1>u DEF TypeOK
  <2> QED  BY <1>0, <1>9, <1>u, <2>1, <2>2, <2>3 DEF TypeOK
<1>11. Control'
  BY <1>0, <1>1, <1>u DEF Control
<1>12. Announced'
  BY <1>0, <1>2, <1>3, <1>u DEF Announced, Known
<1>13. Counted'
  <2>1. cons'.rows = Len(cons'.files) /\ source'.rows = Len(source'.files)
    BY <1>0, <1>5, <1>6, <1>8, <1>9, <1>u DEF Counted
  <2>2. ~stopDoc
    BY <1>0, <1>1 DEF Control
  <2>3. ASSUME Working
        PROVE  /\ fresh' <= cons'.rows /\ (pc' \in {"idle", "stop"} => fresh' = 0)
               /\ \E t1, u1 \in Int :
                    Sums(todo', t1) /\ Sums(Waiting', u1) /\ cons'.rows + t1 + u1 = Len(frames')
    <3>1. PICK t \in Int, u \in Int :
            Sums(todo, t) /\ Sums(Waiting, u) /\ cons.rows + t + u = Len(frames)
      BY <1>0, <2>3 DEF Counted
    <3>2. Sums(Tail(todo), t - Size(doc))
      BY <1>1, <3>1, SumsTail DEF doc
    <3>3. t - Size(doc) \in Int /\ cons.rows \in Nat /\ fresh \in Nat /\ fresh <= cons.rows
      BY <1>0, <1>4, <2>3 DEF TypeOK, Counted
    <3>4. (cons.rows + Size(doc)) + (t - Size(doc)) + u = cons.rows + t + u
      BY <1>4, <3>3
    <3>5. Sums(Waiting', u)
      BY <1>u, <3>1 DEF Waiting
    <3>6. fresh' <= cons'.rows /\ pc' \notin {"idle", "stop"}
      BY <1>4, <1>9, <1>u, <3>3
    <3> QED  BY <1>9, <1>u, <3>1, <3>2, <3>3, <3>4, <3>5, <3>6
  <2> QED  BY <1>u, <2>1, <2>2, <2>3 DEF Counted, Working
<1>14. Patched'
  <2>1. PatchesTile'
    BY <1>0, <1>u DEF Patched, PatchesTile
  <2>2. ASSUME Working
        PROVE  source'.rows = cons'.rows - fresh' /\ (patches' = <<>> => source'.rows = 0)
    <3>1. source.rows = cons.rows - fresh /\ (patches = <<>> => source.rows = 0)
      BY <1>0, <1>1, <2>2 DEF Patched
    <3>2. cons.rows \in Nat /\ fresh \in Nat
      BY <1>0 DEF TypeOK
    <3> QED  BY <1>4, <1>9, <1>u, <3>1, <3>2
  <2> QED  BY <1>u, <2>1, <2>2 DEF Patched, Working
<1>15. AssetsAreFramesUnmixed'
  BY <1>0, <1>u DEF AssetsAreFramesUnmixed, AssetsAreFrames, Unmixed
<1>16. Named'
  <2> SUFFICES ASSUME Working, Unmixed
               PROVE  Named'
    BY <1>u DEF Named, Working, Unmixed
  <2>1. /\ resources \in registered => cons.template = resources /\ cons.offset = first[resources]
        /\ resources > 0 /\ resources \notin registered => first[resources] = Len(cons.files)
        /\ Len(todo) <= 2 /\ Len(Waiting) <= 1
        /\ \A i \in 1..Len(todo) : todo[i].sres = resources
        /\ frames = cons.files \o (FilesOfAll(todo) \o FilesOfAll(Waiting))
    BY <1>0 DEF Named
  <2>2. doc.sres = resources /\ resources > 0
    BY <1>2, <1>3, <2>1 DEF Known
  <2>3. c.template = resources /\ c.offset = first[resources]
    <3>1. CASE resources \in registered
      BY <2>1, <2>2, <3>1 DEF c, Pointed
    <3>2. CASE resources \notin registered
      BY <1>1, <2>1, <2>2, <3>2 DEF c, Pointed
    <3> QED  BY <3>1, <3>2
  <2>4. f = FilesOfDatum(doc)
    BY <2>2, <2>3 DEF f, FilesOfDatum, FilesOf, Size
  <2>5. Waiting' = Waiting /\ FilesOfAll(Waiting)' = FilesOfAll(Waiting)
        /\ FilesOfAll(todo)' = FilesOfAll(Tail(todo))
    BY <1>u DEF Waiting, FilesOfAll, FilesOfDatum, FilesOf
  <2>6. \A i \in 1..Len(todo) : Known(todo[i])
    BY <1>0, AtHand DEF AllKnown
  <2>7. /\ FilesOfAll(Tail(todo)) \in Seq(FileNames)
        /\ FilesOfAll(todo) = f \o FilesOfAll(Tail(todo))
    BY <1>0, <1>1, <2>1, <2>4, <2>6, FilesOfAllFacts DEF doc
  <2>8. FilesOfAll(Waiting) \in Seq(FileNames)
    <3>1. Waiting \in Seq(Datums) /\ Len(Waiting) <= 2 /\ \A i \in 1..Len(Waiting) : Known(Waiting[i])
      BY <1>0, <2>1, AtHand DEF AllKnown
    <3> QED  BY <1>0, <3>1, FilesOfAllFacts
  <2>9. frames = (cons.files \o f) \o (FilesOfAll(Tail(todo)) \o FilesOfAll(Waiting))
    <3> DEFINE a == cons.files
               b == FilesOfAll(Tail(todo))
               w == FilesOfAll(Waiting)
    <3>1. a \in Seq(FileNames)
      BY <1>1
    <3>2. frames = a \o ((f \o b) \o w)
      BY <2>1, <2>7
    <3> HIDE DEF a, b, w
    <3>3. b \in Seq(FileNames) /\ w \in Seq(FileNames) /\ f \in Seq(FileNames)
      BY <1>6, <2>7, <2>8 DEF b, w
    <3>4. b \o w \in Seq(FileNames)
      BY ONLY <3>3, ConcatProperties
    <3>5. (f \o b) \o w = f \o (b \o w) /\ (a \o f) \o (b \o w) = a \o (f \o (b \o w))
      BY ONLY <3>1, <3>3, <3>4, Associative, Zenon
    <3> QED  BY ONLY <3>2, <3>5, Zenon DEF a, b, w
  <2>10. \A i \in 1..Len(todo') : todo'[i].sres = resources
    BY <1>2, <1>u, <2>1
  <2>11. Len(todo') <= 2
    BY <1>2, <1>u, <2>1
  <2>12. resources \in registered'
    BY <1>u, <2>2
  <2>13. frames' = cons'.files \o (FilesOfAll(todo)' \o FilesOfAll(Waiting)')
    BY ONLY <1>9, <1>u, <2>5, <2>9, Zenon
  <2> QED  BY ONLY <1>9, <1>u, <2>1, <2>3, <2>5, <2>10, <2>11, <2>12, <2>13, Zenon DEF Named
<1> QED  BY <1>10, <1>11, <1>12, <1>13, <1>14, <1>15, <1>16 DEF IInv

\* A handler that raises leaves what is counted behind, and the server with what
\* it has.
LEMMA RaiseKeeps ==
  ASSUME IInv, TypeOK', raised' = TRUE, pc' = "idle", todo' = <<>>,
         UNCHANGED <<batch_size, backed, stopping, cached, registered, cons>>,
         UNCHANGED <<resources, index, first, frames, gaps>>,
         source'.rows = Len(source'.files), PatchesTile', AssetsAreFramesUnmixed',
         stopDoc' => stopping, backed /\ stopDoc' => source'.rows = Len(frames)
  PROVE  IInv'
<1>0. Control /\ Announced /\ Counted
  BY DEF IInv
<1>1. Control'
  BY <1>0 DEF Control
<1>2. Announced'
  BY <1>0 DEF Announced
<1>3. Counted'
  BY <1>0 DEF Counted, Working
<1>4. Patched'
  BY DEF Patched, Working
<1>5. Named'
  BY DEF Named, Working
<1> QED  BY <1>1, <1>2, <1>3, <1>4, <1>5 DEF IInv

\* _update_consolidator(), when the node of the data key cannot be created
LEMMA ConsumeFailsKeeps ==
  ASSUME IInv, ConsumeFails
  PROVE  IInv'
<1>0. TypeOK /\ Control /\ Announced /\ Counted /\ Patched /\ AssetsAreFramesUnmixed
  BY DEF IInv
<1>u. /\ pc = "consume" /\ raised' = TRUE /\ pc' = "idle" /\ todo' = <<>>
      /\ UNCHANGED <<batch_size, backed, stopping, cached, registered, cons, fresh>>
      /\ UNCHANGED <<source, patches, stopDoc, resources, index, first, frames, gaps>>
  BY DEF ConsumeFails, Raise, options, run
<1>1. made' \in BOOLEAN
  BY <1>0 DEF ConsumeFails, TypeOK
<1>2. faults' \in Nat
  BY <1>0 DEF ConsumeFails, Fault, TypeOK
<1>3. TypeOK'
  BY <1>0, <1>1, <1>2, <1>u DEF TypeOK
<1>4. source'.rows = Len(source'.files) /\ PatchesTile' /\ AssetsAreFramesUnmixed'
  BY <1>0, <1>u DEF Counted, Patched, PatchesTile, AssetsAreFramesUnmixed, AssetsAreFrames, Unmixed
<1>5. ~stopDoc'
  BY <1>0, <1>u DEF Control
<1> QED  BY <1>3, <1>4, <1>5, <1>u, RaiseKeeps

\* What the server has after a PUT of the data source.
LEMMA ReceivedKeeps ==
  ASSUME IInv, pc = "send", Received,
         UNCHANGED <<batch_size, backed, cons, resources, frames, gaps>>
  PROVE  /\ source' \in [rows : Nat, files : Seq(FileNames)] /\ source'.rows = Len(source'.files)
         /\ source'.rows = cons.rows /\ patches' \in Seq(Patches) /\ patches' # <<>>
         /\ patches'[Len(patches')] = [offset |-> cons.rows - fresh, rows |-> fresh]
         /\ PatchesTile' /\ AssetsAreFramesUnmixed'
<1>0. TypeOK /\ Control /\ Announced /\ Counted /\ Patched /\ Named /\ AssetsAreFramesUnmixed
  BY DEF IInv
<1> DEFINE patch == [offset |-> cons.rows - fresh, rows |-> fresh]
           n == Len(patches)
<1>1. /\ cons \in [rows : Nat, files : Seq(FileNames), template : Nat, offset : Nat]
      /\ cons.rows \in Nat /\ cons.files \in Seq(FileNames) /\ cons.rows = Len(cons.files)
      /\ fresh \in Nat /\ patches \in Seq(Patches) /\ n \in Nat /\ frames \in Seq(FileNames)
  BY <1>0 DEF TypeOK, Counted
<1>2. /\ source' = [rows |-> cons.rows, files |-> cons.files]
      /\ source' \in [rows : Nat, files : Seq(FileNames)] /\ source'.rows = Len(source'.files)
      /\ source'.rows = cons.rows /\ source'.files = cons.files
  BY <1>1 DEF Received
<1>3. patch \in Patches /\ patch.offset = cons.rows - fresh /\ patch.rows = fresh
  BY <1>1 DEF Patches
<1>4. patches' = Append(patches, patch)
  BY DEF Received
<1> HIDE DEF patch
<1>5. /\ patches' \in Seq(Patches) /\ patches' # <<>> /\ Len(patches') = n + 1
      /\ (\A i \in 1..n : patches'[i] = patches[i]) /\ patches'[n + 1] = patch
  BY ONLY <1>1, <1>3, <1>4, AppendProperties
<1>6. backed => Working
  BY <1>0 DEF Working, Control, TypeOK
<1>7. PatchesTile'
  <2> SUFFICES ASSUME backed  PROVE  PatchesTile'
    BY DEF PatchesTile
  <2>1. /\ \A i \in 1..n :
             IF i = 1 THEN patches[1].offset = 0
             ELSE \/ patches[i] = patches[i - 1]
                  \/ patches[i].offset = patches[i - 1].offset + patches[i - 1].rows
        /\ patches # <<>> => patches[n].offset + patches[n].rows = source.rows
    BY <1>0 DEF Patched, PatchesTile
  <2>2. /\ patches = <<>> => source.rows = 0
        /\ \/ source.rows = cons.rows - fresh
           \/ patches # <<>> /\ patches[n] = patch
    BY <1>0, <1>6 DEF Patched, patch
  <2>3. patch.offset + patch.rows = cons.rows
    BY <1>1, <1>3
  <2>4. /\ n = 0 => patch.offset = 0
        /\ n > 0 => patch = patches[n] \/ patch.offset = patches[n].offset + patches[n].rows
    <3>1. CASE patches = <<>>
      <4>1. n = 0 /\ source.rows = 0 /\ source.rows = cons.rows - fresh
        BY <2>2, <3>1
      <4> QED  BY <1>3, <4>1
    <3>2. CASE patches # <<>>
      <4>1. n # 0
        BY <1>1, <3>2
      <4>2. patches[n] = patch \/ patch.offset = patches[n].offset + patches[n].rows
        BY <1>3, <2>1, <2>2, <3>2
      <4> QED  BY ONLY <4>1, <4>2, Zenon
    <3> QED  BY <3>1, <3>2
  <2>5. ASSUME NEW i \in 1..(n + 1)
        PROVE  IF i = 1 THEN patches'[1].offset = 0
               ELSE \/ patches'[i] = patches'[i - 1]
                    \/ patches'[i].offset = patches'[i - 1].offset + patches'[i - 1].rows
    <3>1. CASE i = n + 1
      <4>1. CASE n = 0
        BY <1>5, <2>4, <3>1, <4>1
      <4>2. CASE n # 0
        <5>1. i - 1 = n /\ n \in 1..n /\ n > 0 /\ i # 1
          BY <1>1, <3>1, <4>2
        <5>2. patches'[i] = patch /\ patches'[i - 1] = patches[n]
          BY <1>5, <3>1, <5>1
        <5> QED  BY ONLY <2>4, <5>1, <5>2, Zenon
      <4> QED  BY <4>1, <4>2
    <3>2. CASE i # n + 1
      <4>1. i \in 1..n /\ (i # 1 => i - 1 \in 1..n) /\ (i = 1 => 1 \in 1..n)
        BY <1>1, <3>2
      <4>2. patches'[i] = patches[i] /\ (i # 1 => patches'[i - 1] = patches[i - 1])
        BY <1>5, <4>1
      <4> QED  BY ONLY <2>1, <4>1, <4>2, Zenon
    <3> QED  BY <3>1, <3>2
  <2>6. patches'[Len(patches')].offset + patches'[Len(patches')].rows = source'.rows
    BY <1>2, <1>5, <2>3
  <2> QED  BY <1>5, <2>5, <2>6 DEF PatchesTile
<1>8. AssetsAreFramesUnmixed'
  <2> SUFFICES ASSUME Unmixed, backed  PROVE  AssetsAreFrames'
    BY DEF AssetsAreFramesUnmixed, AssetsAreFrames, Unmixed
  <2> DEFINE w == FilesOfAll(todo) \o FilesOfAll(Waiting)
  <2>1. frames = cons.files \o w /\ w \in Seq(FileNames)
    <3>1. /\ Len(todo) <= 2 /\ Len(Waiting) <= 1 /\ frames = cons.files \o w
      BY <1>0, <1>6 DEF Named
    <3>2. /\ todo \in Seq(Datums) /\ \A i \in 1..Len(todo) : Known(todo[i])
          /\ Waiting \in Seq(Datums) /\ \A i \in 1..Len(Waiting) : Known(Waiting[i])
      BY <1>0, AtHand DEF AllKnown
    <3>3. Len(Waiting) <= 2
      BY <3>1, <3>2
    <3>4. FilesOfAll(todo) \in Seq(FileNames)
      BY ONLY <1>0, <3>1, <3>2, FilesOfAllFacts
    <3>5. FilesOfAll(Waiting) \in Seq(FileNames)
      BY ONLY <1>0, <3>2, <3>3, FilesOfAllFacts
    <3>6. w \in Seq(FileNames)
      BY ONLY <3>4, <3>5, ConcatProperties
    <3> QED  BY ONLY <3>1, <3>6
  <2> HIDE DEF w
  <2>2. cons.files \in Seq(FileNames)
    BY <1>1
  <2> DEFINE a == cons.files
  <2>3. Len(a \o w) = Len(a) + Len(w) /\ \A i \in 1..(Len(a) + Len(w)) : i <= Len(a) => (a \o w)[i] = a[i]
    <3>1. /\ Len(a \o w) = Len(a) + Len(w)
          /\ \A i \in 1..(Len(a) + Len(w)) : (a \o w)[i] = IF i <= Len(a) THEN a[i] ELSE w[i - Len(a)]
      BY ONLY <2>1, <2>2, ConcatProperties
    <3> QED  BY ONLY <3>1
  <2>4. frames = a \o w /\ a = source'.files /\ Len(a) \in Nat /\ Len(w) \in Nat
    BY <1>2, <2>1, <2>2
  <2> HIDE DEF a
  <2>5. Len(a) <= Len(frames) /\ \A i \in 1..Len(a) : a[i] = frames[i]
    BY ONLY <2>3, <2>4
  <2> QED  BY ONLY <2>4, <2>5, UNCHANGED frames, Zenon DEF AssetsAreFrames
<1> QED  BY <1>2, <1>5, <1>7, <1>8 DEF patch

\* _update_data_source_for_node()
LEMMA SendKeeps ==
  ASSUME IInv, Send
  PROVE  IInv'
<1>0. TypeOK /\ Control /\ Announced /\ Counted /\ Patched /\ Named
  BY DEF IInv
<1>u. /\ pc = "send" /\ Received /\ fresh' = 0
      /\ pc' = IF todo # <<>> THEN "consume" ELSE IF stopping THEN "stop" ELSE "idle"
      /\ UNCHANGED <<batch_size, backed, stopping, cached, todo, registered, cons, raised, made>>
      /\ UNCHANGED <<stopDoc, resources, index, first, frames, gaps, faults>>
  BY DEF Send, options, run
<1>1. /\ source' \in [rows : Nat, files : Seq(FileNames)] /\ source'.rows = Len(source'.files)
      /\ source'.rows = cons.rows /\ patches' \in Seq(Patches) /\ patches' # <<>>
      /\ PatchesTile' /\ AssetsAreFramesUnmixed'
  BY <1>u, ReceivedKeeps
<1>2. TypeOK'
  BY <1>0, <1>1, <1>u DEF TypeOK
<1>3. Control'
  BY <1>0, <1>u DEF Control
<1>4. Announced'
  BY <1>0, <1>u DEF Announced
<1>5. cons.rows \in Nat
  BY <1>0 DEF TypeOK
<1>6. Counted'
  <2>1. ~stopDoc'
    BY <1>0, <1>u DEF Control
  <2>2. fresh' <= cons'.rows /\ fresh' = 0
    BY <1>5, <1>u
  <2>3. Waiting' = Waiting
    BY <1>u DEF Waiting
  <2> QED  BY <1>0, <1>1, <1>u, <2>1, <2>2, <2>3 DEF Counted, Working
<1>7. Patched'
  <2>1. source'.rows = cons'.rows - fresh'
    BY <1>1, <1>5, <1>u
  <2> QED  BY <1>1, <2>1 DEF Patched
<1>8. Named'
  BY <1>0, <1>u DEF Named, Working, Waiting, Unmixed, FilesOfAll, FilesOfDatum, FilesOf
<1> QED  BY <1>1, <1>2, <1>3, <1>4, <1>6, <1>7, <1>8 DEF IInv

\* The same, when the request is to be sent again.
LEMMA SendRepeatedKeeps ==
  ASSUME IInv, SendRepeated
  PROVE  IInv'
<1>0. TypeOK /\ Control /\ Announced /\ Counted /\ Patched /\ Named
  BY DEF IInv
<1>u. /\ pc = "send" /\ Received /\ faults' = faults + 1
      /\ UNCHANGED <<batch_size, backed, pc, stopping, raised, cached, todo, registered, cons, fresh>>
      /\ UNCHANGED <<made, stopDoc, resources, index, first, frames, gaps>>
  BY DEF SendRepeated, Fault, options, writer, run
<1>1. /\ source' \in [rows : Nat, files : Seq(FileNames)] /\ source'.rows = Len(source'.files)
      /\ source'.rows = cons.rows /\ patches' \in Seq(Patches) /\ patches' # <<>>
      /\ patches'[Len(patches')] = [offset |-> cons.rows - fresh, rows |-> fresh]
      /\ PatchesTile' /\ AssetsAreFramesUnmixed'
  BY <1>u, ReceivedKeeps
<1>2. TypeOK'
  <2>1. faults' \in Nat
    BY <1>0, <1>u DEF TypeOK
  <2> QED  BY <1>0, <1>1, <1>u, <2>1 DEF TypeOK
<1>3. Control' /\ Announced'
  BY <1>0, <1>u DEF Control, Announced
<1>4. Counted'
  <2>1. ~stopDoc'
    BY <1>0, <1>u DEF Control
  <2>2. Waiting' = Waiting
    BY <1>u DEF Waiting
  <2> QED  BY <1>0, <1>1, <1>u, <2>1, <2>2 DEF Counted, Working
<1>5. Patched'
  BY <1>1, <1>u DEF Patched
<1>6. Named'
  BY <1>0, <1>u DEF Named, Working, Waiting, Unmixed, FilesOfAll, FilesOfDatum, FilesOf
<1> QED  BY <1>1, <1>2, <1>3, <1>4, <1>5, <1>6 DEF IInv

\* The same, when the request fails in the end.
LEMMA SendFailsKeeps ==
  ASSUME IInv, SendFails
  PROVE  IInv'
<1>0. TypeOK /\ Control /\ Counted /\ Patched /\ AssetsAreFramesUnmixed
  BY DEF IInv
<1>u. /\ pc = "send" /\ faults' = faults + 1 /\ pc' = "idle" /\ raised' = TRUE /\ todo' = <<>>
      /\ fresh' = 0 /\ (Received \/ UNCHANGED <<source, patches>>)
      /\ UNCHANGED <<batch_size, backed, stopping, cached, registered, cons, made, stopDoc>>
      /\ UNCHANGED <<resources, index, first, frames, gaps>>
  BY DEF SendFails, Fault, Raise, options, run
<1>1. /\ source' \in [rows : Nat, files : Seq(FileNames)] /\ source'.rows = Len(source'.files)
      /\ patches' \in Seq(Patches) /\ PatchesTile' /\ AssetsAreFramesUnmixed'
  <2>1. CASE Received
    BY <1>u, <2>1, ReceivedKeeps
  <2>2. CASE UNCHANGED <<source, patches>>
    BY <1>0, <1>u, <2>2
       DEF TypeOK, Counted, Patched, PatchesTile, AssetsAreFramesUnmixed, AssetsAreFrames, Unmixed
  <2> QED  BY <1>u, <2>1, <2>2
<1>2. TypeOK'
  <2>1. faults' \in Nat /\ raised' \in BOOLEAN /\ fresh' \in Nat
    BY <1>0, <1>u DEF TypeOK
  <2> QED  BY <1>0, <1>1, <1>u, <2>1 DEF TypeOK
<1>3. ~stopDoc'
  BY <1>0, <1>u DEF Control
<1> QED  BY <1>1, <1>2, <1>3, <1>u, RaiseKeeps

\* stop() takes what is cached.
LEMMA StopKeeps ==
  ASSUME IInv, Stop
  PROVE  IInv'
<1>0. TypeOK /\ Control /\ Announced /\ Counted /\ Patched /\ Named /\ AssetsAreFramesUnmixed
  BY DEF IInv
<1>u. /\ pc = "idle" /\ ~stopping /\ (backed => ~raised) /\ stopping' = TRUE /\ todo' = cached
      /\ pc' = IF cached = <<>> THEN "stop" ELSE "consume"
      /\ UNCHANGED <<batch_size, backed, cached, registered, cons, fresh, raised>>
      /\ UNCHANGED <<made, source, patches, stopDoc, resources, index, first, frames, gaps, faults>>
  BY DEF Stop, Receiving, options, server, run
<1>1. todo = <<>> /\ Waiting = cached /\ Waiting' = <<>> /\ ~stopDoc
  BY <1>0, <1>u DEF Control, Waiting
<1>2. TypeOK'
  BY <1>0, <1>u DEF TypeOK
<1>3. Control'
  BY <1>1, <1>u DEF Control
<1>4. Announced'
  BY <1>0, <1>u DEF Announced
<1>5. Counted'
  <2>1. ASSUME Working
        PROVE  /\ fresh' <= cons'.rows /\ fresh' = 0
               /\ \E t1, u1 \in Int :
                    Sums(todo', t1) /\ Sums(Waiting', u1) /\ cons'.rows + t1 + u1 = Len(frames')
    <3>1. PICK t \in Int, u \in Int :
            Sums(todo, t) /\ Sums(Waiting, u) /\ cons.rows + t + u = Len(frames)
      BY <1>0, <2>1 DEF Counted
    <3>2. t = 0 /\ Sums(Waiting', 0)
      BY <1>1, <3>1, SumsEmpty
    <3>3. cons.rows \in Nat
      BY <1>0 DEF TypeOK
    <3>4. cons.rows + u + 0 = Len(frames) /\ 0 \in Int
      BY <3>1, <3>2, <3>3
    <3>5. fresh' <= cons'.rows /\ fresh' = 0
      BY <1>0, <1>u, <2>1 DEF Counted
    <3> QED  BY <1>1, <1>u, <3>1, <3>2, <3>4, <3>5
  <2> QED  BY <1>0, <1>1, <1>u, <2>1 DEF Counted, Working
<1>6. Patched'
  <2>1. PatchesTile'
    BY <1>0, <1>u DEF Patched, PatchesTile
  <2> QED  BY <1>0, <1>u, <2>1 DEF Patched, Working
<1>7. AssetsAreFramesUnmixed'
  BY <1>0, <1>u DEF AssetsAreFramesUnmixed, AssetsAreFrames, Unmixed
<1>8. Named'
  <2> SUFFICES ASSUME Working, Unmixed
               PROVE  Named'
    BY <1>u DEF Named, Working, Unmixed
  <2>1. /\ resources \in registered => cons.template = resources /\ cons.offset = first[resources]
        /\ resources > 0 /\ resources \notin registered => first[resources] = Len(cons.files)
        /\ Len(cached) <= 1
        /\ frames = cons.files \o (FilesOfAll(todo) \o FilesOfAll(cached))
    BY <1>0, <1>1 DEF Named
  <2>2. Len(cached) \in Nat /\ cached \in Seq(Datums) /\ resources \in Nat /\ batch_size \in Nat
    BY <1>0 DEF TypeOK
  <2>3. ASSUME NEW i \in 1..Len(cached)  PROVE  cached[i].sres = resources
    <3>1. resources = 1 \/ resources # 1
      OBVIOUS
    <3>2. CASE resources = 1
      BY <1>0, <2>3, <3>2 DEF Announced
    <3>3. CASE resources # 1
      <4>1. cached[i].sres \in 1..resources /\ cached # <<>>
        BY <1>0, <2>3 DEF Announced
      <4>2. batch_size <= 1
        BY <2>2, <3>3, <4>1 DEF Unmixed
      <4> QED  BY <1>0, <4>1, <4>2 DEF Announced
    <3> QED  BY <3>2, <3>3
  <2>4. FilesOfAll(cached) \in Seq(FileNames)
    <3>1. Len(cached) <= 2 /\ \A i \in 1..Len(cached) : Known(cached[i])
      BY <1>0, <2>1, <2>2, AtHand DEF AllKnown
    <3> QED  BY <1>0, <2>2, <3>1, FilesOfAllFacts
  <2>5. <<>> \o FilesOfAll(cached) = FilesOfAll(cached) /\ FilesOfAll(cached) \o <<>> = FilesOfAll(cached)
    BY ONLY <2>4, ConcatEmptySeq
  <2>6. FilesOfAll(todo) = <<>> /\ FilesOfAll(todo)' = FilesOfAll(cached) /\ FilesOfAll(Waiting)' = <<>>
    BY <1>1, <1>u DEF FilesOfAll, FilesOfDatum, FilesOf
  <2>7. frames' = cons'.files \o (FilesOfAll(todo)' \o FilesOfAll(Waiting)')
    BY ONLY <1>u, <2>1, <2>5, <2>6, Zenon
  <2>8. Len(todo') <= 2 /\ Len(Waiting') <= 1
    BY <1>1, <1>u, <2>1, <2>2
  <2> QED  BY ONLY <1>u, <2>1, <2>3, <2>7, <2>8, Zenon DEF Named
<1> QED  BY <1>2, <1>3, <1>4, <1>5, <1>6, <1>7, <1>8 DEF IInv

\* When the Stop document is written the server has every frame.
LEMMA AllSent ==
  ASSUME IInv, pc = "stop"
  PROVE  stopping /\ (backed => source.rows = Len(frames))
<1>0. TypeOK /\ Control /\ Counted /\ Patched
  BY DEF IInv
<1>1. stopping /\ todo = <<>> /\ Waiting = <<>> /\ (backed => Working)
  BY <1>0 DEF Control, Waiting, Working, TypeOK
<1>2. ASSUME Working  PROVE  source.rows = Len(frames)
  <2>1. PICK t \in Int, u \in Int :
          Sums(todo, t) /\ Sums(Waiting, u) /\ cons.rows + t + u = Len(frames)
    BY <1>0, <1>2 DEF Counted
  <2>2. t = 0 /\ u = 0
    BY <1>1, <2>1, SumsEmpty
  <2>3. source.rows = cons.rows - fresh /\ fresh = 0 /\ cons.rows \in Nat
    BY <1>0, <1>2 DEF Counted, Patched, TypeOK
  <2> QED  BY <2>1, <2>2, <2>3
<1> QED  BY <1>1, <1>2

LEMMA StopWriteKeeps ==
  ASSUME IInv, StopWrite
  PROVE  IInv'
<1>0. TypeOK /\ Control /\ Announced /\ Counted /\ Patched /\ Named /\ AssetsAreFramesUnmixed
  BY DEF IInv
<1>u. /\ pc = "stop" /\ stopDoc' = TRUE /\ pc' = "idle"
      /\ UNCHANGED <<batch_size, backed, stopping, raised, cached, todo, registered, cons, fresh>>
      /\ UNCHANGED <<made, source, patches, resources, index, first, frames, gaps, faults>>
  BY DEF StopWrite, options, writer, run
<1>1. stopping /\ (backed => source.rows = Len(frames))
  BY <1>u, AllSent
<1>2. TypeOK' /\ Control' /\ Announced'
  BY <1>0, <1>1, <1>u DEF TypeOK, Control, Announced
<1>3. Counted'
  <2>1. Waiting' = Waiting
    BY <1>u DEF Waiting
  <2> QED  BY <1>0, <1>1, <1>u, <2>1 DEF Counted, Working
<1>4. Patched'
  <2>1. PatchesTile'
    BY <1>0, <1>u DEF Patched, PatchesTile
  <2> QED  BY <1>0, <1>u, <2>1 DEF Patched, Working
<1>5. AssetsAreFramesUnmixed'
  BY <1>0, <1>u DEF AssetsAreFramesUnmixed, AssetsAreFrames, Unmixed
<1>6. Named'
  BY <1>0, <1>u DEF Named, Working, Waiting, Unmixed, FilesOfAll, FilesOfDatum, FilesOf
<1> QED  BY <1>2, <1>3, <1>4, <1>5, <1>6 DEF IInv

LEMMA StopWriteFailsKeeps ==
  ASSUME IInv, StopWriteFails
  PROVE  IInv'
<1>0. TypeOK /\ Control /\ Counted /\ Patched /\ AssetsAreFramesUnmixed
  BY DEF IInv
<1>u. /\ pc = "stop" /\ faults' = faults + 1 /\ pc' = "idle" /\ raised' = TRUE /\ todo' = <<>>
      /\ stopDoc' \in BOOLEAN
      /\ UNCHANGED <<batch_size, backed, stopping, cached, registered, cons, fresh, made>>
      /\ UNCHANGED <<source, patches, resources, index, first, frames, gaps>>
  BY DEF StopWriteFails, Fault, Raise, options, run
<1>1. stopping /\ (backed => source.rows = Len(frames))
  BY <1>u, AllSent
<1>2. TypeOK'
  <2>1. faults' \in Nat /\ raised' \in BOOLEAN
    BY <1>0, <1>u DEF TypeOK
  <2> QED  BY <1>0, <1>u, <2>1 DEF TypeOK
<1>3. source'.rows = Len(source'.files) /\ PatchesTile' /\ AssetsAreFramesUnmixed'
  BY <1>0, <1>u DEF Counted, Patched, PatchesTile, AssetsAreFramesUnmixed, AssetsAreFrames, Unmixed
<1>4. (stopDoc' => stopping) /\ (backed /\ stopDoc' => source'.rows = Len(frames))
  BY <1>1, <1>u
<1> QED  BY <1>2, <1>3, <1>4, <1>u, RaiseKeeps
-----------------------------------------------------------------------------
(***************************************************************************)
(* The theorems                                                            *)
(***************************************************************************)
LEMMA InitIInv == Init => IInv
<1> SUFFICES ASSUME Init  PROVE  IInv
  OBVIOUS
<1>1. TypeOK
  <2>1. batch_size \in Nat
    BY SizesAssumption DEF Init
  <2>2. <<>> \in Seq(Datums) /\ <<>> \in Seq(FileNames) /\ <<>> \in Seq(Patches) /\ <<>> \in Seq(Nat)
    OBVIOUS
  <2>3. /\ cons \in [rows : Nat, files : Seq(FileNames), template : Nat, offset : Nat]
        /\ source \in [rows : Nat, files : Seq(FileNames)]
    BY <2>2 DEF Init
  <2>4. /\ backed \in BOOLEAN /\ pc \in {"idle", "consume", "send", "stop"}
        /\ stopping \in BOOLEAN /\ raised \in BOOLEAN /\ made \in BOOLEAN /\ stopDoc \in BOOLEAN
    BY DEF Init
  <2>5. /\ cached \in Seq(Datums) /\ todo \in Seq(Datums) /\ registered \subseteq Nat /\ fresh \in Nat
        /\ patches \in Seq(Patches) /\ resources \in Nat /\ index \in Nat /\ first \in Seq(Nat)
        /\ frames \in Seq(FileNames) /\ gaps \in Nat /\ faults \in Nat
    BY <2>2 DEF Init
  <2> QED  BY ONLY <2>1, <2>3, <2>4, <2>5 DEF TypeOK
<1>2. Control /\ AssetsAreFramesUnmixed
  BY DEF Init, Control, AssetsAreFramesUnmixed, AssetsAreFrames
<1>3. Announced
  BY DEF Init, Announced
<1>4. Counted
  <2>1. todo = <<>> /\ Waiting = <<>> /\ cons.rows = 0 /\ cons.files = <<>> /\ frames = <<>>
        /\ source.rows = 0 /\ source.files = <<>> /\ fresh = 0 /\ ~stopDoc
    BY DEF Init, Waiting
  <2>2. Sums(<<>>, 0) /\ 0 \in Int /\ Len(<<>>) = 0 /\ 0 + 0 + 0 = 0 /\ 0 <= 0
    BY SumsEmpty
  <2> QED  BY ONLY <2>1, <2>2, Zenon DEF Counted
<1>5. Patched
  BY DEF Init, Patched, PatchesTile
<1>6. Named
  <2>1. /\ todo = <<>> /\ Waiting = <<>> /\ cons.files = <<>> /\ frames = <<>>
        /\ resources = 0 /\ registered = {}
    BY DEF Init, Waiting
  <2>2. FilesOfAll(<<>>) = <<>> /\ <<>> \o (<<>> \o <<>>) = <<>>
    BY DEF FilesOfAll
  <2> QED  BY <2>1, <2>2 DEF Named
<1> QED  BY <1>1, <1>2, <1>3, <1>4, <1>5, <1>6 DEF IInv

LEMMA NextIInv == IInv /\ [Next]_vars => IInv'
<1> SUFFICES ASSUME IInv, [Next]_vars  PROVE  IInv'
  OBVIOUS
<1>1. CASE StreamResource
  BY <1>1, StreamResourceKeeps
<1>2. ASSUME NEW size \in 1..MaxDatum, NEW gap \in 0..1, StreamDatum(size, gap)  PROVE  IInv'
  BY <1>2, StreamDatumKeeps
<1>3. CASE Consume
  BY <1>3, ConsumeKeeps
<1>4. CASE ConsumeFails
  BY <1>4, ConsumeFailsKeeps
<1>5. CASE Send
  BY <1>5, SendKeeps
<1>6. CASE SendRepeated
  BY <1>6, SendRepeatedKeeps
<1>7. CASE SendFails
  BY <1>7, SendFailsKeeps
<1>8. CASE Stop
  BY <1>8, StopKeeps
<1>9. CASE StopWrite
  BY <1>9, StopWriteKeeps
<1>10. CASE StopWriteFails
  BY <1>10, StopWriteFailsKeeps
<1>11. CASE UNCHANGED vars
  BY <1>11, UnchangedKeeps
<1> QED
  BY <1>1, <1>2, <1>3, <1>4, <1>5, <1>6, <1>7, <1>8, <1>9, <1>10, <1>11 DEF Next

\* The invariant holds of every behaviour of the writer.
THEOREM Invariance == Spec => []IInv
<1> QED  BY InitIInv, NextIInv, PTL DEF Spec

\* The patches tell a live subscriber of every row, whichever request is sent
\* again or fails.
THEOREM PatchesTileThm == Spec => []PatchesTile
<1>1. IInv => PatchesTile
  BY DEF IInv, Patched
<1> QED  BY <1>1, Invariance, PTL

\* The files are those of the frames, in order, for one StreamResource and for
\* several whose datums are neither batched nor leave an index out.
THEOREM AssetsAreFramesUnmixedThm == Spec => []AssetsAreFramesUnmixed
<1>1. IInv => AssetsAreFramesUnmixed
  BY DEF IInv
<1> QED  BY <1>1, Invariance, PTL

\* A run that has its Stop document has every frame.
THEOREM FramesCompleteThm == Spec => []FramesComplete
<1>1. IInv => FramesComplete
  <2> SUFFICES ASSUME IInv, backed, stopDoc
               PROVE  /\ source.rows = Len(frames) /\ Len(source.files) = Len(frames)
                      /\ Unmixed => source.files = frames
    BY DEF FramesComplete
  <2>1. source.rows = Len(frames) /\ Len(source.files) = Len(frames)
    BY DEF IInv, Counted
  <2>2. ASSUME Unmixed  PROVE  source.files = frames
    <3>1. source.files \in Seq(FileNames) /\ frames \in Seq(FileNames)
      BY DEF IInv, TypeOK
    <3>2. \A n \in 1..Len(source.files) : source.files[n] = frames[n]
      BY <2>2 DEF IInv, AssetsAreFramesUnmixed, AssetsAreFrames
    <3> QED  BY ONLY <2>1, <3>1, <3>2, SeqEqual
  <2> QED  BY <2>1, <2>2
<1> QED  BY <1>1, Invariance, PTL
=============================================================================
