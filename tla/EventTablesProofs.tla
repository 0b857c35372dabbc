------------------------- MODULE EventTablesProofs --------------------------
(***************************************************************************)
(* Proofs about EventTables, for any streams, any division of their tables *)
(* and any batch size, number of retries, of events and of faults; and of  *)
(* what it promises together with the descriptors of RunExport, and what   *)
(* the exporter makes of a run that it reads while it is written.          *)
(***************************************************************************)
EXTENDS RunExport, SequenceTheorems, FiniteSetTheorems, WellFoundedInduction, TLAPS

Rows == [seq : Nat, array : BOOLEAN]

TypeOK ==
  /\ backed \in BOOLEAN /\ stopping \in BOOLEAN /\ raised \in BOOLEAN
  /\ pc \in {"idle", "arrays", "upload", "table", "retry", "stop", "close"}
  /\ job \in Streams \cup {NoStream}
  /\ part \in Nat \ {0} /\ attempts \in Nat
  /\ cache \in [Streams -> Seq(Rows)]
  /\ events \in [Streams -> Nat] /\ lost \in [Streams -> SUBSET Nat]
  /\ refs \subseteq Nodes /\ IsFiniteSet(refs) /\ made \subseteq Nodes
  /\ shape \in [Streams -> Nat]
  /\ notes \subseteq Streams \X Nat /\ published \subseteq Streams \X Nat
  /\ data \in [Nodes -> Seq(Nat)]
  /\ stopDoc \in BOOLEAN /\ closed \subseteq Nodes \cup {Root}
  /\ faults \in Nat /\ lasting \in BOOLEAN

(***************************************************************************)
(* The inductive invariant.  Of the events of a stream that were not lost, *)
(* those that are not in a table for certain are in the cache, in order.   *)
(***************************************************************************)
Sent(s) == (1..events[s]) \ lost[s]
Pending(s) == {cache[s][i].seq : i \in 1..Len(cache[s])}
Done(s) == events[s] - Len(cache[s])

InTables(s) == pc \in {"table", "retry"} /\ job = s
Uploading(s) == pc = "upload" /\ job = s

\* The batch at hand is in those tables that it was appended to already.
Given(t) == InTables(t[1]) /\ t[2] < part
Outstanding(t) == IF Given(t) THEN {} ELSE Pending(t[1])

Control ==
  /\ pc \in {"arrays", "upload", "table", "retry"} => job \in Streams /\ cache[job] # <<>>
  /\ pc = "upload" => Arrays(job) # <<>> /\ <<job, 0>> \in made \ refs
  /\ pc \in {"table", "retry"} => part <= Parts[job]
  /\ pc = "retry" => attempts > 0 /\ <<job, part>> \in refs
  /\ pc = "retry" => \A i \in 1..Len(cache[job]) : <<job, cache[job][i].seq>> \in notes
  /\ pc \in {"stop", "close"} => stopping
  /\ backed /\ raised => pc = "idle"

Ended ==
  /\ stopDoc => stopping /\ pc \in {"close", "idle"} /\ published = notes /\ Flushed
  /\ pc = "close" => stopDoc
  /\ closed # {} => stopDoc

\* Nothing is lost before a handler raised, nor by the primary of a backup.
Losses == \A s \in Streams : lost[s] \subseteq 1..events[s] /\ (lost[s] # {} => ~backed /\ raised)

Cached ==
  \A s \in Streams :
    /\ Pending(s) \subseteq Sent(s)
    /\ \A i, j \in 1..Len(cache[s]) : i < j => cache[s][i].seq < cache[s][j].seq
    /\ lost[s] = {} =>
         Len(cache[s]) <= events[s] /\ \A i \in 1..Len(cache[s]) : cache[s][i].seq = Done(s) + i

Stored ==
  \A t \in Tables :
    /\ Range(data[t]) \subseteq Sent(t[1])
    /\ Sent(t[1]) \subseteq Range(data[t]) \cup Outstanding(t)

\* Rows that may be stored again are noted, and so are those that were.
Single == {t \in Tables : backed \/ Parts[t[1]] = 1}
Noted ==
  \A t \in Single :
    /\ \A i, j \in 1..Len(data[t]) :
         (i < j /\ data[t][i] = data[t][j]) => <<t[1], data[t][i]>> \in notes
    /\ ~(backed /\ raised) =>
         \A v \in Range(data[t]) \cap Outstanding(t) : <<t[1], v>> \in notes

\* Before a run with a backup has raised, its array nodes have what was taken out
\* of the rows, and the client knows how much that is.
AlignedOf(s) ==
  /\ <<s, 0>> \in refs => shape[s] = Len(data[<<s, 0>>])
  /\ IF InTables(s)
     THEN <<s, 0>> \in refs /\ data[<<s, 0>>] = [i \in 1..events[s] |-> i]
     ELSE /\ \A i \in 1..Len(cache[s]) : cache[s][i].array
          /\ IF Uploading(s) THEN Done(s) = 0 ELSE data[<<s, 0>>] = [i \in 1..Done(s) |-> i]
Aligned == (backed /\ (~raised \/ stopDoc)) => \A s \in ArrayStreams : AlignedOf(s)

\* No node exists that the writer does not know of, unless an error lasted.
Known ==
  /\ refs \subseteq made
  /\ \A n \in Nodes : n \notin made => data[n] = <<>>
  /\ ~lasting => \A n \in made : n \in refs \/ (pc = "upload" /\ n = <<job, 0>>)

\* The client of an array node never takes it to have more values than it has.
Shaped ==
  \A s \in Streams : shape[s] <= Len(data[<<s, 0>>]) /\ (<<s, 0>> \notin refs => shape[s] = 0)

IInv ==
  /\ TypeOK /\ Control /\ Ended /\ Losses /\ Cached /\ Stored /\ RowsAppearInOrder
  /\ Noted /\ Aligned /\ Known /\ Shaped

-----------------------------------------------------------------------------
(***************************************************************************)
(* Facts about nodes and rows                                              *)
(***************************************************************************)

\* Nodes are pairs of a stream and a number, which is not 0 for tables.
LEMMA NodeFacts ==
  /\ Tables \subseteq Nodes
  /\ \A t \in Tables : t[1] \in Streams /\ t[2] \in 1..Parts[t[1]] /\ t = <<t[1], t[2]>>
  /\ \A s \in Streams : <<s, 0>> \in Nodes /\ <<s, 0>> \notin Tables
  /\ \A s \in Streams, p \in Nat \ {0} : p <= Parts[s] => <<s, p>> \in Tables
<1>1. \A s \in Streams : Parts[s] \in Nat \ {0}
  BY SizesAssumption
<1>2. \A n \in Nodes : n[1] \in Streams /\ n[2] \in 0..Parts[n[1]] /\ n = <<n[1], n[2]>>
  BY DEF Nodes
<1>3. \A s \in Streams, p \in Nat : p <= Parts[s] => <<s, p>> \in Nodes
  <2>1. ASSUME NEW s \in Streams, NEW p \in Nat, p <= Parts[s]
        PROVE  <<s, p>> \in Nodes
    <3>1. p \in 0..Parts[s]
      BY <1>1, <2>1
    <3> QED  BY <3>1 DEF Nodes
  <2> QED  BY <2>1
<1>4. \A s \in Streams : <<s, 0>> \in Nodes
  BY <1>1, <1>3
<1>5. \A n \in Tables : n[2] \in 1..Parts[n[1]]
  BY <1>1, <1>2 DEF Tables
<1> QED  BY <1>1, <1>2, <1>3, <1>4, <1>5 DEF Tables

\* The numbers of rows, one for each.
LEMMA SeqsFacts ==
  ASSUME NEW rows \in Seq(Rows)
  PROVE  /\ Seqs(rows) \in Seq(Nat) /\ Len(Seqs(rows)) = Len(rows)
         /\ \A i \in 1..Len(rows) : Seqs(rows)[i] = rows[i].seq
<1>0. \A i \in 1..Len(rows) : rows[i] \in Rows
  OBVIOUS
<1>1. \A i \in 1..Len(rows) : rows[i].seq \in Nat
  BY <1>0 DEF Rows
<1>2. Len(rows) \in Nat
  OBVIOUS
<1>3. Seqs(rows) = [i \in 1..Len(rows) |-> rows[i].seq]
  BY DEF Seqs
<1> QED  BY <1>1, <1>2, <1>3

\* Taking the arrays out of rows leaves their number and their seq_nums.
LEMMA PoppedFacts ==
  ASSUME NEW rows \in Seq(Rows)
  PROVE  /\ Popped(rows) \in Seq(Rows) /\ Len(Popped(rows)) = Len(rows)
         /\ \A i \in 1..Len(rows) : Popped(rows)[i].seq = rows[i].seq
<1>0. \A i \in 1..Len(rows) : rows[i] \in Rows
  OBVIOUS
<1>1. \A i \in 1..Len(rows) : rows[i].seq \in Nat
  BY <1>0 DEF Rows
<1>2. Len(rows) \in Nat
  OBVIOUS
<1>3. \A i \in 1..Len(rows) : [seq |-> rows[i].seq, array |-> FALSE] \in Rows
  BY <1>1 DEF Rows
<1>4. Popped(rows) = [i \in 1..Len(rows) |-> [seq |-> rows[i].seq, array |-> FALSE]]
  BY DEF Popped
<1> QED  BY <1>2, <1>3, <1>4

\* Every set of naturals has a least element: what follows by induction is
\* proved by looking at the first index at which it would fail.
LEMMA LeastIndex ==
  ASSUME NEW S \in SUBSET Nat, S # {}
  PROVE  \E x \in S : \A y \in S : x <= y
<1> DEFINE Less == {ss \in Nat \X Nat : ss[1] < ss[2]}
<1>1. Less = OpToRel(<, Nat)
  BY Zenon DEF OpToRel
<1>2. IsWellFoundedOn(OpToRel(<, Nat), Nat)
  BY NatLessThanWellFounded
<1>3. IsWellFoundedOn(Less, Nat)
  BY ONLY <1>1, <1>2, Zenon
<1>4. \A x, y \in Nat : <<y, x>> \notin Less => x <= y
  OBVIOUS
<1> HIDE DEF Less
<1>5. \E x \in S : \A y \in S : <<y, x>> \notin Less
  BY <1>3, WFMin
<1> QED  BY <1>4, <1>5

(***************************************************************************)
(* What WithArrays keeps, by induction over the number of rows looked at   *)
(***************************************************************************)
Keep(rows, f, i) ==
  IF i = 0 THEN <<>>
  ELSE IF rows[i].array THEN Append(f[i - 1], rows[i]) ELSE f[i - 1]
IsKeep(rows, f) == f = [i \in 0..Len(rows) |-> Keep(rows, f, i)]

\* The recursion defines a function: there is one for rows 1 to n for each n.
LEMMA KeepExists ==
  ASSUME NEW rows \in Seq(Rows)
  PROVE  \E f \in [0..Len(rows) -> Seq(Rows)] : IsKeep(rows, f)
<1> DEFINE Upto(n) == \E f \in [0..n -> Seq(Rows)] : \A i \in 0..n : f[i] = Keep(rows, f, i)
           Bad == {n \in 0..Len(rows) : ~Upto(n)}
<1>0. Len(rows) \in Nat
  OBVIOUS
<1>1. ASSUME NEW m \in Bad, \A n \in Bad : m <= n
      PROVE  FALSE
  <2>1. CASE m = 0
    <3> DEFINE g == [i \in 0..0 |-> <<>>]
    <3>1. g \in [0..0 -> Seq(Rows)] /\ \A i \in 0..0 : g[i] = Keep(rows, g, i)
      BY DEF Keep
    <3>2. Upto(0)
      BY <3>1
    <3> QED  BY <2>1, <3>2
  <2>2. CASE m # 0
    <3>0. m \in 0..Len(rows)
      OBVIOUS
    <3>1. m \in 1..Len(rows) /\ m - 1 \in 0..Len(rows) /\ ~(m <= m - 1)
      BY <1>0, <2>2, <3>0
    <3>2. Upto(m - 1)
      <4> HIDE DEF Upto
      <4> QED  BY <1>1, <3>1
    <3>3. PICK f \in [0..(m - 1) -> Seq(Rows)] : \A i \in 0..(m - 1) : f[i] = Keep(rows, f, i)
      BY <3>2
    <3> DEFINE g == [i \in 0..m |-> IF i < m THEN f[i] ELSE Keep(rows, f, m)]
    <3>4. Keep(rows, f, m) \in Seq(Rows)
      <4>1. f[m - 1] \in Seq(Rows) /\ rows[m] \in Rows
        BY <3>1, <3>3
      <4> QED  BY <4>1, <2>2, AppendProperties DEF Keep
    <3>5. g \in [0..m -> Seq(Rows)]
      BY <3>1, <3>3, <3>4
    <3>6. \A i \in 0..m : g[i] = Keep(rows, g, i)
      <4>1. ASSUME NEW i \in 0..m, i = 0
            PROVE  g[i] = Keep(rows, g, i)
        BY <4>1, <3>1, <3>3, <2>2 DEF Keep
      <4>2. ASSUME NEW i \in 1..m
            PROVE  g[i] = Keep(rows, g, i)
        <5>1. i - 1 \in 0..m /\ i - 1 < m /\ g[i - 1] = f[i - 1] /\ i # 0
          BY <3>1
        <5>2. Keep(rows, g, i) = Keep(rows, f, i)
          BY <5>1 DEF Keep
        <5>3. g[i] = Keep(rows, f, i)
          BY <3>1, <3>3
        <5> QED  BY <5>2, <5>3
      <4> QED  BY <4>1, <4>2
    <3>7. Upto(m)
      BY <3>5, <3>6
    <3> QED  BY <3>7
  <2> QED  BY <2>1, <2>2
<1>2. Bad = {}
  <2>1. Bad \in SUBSET Nat
    BY <1>0
  <2> HIDE DEF Bad
  <2> QED  BY <2>1, <1>1, LeastIndex
<1>3. Upto(Len(rows))
  <2> HIDE DEF Upto
  <2> QED  BY <1>0, <1>2
<1>4. PICK f \in [0..Len(rows) -> Seq(Rows)] : \A i \in 0..Len(rows) : f[i] = Keep(rows, f, i)
  BY <1>3
<1>5. IsKeep(rows, f)
  BY <1>4 DEF IsKeep
<1> QED  BY <1>4, <1>5

LEMMA WithArraysIsKeep ==
  ASSUME NEW rows \in Seq(Rows)
  PROVE  \E f : IsKeep(rows, f) /\ WithArrays(rows) = f[Len(rows)]
<1>1. WithArrays(rows) = (CHOOSE f : IsKeep(rows, f))[Len(rows)]
  BY Zenon DEF WithArrays, IsKeep, Keep
<1>2. \E f : IsKeep(rows, f)
  BY KeepExists
<1> QED  BY <1>1, <1>2

\* What is kept is a sequence of rows.
LEMMA WithArraysType ==
  ASSUME NEW rows \in Seq(Rows)
  PROVE  WithArrays(rows) \in Seq(Rows)
<1>1. PICK f : IsKeep(rows, f) /\ WithArrays(rows) = f[Len(rows)]
  BY WithArraysIsKeep
<1> DEFINE Bad == {i \in 0..Len(rows) : f[i] \notin Seq(Rows)}
<1>2. \A i \in 0..Len(rows) : f[i] = Keep(rows, f, i)
  BY <1>1 DEF IsKeep
<1>0. Len(rows) \in Nat
  OBVIOUS
<1>3. ASSUME NEW m \in Bad, \A i \in Bad : m <= i
      PROVE  FALSE
  <2>1. CASE m = 0
    <3>1. f[0] = <<>> /\ <<>> \in Seq(Rows)
      BY <1>0, <1>2 DEF Keep
    <3> QED  BY <2>1, <3>1
  <2>2. CASE m # 0
    <3>1. m \in 1..Len(rows) /\ m - 1 \in 0..Len(rows) /\ m - 1 \notin Bad
      BY <1>0, <1>3, <2>2
    <3>2. f[m - 1] \in Seq(Rows) /\ rows[m] \in Rows
      BY <3>1
    <3>3. f[m] = Keep(rows, f, m) /\ Keep(rows, f, m) \in Seq(Rows)
      BY <1>2, <3>1, <3>2, <2>2, AppendProperties DEF Keep
    <3> QED  BY <3>3
  <2> QED  BY <2>1, <2>2
<1>4. Bad = {}
  <2>1. Bad \in SUBSET Nat
    BY <1>0
  <2> HIDE DEF Bad
  <2> QED  BY <2>1, <1>3, LeastIndex
<1> QED  BY <1>0, <1>1, <1>4

\* Rows that all have an array are all kept.
LEMMA WithArraysAll ==
  ASSUME NEW rows \in Seq(Rows), \A i \in 1..Len(rows) : rows[i].array
  PROVE  WithArrays(rows) = rows
<1>1. PICK f : IsKeep(rows, f) /\ WithArrays(rows) = f[Len(rows)]
  BY WithArraysIsKeep
<1> DEFINE Bad == {i \in 0..Len(rows) : f[i] # SubSeq(rows, 1, i)}
<1>2. \A i \in 0..Len(rows) : f[i] = Keep(rows, f, i)
  BY <1>1 DEF IsKeep
<1>0. Len(rows) \in Nat
  OBVIOUS
<1>3. ASSUME NEW m \in Bad, \A i \in Bad : m <= i
      PROVE  FALSE
  <2>1. CASE m = 0
    <3>1. f[0] = <<>> /\ SubSeq(rows, 1, 0) = <<>>
      BY <1>0, <1>2 DEF Keep
    <3> QED  BY <2>1, <3>1
  <2>2. CASE m # 0
    <3>1. m \in 1..Len(rows) /\ m - 1 \in 0..Len(rows) /\ m - 1 \notin Bad
      BY <1>0, <1>3, <2>2
    <3>2. f[m - 1] = SubSeq(rows, 1, m - 1)
      BY <3>1
    <3>3. f[m] = Append(SubSeq(rows, 1, m - 1), rows[m])
      BY <1>2, <3>1, <3>2, <2>2 DEF Keep
    <3>4. Append(SubSeq(rows, 1, m - 1), rows[m]) = SubSeq(rows, 1, m)
      BY <3>1
    <3> QED  BY <3>3, <3>4
  <2> QED  BY <2>1, <2>2
<1>4. Bad = {}
  <2>1. Bad \in SUBSET Nat
    BY <1>0
  <2> HIDE DEF Bad
  <2> QED  BY <2>1, <1>3, LeastIndex
<1>5. f[Len(rows)] = SubSeq(rows, 1, Len(rows)) /\ SubSeq(rows, 1, Len(rows)) = rows
  BY <1>0, <1>4
<1> QED  BY <1>1, <1>5

\* What WithArrays keeps are some of the rows, with an array.
LEMMA WithArraysFrom ==
  ASSUME NEW rows \in Seq(Rows)
  PROVE  \A j \in 1..Len(WithArrays(rows)) : \E i \in 1..Len(rows) : WithArrays(rows)[j] = rows[i] /\ rows[i].array
<1> DEFINE From(q) == \A j \in 1..Len(q) : \E i \in 1..Len(rows) : q[j] = rows[i] /\ rows[i].array
<1>1. PICK f : IsKeep(rows, f) /\ WithArrays(rows) = f[Len(rows)]
  BY WithArraysIsKeep
<1> DEFINE Bad == {i \in 0..Len(rows) : ~(f[i] \in Seq(Rows) /\ From(f[i]))}
<1>2. \A i \in 0..Len(rows) : f[i] = Keep(rows, f, i)
  BY <1>1 DEF IsKeep
<1>0. Len(rows) \in Nat
  OBVIOUS
<1> HIDE DEF From
<1>3. ASSUME NEW m \in Bad, \A i \in Bad : m <= i
      PROVE  FALSE
  <2>1. CASE m = 0
    <3>1. f[0] = <<>> /\ <<>> \in Seq(Rows) /\ From(<<>>)
      BY <1>0, <1>2 DEF Keep, From
    <3> QED  BY <2>1, <3>1
  <2>2. CASE m # 0
    <3>1. m \in 1..Len(rows) /\ m - 1 \in 0..Len(rows) /\ m - 1 \notin Bad
      BY <1>0, <1>3, <2>2
    <3>2. f[m - 1] \in Seq(Rows) /\ From(f[m - 1]) /\ rows[m] \in Rows
      BY <3>1
    <3>3. f[m] = IF rows[m].array THEN Append(f[m - 1], rows[m]) ELSE f[m - 1]
      BY <1>2, <3>1, <2>2 DEF Keep
    <3>4. ASSUME rows[m].array
          PROVE  f[m] \in Seq(Rows) /\ From(f[m])
      <4>1. /\ f[m] \in Seq(Rows) /\ Len(f[m]) = Len(f[m - 1]) + 1 /\ Len(f[m - 1]) \in Nat
            /\ \A j \in 1..Len(f[m - 1]) : f[m][j] = f[m - 1][j]
            /\ f[m][Len(f[m - 1]) + 1] = rows[m]
        BY <3>2, <3>3, <3>4
      <4>2. ASSUME NEW j \in 1..Len(f[m])
            PROVE  \E i \in 1..Len(rows) : f[m][j] = rows[i] /\ rows[i].array
        <5>1. j \in 1..Len(f[m - 1]) \/ j = Len(f[m - 1]) + 1
          BY <4>1
        <5> QED  BY <3>1, <3>2, <3>4, <4>1, <5>1 DEF From
      <4> QED  BY <4>1, <4>2 DEF From
    <3>5. f[m] \in Seq(Rows) /\ From(f[m])
      BY <3>2, <3>3, <3>4
    <3> QED  BY <3>5
  <2> QED  BY <2>1, <2>2
<1>4. Bad = {}
  <2>1. Bad \in SUBSET Nat
    BY <1>0
  <2> HIDE DEF Bad
  <2> QED  BY <2>1, <1>3, LeastIndex
<1>5. Len(rows) \in 0..Len(rows)
  BY <1>0
<1>6. From(f[Len(rows)])
  BY ONLY <1>4, <1>5
<1> QED  BY <1>1, <1>6, Zenon DEF From

-----------------------------------------------------------------------------
(***************************************************************************)
(* Facts about what a table holds once a batch has been appended           *)
(***************************************************************************)
InOrder(r, L) == \A i \in 1..Len(r) : 1..(r[i] - 1) \subseteq Range(SubSeq(r, 1, i - 1)) \cup L
Numbers(rows) == {rows[i].seq : i \in 1..Len(rows)}
Ascending(rows) == \A i, j \in 1..Len(rows) : i < j => rows[i].seq < rows[j].seq

\* The beginning of a sequence.
LEMMA BeginningFacts ==
  ASSUME NEW r \in Seq(Nat), NEW k \in 0..Len(r)
  PROVE  \A x : x \in Range(SubSeq(r, 1, k)) <=> \E i \in 1..k : r[i] = x
<1>1. /\ SubSeq(r, 1, k) \in Seq(Nat) /\ Len(SubSeq(r, 1, k)) = k
      /\ \A i \in 1..k : SubSeq(r, 1, k)[i] = r[i]
  OBVIOUS
<1>2. DOMAIN SubSeq(r, 1, k) = 1..k
  BY <1>1
<1> QED  BY <1>1, <1>2 DEF Range

\* InOrder without the Range.
LEMMA InOrderFacts ==
  ASSUME NEW r \in Seq(Nat), NEW L
  PROVE  InOrder(r, L) <=>
           \A i \in 1..Len(r) : \A x \in 1..(r[i] - 1) : x \in L \/ \E k \in 1..(i - 1) : r[k] = x
<1>1. ASSUME NEW i \in 1..Len(r)
      PROVE  \A x : x \in Range(SubSeq(r, 1, i - 1)) <=> \E k \in 1..(i - 1) : r[k] = x
  <2>1. i - 1 \in 0..Len(r)
    OBVIOUS
  <2> QED  BY <2>1, BeginningFacts
<1> QED  BY <1>1 DEF InOrder

\* Rows that go to the end of a node.
LEMMA AppendedRows ==
  ASSUME NEW r \in Seq(Nat), NEW rows \in Seq(Rows)
  PROVE  /\ Len(r) \in Nat /\ Len(rows) \in Nat
         /\ Len(r \o Seqs(rows)) = Len(r) + Len(rows)
         /\ \A i \in 1..Len(r) : (r \o Seqs(rows))[i] = r[i]
         /\ \A j \in 1..Len(rows) : (r \o Seqs(rows))[Len(r) + j] = rows[j].seq
         /\ \A i \in 1..Len(r \o Seqs(rows)) : i \in 1..Len(r) \/ \E j \in 1..Len(rows) : i = Len(r) + j
<1> DEFINE q == Seqs(rows)
<1>1. q \in Seq(Nat) /\ Len(q) = Len(rows) /\ \A j \in 1..Len(rows) : q[j] = rows[j].seq
  BY SeqsFacts
<1> HIDE DEF q
<1>2. /\ r \o q \in Seq(Nat) /\ Len(r \o q) = Len(r) + Len(q)
      /\ \A i \in 1..(Len(r) + Len(q)) : (r \o q)[i] = IF i <= Len(r) THEN r[i] ELSE q[i - Len(r)]
  <2>1. r \in Seq(Nat) /\ q \in Seq(Nat)
    BY <1>1
  <2> QED  BY ONLY <2>1, ConcatProperties
<1>3. PICK m \in Nat, k \in Nat : m = Len(r) /\ k = Len(rows)
  OBVIOUS
<1>4. \A i \in 1..m : (r \o q)[i] = r[i]
  BY <1>1, <1>2, <1>3
<1>5. ASSUME NEW j \in 1..k
      PROVE  (r \o q)[m + j] = rows[j].seq
  <2>1. m + j \in 1..(m + k) /\ ~(m + j <= m) /\ (m + j) - m = j
    OBVIOUS
  <2> QED  BY <1>1, <1>2, <1>3, <2>1
<1>6. ASSUME NEW i \in 1..(m + k)
      PROVE  i \in 1..m \/ \E j \in 1..k : i = m + j
  <2>1. i \in 1..m \/ (i - m \in 1..k /\ i = m + (i - m))
    OBVIOUS
  <2> QED  BY <2>1
<1> QED  BY <1>1, <1>2, <1>3, <1>4, <1>5, <1>6 DEF q

\* Their numbers join those of the node.
LEMMA AppendedFacts ==
  ASSUME NEW r \in Seq(Nat), NEW rows \in Seq(Rows)
  PROVE  Range(r \o Seqs(rows)) = Range(r) \cup Numbers(rows)
<1> DEFINE q == Seqs(rows)
<1>1. q \in Seq(Nat) /\ Len(q) = Len(rows) /\ \A j \in 1..Len(rows) : q[j] = rows[j].seq
  BY SeqsFacts
<1> HIDE DEF q
<1>2. DOMAIN q = 1..Len(rows)
  BY <1>1
<1>3. Range(q) = Numbers(rows)
  BY <1>1, <1>2 DEF Range, Numbers
<1>4. Range(r \o q) = Range(r) \cup Range(q)
  BY <1>1, RangeConcatenation
<1> QED  BY <1>3, <1>4 DEF q

\* The order is kept if what precedes the rows is there, or one of them, or lost.
LEMMA AppendedInOrder ==
  ASSUME NEW r \in Seq(Nat), NEW rows \in Seq(Rows), NEW L,
         Ascending(rows), InOrder(r, L),
         \A j \in 1..Len(rows) : \A x \in 1..(rows[j].seq - 1) :
           x \in L \/ x \in Range(r) \/ x \in Numbers(rows)
  PROVE  InOrder(r \o Seqs(rows), L)
<1>0. PICK q \in Seq(Nat) : q = r \o Seqs(rows)
  <2>1. Seqs(rows) \in Seq(Nat)
    BY SeqsFacts
  <2> QED  BY <2>1, ConcatProperties
<1>1. /\ Len(r) \in Nat /\ Len(rows) \in Nat /\ Len(q) = Len(r) + Len(rows)
      /\ \A i \in 1..Len(r) : q[i] = r[i]
      /\ \A j \in 1..Len(rows) : q[Len(r) + j] = rows[j].seq
      /\ \A i \in 1..Len(q) : i \in 1..Len(r) \/ \E j \in 1..Len(rows) : i = Len(r) + j
  BY <1>0, AppendedRows
<1>2. \A x \in Range(r) : \E k \in 1..Len(r) : q[k] = x
  <2>1. DOMAIN r = 1..Len(r)
    OBVIOUS
  <2>2. \A x \in Range(r) : \E k \in 1..Len(r) : r[k] = x
    BY <2>1 DEF Range
  <2> QED  BY <1>1, <2>2
<1>3. \A j \in 1..Len(rows) : rows[j].seq \in Nat
  <2>1. \A j \in 1..Len(rows) : rows[j] \in Rows
    OBVIOUS
  <2> QED  BY <2>1 DEF Rows
<1>4. ASSUME NEW i \in 1..Len(q), NEW x \in 1..(q[i] - 1), x \notin L
      PROVE  \E k \in 1..(i - 1) : q[k] = x
  <2>1. CASE i \in 1..Len(r)
    <3>1. q[i] = r[i]
      BY <1>1, <2>1
    <3>2. PICK k \in 1..(i - 1) : r[k] = x
      BY <1>4, <2>1, <3>1, InOrderFacts
    <3>3. k \in 1..Len(r)
      BY <1>1, <2>1
    <3> QED  BY <1>1, <3>2, <3>3
  <2>2. ASSUME NEW j \in 1..Len(rows), i = Len(r) + j
        PROVE  \E k \in 1..(i - 1) : q[k] = x
    <3>1. q[i] = rows[j].seq
      BY <1>1, <2>2
    <3>2. x \in Range(r) \/ x \in Numbers(rows)
      BY <1>4, <3>1
    <3>3. CASE x \in Range(r)
      <4>1. PICK k \in 1..Len(r) : q[k] = x
        BY <1>2, <3>3
      <4>2. k \in 1..(i - 1)
        BY <1>1, <2>2
      <4> QED  BY <4>1, <4>2
    <3>4. CASE x \in Numbers(rows)
      <4>1. PICK k \in 1..Len(rows) : rows[k].seq = x
        BY <3>4 DEF Numbers
      <4>2. x < rows[j].seq
        BY <1>3, <1>4, <3>1
      <4>3. ~(j < k) /\ j # k
        BY <1>3, <4>1, <4>2 DEF Ascending
      <4>4. q[Len(r) + k] = x /\ Len(r) \in Nat /\ j \in Nat
        <5>1. q[Len(r) + k] = rows[k].seq
          BY ONLY <1>1, <4>1
        <5>2. Len(r) \in Nat /\ Len(rows) \in Nat
          BY ONLY <1>1
        <5>3. j \in Nat
          BY ONLY <5>2, <2>2
        <5> QED  BY ONLY <4>1, <5>1, <5>2, <5>3
      <4>5. PICK m \in Nat : m = Len(r)
        BY <4>4
      <4>6. m + k \in 1..(m + j - 1)
        <5>1. k \in Nat /\ k >= 1 /\ j \in Nat /\ ~(j < k) /\ j # k
          BY <4>1, <4>3, <4>4
        <5> QED  BY <5>1
      <4>7. Len(r) + k \in 1..(i - 1)
        BY <2>2, <4>5, <4>6
      <4> QED  BY <4>4, <4>7
    <3> QED  BY <3>2, <3>3, <3>4
  <2> QED  BY <1>1, <2>1, <2>2
<1>5. InOrder(q, L)
  BY <1>4, InOrderFacts
<1> QED  BY <1>0, <1>5

\* A number that is there twice was so before, or it is that of one of the rows
\* and was there already.
LEMMA AppendedTwice ==
  ASSUME NEW r \in Seq(Nat), NEW rows \in Seq(Rows), Ascending(rows),
         NEW i \in 1..Len(r \o Seqs(rows)), NEW j \in 1..Len(r \o Seqs(rows)),
         i < j, (r \o Seqs(rows))[i] = (r \o Seqs(rows))[j]
  PROVE  \/ i \in 1..Len(r) /\ j \in 1..Len(r) /\ r[i] = r[j] /\ (r \o Seqs(rows))[i] = r[i]
         \/ (r \o Seqs(rows))[i] \in Range(r) \cap Numbers(rows)
<1>0. PICK q \in Seq(Nat) : q = r \o Seqs(rows)
  <2>1. Seqs(rows) \in Seq(Nat)
    BY SeqsFacts
  <2> QED  BY <2>1, ConcatProperties
<1>1. /\ Len(r) \in Nat /\ Len(rows) \in Nat /\ Len(q) = Len(r) + Len(rows) /\ DOMAIN r = 1..Len(r)
      /\ \A k \in 1..Len(r) : q[k] = r[k]
      /\ \A k \in 1..Len(rows) : q[Len(r) + k] = rows[k].seq
      /\ \A k \in 1..Len(q) : k \in 1..Len(r) \/ \E l \in 1..Len(rows) : k = Len(r) + l
  BY <1>0, AppendedRows
<1>2. i \in 1..Len(q) /\ j \in 1..Len(q) /\ q[i] = q[j]
  BY <1>0
<1>3. CASE j \in 1..Len(r)
  <2>1. i \in 1..Len(r)
    BY <1>1, <1>2, <1>3
  <2> QED  BY <1>0, <1>1, <1>2, <1>3, <2>1
<1>4. ASSUME NEW l \in 1..Len(rows), j = Len(r) + l
      PROVE  q[i] \in Range(r) \cap Numbers(rows)
  <2>1. q[i] = rows[l].seq
    BY <1>1, <1>2, <1>4
  <2>2. ASSUME NEW k \in 1..Len(rows), i = Len(r) + k
        PROVE  FALSE
    <3>1. k < l
      BY <1>1, <1>4, <2>2
    <3>2. rows[k].seq < rows[l].seq /\ rows[k].seq = rows[l].seq
      BY <1>1, <2>1, <2>2, <3>1 DEF Ascending
    <3>3. rows[l] \in Rows
      OBVIOUS
    <3> QED  BY <3>2, <3>3 DEF Rows
  <2>3. i \in 1..Len(r) /\ q[i] \in Range(r)
    BY <1>1, <1>2, <2>2 DEF Range
  <2> QED  BY <2>1, <2>3 DEF Numbers
<1> QED  BY <1>0, <1>1, <1>2, <1>3, <1>4


\* What is written to a node.
LEMMA StoreFacts ==
  ASSUME TypeOK, NEW n \in Nodes, NEW rows \in Seq(Rows), Store(n, rows)
  PROVE  /\ data' \in [Nodes -> Seq(Nat)] /\ data'[n] = data[n] \o Seqs(rows)
         /\ \A m \in Nodes : m # n => data'[m] = data[m]
<1> DEFINE q == Seqs(rows)
<1>1. q \in Seq(Nat)
  BY SeqsFacts
<1>2. data \in [Nodes -> Seq(Nat)] /\ data' = [data EXCEPT ![n] = data[n] \o q]
  BY DEF TypeOK, Store
<1> HIDE DEF q
<1>3. data[n] \o q \in Seq(Nat)
  BY <1>1, <1>2, ConcatProperties
<1> QED  BY <1>2, <1>3 DEF q

\* Values that replace those from an offset on.
LEMMA PatchedFacts ==
  ASSUME NEW values \in Seq(Nat), NEW offset \in Nat, NEW more \in Seq(Nat)
  PROVE  LET patched == Patched(values, offset, more)
         IN /\ patched \in Seq(Nat) \/ offset > Len(values)
            /\ Len(patched) = IF Len(values) > offset + Len(more) THEN Len(values) ELSE offset + Len(more)
            /\ \A i \in 1..Len(patched) :
                 patched[i] = IF i > offset /\ i <= offset + Len(more) THEN more[i - offset] ELSE values[i]
<1> DEFINE end == offset + Len(more)
           n == IF Len(values) > end THEN Len(values) ELSE end
           f == [i \in 1..n |-> IF i > offset /\ i <= end THEN more[i - offset] ELSE values[i]]
<1>1. Len(values) \in Nat /\ Len(more) \in Nat /\ end \in Nat /\ n \in Nat
  OBVIOUS
<1>2. Patched(values, offset, more) = f
  BY DEF Patched
<1>3. Len(f) = n /\ \A i \in 1..n : f[i] = IF i > offset /\ i <= end THEN more[i - offset] ELSE values[i]
  <2> HIDE DEF n, end
  <2> QED  BY <1>1
<1>4. ASSUME ~(offset > Len(values))
      PROVE  f \in Seq(Nat)
  <2>1. ASSUME NEW i \in 1..n
        PROVE  (IF i > offset /\ i <= end THEN more[i - offset] ELSE values[i]) \in Nat
    <3>1. CASE i > offset /\ i <= end
      <4>1. i - offset \in 1..Len(more)
        BY <1>1, <3>1
      <4> QED  BY <3>1, <4>1
    <3>2. CASE ~(i > offset /\ i <= end)
      <4>1. i \in 1..Len(values)
        BY <1>1, <1>4, <3>2
      <4> QED  BY <3>2, <4>1
    <3> QED  BY <3>1, <3>2
  <2> HIDE DEF n, end
  <2> QED  BY <1>1, <2>1
<1> QED  BY <1>2, <1>3, <1>4

\* Numbers of events.
LEMMA NumberFacts ==
  ASSUME TypeOK, Losses, Cached
  PROVE  /\ \A s \in Streams :
              /\ events[s] \in Nat /\ cache[s] \in Seq(Rows) /\ Len(cache[s]) \in Nat
              /\ DOMAIN cache[s] = 1..Len(cache[s])
              /\ \A i \in 1..Len(cache[s]) : cache[s][i].seq \in Sent(s)
              /\ Sent(s) \subseteq 1..events[s] /\ Pending(s) = Numbers(cache[s]) /\ Ascending(cache[s])
              /\ lost[s] = {} => /\ Done(s) \in Nat /\ Done(s) + Len(cache[s]) = events[s] /\ Sent(s) = 1..events[s]
                                 /\ \A i \in 1..Len(cache[s]) : cache[s][i].seq = Done(s) + i
         /\ \A t \in Tables : t[1] \in Streams /\ data[t] \in Seq(Nat)
<1>1. \A t \in Tables : t[1] \in Streams /\ data[t] \in Seq(Nat)
  BY NodeFacts DEF TypeOK
<1>2. ASSUME NEW s \in Streams
      PROVE  /\ events[s] \in Nat /\ cache[s] \in Seq(Rows) /\ Len(cache[s]) \in Nat
             /\ DOMAIN cache[s] = 1..Len(cache[s])
             /\ \A i \in 1..Len(cache[s]) : cache[s][i].seq \in Sent(s)
             /\ Sent(s) \subseteq 1..events[s] /\ Pending(s) = Numbers(cache[s]) /\ Ascending(cache[s])
  <2>1. events[s] \in Nat /\ cache[s] \in Seq(Rows)
    BY DEF TypeOK
  <2>2. Len(cache[s]) \in Nat /\ DOMAIN cache[s] = 1..Len(cache[s])
    BY <2>1
  <2>3. \A i \in 1..Len(cache[s]) : cache[s][i].seq \in Sent(s)
    BY DEF Cached, Pending
  <2>4. Ascending(cache[s]) /\ Pending(s) = Numbers(cache[s]) /\ Sent(s) \subseteq 1..events[s]
    BY DEF Cached, Ascending, Pending, Numbers, Sent
  <2> QED  BY <2>1, <2>2, <2>3, <2>4
<1>3. ASSUME NEW s \in Streams, lost[s] = {}
      PROVE  /\ Done(s) \in Nat /\ Done(s) + Len(cache[s]) = events[s] /\ Sent(s) = 1..events[s]
             /\ \A i \in 1..Len(cache[s]) : cache[s][i].seq = Done(s) + i
  <2>1. events[s] \in Nat /\ Len(cache[s]) \in Nat /\ Len(cache[s]) <= events[s]
    BY <1>2, <1>3 DEF Cached
  <2>2. \A i \in 1..Len(cache[s]) : cache[s][i].seq = Done(s) + i
    BY <1>3 DEF Cached
  <2> QED  BY <1>3, <2>1, <2>2 DEF Done, Sent
<1> QED  BY <1>1, <1>2, <1>3

\* A step that leaves the tables alone, and does not forget what they lack.
LEMMA TablesKept ==
  ASSUME Stored, RowsAppearInOrder, Noted,
         UNCHANGED backed, raised => raised', notes \subseteq notes',
         \A t \in Tables : data'[t] = data[t],
         \A s \in Streams : lost[s] \subseteq lost'[s],
         \A t \in Tables : /\ Sent(t[1]) \subseteq Sent(t[1])'
                           /\ Sent(t[1])' \subseteq Sent(t[1]) \cup Outstanding(t)'
                           /\ Outstanding(t) \subseteq Outstanding(t)',
         ~(backed /\ raised') => \A t \in Single : Outstanding(t)' \cap Sent(t[1]) \subseteq Outstanding(t)
  PROVE  (Stored /\ RowsAppearInOrder /\ Noted)'
<1>1. Stored'
  BY DEF Stored
<1>2. RowsAppearInOrder'
  <2>1. \A t \in Tables : t[1] \in Streams
    BY NodeFacts
  <2> QED  BY <2>1 DEF RowsAppearInOrder
<1>3. Noted'
  <2>1. Single' = Single /\ Single \subseteq Tables
    BY DEF Single
  <2>2. ASSUME NEW t \in Single
        PROVE  \A i, j \in 1..Len(data'[t]) :
                 (i < j /\ data'[t][i] = data'[t][j]) => <<t[1], data'[t][i]>> \in notes'
    <3>1. data'[t] = data[t]
      BY DEF Single
    <3> QED  BY <3>1 DEF Noted
  <2>3. ASSUME NEW t \in Single, ~(backed' /\ raised'), NEW v \in Range(data'[t]) \cap Outstanding(t)'
        PROVE  <<t[1], v>> \in notes'
    <3>1. data'[t] = data[t] /\ ~(backed /\ raised) /\ t \in Tables
      BY <2>1, <2>3
    <3>2. v \in Sent(t[1])
      BY <2>3, <3>1 DEF Stored
    <3>3. v \in Outstanding(t)
      BY <2>3, <3>2
    <3> QED  BY <2>3, <3>1, <3>3 DEF Noted
  <2> QED  BY <2>1, <2>2, <2>3 DEF Noted
<1> QED  BY <1>1, <1>2, <1>3

\* The batch reaches the table at hand.  Either it counts as written there, or
\* its rows are noted.
LEMMA BatchStored ==
  ASSUME TypeOK, Control, Losses, Cached, Stored, RowsAppearInOrder, Noted,
         UNCHANGED <<backed, events, lost>>, raised => raised', notes \subseteq notes',
         NEW n, n = <<job, part>>,
         pc \in {"table", "retry"}, Store(n, cache[job]),
         \A t \in Tables \ {n} : Outstanding(t) \subseteq Outstanding(t)',
         ~(backed /\ raised') => \A t \in Single \ {n} : Outstanding(t)' \subseteq Outstanding(t),
         ~(backed /\ raised') /\ n \in Single => \A v \in Outstanding(n)' : <<job, v>> \in notes'
  PROVE  (Stored /\ RowsAppearInOrder /\ Noted)'
<1> DEFINE rows == cache[job]
<1>1. job \in Streams /\ part \in Nat \ {0} /\ part <= Parts[job] /\ ~(backed /\ raised)
  BY DEF Control, TypeOK
<1>2. n \in Tables /\ n \in Nodes /\ n[1] = job /\ n[2] = part
  BY <1>1, NodeFacts
<1>3. /\ rows \in Seq(Rows) /\ data[n] \in Seq(Nat) /\ Ascending(rows) /\ Pending(job) = Numbers(rows)
      /\ Numbers(rows) \subseteq Sent(job) /\ \A j \in 1..Len(rows) : rows[j].seq \in Sent(job)
      /\ events[job] \in Nat /\ Sent(job) \subseteq 1..events[job]
  BY <1>1, <1>2, NumberFacts DEF Cached
<1>4. Outstanding(n) = Pending(job)
  <2>1. ~Given(n)
    BY <1>1, <1>2 DEF Given
  <2> QED  BY <1>2, <2>1 DEF Outstanding
<1>5. /\ data'[n] = data[n] \o Seqs(rows)
      /\ \A t \in Tables : t # n => data'[t] = data[t]
  BY <1>2, <1>3, StoreFacts, NodeFacts
<1> HIDE DEF rows
<1>6. Range(data'[n]) = Sent(job)
  <2>1. Range(data'[n]) = Range(data[n]) \cup Numbers(rows)
    <3>1. data[n] \in Seq(Nat) /\ rows \in Seq(Rows)
      BY <1>3
    <3> QED  BY ONLY <1>5, <3>1, AppendedFacts
  <2>2. Range(data[n]) \subseteq Sent(job) /\ Sent(job) \subseteq Range(data[n]) \cup Numbers(rows)
    BY <1>2, <1>3, <1>4 DEF Stored
  <2> QED  BY <1>3, <2>1, <2>2
<1>7. \A s \in Streams : Sent(s)' = Sent(s)
  BY DEF Sent
<1>8. Stored'
  <2>1. ASSUME NEW t \in Tables
        PROVE  Range(data'[t]) \subseteq Sent(t[1])' /\ Sent(t[1])' \subseteq Range(data'[t]) \cup Outstanding(t)'
    <3>0. Sent(t[1])' = Sent(t[1])
      BY <1>7, NodeFacts
    <3>1. CASE t = n
      BY <1>2, <1>6, <3>0, <3>1
    <3>2. CASE t # n
      <4>1. Range(data[t]) \subseteq Sent(t[1]) /\ Sent(t[1]) \subseteq Range(data[t]) \cup Outstanding(t)
        BY DEF Stored
      <4>2. Outstanding(t) \subseteq Outstanding(t)' /\ data'[t] = data[t]
        BY <1>5, <3>2
      <4> QED  BY <3>0, <4>1, <4>2
    <3> QED  BY <3>1, <3>2
  <2> QED  BY <2>1 DEF Stored
<1>9. RowsAppearInOrder'
  <2>1. InOrder(data[n], lost[job])
    BY <1>2 DEF InOrder, RowsAppearInOrder
  <2>2. ASSUME NEW j \in 1..Len(rows), NEW x \in 1..(rows[j].seq - 1), x \notin lost[job]
        PROVE  x \in Range(data[n]) \/ x \in Numbers(rows)
    <3>1. rows[j].seq \in 1..events[job]
      BY <1>3
    <3>2. x \in 1..events[job]
      BY <1>3, <3>1
    <3>3. x \in Sent(job)
      BY <2>2, <3>2 DEF Sent
    <3> QED  BY <1>2, <1>3, <1>4, <3>3 DEF Stored
  <2>3. InOrder(data[n] \o Seqs(rows), lost[job])
    <3>1. data[n] \in Seq(Nat) /\ rows \in Seq(Rows) /\ Ascending(rows)
      BY <1>3
    <3>2. \A j \in 1..Len(rows) : \A x \in 1..(rows[j].seq - 1) :
            x \in lost[job] \/ x \in Range(data[n]) \/ x \in Numbers(rows)
      BY <2>2
    <3> QED  BY ONLY <2>1, <3>1, <3>2, AppendedInOrder
  <2>4. \A t \in Tables : InOrder(data'[t], lost'[t[1]])
    BY <1>2, <1>5, <2>3 DEF InOrder, RowsAppearInOrder
  <2> QED  BY <2>4 DEF InOrder, RowsAppearInOrder
<1>10. Noted'
  <2>1. Single' = Single /\ Single \subseteq Tables
    BY DEF Single
  <2>2. ASSUME NEW t \in Single, NEW i \in 1..Len(data'[t]), NEW j \in 1..Len(data'[t]),
               i < j, data'[t][i] = data'[t][j]
        PROVE  <<t[1], data'[t][i]>> \in notes'
    <3>1. CASE t # n
      <4>1. data'[t] = data[t]
        BY <2>1, <3>1, <1>5
      <4> QED  BY <4>1, <2>2 DEF Noted
    <3>2. CASE t = n
      <4>1. \/ i \in 1..Len(data[n]) /\ j \in 1..Len(data[n]) /\ data[n][i] = data[n][j]
               /\ data'[n][i] = data[n][i]
            \/ data'[n][i] \in Range(data[n]) \cap Numbers(rows)
        <5>1. data[n] \in Seq(Nat) /\ rows \in Seq(Rows) /\ Ascending(rows)
          BY <1>3
        <5>2. /\ i \in 1..Len(data[n] \o Seqs(rows)) /\ j \in 1..Len(data[n] \o Seqs(rows)) /\ i < j
              /\ (data[n] \o Seqs(rows))[i] = (data[n] \o Seqs(rows))[j]
          BY <2>2, <3>2, <1>5
        <5>3. data'[n] = data[n] \o Seqs(rows)
          BY <1>5
        <5>4. \/ i \in 1..Len(data[n]) /\ j \in 1..Len(data[n]) /\ data[n][i] = data[n][j]
                 /\ (data[n] \o Seqs(rows))[i] = data[n][i]
              \/ (data[n] \o Seqs(rows))[i] \in Range(data[n]) \cap Numbers(rows)
          BY ONLY <5>1, <5>2, AppendedTwice
        <5> QED  BY ONLY <5>3, <5>4, Zenon
      <4>2. <<t[1], data'[n][i]>> \in notes
        BY <4>1, <3>2, <2>2, <1>1, <1>3, <1>4 DEF Noted
      <4> QED  BY <4>2, <3>2
    <3> QED  BY <3>1, <3>2
  <2>3. ASSUME NEW t \in Single, ~(backed' /\ raised'), NEW v \in Range(data'[t]) \cap Outstanding(t)'
        PROVE  <<t[1], v>> \in notes'
    <3>1. CASE t # n
      <4>1. data'[t] = data[t] /\ v \in Outstanding(t)
        BY <2>1, <3>1, <1>5, <2>3
      <4> QED  BY <4>1, <2>3, <1>1 DEF Noted
    <3>2. CASE t = n
      BY <1>2, <2>3, <3>2
    <3> QED  BY <3>1, <3>2
  <2> QED  BY <2>1, <2>2, <2>3 DEF Noted
<1> QED  BY <1>8, <1>9, <1>10

\* A batch of the one table of a stream is in no table before it is in that.
LEMMA GivenFacts ==
  ASSUME TypeOK, Control
  PROVE  /\ ~backed => \A t \in Single : ~Given(t)
         /\ pc \in {"table", "retry"} => ~Given(<<job, part>>)
         /\ pc \notin {"table", "retry"} => \A t \in Tables : ~Given(t)
         /\ \A t \in Tables : ~Given(t) => Outstanding(t) = Pending(t[1])
<1>1. ASSUME ~backed, NEW t \in Single
      PROVE  ~Given(t)
  <2>1. t \in Tables /\ Parts[t[1]] = 1 /\ t[2] \in 1..Parts[t[1]]
    BY <1>1, NodeFacts DEF Single
  <2>2. part \in Nat \ {0}
    BY DEF TypeOK
  <2>3. pc \in {"table", "retry"} => part <= Parts[job]
    BY DEF Control
  <2> QED  BY <2>1, <2>2, <2>3 DEF Given, InTables
<1>2. ~Given(<<job, part>>)
  <2>1. part \in Nat
    BY DEF TypeOK
  <2> QED  BY <2>1 DEF Given
<1> QED  BY <1>1, <1>2 DEF Given, InTables, Outstanding

-----------------------------------------------------------------------------
(***************************************************************************)
(* The invariant is inductive                                              *)
(***************************************************************************)
LEMMA InitIInv == Init => IInv
<1> SUFFICES ASSUME Init PROVE IInv
  OBVIOUS
<1>0. /\ \A s \in Streams : cache[s] = <<>> /\ events[s] = 0 /\ lost[s] = {} /\ shape[s] = 0
      /\ \A n \in Nodes : data[n] = <<>> /\ Len(data[n]) = 0 /\ Range(data[n]) = {}
      /\ <<>> \in Seq(Rows) /\ <<>> \in Seq(Nat) /\ Len(<<>>) = 0
  BY DEF Init, Range
<1>1. TypeOK
  <2>1. cache \in [Streams -> Seq(Rows)] /\ data \in [Nodes -> Seq(Nat)] /\ events \in [Streams -> Nat]
        /\ lost \in [Streams -> SUBSET Nat] /\ shape \in [Streams -> Nat]
    BY <1>0 DEF Init
  <2>2. refs = {} /\ IsFiniteSet(refs)
    BY FS_EmptySet DEF Init
  <2>3. job \in Streams \cup {NoStream} /\ part \in Nat \ {0} /\ attempts \in Nat /\ faults \in Nat
    BY DEF Init
  <2>4. made = {} /\ notes = {} /\ published = {} /\ closed = {}
    BY DEF Init
  <2>5. /\ backed \in BOOLEAN /\ stopping \in BOOLEAN /\ raised \in BOOLEAN
        /\ pc \in {"idle", "arrays", "upload", "table", "retry", "stop", "close"}
        /\ stopDoc \in BOOLEAN /\ lasting \in BOOLEAN
    BY DEF Init
  <2> QED  BY <2>1, <2>2, <2>3, <2>4, <2>5 DEF TypeOK
<1>2. Control /\ Ended
  BY DEF Init, Control, Ended
<1>3. Known
  BY <1>0 DEF Init, Known
<1>4. Losses /\ \A s \in Streams : Sent(s) = {} /\ 1..Len(cache[s]) = {} /\ Pending(s) = {} /\ Done(s) = 0
  BY <1>0 DEF Losses, Sent, Pending, Done
<1>5. Cached
  BY <1>0, <1>4 DEF Cached
<1>6. Stored /\ RowsAppearInOrder /\ Noted
  <2>1. \A t \in Tables : t[1] \in Streams /\ Range(data[t]) = {} /\ 1..Len(data[t]) = {}
    BY <1>0, NodeFacts
  <2> QED  BY <1>4, <2>1 DEF Stored, RowsAppearInOrder, Noted, Single
<1>7. Aligned /\ Shaped
  <2>1. \A s \in Streams : <<s, 0>> \in Nodes /\ data[<<s, 0>>] = <<>> /\ Len(data[<<s, 0>>]) = 0
    BY <1>0, NodeFacts
  <2>2. <<>> = [i \in 1..0 |-> i]
    OBVIOUS
  <2>3. pc = "idle" /\ refs = {}
    BY DEF Init
  <2>4. \A s \in Streams : data[<<s, 0>>] = [i \in 1..Done(s) |-> i]
    BY <1>4, <2>1, <2>2
  <2>5. \A s \in Streams : AlignedOf(s)
    BY <1>4, <2>3, <2>4 DEF AlignedOf, InTables, Uploading
  <2>6. Aligned
    BY <2>5, StreamsAssumption DEF Aligned
  <2>7. Shaped
    <3>1. \A s \in Streams : shape[s] = 0 /\ Len(data[<<s, 0>>]) = 0
      BY ONLY <1>0, <2>1, Zenon
    <3>2. ASSUME NEW s \in Streams
          PROVE  shape[s] <= Len(data[<<s, 0>>])
      BY ONLY <3>1
    <3> QED  BY ONLY <3>1, <3>2, Zenon DEF Shaped
  <2> QED  BY <2>6, <2>7
<1> QED  BY <1>1, <1>2, <1>3, <1>4, <1>5, <1>6, <1>7 DEF IInv

\* Values d + 1, d + 2, ... behind 1 to d.
LEMMA CountedOn ==
  ASSUME NEW d \in Nat, NEW n \in Nat, NEW rows \in Seq(Rows), d + Len(rows) = n,
         \A i \in 1..Len(rows) : rows[i].seq = d + i
  PROVE  Patched([i \in 1..d |-> i], d, Seqs(rows)) = [i \in 1..n |-> i]
<1> DEFINE r == [i \in 1..d |-> i]
           q == Patched(r, d, Seqs(rows))
<1>1. r \in Seq(Nat) /\ Len(r) = d /\ \A i \in 1..d : r[i] = i
  OBVIOUS
<1>2. Len(rows) \in Nat /\ Seqs(rows) \in Seq(Nat) /\ Len(Seqs(rows)) = Len(rows)
      /\ \A i \in 1..Len(rows) : Seqs(rows)[i] = d + i
  BY SeqsFacts
<1> HIDE DEF r
<1>3. /\ q \in Seq(Nat) \/ d > Len(r)
      /\ Len(q) = IF Len(r) > d + Len(Seqs(rows)) THEN Len(r) ELSE d + Len(Seqs(rows))
      /\ \A i \in 1..Len(q) :
           q[i] = IF i > d /\ i <= d + Len(Seqs(rows)) THEN Seqs(rows)[i - d] ELSE r[i]
  <2>1. Seqs(rows) \in Seq(Nat)
    BY <1>2
  <2> QED  BY <1>1, <2>1, PatchedFacts
<1> HIDE DEF q
<1>4. q \in Seq(Nat) /\ Len(q) = n
  BY <1>1, <1>2, <1>3
<1>5. ASSUME NEW i \in 1..n
      PROVE  q[i] = i
  <2>1. CASE i <= d
    <3>1. q[i] = r[i]
      BY <1>3, <1>4, <2>1
    <3> QED  BY <1>1, <2>1, <3>1
  <2>2. CASE i > d
    <3>1. i - d \in 1..Len(rows) /\ d + (i - d) = i
      BY <1>2, <2>2
    <3>2. q[i] = Seqs(rows)[i - d]
      <4>1. i \in 1..Len(q) /\ i > d /\ d + Len(Seqs(rows)) = n /\ i <= n
        BY <1>2, <1>4, <2>2
      <4> QED  BY <1>3, <4>1
    <3> QED  BY <1>2, <3>1, <3>2
  <2> QED  BY <2>1, <2>2
<1>6. q = [i \in 1..n |-> i]
  BY <1>4, <1>5
<1> QED  BY <1>6 DEF q, r

\* A step that moves no rows.
LEMMA RowsKept ==
  ASSUME IInv, UNCHANGED <<backed, cache, data, events, lost, shape>>,
         notes \subseteq notes', raised => raised',
         \A t \in Tables : Given(t)' => Given(t),
         ~(backed /\ raised') => \A t \in Single : Given(t) => Given(t)',
         \A s \in Streams : <<s, 0>> \in refs' <=> <<s, 0>> \in refs,
         (backed /\ (~raised' \/ stopDoc')) =>
           /\ ~raised \/ stopDoc
           /\ \A s \in ArrayStreams : (InTables(s)' <=> InTables(s)) /\ (Uploading(s)' <=> Uploading(s))
  PROVE  (Losses /\ Cached /\ Stored /\ RowsAppearInOrder /\ Noted /\ Aligned /\ Shaped)'
<1>1. /\ \A s \in Streams : Sent(s)' = Sent(s) /\ Done(s)' = Done(s) /\ Pending(s)' = Pending(s)
      /\ \A t \in Tables : t[1] \in Streams
  BY NodeFacts DEF Sent, Done, Pending
<1>2. Losses' /\ Cached'
  BY <1>1 DEF IInv, Losses, Cached
<1>3. (Stored /\ RowsAppearInOrder /\ Noted)'
  <2>1. \A t \in Tables : Outstanding(t) \subseteq Outstanding(t)'
    BY <1>1 DEF Outstanding
  <2>2. ~(backed /\ raised') => \A t \in Single : Outstanding(t)' = Outstanding(t)
    BY <1>1 DEF Outstanding, Single
  <2>3. Stored /\ RowsAppearInOrder /\ Noted
    BY DEF IInv
  <2>4. \A s \in Streams : lost[s] \subseteq lost'[s]
    OBVIOUS
  <2>5. \A t \in Tables : data'[t] = data[t]
    OBVIOUS
  <2> QED  BY <1>1, <2>1, <2>2, <2>3, <2>4, <2>5, TablesKept
<1>4. Aligned'
  <2>1. SUFFICES ASSUME backed', ~raised' \/ stopDoc', NEW s \in ArrayStreams
                 PROVE  AlignedOf(s)'
    BY DEF Aligned
  <2>2. AlignedOf(s) /\ (InTables(s)' <=> InTables(s)) /\ (Uploading(s)' <=> Uploading(s)) /\ s \in Streams
    BY <2>1, StreamsAssumption DEF IInv, Aligned
  <2>3. Done(s)' = Done(s) /\ (<<s, 0>> \in refs' <=> <<s, 0>> \in refs)
    BY <1>1, <2>2
  <2> QED  BY <2>2, <2>3 DEF AlignedOf
<1>5. Shaped'
  BY DEF IInv, Shaped
<1> QED  BY <1>2, <1>3, <1>4, <1>5

\* The batch is sent to the table at hand, and it may have arrived.
LEMMA BatchTried ==
  ASSUME IInv, pc \in {"table", "retry"}, MayStore(<<job, part>>, cache[job]),
         UNCHANGED <<backed, cache, events, lost, shape, refs>>,
         notes \subseteq notes', raised => raised',
         \A t \in Tables : Given(t)' => Given(t),
         ~(backed /\ raised') =>
           /\ \A t \in Single : Given(t) => Given(t)'
           /\ <<job, part>> \in Single =>
                \A i \in 1..Len(cache[job]) : <<job, cache[job][i].seq>> \in notes',
         (backed /\ (~raised' \/ stopDoc')) =>
           /\ ~raised \/ stopDoc
           /\ \A s \in ArrayStreams : (InTables(s)' <=> InTables(s)) /\ (Uploading(s)' <=> Uploading(s))
  PROVE  (Losses /\ Cached /\ Stored /\ RowsAppearInOrder /\ Noted /\ Aligned /\ Shaped)'
<1>1. CASE UNCHANGED data
  BY <1>1, RowsKept
<1>2. CASE Store(<<job, part>>, cache[job])
  <2>1. PICK n : n = <<job, part>>
    OBVIOUS
  <2>2. /\ n \in Tables /\ n \in Nodes /\ job \in Streams /\ n[1] = job
        /\ \A s \in Streams : <<s, 0>> # n /\ <<s, 0>> \in Nodes
    <3>1. job \in Streams /\ part \in Nat \ {0} /\ part <= Parts[job]
      BY DEF IInv, Control, TypeOK
    <3>2. n \in Tables
      BY <2>1, <3>1, NodeFacts
    <3> QED  BY <2>1, <3>1, <3>2, NodeFacts
  <2>3. /\ \A s \in Streams : Sent(s)' = Sent(s) /\ Done(s)' = Done(s) /\ Pending(s)' = Pending(s)
        /\ \A t \in Tables : t[1] \in Streams
    BY NodeFacts DEF Sent, Done, Pending
  <2>4. Losses' /\ Cached'
    BY <2>3 DEF IInv, Losses, Cached
  <2>5. (Stored /\ RowsAppearInOrder /\ Noted)'
    <3>1. \A t \in Tables \ {n} : Outstanding(t) \subseteq Outstanding(t)'
      BY <2>3 DEF Outstanding
    <3>2. ~(backed /\ raised') => \A t \in Single \ {n} : Outstanding(t)' \subseteq Outstanding(t)
      BY <2>3 DEF Outstanding, Single
    <3>3. ~(backed /\ raised') /\ n \in Single => \A v \in Outstanding(n)' : <<job, v>> \in notes'
      BY <2>1, <2>2, <2>3 DEF Outstanding, Pending
    <3>4. Store(n, cache[job])
      BY <1>2, <2>1
    <3>5. TypeOK /\ Control /\ Losses /\ Cached /\ Stored /\ RowsAppearInOrder /\ Noted
      BY DEF IInv
    <3> QED  BY <2>1, <3>1, <3>2, <3>3, <3>4, <3>5, BatchStored
  <2>6. \A s \in Streams : data'[<<s, 0>>] = data[<<s, 0>>]
    BY <1>2, <2>1, <2>2, StoreFacts DEF IInv, TypeOK
  <2>7. Aligned'
    <3>1. SUFFICES ASSUME backed', ~raised' \/ stopDoc', NEW s \in ArrayStreams
                   PROVE  AlignedOf(s)'
      BY DEF Aligned
    <3>2. AlignedOf(s) /\ (InTables(s)' <=> InTables(s)) /\ (Uploading(s)' <=> Uploading(s)) /\ s \in Streams
      BY <3>1, StreamsAssumption DEF IInv, Aligned
    <3>3. Done(s)' = Done(s) /\ data'[<<s, 0>>] = data[<<s, 0>>]
      BY <2>3, <2>6, <3>2
    <3> QED  BY <3>2, <3>3 DEF AlignedOf
  <2>8. Shaped'
    BY <2>6 DEF IInv, Shaped
  <2> QED  BY <2>4, <2>5, <2>7, <2>8
<1> QED  BY <1>1, <1>2 DEF MayStore

\* The rows of the batch after their arrays have been taken out.
LEMMA PoppedCache ==
  ASSUME TypeOK, job \in Streams, PopArrays
  PROVE  /\ cache' \in [Streams -> Seq(Rows)]
         /\ \A s \in Streams : /\ Len(cache'[s]) = Len(cache[s])
                               /\ \A i \in 1..Len(cache[s]) : cache'[s][i].seq = cache[s][i].seq
                               /\ s # job => cache'[s] = cache[s]
         /\ cache'[job] = Popped(cache[job])
<1>1. cache \in [Streams -> Seq(Rows)] /\ cache' = [cache EXCEPT ![job] = Popped(cache[job])]
  BY DEF TypeOK, PopArrays
<1>2. /\ Popped(cache[job]) \in Seq(Rows) /\ Len(Popped(cache[job])) = Len(cache[job])
      /\ \A i \in 1..Len(cache[job]) : Popped(cache[job])[i].seq = cache[job][i].seq
  BY <1>1, PoppedFacts
<1>3. \A s \in Streams : cache'[s] = IF s = job THEN Popped(cache[job]) ELSE cache[s]
  BY <1>1
<1> QED  BY <1>1, <1>2, <1>3

\* A request about the array node of the batch, and what is cached meanwhile.
LEMMA ArraysTried ==
  ASSUME IInv, job \in Streams,
         \A m \in Nodes : m # <<job, 0>> => data'[m] = data[m],
         UNCHANGED <<backed, events, lost, notes>>, raised => raised',
         \A s \in Streams : /\ Len(cache'[s]) = Len(cache[s])
                            /\ \A i \in 1..Len(cache[s]) : cache'[s][i].seq = cache[s][i].seq,
         \A t \in Tables : ~Given(t) /\ ~Given(t)'
  PROVE  /\ (Losses /\ Cached /\ Stored /\ RowsAppearInOrder /\ Noted)'
         /\ \A s \in Streams : Done(s)' = Done(s)
<1>1. /\ \A s \in Streams : Sent(s)' = Sent(s) /\ Done(s)' = Done(s) /\ Pending(s)' = Pending(s)
      /\ \A t \in Tables : t[1] \in Streams
  BY NodeFacts DEF Sent, Done, Pending
<1>2. Losses'
  BY DEF IInv, Losses
<1>3. Cached'
  BY <1>1 DEF IInv, Cached
<1>4. (Stored /\ RowsAppearInOrder /\ Noted)'
  <2>1. \A t \in Tables : data'[t] = data[t]
    BY NodeFacts
  <2>2. \A t \in Tables : Outstanding(t)' = Outstanding(t)
    BY <1>1 DEF Outstanding
  <2>3. Stored /\ RowsAppearInOrder /\ Noted
    BY DEF IInv
  <2>4. \A s \in Streams : lost[s] \subseteq lost'[s]
    OBVIOUS
  <2> QED  BY <1>1, <2>1, <2>2, <2>3, <2>4, TablesKept DEF Single
<1> QED  BY <1>1, <1>2, <1>3, <1>4

\* What is in the array node of the batch.
LEMMA ArrayFacts ==
  ASSUME IInv, job \in Streams
  PROVE  LET n == <<job, 0>>
         IN /\ n \in Nodes /\ n \notin Tables /\ data[n] \in Seq(Nat) /\ Len(data[n]) \in Nat /\ shape[job] \in Nat
            /\ cache[job] \in Seq(Rows) /\ Arrays(job) \in Seq(Rows) /\ Len(Arrays(job)) \in Nat
            /\ Seqs(Arrays(job)) \in Seq(Nat) /\ Len(Seqs(Arrays(job))) = Len(Arrays(job))
            /\ Create(n) => /\ data' \in [Nodes -> Seq(Nat)] /\ made' = made \cup {n}
                            /\ data'[n] = Filled(Arrays(job)) /\ Len(data'[n]) = Len(Arrays(job))
                            /\ \A m \in Nodes : m # n => data'[m] = data[m]
            /\ Upload(n) => /\ data' \in [Nodes -> Seq(Nat)]
                            /\ data'[n] = Seqs(Arrays(job)) /\ Len(data'[n]) = Len(Arrays(job))
                            /\ \A m \in Nodes : m # n => data'[m] = data[m]
            /\ Patch(n) => /\ data' \in [Nodes -> Seq(Nat)]
                           /\ data'[n] = Patched(data[n], shape[job], Seqs(Arrays(job)))
                           /\ Len(data[n]) <= Len(data'[n])
                           /\ \A m \in Nodes : m # n => data'[m] = data[m]
<1> DEFINE n == <<job, 0>>
           rows == Arrays(job)
<1>1. n \in Nodes /\ n \notin Tables
  BY NodeFacts
<1>2. /\ data \in [Nodes -> Seq(Nat)] /\ data[n] \in Seq(Nat) /\ cache[job] \in Seq(Rows) /\ shape[job] \in Nat
      /\ shape[job] <= Len(data[n])
  BY <1>1 DEF IInv, TypeOK, Shaped
<1>3. rows \in Seq(Rows)
  BY <1>2, WithArraysType DEF Arrays
<1> HIDE DEF rows
<1>4. Len(data[n]) \in Nat /\ Len(rows) \in Nat
  BY <1>2, <1>3
<1>5. Seqs(rows) \in Seq(Nat) /\ Len(Seqs(rows)) = Len(rows)
  BY <1>3, SeqsFacts
<1>6. \A q \in Seq(Nat) : [data EXCEPT ![n] = q] \in [Nodes -> Seq(Nat)] /\ [data EXCEPT ![n] = q][n] = q
                          /\ \A m \in Nodes : m # n => [data EXCEPT ![n] = q][m] = data[m]
  BY <1>1, <1>2
<1>7. Create(n) => /\ data' \in [Nodes -> Seq(Nat)] /\ made' = made \cup {n}
                   /\ data'[n] = Filled(rows) /\ Len(data'[n]) = Len(rows)
                   /\ \A m \in Nodes : m # n => data'[m] = data[m]
  <2>1. Filled(rows) \in Seq(Nat) /\ Len(Filled(rows)) = Len(rows)
    BY <1>4 DEF Filled
  <2>2. Create(n) => data' = [data EXCEPT ![n] = Filled(rows)] /\ made' = made \cup {n}
    BY DEF Create, rows
  <2> QED  BY <1>6, <2>1, <2>2
<1>8. Upload(n) => /\ data' \in [Nodes -> Seq(Nat)]
                   /\ data'[n] = Seqs(rows) /\ Len(data'[n]) = Len(rows)
                   /\ \A m \in Nodes : m # n => data'[m] = data[m]
  <2>1. Upload(n) => data' = [data EXCEPT ![n] = Seqs(rows)]
    BY DEF Upload, rows
  <2> QED  BY <1>5, <1>6, <2>1
<1>9. Patch(n) => /\ data' \in [Nodes -> Seq(Nat)]
                  /\ data'[n] = Patched(data[n], shape[job], Seqs(rows))
                  /\ Len(data[n]) <= Len(data'[n])
                  /\ \A m \in Nodes : m # n => data'[m] = data[m]
  <2> DEFINE q == Patched(data[n], shape[job], Seqs(rows))
  <2>1. Patch(n) => data' = [data EXCEPT ![n] = q]
    BY DEF Patch, rows
  <2>2. /\ q \in Seq(Nat) \/ shape[job] > Len(data[n])
        /\ Len(q) = IF Len(data[n]) > shape[job] + Len(Seqs(rows)) THEN Len(data[n]) ELSE shape[job] + Len(Seqs(rows))
    BY <1>2, <1>5, PatchedFacts
  <2> HIDE DEF q
  <2>3. q \in Seq(Nat) /\ Len(data[n]) <= Len(q)
    BY <1>2, <1>4, <1>5, <2>2
  <2>4. ASSUME Patch(n)
        PROVE  /\ data' \in [Nodes -> Seq(Nat)] /\ data'[n] = q
               /\ \A m \in Nodes : m # n => data'[m] = data[m]
    BY <1>6, <2>1, <2>3, <2>4
  <2> QED  BY <2>3, <2>4 DEF q
<1> QED  BY <1>1, <1>2, <1>3, <1>4, <1>5, <1>7, <1>8, <1>9 DEF rows

\* Before a run with a backup has raised, the batch has all its arrays and the
\* node those of the rows before it.
LEMMA AlignedFacts ==
  ASSUME IInv, backed, ~raised, job \in ArrayStreams, pc \in {"arrays", "upload"}
  PROVE  /\ Arrays(job) = cache[job] /\ lost[job] = {}
         /\ <<job, 0>> \in refs => shape[job] = Len(data[<<job, 0>>])
         /\ IF pc = "upload" THEN Done(job) = 0 ELSE data[<<job, 0>>] = [i \in 1..Done(job) |-> i]
<1>1. job \in Streams /\ cache[job] \in Seq(Rows)
  BY StreamsAssumption DEF IInv, TypeOK
<1>2. AlignedOf(job) /\ ~InTables(job) /\ (Uploading(job) <=> pc = "upload")
  BY DEF IInv, Aligned, InTables, Uploading
<1>3. \A i \in 1..Len(cache[job]) : cache[job][i].array
  BY <1>2 DEF AlignedOf
<1>4. Arrays(job) = cache[job]
  BY <1>1, <1>3, WithArraysAll DEF Arrays
<1>5. lost[job] = {}
  BY <1>1 DEF IInv, Losses
<1> QED  BY <1>2, <1>4, <1>5 DEF AlignedOf

\* Every step preserves it.
LEMMA NextIInv == IInv /\ [Next]_vars => IInv'
<1> SUFFICES ASSUME IInv, [Next]_vars PROVE IInv'
  OBVIOUS
<1> USE DEF batch, server, clients, history, failures, NoFault
<1>t. pc \in {"table", "retry"} => <<job, part>> \in Tables /\ <<job, part>> \in Nodes /\ job \in Streams /\ part # 0
  BY NodeFacts DEF IInv, Control, TypeOK
<1>g. /\ ~backed => \A t \in Single : ~Given(t)
      /\ pc \notin {"table", "retry"} => \A t \in Tables : ~Given(t)
      /\ pc' \notin {"table", "retry"} => \A t \in Tables : ~Given(t)'
      /\ part' = 1 => \A t \in Tables : ~Given(t)'
      /\ Single \subseteq Tables
  <2>1. /\ ~backed => \A t \in Single : ~Given(t)
        /\ pc \notin {"table", "retry"} => \A t \in Tables : ~Given(t)
    BY GivenFacts DEF IInv
  <2>2. pc' \notin {"table", "retry"} => \A t \in Tables : ~Given(t)'
    BY DEF Given, InTables
  <2>3. \A t \in Tables : t[2] \in Nat /\ ~(t[2] < 1)
    BY NodeFacts, SizesAssumption
  <2>4. part' = 1 => \A t \in Tables : ~Given(t)'
    BY <2>3 DEF Given, InTables
  <2> QED  BY <2>1, <2>2, <2>4 DEF Single
<1>0. /\ faults \in Nat /\ lasting \in BOOLEAN
      /\ \A s \in Streams : <<s, 0>> \in Nodes /\ 1 <= Parts[s]
      /\ pc \in {"arrays", "upload", "table", "retry"} => job \in Streams /\ cache[job] # <<>> /\ ~stopDoc /\ ~(backed /\ raised)
  BY NodeFacts, SizesAssumption DEF IInv, TypeOK, Control, Ended

<1>1. CASE NoArrays
  <2>1. TypeOK'
    BY <1>1 DEF IInv, TypeOK, NoArrays, ToTables
  <2>2. Control' /\ Ended' /\ Known'
    BY <1>1, <1>0 DEF IInv, TypeOK, Control, Ended, Known, Flushed, NoArrays, ToTables
  <2>3. UNCHANGED <<backed, cache, data, events, lost, shape>> /\ notes \subseteq notes' /\ (raised => raised')
    BY <1>1 DEF NoArrays, ToTables
  <2>4. /\ \A t \in Tables : Given(t)' => Given(t)
        /\ ~(backed /\ raised') => \A t \in Single : Given(t) => Given(t)'
        /\ \A s \in Streams : <<s, 0>> \in refs' <=> <<s, 0>> \in refs
    BY <1>1, <1>t, <1>g DEF NoArrays, ToTables, Given, InTables
  <2>5. (backed /\ (~raised' \/ stopDoc')) =>
           /\ ~raised \/ stopDoc
           /\ \A s \in ArrayStreams : (InTables(s)' <=> InTables(s)) /\ (Uploading(s)' <=> Uploading(s))
    <3>1. ASSUME backed, ~raised \/ stopDoc, job \in ArrayStreams
          PROVE  FALSE
      <4>1. pc = "arrays" /\ Arrays(job) = <<>> /\ ~raised /\ cache[job] # <<>>
        BY <1>1, <1>0, <3>1 DEF NoArrays
      <4> QED  BY <3>1, <4>1, AlignedFacts
    <3>2. pc = "arrays" /\ UNCHANGED <<job, raised, stopDoc, backed>> /\ pc' = "table"
      BY <1>1 DEF NoArrays, ToTables
    <3> QED  BY <3>1, <3>2 DEF InTables, Uploading
  <2> QED  BY <2>1, <2>2, <2>3, <2>4, <2>5, RowsKept DEF IInv
<1>2. CASE CreateTable
  <2>1. TypeOK'
    <3>1. refs' \subseteq Nodes /\ IsFiniteSet(refs') /\ made' \subseteq Nodes
      BY <1>2, <1>t, FS_AddElement DEF IInv, TypeOK, CreateTable
    <3> QED  BY <1>2, <3>1 DEF IInv, TypeOK, CreateTable
  <2>2. Control' /\ Ended' /\ Known'
    BY <1>2 DEF IInv, TypeOK, Control, Ended, Known, Flushed, CreateTable
  <2>3. UNCHANGED <<backed, cache, data, events, lost, shape>> /\ notes \subseteq notes' /\ (raised => raised')
    BY <1>2 DEF CreateTable
  <2>4. /\ \A t \in Tables : Given(t)' => Given(t)
        /\ ~(backed /\ raised') => \A t \in Single : Given(t) => Given(t)'
        /\ \A s \in Streams : <<s, 0>> \in refs' <=> <<s, 0>> \in refs
    BY <1>2, <1>t, <1>g DEF CreateTable, Given, InTables
  <2>5. (backed /\ (~raised' \/ stopDoc')) =>
           /\ ~raised \/ stopDoc
           /\ \A s \in ArrayStreams : (InTables(s)' <=> InTables(s)) /\ (Uploading(s)' <=> Uploading(s))
    BY <1>2, <1>0 DEF IInv, Ended, Control, CreateTable, InTables, Uploading
  <2> QED  BY <2>1, <2>2, <2>3, <2>4, <2>5, RowsKept DEF IInv
<1>3. CASE CreateTableFails
  <2>1. TypeOK'
    <3>1. made' \subseteq Nodes
      BY <1>3, <1>t DEF IInv, TypeOK, CreateTableFails
    <3>2. UNCHANGED <<faults, lasting>> \/ (faults' = faults + 1 /\ lasting' = TRUE)
      BY <1>3 DEF CreateTableFails, Fault
    <3>3. faults' \in Nat
      BY <1>0, <3>2
    <3>4. lasting' \in BOOLEAN
      BY <1>0, <3>2
    <3> QED  BY <1>3, <3>1, <3>3, <3>4 DEF IInv, TypeOK, CreateTableFails, Raise
  <2>2. Control' /\ Ended' /\ Known'
    <3>1. refs \subseteq made' /\ (made' = made \/ lasting')
      BY <1>3 DEF IInv, Known, CreateTableFails, Fault
    <3>2. \A m \in Nodes : m \notin made' => data'[m] = <<>>
      BY <1>3 DEF IInv, Known, CreateTableFails, Fault
    <3>3. lasting => lasting'
      BY <1>3 DEF CreateTableFails, Fault
    <3> QED  BY <1>3, <3>1, <3>2, <3>3 DEF IInv, TypeOK, Control, Ended, Known, Flushed, CreateTableFails, Raise
  <2>3. UNCHANGED <<backed, cache, data, events, lost, shape>> /\ notes \subseteq notes' /\ (raised => raised')
    BY <1>3 DEF CreateTableFails, Fault, Raise
  <2>4. /\ \A t \in Tables : Given(t)' => Given(t)
        /\ ~(backed /\ raised') => \A t \in Single : Given(t) => Given(t)'
        /\ \A s \in Streams : <<s, 0>> \in refs' <=> <<s, 0>> \in refs
    BY <1>3, <1>t, <1>g DEF CreateTableFails, Fault, Raise, Given, InTables
  <2>5. (backed /\ (~raised' \/ stopDoc')) =>
           /\ ~raised \/ stopDoc
           /\ \A s \in ArrayStreams : (InTables(s)' <=> InTables(s)) /\ (Uploading(s)' <=> Uploading(s))
    BY <1>3, <1>0 DEF IInv, Ended, Control, CreateTableFails, Fault, Raise, InTables, Uploading
  <2> QED  BY <2>1, <2>2, <2>3, <2>4, <2>5, RowsKept DEF IInv
<1>4. CASE AppendRejected
  <2>1. TypeOK'
    BY <1>4 DEF IInv, TypeOK, AppendRejected, Fault, Raise
  <2>2. Control' /\ Ended' /\ Known'
    BY <1>4 DEF IInv, TypeOK, Control, Ended, Known, Flushed, AppendRejected, Fault, Raise
  <2>3. UNCHANGED <<backed, cache, data, events, lost, shape>> /\ notes \subseteq notes' /\ (raised => raised')
    BY <1>4 DEF AppendRejected, Fault, Raise
  <2>4. /\ \A t \in Tables : Given(t)' => Given(t)
        /\ ~(backed /\ raised') => \A t \in Single : Given(t) => Given(t)'
        /\ \A s \in Streams : <<s, 0>> \in refs' <=> <<s, 0>> \in refs
    BY <1>4, <1>t, <1>g DEF AppendRejected, Fault, Raise, Given, InTables
  <2>5. (backed /\ (~raised' \/ stopDoc')) =>
           /\ ~raised \/ stopDoc
           /\ \A s \in ArrayStreams : (InTables(s)' <=> InTables(s)) /\ (Uploading(s)' <=> Uploading(s))
    BY <1>4, <1>0 DEF IInv, Ended, Control, AppendRejected, Fault, Raise, InTables, Uploading
  <2> QED  BY <2>1, <2>2, <2>3, <2>4, <2>5, RowsKept DEF IInv
<1>5. CASE Stop
  <2>1. TypeOK'
    BY <1>5 DEF IInv, TypeOK, Stop, Receiving
  <2>2. Control' /\ Ended' /\ Known'
    BY <1>5 DEF IInv, TypeOK, Control, Ended, Known, Flushed, Stop, Receiving
  <2>3. UNCHANGED <<backed, cache, data, events, lost, shape>> /\ notes \subseteq notes' /\ (raised => raised')
    BY <1>5 DEF Stop, Receiving
  <2>4. /\ \A t \in Tables : Given(t)' => Given(t)
        /\ ~(backed /\ raised') => \A t \in Single : Given(t) => Given(t)'
        /\ \A s \in Streams : <<s, 0>> \in refs' <=> <<s, 0>> \in refs
    BY <1>5, <1>t, <1>g DEF Stop, Receiving, Given, InTables
  <2>5. (backed /\ (~raised' \/ stopDoc')) =>
           /\ ~raised \/ stopDoc
           /\ \A s \in ArrayStreams : (InTables(s)' <=> InTables(s)) /\ (Uploading(s)' <=> Uploading(s))
    BY <1>5, <1>0 DEF IInv, Ended, Control, Stop, Receiving, InTables, Uploading
  <2> QED  BY <2>1, <2>2, <2>3, <2>4, <2>5, RowsKept DEF IInv
<1>6. CASE \E s \in Streams : StopFlush(s)
  <2>1. TypeOK'
    BY <1>6 DEF IInv, TypeOK, StopFlush
  <2>2. Control' /\ Ended' /\ Known'
    BY <1>6 DEF IInv, TypeOK, Control, Ended, Known, Flushed, StopFlush
  <2>3. UNCHANGED <<backed, cache, data, events, lost, shape>> /\ notes \subseteq notes' /\ (raised => raised')
    BY <1>6 DEF StopFlush
  <2>4. /\ \A t \in Tables : Given(t)' => Given(t)
        /\ ~(backed /\ raised') => \A t \in Single : Given(t) => Given(t)'
        /\ \A s \in Streams : <<s, 0>> \in refs' <=> <<s, 0>> \in refs
    BY <1>6, <1>t, <1>g DEF StopFlush, Given, InTables
  <2>5. (backed /\ (~raised' \/ stopDoc')) =>
           /\ ~raised \/ stopDoc
           /\ \A s \in ArrayStreams : (InTables(s)' <=> InTables(s)) /\ (Uploading(s)' <=> Uploading(s))
    BY <1>6, <1>0 DEF IInv, Ended, Control, StopFlush, InTables, Uploading
  <2> QED  BY <2>1, <2>2, <2>3, <2>4, <2>5, RowsKept DEF IInv
<1>7. CASE StopWrite
  <2>1. TypeOK'
    BY <1>7 DEF IInv, TypeOK, StopWrite
  <2>2. Control' /\ Ended' /\ Known'
    BY <1>7 DEF IInv, TypeOK, Control, Ended, Known, Flushed, StopWrite
  <2>3. UNCHANGED <<backed, cache, data, events, lost, shape>> /\ notes \subseteq notes' /\ (raised => raised')
    BY <1>7 DEF StopWrite
  <2>4. /\ \A t \in Tables : Given(t)' => Given(t)
        /\ ~(backed /\ raised') => \A t \in Single : Given(t) => Given(t)'
        /\ \A s \in Streams : <<s, 0>> \in refs' <=> <<s, 0>> \in refs
    BY <1>7, <1>t, <1>g DEF StopWrite, Given, InTables
  <2>5. (backed /\ (~raised' \/ stopDoc')) =>
           /\ ~raised \/ stopDoc
           /\ \A s \in ArrayStreams : (InTables(s)' <=> InTables(s)) /\ (Uploading(s)' <=> Uploading(s))
    BY <1>7, <1>0 DEF IInv, Ended, Control, StopWrite, InTables, Uploading
  <2> QED  BY <2>1, <2>2, <2>3, <2>4, <2>5, RowsKept DEF IInv
<1>8. CASE StopWriteFails
  <2>1. TypeOK'
    <3>1. published' \subseteq Streams \X Nat /\ stopDoc' \in BOOLEAN
      BY <1>8 DEF IInv, TypeOK, StopWriteFails
    <3>2. lasting' \in BOOLEAN /\ faults' \in Nat
      BY <1>8, <1>0 DEF StopWriteFails, Fault
    <3> QED  BY <1>8, <3>1, <3>2 DEF IInv, TypeOK, StopWriteFails, Raise
  <2>2. Control' /\ Ended' /\ Known'
    BY <1>8 DEF IInv, TypeOK, Control, Ended, Known, Flushed, StopWriteFails, Fault, Raise
  <2>3. UNCHANGED <<backed, cache, data, events, lost, shape>> /\ notes \subseteq notes' /\ (raised => raised')
    BY <1>8 DEF StopWriteFails, Fault, Raise
  <2>4. /\ \A t \in Tables : Given(t)' => Given(t)
        /\ ~(backed /\ raised') => \A t \in Single : Given(t) => Given(t)'
        /\ \A s \in Streams : <<s, 0>> \in refs' <=> <<s, 0>> \in refs
    BY <1>8, <1>t, <1>g DEF StopWriteFails, Fault, Raise, Given, InTables
  <2>5. (backed /\ (~raised' \/ stopDoc')) =>
           /\ ~raised \/ stopDoc
           /\ \A s \in ArrayStreams : (InTables(s)' <=> InTables(s)) /\ (Uploading(s)' <=> Uploading(s))
    BY <1>8, <1>0 DEF IInv, Ended, Control, StopWriteFails, Fault, Raise, InTables, Uploading
  <2> QED  BY <2>1, <2>2, <2>3, <2>4, <2>5, RowsKept DEF IInv
<1>9. CASE Close
  <2>1. TypeOK'
    <3>1. PICK failed \in SUBSET (refs \cup {Root}) :
                 /\ faults' = faults + Cardinality(failed)
                 /\ closed' = (refs \cup {Root}) \ failed
                 /\ raised' = (raised \/ failed # {})
                 /\ lasting' = (lasting \/ failed # {})
      BY <1>9 DEF Close
    <3>2. IsFiniteSet(refs \cup {Root}) /\ IsFiniteSet(failed) /\ Cardinality(failed) \in Nat
      BY <3>1, FS_AddElement, FS_Subset, FS_CardinalityType DEF IInv, TypeOK
    <3>3. faults' \in Nat /\ closed' \subseteq Nodes \cup {Root} /\ raised' \in BOOLEAN /\ lasting' \in BOOLEAN
      BY <3>1, <3>2 DEF IInv, TypeOK
    <3> QED  BY <1>9, <3>3 DEF IInv, TypeOK, Close
  <2>2. Control' /\ Ended' /\ Known'
    <3>1. lasting => lasting'
      BY <1>9 DEF Close
    <3> QED  BY <1>9, <3>1 DEF IInv, TypeOK, Control, Ended, Known, Flushed, Close
  <2>3. UNCHANGED <<backed, cache, data, events, lost, shape>> /\ notes \subseteq notes' /\ (raised => raised')
    BY <1>9 DEF Close
  <2>4. /\ \A t \in Tables : Given(t)' => Given(t)
        /\ ~(backed /\ raised') => \A t \in Single : Given(t) => Given(t)'
        /\ \A s \in Streams : <<s, 0>> \in refs' <=> <<s, 0>> \in refs
    BY <1>9, <1>t, <1>g DEF Close, Given, InTables
  <2>5. (backed /\ (~raised' \/ stopDoc')) =>
           /\ ~raised \/ stopDoc
           /\ \A s \in ArrayStreams : (InTables(s)' <=> InTables(s)) /\ (Uploading(s)' <=> Uploading(s))
    BY <1>9, <1>0 DEF IInv, Ended, Control, Close, InTables, Uploading
  <2> QED  BY <2>1, <2>2, <2>3, <2>4, <2>5, RowsKept DEF IInv
<1>10. CASE CreateArrays
  <2> DEFINE n == <<job, 0>>
  <2>1. /\ pc = "arrays" /\ pc' = "upload" /\ Arrays(job) # <<>> /\ n \notin refs /\ n \notin made /\ Create(n)
        /\ job \in Streams /\ cache[job] # <<>> /\ ~stopDoc /\ ~(backed /\ raised)
        /\ UNCHANGED <<backed, job, stopping, part, attempts, cache, refs, shape, notes, raised, stopDoc, published,
                       closed, events, lost, faults, lasting>>
    BY <1>10, <1>0 DEF CreateArrays, Refused
  <2>2. /\ data' \in [Nodes -> Seq(Nat)] /\ made' = made \cup {n} /\ n \in Nodes
        /\ \A m \in Nodes : m # n => data'[m] = data[m]
        /\ Len(data'[n]) \in Nat
    BY <2>1, ArrayFacts
  <2>3. TypeOK'
    BY <2>1, <2>2 DEF IInv, TypeOK
  <2>4. Control' /\ Ended'
    <3>1. Arrays(job)' = Arrays(job)
      BY <2>1 DEF Arrays
    <3>2. Arrays(job)' # <<>> /\ <<job', 0>> \in made' \ refs'
      BY <2>1, <2>2, <3>1
    <3>3. Control'
      BY <2>1, <3>2 DEF Control
    <3>4. Ended'
      BY <2>1 DEF IInv, TypeOK, Ended, Flushed
    <3> QED  BY <3>3, <3>4
  <2>5. Known'
    BY <2>1, <2>2 DEF IInv, Known
  <2>6. /\ (Losses /\ Cached /\ Stored /\ RowsAppearInOrder /\ Noted)'
        /\ \A s \in Streams : Done(s)' = Done(s)
    BY <2>1, <2>2, <1>g, ArraysTried
  <2>7. Shaped'
    <3>1. \A s \in Streams : s # job => data'[<<s, 0>>] = data[<<s, 0>>]
      BY <2>2, <1>0
    <3>2. shape[job] = 0
      BY <2>1 DEF IInv, Shaped
    <3>3. ASSUME NEW s \in Streams
          PROVE  shape'[s] <= Len(data'[<<s, 0>>])
      <4>1. CASE s = job
        BY <2>1, <2>2, <3>2, <4>1
      <4>2. CASE s # job
        BY <2>1, <3>1, <4>2 DEF IInv, Shaped
      <4> QED  BY <4>1, <4>2
    <3> QED  BY <2>1, <3>3 DEF IInv, Shaped
  <2>8. Aligned'
    <3>1. SUFFICES ASSUME backed, ~raised, NEW s \in ArrayStreams
                   PROVE  AlignedOf(s)'
      BY <2>1 DEF Aligned
    <3>2. AlignedOf(s) /\ ~InTables(s) /\ ~InTables(s)' /\ ~Uploading(s) /\ s \in Streams /\ <<s, 0>> \in Nodes
      BY <2>1, <3>1, <1>0, StreamsAssumption DEF IInv, Aligned, InTables, Uploading
    <3>3. CASE s # job
      <4>1. ~Uploading(s)' /\ data'[<<s, 0>>] = data[<<s, 0>>] /\ Done(s)' = Done(s)
        BY <2>1, <2>2, <2>6, <3>2, <3>3 DEF Uploading
      <4> QED  BY <2>1, <3>2, <4>1 DEF AlignedOf
    <3>4. CASE s = job
      <4>1. Uploading(s)' /\ <<s, 0>> \notin refs'
        BY <2>1, <3>4 DEF Uploading
      <4>2. data[n] = <<>> /\ data[n] = [i \in 1..Done(job) |-> i] /\ lost[job] = {}
        BY <2>1, <2>2, <3>1, <3>4, AlignedFacts DEF IInv, Known
      <4>3. Done(job) \in Nat
        BY <2>1, <4>2, NumberFacts DEF IInv
      <4>4. Done(job) = 0
        <5>1. Len([i \in 1..Done(job) |-> i]) = Done(job) /\ Len(<<>>) = 0
          BY <4>3
        <5> QED  BY <4>2, <5>1
      <4>5. Done(s)' = 0
        BY <2>6, <3>2, <3>4, <4>4
      <4> QED  BY <2>1, <3>2, <4>1, <4>5 DEF AlignedOf
    <3> QED  BY <3>3, <3>4
  <2> QED  BY <2>3, <2>4, <2>5, <2>6, <2>7, <2>8 DEF IInv
<1>11. CASE CreateArraysFails \/ UploadArraysFails \/ PatchArraysFails
  <2> DEFINE n == <<job, 0>>
  <2>1. /\ pc \in {"arrays", "upload"} /\ pc' = "idle" /\ PopArrays /\ raised' = TRUE
        /\ job \in Streams /\ ~stopDoc
        /\ UNCHANGED <<backed, job, stopping, part, attempts, refs, shape, notes, stopDoc, published,
                       closed, events, lost>>
        /\ (n \notin refs \/ (n \in made /\ (UNCHANGED data \/ Patch(n))))
    <3>1. /\ pc \in {"arrays", "upload"} /\ pc' = "idle" /\ PopArrays /\ raised' = TRUE
          /\ UNCHANGED <<backed, job, stopping, part, attempts, refs, shape, notes, stopDoc, published,
                         closed, events, lost>>
      BY <1>11 DEF CreateArraysFails, UploadArraysFails, PatchArraysFails, RaisePopped
    <3>2. (n \notin refs \/ (n \in made /\ (UNCHANGED data \/ Patch(n))))
      BY <1>11 DEF CreateArraysFails, UploadArraysFails, PatchArraysFails, IInv, Control, Known
    <3> QED  BY <1>0, <3>1, <3>2
  <2>2. /\ UNCHANGED <<faults, lasting>> \/ (faults' = faults + 1 /\ lasting' = TRUE)
        /\ \/ UNCHANGED <<data, made>>
           \/ Create(n) /\ lasting'
           \/ n \in made /\ UNCHANGED made /\ (Upload(n) \/ Patch(n))
    BY <1>11 DEF CreateArraysFails, UploadArraysFails, PatchArraysFails, Fault, IInv, Control, Known
  <2>3. /\ data' \in [Nodes -> Seq(Nat)] /\ n \in Nodes
        /\ \A m \in Nodes : m # n => data'[m] = data[m]
        /\ Len(data'[n]) \in Nat
    <3>1. CASE UNCHANGED data
      BY <2>1, <3>1, ArrayFacts DEF IInv, TypeOK
    <3>2. CASE Create(n) \/ Upload(n) \/ Patch(n)
      <4>1. data' \in [Nodes -> Seq(Nat)] /\ n \in Nodes /\ \A m \in Nodes : m # n => data'[m] = data[m]
        BY <2>1, <3>2, ArrayFacts
      <4> QED  BY <4>1
    <3> QED  BY <2>2, <3>1, <3>2
  <2>4. /\ cache' \in [Streams -> Seq(Rows)]
        /\ \A s \in Streams : /\ Len(cache'[s]) = Len(cache[s])
                              /\ \A i \in 1..Len(cache[s]) : cache'[s][i].seq = cache[s][i].seq
    BY <2>1, PoppedCache DEF IInv
  <2>5. made' \subseteq Nodes /\ made \subseteq made' /\ (made' = made \/ lasting')
        /\ \A m \in Nodes : m \notin made' => data'[m] = <<>>
    <3>1. made' = made \/ (made' = made \cup {n} /\ lasting')
      BY <2>1, <2>2, ArrayFacts
    <3>2. data' = data \/ n \in made'
      BY <2>1, <2>2, ArrayFacts
    <3>3. made \subseteq Nodes /\ n \in Nodes /\ \A m \in Nodes : m \notin made => data[m] = <<>>
      BY <2>3 DEF IInv, TypeOK, Known
    <3>4. \A m \in Nodes : m \notin made' => data'[m] = <<>>
      BY <2>3, <3>1, <3>2, <3>3
    <3> QED  BY <3>1, <3>3, <3>4
  <2>6. TypeOK'
    <3>1. faults' \in Nat
      BY <1>0, <2>2
    <3>2. lasting' \in BOOLEAN
      BY <1>0, <2>2
    <3> QED  BY <2>1, <2>3, <2>4, <2>5, <3>1, <3>2 DEF IInv, TypeOK
  <2>7. Control' /\ Ended'
    BY <2>1 DEF IInv, TypeOK, Control, Ended, Flushed
  <2>8. Known'
    <3>1. ASSUME ~lasting'
          PROVE  \A m \in made' : m \in refs'
      <4>1. ~lasting /\ made' = made /\ UNCHANGED lasting
        BY <1>0, <2>2, <2>5, <3>1
      <4>2. pc # "upload" \/ lasting'
        BY <1>11 DEF CreateArraysFails, UploadArraysFails, PatchArraysFails, Fault
      <4> QED  BY <2>1, <3>1, <4>1, <4>2 DEF IInv, Known
    <3> QED  BY <2>1, <2>5, <3>1 DEF IInv, Known
  <2>9. (Losses /\ Cached /\ Stored /\ RowsAppearInOrder /\ Noted)'
    <3>1. \A t \in Tables : ~Given(t) /\ ~Given(t)'
      BY <1>g, <2>1
    <3> QED  BY <2>1, <2>3, <2>4, <3>1, ArraysTried
  <2>10. Shaped'
    <3>1. \A s \in Streams : s # job => data'[<<s, 0>>] = data[<<s, 0>>]
      BY <2>3, <1>0
    <3>2. shape[job] <= Len(data'[n])
      <4>1. CASE n \notin refs
        <5>1. shape[job] = 0
          BY <2>1, <4>1 DEF IInv, Shaped
        <5> QED  BY <2>3, <5>1
      <4>2. CASE UNCHANGED data \/ Patch(n)
        <5>1. shape[job] <= Len(data[n]) /\ shape[job] \in Nat /\ Len(data[n]) \in Nat
          BY <2>1, ArrayFacts DEF IInv, Shaped
        <5>2. Len(data[n]) <= Len(data'[n])
          BY <2>1, <4>2, <5>1, ArrayFacts
        <5> QED  BY <2>3, <5>1, <5>2
      <4> QED  BY <2>1, <4>1, <4>2
    <3>3. ASSUME NEW s \in Streams
          PROVE  shape'[s] <= Len(data'[<<s, 0>>])
      <4>1. s # job => shape[s] <= Len(data[<<s, 0>>])
        BY DEF IInv, Shaped
      <4> QED  BY <2>1, <3>1, <3>2, <4>1
    <3>4. \A s \in Streams : <<s, 0>> \notin refs' => shape'[s] = 0
      BY <2>1 DEF IInv, Shaped
    <3> QED  BY ONLY <3>3, <3>4, Zenon DEF Shaped
  <2>11. Aligned'
    BY <2>1 DEF Aligned
  <2> QED  BY <2>6, <2>7, <2>8, <2>9, <2>10, <2>11 DEF IInv
<1>12. CASE UploadArrays \/ PatchArrays
  <2> DEFINE n == <<job, 0>>
  <2>1. /\ pc \in {"arrays", "upload"} /\ pc' = "table" /\ part' = 1 /\ PopArrays /\ n \in made
        /\ job \in Streams /\ cache[job] # <<>> /\ ~stopDoc /\ ~(backed /\ raised)
        /\ refs' = refs \cup {n}
        /\ UNCHANGED <<backed, job, stopping, attempts, notes, raised, made, stopDoc, published,
                       closed, events, lost, faults, lasting>>
        /\ \/ pc = "upload" /\ Upload(n) /\ n \notin refs /\ shape' = [shape EXCEPT ![job] = Len(Arrays(job))]
           \/ pc = "arrays" /\ Patch(n) /\ n \in refs /\ shape' = [shape EXCEPT ![job] = Len(data'[n])]
    <3>1. /\ pc \in {"arrays", "upload"} /\ pc' = "table" /\ part' = 1 /\ PopArrays
          /\ UNCHANGED <<backed, job, stopping, attempts, notes, raised, made, stopDoc, published,
                         closed, events, lost, faults, lasting>>
      BY <1>12 DEF UploadArrays, PatchArrays, ToTables
    <3>2. CASE UploadArrays
      <4>1. n \in made /\ n \notin refs
        BY <3>2 DEF UploadArrays, IInv, Control
      <4> QED  BY <1>0, <3>1, <3>2, <4>1 DEF UploadArrays
    <3>3. CASE PatchArrays
      <4>1. n \in refs /\ n \in made
        BY <3>3 DEF PatchArrays, IInv, Known
      <4>2. refs = refs \cup {n}
        BY <4>1
      <4> QED  BY <1>0, <3>1, <3>3, <4>1, <4>2 DEF PatchArrays
    <3> QED  BY <1>12, <3>2, <3>3
  <2>2. /\ data' \in [Nodes -> Seq(Nat)] /\ n \in Nodes
        /\ \A m \in Nodes : m # n => data'[m] = data[m]
        /\ Len(data'[n]) \in Nat /\ shape' = [shape EXCEPT ![job] = Len(data'[n])]
    <3>1. data' \in [Nodes -> Seq(Nat)] /\ n \in Nodes /\ \A m \in Nodes : m # n => data'[m] = data[m]
      BY <2>1, ArrayFacts
    <3>2. Upload(n) => Len(data'[n]) = Len(Arrays(job))
      BY <2>1, ArrayFacts
    <3>3. Len(data'[n]) \in Nat
      BY <3>1
    <3> QED  BY <2>1, <3>1, <3>2, <3>3
  <2>3. /\ cache' \in [Streams -> Seq(Rows)]
        /\ \A s \in Streams : /\ Len(cache'[s]) = Len(cache[s])
                              /\ \A i \in 1..Len(cache[s]) : cache'[s][i].seq = cache[s][i].seq
                              /\ s # job => cache'[s] = cache[s]
    BY <2>1, PoppedCache DEF IInv
  <2>4. TypeOK'
    <3>1. refs' \subseteq Nodes /\ IsFiniteSet(refs')
      BY <2>1, <2>2, FS_AddElement DEF IInv, TypeOK
    <3>2. shape' \in [Streams -> Nat]
      BY <2>1, <2>2 DEF IInv, TypeOK
    <3> QED  BY <2>1, <2>2, <2>3, <3>1, <3>2 DEF IInv, TypeOK
  <2>5. Control' /\ Ended'
    <3>1. cache'[job] # <<>>
      <4>1. cache[job] \in Seq(Rows) /\ cache'[job] \in Seq(Rows) /\ Len(cache'[job]) = Len(cache[job])
        BY <2>1, <2>3 DEF IInv, TypeOK
      <4> QED  BY <2>1, <4>1
    <3> QED  BY <1>0, <2>1, <3>1 DEF IInv, TypeOK, Control, Ended, Flushed
  <2>6. Known'
    <3>1. \A m \in Nodes : m \notin made' => data'[m] = <<>>
      BY <2>1, <2>2 DEF IInv, Known
    <3>2. refs' \subseteq made'
      BY <2>1 DEF IInv, Known
    <3>3. ~lasting' => \A m \in made' : m \in refs'
      BY <2>1 DEF IInv, Known
    <3> QED  BY <3>1, <3>2, <3>3 DEF Known
  <2>7. /\ (Losses /\ Cached /\ Stored /\ RowsAppearInOrder /\ Noted)'
        /\ \A s \in Streams : Done(s)' = Done(s)
    <3>1. \A t \in Tables : ~Given(t) /\ ~Given(t)'
      BY <1>g, <2>1
    <3> QED  BY <2>1, <2>2, <2>3, <3>1, ArraysTried
  <2>8. Shaped'
    <3>1. \A s \in Streams : s # job => data'[<<s, 0>>] = data[<<s, 0>>] /\ shape'[s] = shape[s]
      BY <2>1, <2>2, <1>0 DEF IInv, TypeOK
    <3>2. shape'[job] = Len(data'[n]) /\ Len(data'[n]) <= Len(data'[n]) /\ n \in refs'
      BY <2>1, <2>2 DEF IInv, TypeOK
    <3>3. ASSUME NEW s \in Streams
          PROVE  shape'[s] <= Len(data'[<<s, 0>>]) /\ (<<s, 0>> \notin refs' => shape'[s] = 0)
      <4>1. shape[s] <= Len(data[<<s, 0>>]) /\ (<<s, 0>> \notin refs => shape[s] = 0)
        BY DEF IInv, Shaped
      <4> QED  BY <2>1, <3>1, <3>2, <4>1
    <3> QED  BY ONLY <3>3, Zenon DEF Shaped
  <2>9. Aligned'
    <3>1. SUFFICES ASSUME backed, ~raised, NEW s \in ArrayStreams
                   PROVE  AlignedOf(s)'
      BY <2>1 DEF Aligned
    <3>2. AlignedOf(s) /\ ~InTables(s) /\ s \in Streams /\ <<s, 0>> \in Nodes /\ ~Uploading(s)'
      BY <2>1, <3>1, <1>0, StreamsAssumption DEF IInv, Aligned, InTables, Uploading
    <3>3. CASE s # job
      <4>1. /\ ~Uploading(s) /\ ~InTables(s)' /\ data'[<<s, 0>>] = data[<<s, 0>>] /\ Done(s)' = Done(s)
            /\ cache'[s] = cache[s] /\ shape'[s] = shape[s] /\ (<<s, 0>> \in refs' <=> <<s, 0>> \in refs)
        BY <2>1, <2>2, <2>3, <2>7, <3>2, <3>3 DEF Uploading, InTables, IInv, TypeOK
      <4> QED  BY <3>2, <4>1 DEF AlignedOf
    <3>4. CASE s = job
      <4>1. InTables(s)' /\ n \in refs' /\ shape'[s] = Len(data'[n])
        BY <2>1, <2>2, <3>2, <3>4 DEF InTables, IInv, TypeOK
      <4>2. /\ Arrays(job) = cache[job] /\ lost[job] = {}
            /\ n \in refs => shape[job] = Len(data[n])
            /\ IF pc = "upload" THEN Done(job) = 0 ELSE data[n] = [i \in 1..Done(job) |-> i]
        BY <2>1, <3>1, <3>4, AlignedFacts
      <4>3. /\ Done(job) \in Nat /\ events[job] \in Nat /\ cache[job] \in Seq(Rows)
            /\ Done(job) + Len(cache[job]) = events[job]
            /\ \A i \in 1..Len(cache[job]) : cache[job][i].seq = Done(job) + i
        BY <2>1, <4>2, NumberFacts DEF IInv
      <4>4. data'[n] = [i \in 1..events[job] |-> i]
        <5>1. CASE pc = "upload"
          <6>1. data'[n] = Seqs(cache[job]) /\ Done(job) = 0
            BY <2>1, <4>2, <5>1, ArrayFacts
          <6>2. Len(cache[job]) = events[job] /\ \A i \in 1..Len(cache[job]) : cache[job][i].seq = i
            BY <4>3, <6>1
          <6>3. Seqs(cache[job]) = [i \in 1..events[job] |-> i]
            BY <6>2 DEF Seqs
          <6> QED  BY <6>1, <6>3
        <5>2. CASE pc = "arrays"
          <6>1. data'[n] = Patched(data[n], shape[job], Seqs(cache[job])) /\ shape[job] = Len(data[n])
            BY <2>1, <4>2, <5>2, ArrayFacts
          <6>2. data[n] = [i \in 1..Done(job) |-> i] /\ shape[job] = Done(job)
            <7>1. data[n] = [i \in 1..Done(job) |-> i]
              BY <4>2, <5>2
            <7>2. Len([i \in 1..Done(job) |-> i]) = Done(job)
              BY <4>3
            <7> QED  BY <6>1, <7>1, <7>2
          <6>3. Patched([i \in 1..Done(job) |-> i], Done(job), Seqs(cache[job])) = [i \in 1..events[job] |-> i]
            BY ONLY <4>3, CountedOn
          <6> QED  BY <6>1, <6>2, <6>3
        <5> QED  BY <2>1, <5>1, <5>2
      <4>5. data'[<<s, 0>>] = [i \in 1..events'[s] |-> i] /\ <<s, 0>> \in refs' /\ shape'[s] = Len(data'[<<s, 0>>])
        BY <2>1, <3>4, <4>1, <4>4
      <4> QED  BY <4>1, <4>5 DEF AlignedOf
    <3> QED  BY <3>3, <3>4
  <2> QED  BY <2>4, <2>5, <2>6, <2>7, <2>8, <2>9 DEF IInv
<1>13. CASE AppendTable
  <2>1. /\ pc \in {"table", "retry"} /\ job \in Streams /\ ~stopDoc /\ ~(backed /\ raised)
        /\ <<job, part>> \in Tables /\ <<job, part>> \in Nodes /\ <<job, part>> \in refs
        /\ part \in Nat \ {0} /\ part <= Parts[job] /\ Parts[job] \in Nat
        /\ UNCHANGED <<backed, job, stopping, attempts, refs, shape, notes, raised, made, stopDoc, published,
                       closed, events, lost, faults, lasting>>
        /\ Store(<<job, part>>, cache[job])
    BY <1>13, <1>0, <1>t, SizesAssumption DEF IInv, TypeOK, Control, Ended, AppendTable
  <2>2. \/ part < Parts[job] /\ pc' = "table" /\ part' = part + 1 /\ UNCHANGED cache
        \/ /\ part = Parts[job] /\ pc' = (IF stopping THEN "stop" ELSE "idle") /\ part' = part
           /\ cache' = [cache EXCEPT ![job] = <<>>]
    BY <1>13, <2>1 DEF AppendTable, NextTable
  <2>3. PICK n : n = <<job, part>>
    OBVIOUS
  <2>4. data' \in [Nodes -> Seq(Nat)] /\ \A m \in Nodes : m # n => data'[m] = data[m]
    BY <2>1, <2>3, StoreFacts DEF IInv, TypeOK
  <2>5. /\ cache' \in [Streams -> Seq(Rows)]
        /\ \A s \in Streams : s # job => cache'[s] = cache[s]
        /\ part < Parts[job] => cache'[job] = cache[job]
        /\ part = Parts[job] => cache'[job] = <<>> /\ Len(cache'[job]) = 0
    <3>1. cache \in [Streams -> Seq(Rows)] /\ <<>> \in Seq(Rows) /\ Len(<<>>) = 0
      BY DEF IInv, TypeOK
    <3>2. CASE part < Parts[job]
      BY <2>1, <2>2, <3>1, <3>2
    <3>3. CASE part = Parts[job]
      <4>1. cache' = [cache EXCEPT ![job] = <<>>]
        BY <2>1, <2>2, <3>3
      <4> QED  BY <2>1, <3>1, <3>3, <4>1
    <3> QED  BY <2>2, <3>2, <3>3
  <2>6. TypeOK'
    <3>1. pc' \in {"idle", "table", "stop"} /\ part' \in Nat \ {0}
      BY <2>1, <2>2
    <3> QED  BY <2>1, <2>4, <2>5, <3>1 DEF IInv, TypeOK
  <2>7. Control' /\ Ended'
    BY <2>1, <2>2 DEF IInv, TypeOK, Control, Ended
  <2>8. Known' /\ Shaped'
    <3>1. \A m \in Nodes : m \notin made' => data'[m] = <<>>
      BY <2>1, <2>3, <2>4 DEF IInv, Known
    <3>2. pc # "upload" /\ UNCHANGED <<made, refs, lasting>>
      BY <2>1
    <3>3. Known'
      BY <3>1, <3>2 DEF IInv, Known
    <3>4. \A s \in Streams : data'[<<s, 0>>] = data[<<s, 0>>]
      BY <2>1, <2>3, <2>4, <1>0, <1>t
    <3>5. Shaped'
      BY <2>1, <3>4 DEF IInv, Shaped
    <3> QED  BY <3>3, <3>5
  <2>9. \A s \in Streams : /\ Sent(s)' = Sent(s)
                           /\ s # job \/ part < Parts[job] => Done(s)' = Done(s) /\ Pending(s)' = Pending(s)
                           /\ s = job /\ part = Parts[job] => Done(s)' = events[s] /\ Pending(s)' = {}
    <3>1. \A s \in Streams : events[s] \in Nat
      BY DEF IInv, TypeOK
    <3>2. ASSUME NEW s \in Streams, s = job, part = Parts[job]
          PROVE  Done(s)' = events[s] /\ Pending(s)' = {}
      <4>1. Len(cache'[s]) = 0 /\ events'[s] = events[s] /\ events[s] \in Nat /\ 1..0 = {}
        BY <2>1, <2>5, <3>1, <3>2
      <4>2. 1..Len(cache'[s]) = {}
        BY <4>1
      <4> QED  BY <4>1, <4>2 DEF Done, Pending
    <3>3. ASSUME NEW s \in Streams, s # job \/ part < Parts[job]
          PROVE  Done(s)' = Done(s) /\ Pending(s)' = Pending(s)
      <4>1. cache'[s] = cache[s] /\ events'[s] = events[s]
        BY <2>1, <2>5, <3>3
      <4> QED  BY <4>1 DEF Done, Pending
    <3>4. \A s \in Streams : Sent(s)' = Sent(s)
      BY <2>1 DEF Sent
    <3> QED  BY <3>2, <3>3, <3>4
  <2>10. Losses' /\ Cached'
    <3>1. Losses'
      BY <2>1 DEF IInv, Losses
    <3>2. ASSUME NEW s \in Streams
          PROVE  /\ Pending(s)' \subseteq Sent(s)'
                 /\ \A i, j \in 1..Len(cache'[s]) : i < j => cache'[s][i].seq < cache'[s][j].seq
                 /\ lost'[s] = {} =>
                      Len(cache'[s]) <= events'[s] /\ \A i \in 1..Len(cache'[s]) : cache'[s][i].seq = Done(s)' + i
      <4>1. CASE s # job \/ part < Parts[job]
        <5>1. cache'[s] = cache[s] /\ events'[s] = events[s] /\ lost'[s] = lost[s] /\ Done(s)' = Done(s)
              /\ Pending(s)' = Pending(s) /\ Sent(s)' = Sent(s)
          BY <2>1, <2>5, <2>9, <4>1
        <5> QED  BY <5>1 DEF IInv, Cached
      <4>2. CASE s = job /\ part = Parts[job]
        <5>1. 1..Len(cache'[s]) = {} /\ Len(cache'[s]) = 0 /\ Pending(s)' = {} /\ events'[s] \in Nat
          BY <2>1, <2>5, <2>9, <4>2 DEF IInv, TypeOK
        <5> QED  BY <5>1
      <4> QED  BY <2>2, <4>1, <4>2
    <3> QED  BY <3>1, <3>2 DEF Cached
  <2>11. /\ \A t \in Tables \ {n} : Outstanding(t)' = Outstanding(t)
         /\ Outstanding(n)' = {}
    <3>1. \A t \in Tables : /\ t[1] \in Streams /\ t[2] \in Nat /\ t[2] <= Parts[t[1]] /\ t = <<t[1], t[2]>>
      BY NodeFacts, SizesAssumption
    <3>2. n \in Tables /\ n[1] = job /\ n[2] = part
      BY <2>1, <2>3
    <3>3. CASE part < Parts[job]
      <4>1. pc' = "table" /\ part' = part + 1 /\ job' = job
        BY <2>1, <2>2, <3>3
      <4>2. \A t \in Tables : Given(t)' <=> (t[1] = job /\ t[2] < part + 1)
        BY <4>1 DEF Given, InTables
      <4>3. \A t \in Tables : Given(t) <=> (t[1] = job /\ t[2] < part)
        BY <2>1 DEF Given, InTables
      <4>4. \A t \in Tables \ {n} : Given(t)' <=> Given(t)
        BY <2>1, <2>3, <3>1, <4>2, <4>3
      <4>5. Given(n)'
        BY <2>1, <3>2, <4>2
      <4>6. \A t \in Tables : Pending(t[1])' = Pending(t[1])
        BY <2>9, <3>1, <3>3
      <4> QED  BY <4>4, <4>5, <4>6 DEF Outstanding
    <3>4. CASE part = Parts[job]
      <4>1. \A t \in Tables : ~Given(t)'
        BY <1>g, <2>1, <2>2, <3>4
      <4>2. \A t \in Tables : t[1] # job => ~Given(t) /\ Pending(t[1])' = Pending(t[1])
        BY <2>9, <3>1 DEF Given, InTables
      <4>3. \A t \in Tables \ {n} : t[1] = job => Given(t)
        BY <2>1, <2>3, <3>1, <3>4 DEF Given, InTables
      <4>4. \A t \in Tables : t[1] = job => Pending(t[1])' = {}
        BY <2>9, <3>1, <3>4
      <4> QED  BY <3>2, <4>1, <4>2, <4>3, <4>4 DEF Outstanding
    <3> QED  BY <2>2, <3>3, <3>4
  <2>12. (Stored /\ RowsAppearInOrder /\ Noted)'
    <3>1. TypeOK /\ Control /\ Losses /\ Cached /\ Stored /\ RowsAppearInOrder /\ Noted
      BY DEF IInv
    <3>2. \A t \in Tables \ {n} : Outstanding(t) \subseteq Outstanding(t)'
      BY <2>11
    <3>3. \A t \in Single \ {n} : Outstanding(t)' \subseteq Outstanding(t)
      BY <2>11 DEF Single
    <3>4. \A v \in Outstanding(n)' : <<job, v>> \in notes'
      BY <2>11
    <3> QED  BY <2>1, <2>3, <3>1, <3>2, <3>3, <3>4, BatchStored
  <2>13. Aligned'
    <3>1. SUFFICES ASSUME backed, ~raised, NEW s \in ArrayStreams
                   PROVE  AlignedOf(s)'
      BY <2>1 DEF Aligned
    <3>2. s \in Streams /\ data'[<<s, 0>>] = data[<<s, 0>>] /\ ~Uploading(s)' /\ ~Uploading(s) /\ AlignedOf(s)
      BY <2>1, <2>2, <2>3, <2>4, <3>1, <1>0, <1>t, StreamsAssumption DEF Uploading, IInv, Aligned
    <3>3. CASE s # job
      <4>1. ~InTables(s) /\ ~InTables(s)' /\ cache'[s] = cache[s] /\ Done(s)' = Done(s)
        BY <2>1, <2>5, <2>9, <3>2, <3>3 DEF InTables
      <4> QED  BY <2>1, <3>2, <4>1 DEF AlignedOf
    <3>4. CASE s = job
      <4>1. <<s, 0>> \in refs /\ data[<<s, 0>>] = [i \in 1..events[s] |-> i] /\ shape[s] = Len(data[<<s, 0>>])
        BY <2>1, <3>2, <3>4 DEF AlignedOf, InTables
      <4>2. CASE part < Parts[job]
        <5>1. InTables(s)'
          BY <2>1, <2>2, <3>4, <4>2 DEF InTables
        <5> QED  BY <2>1, <3>2, <4>1, <5>1 DEF AlignedOf
      <4>3. CASE part = Parts[job]
        <5>1. 1..Len(cache'[s]) = {} /\ Done(s)' = events[s]
          BY <2>5, <2>9, <3>2, <3>4, <4>3
        <5>2. ~InTables(s)'
          BY <2>1, <2>2, <4>3 DEF InTables
        <5> QED  BY <2>1, <3>2, <4>1, <5>1, <5>2 DEF AlignedOf
      <4> QED  BY <2>2, <4>2, <4>3
    <3> QED  BY <3>3, <3>4
  <2> QED  BY <2>6, <2>7, <2>8, <2>10, <2>12, <2>13 DEF IInv
<1>14. CASE AppendTransient
  <2>1. /\ pc \in {"table", "retry"} /\ MayStore(<<job, part>>, cache[job])
        /\ UNCHANGED <<backed, cache, events, lost, shape, refs>> /\ notes \subseteq notes' /\ (raised => raised')
        /\ <<job, part>> \in Tables /\ <<job, part>> \in Nodes /\ job \in Streams /\ <<job, part>> \in refs
    BY <1>14, <1>t DEF AppendTransient, Fault, IInv, Control
  <2>2. data' \in [Nodes -> Seq(Nat)] /\ \A m \in Nodes : m # <<job, part>> => data'[m] = data[m]
    <3>1. cache[job] \in Seq(Rows) /\ data \in [Nodes -> Seq(Nat)]
      BY <2>1 DEF IInv, TypeOK
    <3> QED  BY <2>1, <3>1, StoreFacts DEF IInv, MayStore
  <2>3. TypeOK'
    <3>1. faults' \in Nat /\ lasting' \in BOOLEAN
      BY <1>14, <1>0 DEF AppendTransient, Fault
    <3>2. notes' \subseteq Streams \X Nat
      <4>1. cache[job] \in Seq(Rows)
        BY <2>1 DEF IInv, TypeOK
      <4>2. \A row \in Range(cache[job]) : row \in Rows
        BY <4>1, RangeOfSeq
      <4>3. \A row \in Rows : row.seq \in Nat
        BY DEF Rows
      <4> QED  BY <1>14, <2>1, <4>2, <4>3 DEF IInv, TypeOK, AppendTransient
    <3>3. attempts' \in Nat
      BY <1>14, SizesAssumption DEF AppendTransient
    <3> QED  BY <1>14, <2>1, <2>2, <3>1, <3>2, <3>3 DEF IInv, TypeOK, AppendTransient, Fault
  <2>4. Control' /\ Ended'
    <3>1. \A i \in 1..Len(cache[job]) : <<job, cache[job][i].seq>> \in notes'
      <4>1. DOMAIN cache[job] = 1..Len(cache[job])
        BY <2>1 DEF IInv, TypeOK
      <4> QED  BY <1>14, <4>1 DEF AppendTransient, Range
    <3>2. attempts' > 0
      BY <1>14, SizesAssumption DEF AppendTransient
    <3>3. pc = "table" /\ pc' = "retry" /\ UNCHANGED <<backed, job, part, stopping, raised, stopDoc, closed>>
      BY <1>14 DEF AppendTransient
    <3>4. ~stopDoc /\ closed = {} /\ part <= Parts[job] /\ cache[job] # <<>> /\ ~(backed /\ raised)
      BY <1>0, <3>3 DEF IInv, Control, Ended
    <3>5. Control'
      BY <2>1, <3>1, <3>2, <3>3, <3>4 DEF Control
    <3>6. Ended'
      BY <3>3, <3>4 DEF Ended
    <3> QED  BY <3>5, <3>6
  <2>5. Known'
    <3>1. \A m \in Nodes : m \notin made' => data'[m] = <<>>
      BY <1>14, <2>1, <2>2 DEF IInv, Known, AppendTransient, Fault
    <3>2. pc # "upload" /\ (lasting => lasting') /\ UNCHANGED <<made, refs>>
      BY <1>14, <2>1, <1>0 DEF AppendTransient, Fault
    <3>3. ~lasting' => \A m \in made' : m \in refs'
      BY <1>0, <3>2 DEF IInv, Known
    <3> QED  BY <3>1, <3>2, <3>3 DEF IInv, Known
  <2>6. /\ \A t \in Tables : Given(t)' => Given(t)
        /\ ~(backed /\ raised') => \A t \in Single : Given(t) => Given(t)'
    BY <1>14, <2>1, <1>g DEF AppendTransient, Fault, Given, InTables
  <2>7. ~(backed /\ raised') /\ <<job, part>> \in Single =>
          \A i \in 1..Len(cache[job]) : <<job, cache[job][i].seq>> \in notes'
    <3>1. DOMAIN cache[job] = 1..Len(cache[job])
      BY <2>1 DEF IInv, TypeOK
    <3> QED  BY <1>14, <3>1 DEF AppendTransient, Range
  <2>8. (backed /\ (~raised' \/ stopDoc')) =>
           /\ ~raised \/ stopDoc
           /\ \A s \in ArrayStreams : (InTables(s)' <=> InTables(s)) /\ (Uploading(s)' <=> Uploading(s))
    BY <1>14, <2>1, <1>0 DEF AppendTransient, Fault, InTables, Uploading
  <2>9. (Losses /\ Cached /\ Stored /\ RowsAppearInOrder /\ Noted /\ Aligned /\ Shaped)'
    BY <2>1, <2>6, <2>7, <2>8, BatchTried
  <2> QED  BY <2>3, <2>4, <2>5, <2>9 DEF IInv
<1>15. CASE AppendNotNoted
  <2>1. /\ pc \in {"table", "retry"} /\ MayStore(<<job, part>>, cache[job])
        /\ UNCHANGED <<backed, cache, events, lost, shape, refs>> /\ notes \subseteq notes' /\ (raised => raised')
        /\ <<job, part>> \in Tables /\ <<job, part>> \in Nodes /\ job \in Streams /\ <<job, part>> \in refs
    BY <1>15, <1>t DEF AppendNotNoted, Fault, Raise, IInv, Control
  <2>2. data' \in [Nodes -> Seq(Nat)] /\ \A m \in Nodes : m # <<job, part>> => data'[m] = data[m]
    <3>1. cache[job] \in Seq(Rows) /\ data \in [Nodes -> Seq(Nat)]
      BY <2>1 DEF IInv, TypeOK
    <3> QED  BY <2>1, <3>1, StoreFacts DEF IInv, MayStore
  <2>3. TypeOK'
    <3>1. faults' \in Nat /\ lasting' \in BOOLEAN
      BY <1>15, <1>0 DEF AppendNotNoted, Fault
    <3> QED  BY <1>15, <2>1, <2>2, <3>1 DEF IInv, TypeOK, AppendNotNoted, Fault, Raise
  <2>4. Control' /\ Ended'
    BY <1>15, <2>1 DEF IInv, TypeOK, Control, Ended, AppendNotNoted, Raise
  <2>5. Known'
    <3>1. \A m \in Nodes : m \notin made' => data'[m] = <<>>
      BY <1>15, <2>1, <2>2 DEF IInv, Known, AppendNotNoted, Fault, Raise
    <3>2. pc # "upload" /\ (lasting => lasting') /\ UNCHANGED <<made, refs>>
      BY <1>15, <2>1, <1>0 DEF AppendNotNoted, Fault, Raise
    <3>3. ~lasting' => \A m \in made' : m \in refs'
      BY <1>0, <3>2 DEF IInv, Known
    <3> QED  BY <3>1, <3>2, <3>3 DEF IInv, Known
  <2>6. /\ \A t \in Tables : Given(t)' => Given(t)
        /\ ~(backed /\ raised') => \A t \in Single : Given(t) => Given(t)'
    BY <1>15, <2>1, <1>g DEF AppendNotNoted, Fault, Raise, Given, InTables
  <2>7. ~(backed /\ raised') /\ <<job, part>> \in Single =>
          \A i \in 1..Len(cache[job]) : <<job, cache[job][i].seq>> \in notes'
    <3>1. part # SeqNumPart[job] /\ part \in Nat \ {0} /\ part <= Parts[job] /\ ~(backed /\ raised') => ~backed
      BY <1>15 DEF IInv, TypeOK, Control, AppendNotNoted, Raise
    <3>2. SeqNumPart[job] \in 1..Parts[job]
      BY <2>1, SizesAssumption
    <3>3. Parts[job] # 1 /\ (~(backed /\ raised') => ~backed)
      BY <1>15, <3>2 DEF IInv, TypeOK, Control, AppendNotNoted, Raise
    <3> QED  BY <3>3 DEF Single
  <2>8. (backed /\ (~raised' \/ stopDoc')) =>
           /\ ~raised \/ stopDoc
           /\ \A s \in ArrayStreams : (InTables(s)' <=> InTables(s)) /\ (Uploading(s)' <=> Uploading(s))
    BY <1>15, <2>1, <1>0 DEF AppendNotNoted, Fault, Raise, InTables, Uploading
  <2>9. (Losses /\ Cached /\ Stored /\ RowsAppearInOrder /\ Noted /\ Aligned /\ Shaped)'
    BY <2>1, <2>6, <2>7, <2>8, BatchTried
  <2> QED  BY <2>3, <2>4, <2>5, <2>9 DEF IInv
<1>16. CASE RetryTransient
  <2>1. /\ pc \in {"table", "retry"} /\ MayStore(<<job, part>>, cache[job])
        /\ UNCHANGED <<backed, cache, events, lost, shape, refs>> /\ notes \subseteq notes' /\ (raised => raised')
        /\ <<job, part>> \in Tables /\ <<job, part>> \in Nodes /\ job \in Streams /\ <<job, part>> \in refs
    BY <1>16, <1>t DEF RetryTransient, Fault, Raise, IInv, Control
  <2>2. data' \in [Nodes -> Seq(Nat)] /\ \A m \in Nodes : m # <<job, part>> => data'[m] = data[m]
    <3>1. cache[job] \in Seq(Rows) /\ data \in [Nodes -> Seq(Nat)]
      BY <2>1 DEF IInv, TypeOK
    <3> QED  BY <2>1, <3>1, StoreFacts DEF IInv, MayStore
  <2>3. TypeOK'
    <3>1. faults' \in Nat
      BY <1>16, <1>0 DEF RetryTransient, Fault
    <3>2. lasting' \in BOOLEAN
      BY <1>16, <1>0 DEF RetryTransient, Fault
    <3>3. attempts' \in Nat
      BY <1>16 DEF IInv, TypeOK, Control, RetryTransient
    <3>4. raised' \in BOOLEAN /\ pc' \in {"idle", "retry"}
      BY <1>16 DEF IInv, TypeOK, RetryTransient, Raise
    <3> QED  BY <1>16, <2>1, <2>2, <3>1, <3>2, <3>3, <3>4 DEF IInv, TypeOK, RetryTransient, Fault, Raise
  <2>4. Control' /\ Ended'
    <3>1. pc' = "retry" => attempts' > 0 /\ raised' = raised
      BY <1>16 DEF IInv, TypeOK, Control, RetryTransient, Raise
    <3>2. pc' = "idle" \/ pc' = "retry"
      BY <1>16 DEF RetryTransient, Raise
    <3> QED  BY <1>16, <2>1, <3>1, <3>2 DEF IInv, TypeOK, Control, Ended, RetryTransient
  <2>5. Known'
    <3>1. \A m \in Nodes : m \notin made' => data'[m] = <<>>
      BY <1>16, <2>1, <2>2 DEF IInv, Known, RetryTransient, Fault, Raise
    <3>2. pc # "upload" /\ (lasting => lasting') /\ UNCHANGED <<made, refs>>
      BY <1>16, <2>1, <1>0 DEF RetryTransient, Fault, Raise
    <3>3. ~lasting' => \A m \in made' : m \in refs'
      BY <1>0, <3>2 DEF IInv, Known
    <3> QED  BY <3>1, <3>2, <3>3 DEF IInv, Known
  <2>6. /\ \A t \in Tables : Given(t)' => Given(t)
        /\ ~(backed /\ raised') => \A t \in Single : Given(t) => Given(t)'
    BY <1>16, <2>1, <1>g DEF RetryTransient, Fault, Raise, Given, InTables
  <2>7. ~(backed /\ raised') /\ <<job, part>> \in Single =>
          \A i \in 1..Len(cache[job]) : <<job, cache[job][i].seq>> \in notes'
    BY <1>16 DEF IInv, Control, RetryTransient
  <2>8. (backed /\ (~raised' \/ stopDoc')) =>
           /\ ~raised \/ stopDoc
           /\ \A s \in ArrayStreams : (InTables(s)' <=> InTables(s)) /\ (Uploading(s)' <=> Uploading(s))
    BY <1>16, <2>1, <1>0 DEF RetryTransient, Fault, Raise, InTables, Uploading
  <2>9. (Losses /\ Cached /\ Stored /\ RowsAppearInOrder /\ Noted /\ Aligned /\ Shaped)'
    BY <2>1, <2>6, <2>7, <2>8, BatchTried
  <2> QED  BY <2>3, <2>4, <2>5, <2>9 DEF IInv
<1>17. ASSUME NEW s \in Streams, Event(s)
       PROVE  IInv'
  <2>1. /\ pc = "idle" /\ ~stopping /\ (backed => ~raised)
        /\ UNCHANGED <<backed, stopping, part, attempts, refs, shape, notes, raised, data, made, stopDoc, published,
                       closed, lost, faults, lasting>>
        /\ events' = [events EXCEPT ![s] = events[s] + 1]
        /\ cache' = [cache EXCEPT ![s] = Append(cache[s], Row(s, events[s] + 1))]
        /\ pc' = "idle" \/ (pc' = "arrays" /\ job' = s)
    BY <1>17 DEF IInv, TypeOK, Event, Receiving
  <2>2. /\ events'[s] = events[s] + 1 /\ events[s] \in Nat /\ cache[s] \in Seq(Rows) /\ Len(cache[s]) \in Nat
        /\ Row(s, events[s] + 1) \in Rows /\ Row(s, events[s] + 1).seq = events[s] + 1
        /\ Row(s, events[s] + 1).array = (s \in ArrayStreams)
    BY <2>1 DEF IInv, TypeOK, Rows, Row
  <2>3. /\ cache'[s] = Append(cache[s], Row(s, events[s] + 1)) /\ cache'[s] \in Seq(Rows)
        /\ Len(cache'[s]) = Len(cache[s]) + 1
        /\ \A i \in 1..Len(cache[s]) : cache'[s][i] = cache[s][i]
        /\ cache'[s][Len(cache[s]) + 1] = Row(s, events[s] + 1)
        /\ \A r \in Streams : r # s => cache'[r] = cache[r] /\ events'[r] = events[r]
    BY <2>1, <2>2, AppendProperties DEF IInv, TypeOK
  <2>4. TypeOK'
    <3>1. cache' \in [Streams -> Seq(Rows)] /\ events' \in [Streams -> Nat]
      BY <2>1, <2>2, <2>3 DEF IInv, TypeOK
    <3>2. job' \in Streams \cup {NoStream}
      BY <1>17, <2>1 DEF IInv, TypeOK, Event
    <3> QED  BY <2>1, <3>1, <3>2 DEF IInv, TypeOK
  <2>5. Control' /\ Ended' /\ Known' /\ Shaped'
    <3>1. cache'[s] # <<>>
      <4>1. Len(cache'[s]) # 0 /\ Len(<<>>) = 0
        BY <2>2, <2>3
      <4> QED  BY ONLY <4>1
    <3>2. ~stopDoc
      BY <2>1 DEF IInv, TypeOK, Ended
    <3>3. Control' /\ Ended'
      BY <2>1, <3>1, <3>2 DEF IInv, TypeOK, Control, Ended
    <3> QED  BY <2>1, <3>3 DEF IInv, Known, Shaped
  <2>6. /\ Sent(s)' = Sent(s) \cup {events[s] + 1} /\ events[s] + 1 \notin Sent(s) /\ Sent(s) \subseteq 1..events[s]
        /\ Pending(s)' = Pending(s) \cup {events[s] + 1}
        /\ \A r \in Streams : r # s => Sent(r)' = Sent(r) /\ Pending(r)' = Pending(r)
        /\ \A r \in Streams : Done(r)' = Done(r)
    <3>1. lost[s] \subseteq 1..events[s]
      BY DEF IInv, Losses
    <3>2. Sent(s)' = Sent(s) \cup {events[s] + 1} /\ events[s] + 1 \notin Sent(s) /\ Sent(s) \subseteq 1..events[s]
      <4>1. events[s] + 1 \notin lost[s] /\ 1..(events[s] + 1) = 1..events[s] \cup {events[s] + 1}
            /\ events[s] + 1 \notin 1..events[s]
        BY <2>2, <3>1
      <4> QED  BY <2>1, <2>2, <4>1 DEF Sent
    <3>3. Pending(s)' = Pending(s) \cup {events[s] + 1}
      <4>1. \A i \in 1..Len(cache'[s]) : i \in 1..Len(cache[s]) \/ i = Len(cache[s]) + 1
        BY <2>2, <2>3
      <4>2. \A i \in 1..Len(cache[s]) : i \in 1..Len(cache'[s])
        BY <2>2, <2>3
      <4>3. Len(cache[s]) + 1 \in 1..Len(cache'[s])
        BY <2>2, <2>3
      <4> QED  BY <2>2, <2>3, <4>1, <4>2, <4>3 DEF Pending
    <3>4. \A r \in Streams : r # s => Sent(r)' = Sent(r) /\ Pending(r)' = Pending(r)
      BY <2>1, <2>3 DEF Sent, Pending
    <3>5. \A r \in Streams : Done(r)' = Done(r)
      <4>1. ASSUME NEW r \in Streams, r # s
            PROVE  Done(r)' = Done(r)
        BY <2>3, <4>1 DEF Done
      <4>2. Done(s)' = Done(s)
        BY <2>2, <2>3 DEF Done
      <4> QED  BY <4>1, <4>2
    <3> QED  BY <3>2, <3>3, <3>4, <3>5
  <2>7. Losses'
    <3>2. ASSUME NEW r \in Streams
          PROVE  1..events[r] \subseteq 1..events'[r]
      <4>1. CASE r = s
        BY <2>2, <4>1
      <4>2. CASE r # s
        BY <2>3, <4>2
      <4> QED  BY <4>1, <4>2
    <3> QED  BY <2>1, <3>2 DEF IInv, Losses
  <2>8. Cached'
    <3>0. /\ \A i \in 1..Len(cache[s]) : cache[s][i].seq \in Sent(s)
          /\ Pending(s) \subseteq Sent(s) /\ Ascending(cache[s])
          /\ lost[s] = {} => Done(s) \in Nat /\ Done(s) + Len(cache[s]) = events[s]
      BY NumberFacts DEF IInv, Cached
    <3>1. \A i \in 1..Len(cache'[s]) :
            \/ i \in 1..Len(cache[s]) /\ cache'[s][i].seq = cache[s][i].seq /\ cache[s][i].seq \in 1..events[s]
            \/ i = Len(cache[s]) + 1 /\ cache'[s][i].seq = events[s] + 1
      BY <2>2, <2>3, <2>6, <3>0
    <3>2. ASSUME NEW i \in 1..Len(cache'[s]), NEW j \in 1..Len(cache'[s]), i < j
          PROVE  cache'[s][i].seq < cache'[s][j].seq
      <4>1. i \in 1..Len(cache[s])
        BY <2>2, <2>3, <3>2
      <4>2. cache'[s][i].seq = cache[s][i].seq /\ cache[s][i].seq \in 1..events[s]
        BY <2>2, <3>1, <4>1
      <4>3. CASE j \in 1..Len(cache[s])
        <5>1. cache'[s][j].seq = cache[s][j].seq
          BY <2>3, <4>3
        <5> QED  BY <3>0, <3>2, <4>1, <4>2, <4>3, <5>1 DEF Ascending
      <4>4. CASE j = Len(cache[s]) + 1
        BY <2>2, <2>3, <4>2, <4>4
      <4> QED  BY <3>1, <4>3, <4>4
    <3>3. ASSUME lost'[s] = {}
          PROVE  Len(cache'[s]) <= events'[s] /\ \A i \in 1..Len(cache'[s]) : cache'[s][i].seq = Done(s)' + i
      <4>1. PICK d \in Nat, n \in Nat, e \in Nat : d = Done(s) /\ n = Len(cache[s]) /\ e = events[s] /\ d + n = e
        BY <2>1, <2>2, <3>0, <3>3
      <4>2. \A i \in 1..n : cache'[s][i].seq = d + i
        BY <2>1, <2>3, <3>3, <4>1 DEF IInv, Cached
      <4>3. cache'[s][n + 1].seq = d + (n + 1)
        <5>1. cache'[s][n + 1].seq = e + 1
          BY <2>2, <2>3, <4>1
        <5> QED  BY <4>1, <5>1
      <4>4. \A i \in 1..(n + 1) : i \in 1..n \/ i = n + 1
        OBVIOUS
      <4>5. Len(cache'[s]) = n + 1 /\ events'[s] = e + 1 /\ Done(s)' = d /\ n + 1 <= e + 1
        BY <2>2, <2>3, <2>6, <4>1
      <4> QED  BY <4>2, <4>3, <4>4, <4>5
    <3>4. Pending(s)' \subseteq Sent(s)'
      BY <2>6, <3>0
    <3>5. ASSUME NEW r \in Streams, r # s
          PROVE  /\ Pending(r)' \subseteq Sent(r)'
                 /\ \A i, j \in 1..Len(cache'[r]) : i < j => cache'[r][i].seq < cache'[r][j].seq
                 /\ lost'[r] = {} =>
                      Len(cache'[r]) <= events'[r] /\ \A i \in 1..Len(cache'[r]) : cache'[r][i].seq = Done(r)' + i
      <4>1. cache'[r] = cache[r] /\ events'[r] = events[r] /\ lost'[r] = lost[r] /\ Done(r)' = Done(r)
            /\ Pending(r)' = Pending(r) /\ Sent(r)' = Sent(r)
        BY <2>1, <2>3, <2>6, <3>5
      <4> QED  BY <4>1 DEF IInv, Cached
    <3> QED  BY <3>2, <3>3, <3>4, <3>5 DEF Cached
  <2>9. (Stored /\ RowsAppearInOrder /\ Noted)'
    <3>1. Stored /\ RowsAppearInOrder /\ Noted
      BY DEF IInv
    <3>2. \A t \in Tables : t[1] \in Streams /\ ~Given(t) /\ ~Given(t)' /\ data'[t] = data[t]
      BY <1>g, <2>1, NodeFacts
    <3>3. \A t \in Tables : Outstanding(t) = Pending(t[1]) /\ Outstanding(t)' = Pending(t[1])'
      BY <3>2 DEF Outstanding
    <3>4. \A t \in Tables : /\ Sent(t[1]) \subseteq Sent(t[1])'
                            /\ Sent(t[1])' \subseteq Sent(t[1]) \cup Outstanding(t)'
                            /\ Outstanding(t) \subseteq Outstanding(t)'
                            /\ Outstanding(t)' \cap Sent(t[1]) \subseteq Outstanding(t)
      BY <2>6, <3>2, <3>3
    <3>5. \A r \in Streams : lost[r] \subseteq lost'[r]
      BY <2>1
    <3> QED  BY <2>1, <3>1, <3>2, <3>4, <3>5, TablesKept DEF Single
  <2>10. Aligned'
    <3>1. SUFFICES ASSUME backed', ~raised' \/ stopDoc', NEW r \in ArrayStreams
                   PROVE  AlignedOf(r)'
      BY DEF Aligned
    <3>2. r \in Streams /\ ~InTables(r) /\ ~InTables(r)' /\ ~Uploading(r) /\ ~Uploading(r)' /\ AlignedOf(r)
      BY <2>1, <3>1, StreamsAssumption DEF InTables, Uploading, IInv, Aligned
    <3>3. \A i \in 1..Len(cache'[r]) : cache'[r][i].array
      <4>1. \A i \in 1..Len(cache[r]) : cache[r][i].array
        BY <3>2 DEF AlignedOf
      <4>2. CASE r # s
        BY <2>3, <3>2, <4>1, <4>2
      <4>3. CASE r = s
        <5>1. \A i \in 1..Len(cache'[s]) : i \in 1..Len(cache[s]) \/ i = Len(cache[s]) + 1
          BY <2>2, <2>3
        <5> QED  BY <2>2, <2>3, <4>1, <4>3, <5>1
      <4> QED  BY <4>2, <4>3
    <3> QED  BY <2>1, <2>6, <3>2, <3>3 DEF AlignedOf
  <2> QED  BY <2>4, <2>5, <2>7, <2>8, <2>9, <2>10 DEF IInv
<1>18. ASSUME NEW s \in Streams, EventLost(s)
       PROVE  IInv'
  <2>1. /\ pc = "idle" /\ ~stopping /\ ~backed /\ raised
        /\ UNCHANGED <<backed, pc, job, stopping, part, attempts, cache, refs, shape, notes, raised, data, made,
                       stopDoc, published, closed, faults, lasting>>
        /\ events' = [events EXCEPT ![s] = events[s] + 1]
        /\ lost' = [lost EXCEPT ![s] = lost[s] \cup {events[s] + 1}]
    BY <1>18 DEF IInv, TypeOK, EventLost, Receiving
  <2>2. /\ events[s] \in Nat /\ events'[s] = events[s] + 1 /\ lost[s] \subseteq 1..events[s]
        /\ lost'[s] = lost[s] \cup {events[s] + 1}
        /\ \A r \in Streams : r # s => events'[r] = events[r] /\ lost'[r] = lost[r]
    BY <2>1 DEF IInv, TypeOK, Losses
  <2>3. TypeOK'
    <3>1. events' \in [Streams -> Nat] /\ lost' \in [Streams -> SUBSET Nat]
      BY <2>1, <2>2 DEF IInv, TypeOK
    <3> QED  BY <2>1, <3>1 DEF IInv, TypeOK
  <2>4. Control' /\ Ended' /\ Known' /\ Shaped'
    <3>1. ~stopDoc
      BY <2>1 DEF IInv, TypeOK, Ended
    <3>2. Arrays(job)' = Arrays(job)
      BY <2>1 DEF Arrays
    <3> QED  BY <2>1, <3>1, <3>2 DEF IInv, TypeOK, Control, Ended, Known, Shaped
  <2>5. \A r \in Streams : Sent(r)' = Sent(r) /\ Pending(r)' = Pending(r)
    <3>1. Sent(s)' = Sent(s)
      <4>1. 1..(events[s] + 1) = 1..events[s] \cup {events[s] + 1} /\ events[s] + 1 \notin 1..events[s]
        BY <2>2
      <4> QED  BY <2>2, <4>1 DEF Sent
    <3>2. \A r \in Streams : r # s => Sent(r)' = Sent(r)
      BY <2>2 DEF Sent
    <3> QED  BY <2>1, <3>1, <3>2 DEF Pending
  <2>6. Losses'
    <3>1. ASSUME NEW r \in Streams
          PROVE  lost'[r] \subseteq 1..events'[r]
      <4>1. CASE r = s
        BY <2>2, <4>1
      <4>2. CASE r # s
        BY <2>2, <4>2 DEF IInv, Losses
      <4> QED  BY <4>1, <4>2
    <3> QED  BY <2>1, <3>1 DEF Losses
  <2>7. Cached'
    <3>1. ASSUME NEW r \in Streams
          PROVE  /\ Pending(r)' \subseteq Sent(r)'
                 /\ \A i, j \in 1..Len(cache'[r]) : i < j => cache'[r][i].seq < cache'[r][j].seq
                 /\ lost'[r] = {} =>
                      Len(cache'[r]) <= events'[r] /\ \A i \in 1..Len(cache'[r]) : cache'[r][i].seq = Done(r)' + i
      <4>1. lost'[r] = {} => r # s
        BY <2>2
      <4>2. r # s => Done(r)' = Done(r) /\ events'[r] = events[r] /\ lost'[r] = lost[r]
        BY <2>1, <2>2 DEF Done
      <4> QED  BY <2>1, <2>5, <4>1, <4>2 DEF IInv, Cached
    <3> QED  BY <3>1 DEF Cached
  <2>8. (Stored /\ RowsAppearInOrder /\ Noted)'
    <3>1. Stored /\ RowsAppearInOrder /\ Noted
      BY DEF IInv
    <3>2. \A t \in Tables : t[1] \in Streams /\ Outstanding(t)' = Outstanding(t)
      BY <2>1, <2>5, NodeFacts DEF Outstanding, Given, InTables
    <3>3. \A r \in Streams : lost[r] \subseteq lost'[r]
      BY <2>2
    <3> QED  BY <2>1, <2>5, <3>1, <3>2, <3>3, TablesKept DEF Single
  <2>9. Aligned'
    BY <2>1 DEF Aligned
  <2> QED  BY <2>3, <2>4, <2>6, <2>7, <2>8, <2>9 DEF IInv
<1>19. CASE UNCHANGED vars
  <2>1. UNCHANGED <<backed, pc, job, stopping, part, attempts, cache, refs, shape, notes, raised, data, made, stopDoc,
                    published, closed, events, lost, faults, lasting>>
    BY <1>19 DEF vars
  <2>2. TypeOK' /\ Ended' /\ Known'
    BY <2>1 DEF IInv, TypeOK, Ended, Flushed, Known
  <2>3. Arrays(job)' = Arrays(job)
    BY <2>1 DEF Arrays
  <2>4. Control'
    BY <2>1, <2>3 DEF IInv, Control
  <2>5. \A t \in Tables : Given(t)' <=> Given(t)
    BY <2>1 DEF Given, InTables
  <2>6. \A s \in Streams : (InTables(s)' <=> InTables(s)) /\ (Uploading(s)' <=> Uploading(s))
    BY <2>1 DEF InTables, Uploading
  <2>7. (Losses /\ Cached /\ Stored /\ RowsAppearInOrder /\ Noted /\ Aligned /\ Shaped)'
    BY <2>1, <2>5, <2>6, StreamsAssumption, RowsKept DEF Single
  <2> QED  BY <2>2, <2>4, <2>7 DEF IInv
<1> QED
  <2>1. CASE WriteBatch
    BY <2>1, <1>1, <1>2, <1>3, <1>4, <1>10, <1>11, <1>12, <1>13, <1>14, <1>15, <1>16 DEF WriteBatch
  <2>2. CASE EndRun
    BY <2>2, <1>5, <1>6, <1>7, <1>8, <1>9 DEF EndRun
  <2> QED  BY <2>1, <2>2, <1>17, <1>18, <1>19 DEF Next
-----------------------------------------------------------------------------
(***************************************************************************)
(* Theorems                                                                *)
(***************************************************************************)

\* With the Stop document every event of a stream that was not lost is in its
\* tables, and nothing is cached.
LEMMA StoppedFacts ==
  ASSUME IInv, stopDoc
  PROVE  /\ \A s \in Streams : cache[s] = <<>> /\ ~InTables(s) /\ ~Uploading(s)
         /\ \A t \in Tables : Range(data[t]) = Sent(t[1])
<1>1. \A s \in Streams : cache[s] = <<>> /\ ~InTables(s) /\ ~Uploading(s)
  BY DEF IInv, Ended, Flushed, InTables, Uploading
<1>2. ASSUME NEW t \in Tables
      PROVE  Range(data[t]) = Sent(t[1])
  <2>1. cache[t[1]] = <<>> /\ Len(<<>>) = 0 /\ 1..0 = {}
    BY <1>1, NodeFacts
  <2>2. Pending(t[1]) = {}
    BY <2>1 DEF Pending
  <2>3. Outstanding(t) = {}
    BY <2>2 DEF Outstanding
  <2> QED  BY <2>3 DEF IInv, Stored
<1> QED  BY <1>1, <1>2

\* What the invariant means for readers of the run.
LEMMA Promises ==
  IInv => RowsAppearInOrder /\ TablesComplete /\ DuplicatesNoted /\ ArraysAligned /\ ClosedIsFinal
<1>1. IInv => TablesComplete
  <2>1. ASSUME IInv, stopDoc, NEW t \in Tables
        PROVE  1..events[t[1]] \subseteq Range(data[t]) \cup (IF backed THEN {} ELSE lost[t[1]])
    <3>1. t[1] \in Streams
      BY NodeFacts
    <3>2. Range(data[t]) = Sent(t[1])
      BY <2>1, StoppedFacts
    <3>3. backed => lost[t[1]] = {}
      BY <2>1, <3>1 DEF IInv, Losses
    <3> QED  BY <3>2, <3>3 DEF Sent
  <2> QED  BY <2>1 DEF TablesComplete
<1>2. IInv => ArraysAligned
  <2>1. ASSUME IInv, backed, stopDoc, NEW s \in ArrayStreams
        PROVE  data[<<s, 0>>] = [i \in 1..events[s] |-> i]
    <3>1. s \in Streams /\ events[s] \in Nat
      BY <2>1, StreamsAssumption DEF IInv, TypeOK
    <3>2. ~InTables(s) /\ ~Uploading(s) /\ cache[s] = <<>> /\ Len(cache[s]) = 0
      BY <2>1, <3>1, StoppedFacts
    <3>3. Done(s) = events[s]
      BY <3>1, <3>2 DEF Done
    <3>4. AlignedOf(s)
      BY <2>1 DEF IInv, Aligned
    <3> QED  BY <3>2, <3>3, <3>4 DEF AlignedOf
  <2> QED  BY <2>1 DEF ArraysAligned
<1>3. IInv => RowsAppearInOrder /\ DuplicatesNoted /\ ClosedIsFinal
  BY DEF IInv, Ended, Flushed, Noted, Single, DuplicatesNoted, ClosedIsFinal
<1> QED  BY <1>1, <1>2, <1>3

\* When a handler raises an error has lasted, or it was at a table without the
\* column seq_num.
LEMMA RaisesIfLasting ==
  ASSUME IInv, Next, raised', ~raised
  PROVE  lasting' \/ (pc = "table" /\ part # SeqNumPart[job])
<1>1. ASSUME NEW n, Refused(n), pc # "upload"
      PROVE  lasting
  BY <1>1 DEF IInv, Known, Refused
<1>2. CASE CreateArraysFails \/ CreateTableFails
  BY <1>1, <1>2 DEF CreateArraysFails, CreateTableFails, Fault, failures
<1>3. CASE UploadArraysFails \/ PatchArraysFails \/ AppendRejected \/ RetryTransient \/ StopWriteFails \/ Close
  BY <1>3 DEF UploadArraysFails, PatchArraysFails, AppendRejected, RetryTransient, StopWriteFails, Close, Fault
<1>4. CASE AppendNotNoted
  BY <1>4 DEF AppendNotNoted
<1>5. CASE \/ NoArrays \/ CreateArrays \/ UploadArrays \/ PatchArrays \/ CreateTable \/ AppendTable \/ AppendTransient
           \/ Stop \/ StopWrite
  BY <1>5 DEF NoArrays, CreateArrays, UploadArrays, PatchArrays, CreateTable, AppendTable, AppendTransient, Stop,
              StopWrite
<1>6. ASSUME NEW s \in Streams, Event(s) \/ EventLost(s) \/ StopFlush(s)
      PROVE  FALSE
  BY <1>6 DEF Event, EventLost, StopFlush
<1> QED  BY <1>2, <1>3, <1>4, <1>5, <1>6 DEF Next, WriteBatch, EndRun

\* An error that has lasted has lasted.
LEMMA LastingStays ==
  ASSUME IInv, Next
  PROVE  lasting => lasting'
<1>1. CASE WriteBatch
  BY <1>1 DEF WriteBatch, NoArrays, CreateArrays, CreateArraysFails, UploadArrays, UploadArraysFails, PatchArrays,
              PatchArraysFails, CreateTable, CreateTableFails, AppendTable, AppendTransient, AppendNotNoted,
              AppendRejected, RetryTransient, Fault, NoFault, failures
<1>2. CASE EndRun \/ \E s \in Streams : Event(s) \/ EventLost(s)
  BY <1>2 DEF EndRun, Stop, StopFlush, StopWrite, StopWriteFails, Close, Event, EventLost, Fault, failures
<1> QED  BY <1>1, <1>2 DEF Next

\* Every reachable state satisfies the invariant, and with it TypeOK.
THEOREM Invariance == Spec => []IInv
<1>1. Init => IInv
  BY InitIInv
<1>2. IInv /\ [Next]_vars => IInv'
  BY NextIInv
<1> QED  BY <1>1, <1>2, PTL DEF Spec

\* At any time a reader of a table sees no row without those before it, but for
\* those of events that were never cached.
THEOREM RowsAppearInOrderThm == Spec => []RowsAppearInOrder
BY Promises, Invariance, PTL

\* With its Stop document a run has every event in every table, but without a
\* backup those of descriptors that failed.
THEOREM TablesCompleteThm == Spec => []TablesComplete
BY Promises, Invariance, PTL

\* Rows that are stored twice are named by a note that the run was given.
THEOREM DuplicatesNotedThm == Spec => []DuplicatesNoted
BY Promises, Invariance, PTL

\* With a backup, array nodes end with one value of every event, in order.
THEOREM ArraysAlignedThm == Spec => []ArraysAligned
BY Promises, Invariance, PTL

\* Streams are closed only when the Stop document is there with all the notes
\* and no row is left in a cache.
THEOREM ClosedIsFinalThm == Spec => []ClosedIsFinal
BY Promises, Invariance, PTL

\* Only an error that lasts makes a handler raise, or one at a table without
\* the column seq_num.
THEOREM TransientIsSurvivedThm == Spec => TransientIsSurvived
<1>1. IInv /\ [Next]_vars =>
        [raised' /\ ~raised => lasting' \/ (pc = "table" /\ part # SeqNumPart[job])]_vars
  BY RaisesIfLasting
<1> QED  BY <1>1, Invariance, PTL DEF Spec, TransientIsSurvived
-----------------------------------------------------------------------------
(***************************************************************************)
(* The writer with its handler of descriptors, and the exporter.           *)
(***************************************************************************)
IsUpTo(r, n) == \A i \in 1..Len(r) : r[i] \in 1..n
Rising(r) == \A i, j \in 1..Len(r) : i < j => r[i] < r[j]

\* As long as no error has lasted the writer knows every descriptor it was sent,
\* and every node of a stream that exists.
DescriptorsKnown ==
  ~lasting => \A s \in Streams :
                /\ Range(nodes[s]) = 1..descriptors[s]
                /\ metadata[s] # <<>> => descriptors[s] # 0

\* The metadata has the descriptors the writer knows, in the order they were
\* received, and at most one more.
Described ==
  \A s \in Streams :
    /\ IsUpTo(nodes[s], descriptors[s]) /\ IsUpTo(metadata[s], descriptors[s])
    /\ Rising(nodes[s]) /\ Rising(metadata[s])
    /\ Range(nodes[s]) \subseteq Range(metadata[s])

\* An event that was not lost has a descriptor that the writer knows, and none has
\* an older one than the event before it.
Numbered ==
  \A s \in Streams :
    /\ Len(taken[s]) = events[s]
    /\ IsUpTo(taken[s], descriptors[s]) /\ \A i \in Sent(s) : taken[s][i] \in Range(nodes[s])
    /\ \A i, j \in 1..Len(taken[s]) : i < j => taken[s][i] <= taken[s][j]

\* An array node has no more values than there are events, also with those that
\* are not sent yet.  With a backup the values are those of the first events;
\* where the upload did not succeed they may be fill values, and there are no rows.
ValuesOf(s, r) == \A i \in 1..Len(r) : r[i] = i \/ (<<s, 0>> \notin refs /\ r[i] = 0)
ValuedOf(s) ==
  /\ shape[s] + Len(Arrays(s)) <= events[s] /\ Len(data[<<s, 0>>]) <= events[s]
  /\ Len(data[<<s, 0>>]) # 0 => Sent(s) # {}
  /\ backed => ValuesOf(s, data[<<s, 0>>])
  /\ s \notin ArrayStreams => Len(data[<<s, 0>>]) = 0 /\ \A i \in 1..Len(cache[s]) : ~cache[s][i].array
  /\ backed /\ s \in ArrayStreams /\ Len(data[<<s, 1>>]) # 0 => <<s, 0>> \in refs
Valued == \A s \in Streams : ValuedOf(s)

\* What was read still holds, although there may be more now: the descriptors that
\* were added are younger, and the events are later.
ReadStream ==
  /\ reading \in Streams /\ Parts[reading] = 1 /\ Len(docs) # 0
  /\ Rising(docs) /\ IsUpTo(docs, descriptors[reading])
  /\ \A d \in Range(nodes[reading]) : d \in Range(docs) \/ \A e \in Range(docs) : e < d
  /\ ended => docs = metadata[reading]
ReadRows ==
  /\ Range(table) \subseteq Sent(reading)
  /\ \A n \in Range(table) : {m \in Sent(reading) : m < n} \subseteq Range(table)
  /\ Len(table) # 0 => Len(data[<<reading, 1>>]) # 0
  /\ ended => table = data[<<reading, 1>>]
Read ==
  /\ ended \in BOOLEAN /\ docs \in Seq(Nat) /\ table \in Seq(Nat)
  /\ ended => stopDoc
  /\ step \in {"parts", "table", "arrays"} => ReadStream
  /\ step \in {"table", "arrays"} /\ ended => found = {p \in 0..1 : <<reading, p>> \in made}
  /\ step = "arrays" => ReadRows

StreamTypes ==
  /\ nodes \in [Streams -> Seq(Nat)] /\ metadata \in [Streams -> Seq(Nat)]
  /\ taken \in [Streams -> Seq(Nat)] /\ descriptors \in [Streams -> Nat]

ExportIInv ==
  /\ IInv /\ DescriptorsKnown
  /\ StreamTypes /\ Described /\ Numbered /\ Valued /\ Read

\* A number greater than all of a rising sequence goes to its end.
LEMMA RisingAppended ==
  ASSUME NEW r \in Seq(Nat), NEW d \in Nat, IsUpTo(r, d), Rising(r)
  PROVE  /\ Append(r, d + 1) \in Seq(Nat) /\ IsUpTo(Append(r, d + 1), d + 1) /\ Rising(Append(r, d + 1))
         /\ Range(Append(r, d + 1)) = Range(r) \cup {d + 1}
         /\ IsUpTo(r, d + 1)
<1> DEFINE q == Append(r, d + 1)
<1>1. /\ Len(r) \in Nat /\ q \in Seq(Nat) /\ Len(q) = Len(r) + 1
      /\ \A i \in 1..Len(r) : q[i] = r[i]
      /\ q[Len(r) + 1] = d + 1
  OBVIOUS
<1>2. DOMAIN r = 1..Len(r) /\ DOMAIN q = 1..(Len(r) + 1)
  BY <1>1
<1>3. \A i \in 1..Len(r) : r[i] \in 1..d
  BY DEF IsUpTo
<1> HIDE DEF q
<1>4. Range(q) = Range(r) \cup {d + 1}
  <2>1. \A x \in Range(q) : x \in Range(r) \cup {d + 1}
    <3>1. ASSUME NEW i \in 1..(Len(r) + 1)
          PROVE  q[i] \in Range(r) \cup {d + 1}
      <4>1. i \in 1..Len(r) \/ i = Len(r) + 1
        BY <1>1
      <4> QED  BY <1>1, <1>2, <4>1 DEF Range
    <3> QED  BY <1>2, <3>1 DEF Range
  <2>2. \A x \in Range(r) : x \in Range(q)
    <3>1. \A i \in 1..Len(r) : i \in 1..(Len(r) + 1)
      BY <1>1
    <3> QED  BY <1>1, <1>2, <3>1 DEF Range
  <2>3. d + 1 \in Range(q)
    <3>1. Len(r) + 1 \in 1..(Len(r) + 1)
      BY <1>1
    <3> QED  BY <1>1, <1>2, <3>1 DEF Range
  <2> QED  BY <2>1, <2>2, <2>3
<1>5. IsUpTo(q, d + 1)
  <2>1. ASSUME NEW i \in 1..Len(q)
        PROVE  q[i] \in 1..(d + 1)
    <3>1. i \in 1..Len(r) \/ i = Len(r) + 1
      BY <1>1
    <3> QED  BY <1>1, <1>3, <3>1
  <2> QED  BY <2>1 DEF IsUpTo
<1>6. Rising(q)
  <2>1. ASSUME NEW i \in 1..Len(q), NEW j \in 1..Len(q), i < j
        PROVE  q[i] < q[j]
    <3>1. i \in 1..Len(r) /\ q[i] = r[i] /\ r[i] \in 1..d
      BY <1>1, <1>3, <2>1
    <3>2. CASE j \in 1..Len(r)
      BY <1>1, <2>1, <3>1, <3>2 DEF Rising
    <3>3. CASE j = Len(r) + 1
      BY <1>1, <3>1, <3>3
    <3> QED  BY <1>1, <3>2, <3>3
  <2> QED  BY <2>1 DEF Rising
<1>7. IsUpTo(r, d + 1)
  BY <1>3 DEF IsUpTo
<1> QED  BY <1>1, <1>4, <1>5, <1>6, <1>7 DEF q

\* One more row is kept if it has an array.
LEMMA WithArraysAppended ==
  ASSUME NEW rows \in Seq(Rows), NEW row \in Rows
  PROVE  WithArrays(Append(rows, row)) = IF row.array THEN Append(WithArrays(rows), row) ELSE WithArrays(rows)
<1> DEFINE q == Append(rows, row)
           n == Len(rows)
<1>1. /\ n \in Nat /\ q \in Seq(Rows) /\ Len(q) = n + 1
      /\ \A i \in 1..n : q[i] = rows[i]
      /\ q[n + 1] = row
  BY AppendProperties
<1>2. PICK f : IsKeep(rows, f) /\ WithArrays(rows) = f[n]
  BY WithArraysIsKeep
<1>3. PICK g : IsKeep(q, g) /\ WithArrays(q) = g[n + 1]
  <2> HIDE DEF q
  <2> QED  BY <1>1, WithArraysIsKeep
<1> HIDE DEF q, n
<1>4. /\ \A i \in 0..n : f[i] = Keep(rows, f, i)
      /\ \A i \in 0..(n + 1) : g[i] = Keep(q, g, i)
  BY <1>1, <1>2, <1>3 DEF IsKeep, n
<1> DEFINE Bad == {i \in 0..n : g[i] # f[i]}
<1>5. ASSUME NEW m \in Bad, \A i \in Bad : m <= i
      PROVE  FALSE
  <2>1. m \in 0..n /\ m \in 0..(n + 1) /\ m \in Nat
    BY <1>1
  <2>2. CASE m = 0
    BY <1>4, <2>1, <2>2 DEF Keep
  <2>3. CASE m # 0
    <3>1. m \in 1..n /\ m - 1 \in 0..n /\ ~(m <= m - 1)
      BY <1>1, <2>1, <2>3
    <3>2. g[m - 1] = f[m - 1]
      BY <1>5, <3>1
    <3>3. q[m] = rows[m]
      BY <1>1, <3>1
    <3>4. Keep(q, g, m) = Keep(rows, f, m)
      BY <2>3, <3>2, <3>3 DEF Keep
    <3> QED  BY <1>4, <2>1, <3>4
  <2> QED  BY <2>2, <2>3
<1>6. Bad = {}
  <2>1. Bad \in SUBSET Nat
    BY <1>1
  <2> HIDE DEF Bad
  <2> QED  BY <2>1, <1>5, LeastIndex
<1>7. g[n] = f[n]
  BY <1>1, <1>6
<1>8. g[n + 1] = IF q[n + 1].array THEN Append(g[n], q[n + 1]) ELSE g[n]
  <2>1. n + 1 \in 0..(n + 1) /\ n + 1 # 0 /\ (n + 1) - 1 = n
    BY <1>1
  <2>2. g[n + 1] = Keep(q, g, n + 1)
    BY <1>4, <2>1
  <2> QED  BY <2>1, <2>2 DEF Keep
<1> QED  BY <1>1, <1>2, <1>3, <1>7, <1>8 DEF q

\* None is kept of rows without one.
LEMMA WithArraysNone ==
  ASSUME NEW rows \in Seq(Rows), \A i \in 1..Len(rows) : ~rows[i].array
  PROVE  Len(WithArrays(rows)) = 0
<1>1. Len(WithArrays(rows)) \in Nat
  BY WithArraysType
<1>2. ASSUME Len(WithArrays(rows)) # 0
      PROVE  FALSE
  <2>1. 1 \in 1..Len(WithArrays(rows))
    BY <1>1, <1>2
  <2> QED  BY <2>1, WithArraysFrom
<1> QED  BY <1>2

\* A step of the writer other than to receive an event changes neither which are
\* sent nor, unless it is about array values, what is known of array nodes.
LEMMA WriterSteps ==
  ASSUME IInv, Next
  PROVE  /\ UNCHANGED backed /\ made \subseteq made' /\ (stopDoc => stopDoc')
         /\ stopDoc => UNCHANGED <<data, made, events, lost>>
         /\ \/ \E s \in Streams : Event(s) \/ EventLost(s)
            \/ /\ \/ CreateArrays \/ CreateArraysFails \/ UploadArrays
                  \/ UploadArraysFails \/ PatchArrays \/ PatchArraysFails
               /\ UNCHANGED history /\ job \in Streams /\ Arrays(job) # <<>> /\ cache[job] # <<>>
            \/ /\ UNCHANGED <<history, shape>> /\ \A s \in Streams : <<s, 0>> \in refs' <=> <<s, 0>> \in refs
               /\ \/ UNCHANGED <<cache, data>>
                  \/ /\ pc \in {"table", "retry"} /\ MayStore(<<job, part>>, cache[job])
                     /\ UNCHANGED cache \/ cache' = [cache EXCEPT ![job] = <<>>]
<1> USE DEF batch, server, clients, failures, NoFault
<1>1. stopDoc => pc \in {"close", "idle"} /\ stopping
  BY DEF IInv, Ended
<1>2. \A s \in Streams : <<s, 0>> # <<job, part>>
  BY DEF IInv, TypeOK
<1>3. ASSUME NEW s \in Streams, Event(s) \/ EventLost(s)
      PROVE  UNCHANGED <<backed, made, stopDoc>> /\ ~stopDoc
  BY <1>1, <1>3 DEF Event, EventLost, Receiving
<1>4. CASE \/ CreateArrays \/ CreateArraysFails \/ UploadArrays \/ UploadArraysFails
           \/ PatchArrays \/ PatchArraysFails
  <2>1. /\ UNCHANGED <<backed, history, stopDoc>> /\ pc \in {"arrays", "upload"}
        /\ made' = made \/ made' = made \cup {<<job, 0>>}
        /\ pc = "arrays" => Arrays(job) # <<>>
    BY <1>4 DEF CreateArrays, CreateArraysFails, UploadArrays, UploadArraysFails, PatchArrays, PatchArraysFails, Create
  <2>2. Arrays(job) # <<>> /\ job \in Streams /\ cache[job] # <<>>
    BY <2>1 DEF IInv, Control
  <2> QED  BY <1>1, <1>4, <2>1, <2>2
<1>5. CASE CreateTable \/ CreateTableFails
  <2>1. /\ UNCHANGED <<backed, history, stopDoc, cache, data, shape>> /\ pc \notin {"close", "idle"}
        /\ refs' \in {refs, refs \cup {<<job, part>>}} /\ made' \in {made, made \cup {<<job, part>>}}
    BY <1>5 DEF CreateTable, CreateTableFails, Raise
  <2> QED  BY <1>1, <1>2, <2>1
<1>6. CASE AppendTable \/ AppendTransient \/ AppendNotNoted \/ RetryTransient
  <2>1. /\ UNCHANGED <<backed, history, stopDoc, shape, refs, made>> /\ pc \in {"table", "retry"}
        /\ MayStore(<<job, part>>, cache[job])
        /\ UNCHANGED cache \/ cache' = [cache EXCEPT ![job] = <<>>]
    BY <1>6 DEF AppendTable, AppendTransient, AppendNotNoted, RetryTransient, Raise, NextTable, MayStore
  <2> QED  BY <1>1, <2>1
<1>7. CASE NoArrays \/ AppendRejected \/ EndRun
  <2>1. UNCHANGED <<backed, history, shape, refs, made, cache, data>> /\ (stopDoc' = stopDoc \/ stopDoc' = TRUE)
    <3>1. CASE NoArrays \/ AppendRejected
      BY <3>1 DEF NoArrays, AppendRejected, Raise
    <3>2. CASE Stop \/ \E s \in Streams : StopFlush(s)
      BY <3>2 DEF Stop, StopFlush
    <3>3. CASE StopWrite \/ StopWriteFails
      BY <3>3 DEF StopWrite, StopWriteFails, Raise
    <3>4. CASE Close
      BY <3>4 DEF Close
    <3> QED  BY <1>7, <3>1, <3>2, <3>3, <3>4 DEF EndRun
  <2> QED  BY <2>1 DEF history
<1> QED  BY <1>3, <1>4, <1>5, <1>6, <1>7 DEF Next, WriteBatch

\* Only the event after the last one can be added to those that were sent.
LEMMA SentSteps ==
  ASSUME IInv, Next, NEW s \in Streams
  PROVE  /\ events[s] \in Nat /\ events'[s] \in Nat /\ events[s] <= events'[s]
         /\ Sent(s) \subseteq Sent(s)' /\ Sent(s)' \subseteq Sent(s) \cup {events[s] + 1}
         /\ Sent(s) \subseteq 1..events[s]
<1>1. events \in [Streams -> Nat] /\ lost \in [Streams -> SUBSET Nat] /\ lost[s] \subseteq 1..events[s]
  BY DEF IInv, TypeOK, Losses
<1>2. CASE UNCHANGED history
  BY <1>1, <1>2 DEF history, Sent
<1>3. ASSUME NEW r \in Streams, Event(r) \/ EventLost(r)
      PROVE  /\ events'[s] \in Nat /\ events[s] <= events'[s]
             /\ Sent(s) \subseteq Sent(s)' /\ Sent(s)' \subseteq Sent(s) \cup {events[s] + 1}
  <2>1. /\ events' = [events EXCEPT ![r] = events[r] + 1]
        /\ lost' = lost \/ lost' = [lost EXCEPT ![r] = lost[r] \cup {events'[r]}]
    BY <1>3 DEF Event, EventLost
  <2>2. CASE r # s
    BY <1>1, <2>1, <2>2 DEF Sent
  <2>3. CASE r = s
    <3>1. /\ events'[s] = events[s] + 1 /\ events[s] \in Nat
          /\ lost'[s] \subseteq lost[s] \cup {events[s] + 1} /\ lost[s] \subseteq lost'[s]
      BY <1>1, <2>1, <2>3
    <3>2. 1..(events[s] + 1) = 1..events[s] \cup {events[s] + 1} /\ events[s] + 1 \notin 1..events[s]
      BY <3>1
    <3> QED  BY <1>1, <3>1, <3>2 DEF Sent
  <2> QED  BY <2>2, <2>3
<1> QED  BY <1>1, <1>2, <1>3, WriterSteps DEF Sent, history

\* A step that leaves the array node of a stream alone.
LEMMA ValuedFrame ==
  ASSUME TypeOK, TypeOK', NEW s \in Streams, ValuedOf(s), UNCHANGED backed,
         data'[<<s, 0>>] = data[<<s, 0>>], shape'[s] = shape[s],
         <<s, 0>> \in refs' <=> <<s, 0>> \in refs,
         Sent(s) \subseteq Sent(s)', events[s] <= events'[s],
         Len(Arrays(s)') + events[s] <= Len(Arrays(s)) + events'[s],
         s \notin ArrayStreams => \A i \in 1..Len(cache'[s]) : ~cache'[s][i].array,
         backed /\ s \in ArrayStreams /\ Len(data'[<<s, 1>>]) # 0 =>
           Len(data[<<s, 1>>]) # 0 \/ <<s, 0>> \in refs
  PROVE  ValuedOf(s)'
<1>1. /\ events[s] \in Nat /\ events'[s] \in Nat /\ shape[s] \in Nat
      /\ data[<<s, 0>>] \in Seq(Nat) /\ Len(data[<<s, 0>>]) \in Nat
  <2>1. <<s, 0>> \in Nodes
    BY NodeFacts
  <2>2. data[<<s, 0>>] \in Seq(Nat)
    BY <2>1 DEF TypeOK
  <2> QED  BY <2>2 DEF TypeOK
<1>2. Len(Arrays(s)) \in Nat /\ Len(Arrays(s)') \in Nat
  <2>1. cache[s] \in Seq(Rows) /\ cache'[s] \in Seq(Rows)
    BY DEF TypeOK
  <2>2. WithArrays(cache[s]) \in Seq(Rows) /\ WithArrays(cache'[s]) \in Seq(Rows)
    BY <2>1, WithArraysType
  <2> QED  BY <2>2 DEF Arrays
<1>3. shape'[s] + Len(Arrays(s)') <= events'[s] /\ Len(data'[<<s, 0>>]) <= events'[s]
  <2>1. PICK a \in Nat, b \in Nat, e \in Nat, f \in Nat, h \in Nat, l \in Nat :
          /\ a = Len(Arrays(s)) /\ b = Len(Arrays(s)') /\ e = events[s] /\ f = events'[s] /\ h = shape[s]
          /\ l = Len(data[<<s, 0>>])
    BY <1>1, <1>2
  <2>2. b + e <= a + f /\ h + a <= e /\ e <= f /\ l <= e
    BY <2>1 DEF ValuedOf
  <2>3. h + b <= f /\ l <= f
    BY <2>2
  <2> QED  BY <2>1, <2>3
<1>4. Len(data'[<<s, 0>>]) # 0 => Sent(s)' # {}
  BY DEF ValuedOf
<1>5. backed' => ValuesOf(s, data[<<s, 0>>])'
  BY DEF ValuedOf, ValuesOf
<1> QED  BY <1>3, <1>4, <1>5 DEF ValuedOf

\* What a step does to the array node of the job.
LEMMA ValuedChanged ==
  ASSUME IInv, IInv', Valued, job \in Streams, Arrays(job) # <<>>, cache[job] # <<>>,
         UNCHANGED <<backed, job, history>>,
         \A m \in Nodes : m # <<job, 0>> => data'[m] = data[m],
         \A s \in Streams : s # job => /\ cache'[s] = cache[s] /\ shape'[s] = shape[s]
                                       /\ <<s, 0>> \in refs' <=> <<s, 0>> \in refs,
         <<job, 0>> \in refs => <<job, 0>> \in refs',
         cache' = cache \/ PopArrays,
         shape'[job] + Len(Arrays(job)') <= events[job],
         Len(data'[<<job, 0>>]) <= events[job],
         backed => ValuesOf(job, data[<<job, 0>>])'
  PROVE  Valued'
<1>1. TypeOK /\ TypeOK' /\ cache[job] \in Seq(Rows) /\ Len(cache[job]) \in Nat
  <2>1. TypeOK /\ TypeOK'
    BY DEF IInv
  <2>2. cache[job] \in Seq(Rows)
    BY <2>1 DEF TypeOK
  <2> QED  BY <2>1, <2>2
<1>2. job \in ArrayStreams
  <2>1. ASSUME job \notin ArrayStreams
        PROVE  FALSE
    <3>1. \A i \in 1..Len(cache[job]) : ~cache[job][i].array
      BY <2>1 DEF Valued, ValuedOf
    <3>2. Len(Arrays(job)) = 0 /\ Arrays(job) \in Seq(Rows)
      BY <1>1, <3>1, WithArraysNone, WithArraysType DEF Arrays
    <3> QED  BY <3>2
  <2> QED  BY <2>1
<1>3. \A s \in Streams : /\ <<s, 0>> \in Nodes /\ <<s, 1>> \in Nodes /\ <<s, 1>> # <<job, 0>>
                         /\ s # job => <<s, 0>> # <<job, 0>>
  <2>1. \A s \in Streams : 1 \in Nat \ {0} /\ 1 <= Parts[s]
    BY SizesAssumption
  <2> QED  BY <2>1, NodeFacts
<1>4. \A s \in Streams : Sent(s)' = Sent(s) /\ events'[s] = events[s] /\ events[s] \in Nat
  BY <1>1 DEF Sent, history, TypeOK
<1>5. ASSUME NEW s \in Streams, s # job
      PROVE  ValuedOf(s)'
  <2>1. /\ ValuedOf(s) /\ cache'[s] = cache[s] /\ Arrays(s)' = Arrays(s) /\ cache[s] \in Seq(Rows)
        /\ data'[<<s, 0>>] = data[<<s, 0>>] /\ data'[<<s, 1>>] = data[<<s, 1>>]
    BY <1>1, <1>3, <1>5 DEF Valued, Arrays, TypeOK
  <2>2. Len(Arrays(s)) \in Nat
    <3>1. Arrays(s) \in Seq(Rows)
      BY <2>1, WithArraysType DEF Arrays
    <3> QED  BY <3>1
  <2>3. events[s] <= events'[s] /\ Len(Arrays(s)') + events[s] <= Len(Arrays(s)) + events'[s]
    BY <1>4, <2>1, <2>2
  <2>4. s \notin ArrayStreams => \A i \in 1..Len(cache'[s]) : ~cache'[s][i].array
    BY <2>1 DEF ValuedOf
  <2> QED  BY <1>1, <1>4, <1>5, <2>1, <2>3, <2>4, ValuedFrame
<1>6. ValuedOf(job)'
  <2>1. Sent(job) # {}
    <3>1. Len(cache[job]) # 0
      BY <1>1
    <3>2. 1 \in 1..Len(cache[job])
      BY <1>1, <3>1
    <3>3. cache[job][1].seq \in Sent(job)
      BY <3>2, NumberFacts DEF IInv
    <3> QED  BY <3>3
  <2>2. /\ backed /\ job \in ArrayStreams /\ Len(data'[<<job, 1>>]) # 0 => <<job, 0>> \in refs'
        /\ events'[job] = events[job] /\ Sent(job)' = Sent(job)
    <3>1. data'[<<job, 1>>] = data[<<job, 1>>] /\ ValuedOf(job)
      BY <1>3 DEF Valued
    <3> QED  BY <1>4, <3>1 DEF ValuedOf
  <2>3. backed' => ValuesOf(job, data[<<job, 0>>])'
    OBVIOUS
  <2> QED  BY <1>2, <2>1, <2>2, <2>3 DEF ValuedOf
<1>7. ASSUME NEW s \in Streams
      PROVE  ValuedOf(s)'
  <2>1. CASE s = job
    BY <1>6, <2>1
  <2> QED  BY <1>5, <2>1
<1> QED  BY ONLY <1>7, Zenon DEF Valued

\* The steps of the writer leave to array nodes what they promise.
LEMMA ValuedKept ==
  ASSUME IInv, IInv', Valued, Next
  PROVE  Valued'
<1>0. TypeOK /\ TypeOK'
  BY DEF IInv
<1>1. \A s \in Streams : /\ <<s, 0>> \in Nodes /\ <<s, 1>> \in Nodes
                         /\ cache[s] \in Seq(Rows) /\ Len(cache[s]) \in Nat
                         /\ Arrays(s) \in Seq(Rows) /\ Len(Arrays(s)) \in Nat
  <2>1. ASSUME NEW s \in Streams
        PROVE  /\ <<s, 0>> \in Nodes /\ <<s, 1>> \in Nodes
               /\ cache[s] \in Seq(Rows) /\ Len(cache[s]) \in Nat
               /\ Arrays(s) \in Seq(Rows) /\ Len(Arrays(s)) \in Nat
    <3>1. 1 \in Nat \ {0} /\ 1 <= Parts[s]
      BY SizesAssumption
    <3>2. cache[s] \in Seq(Rows)
      BY <1>0 DEF TypeOK
    <3>3. Arrays(s) \in Seq(Rows)
      BY <3>2, WithArraysType DEF Arrays
    <3> QED  BY <3>1, <3>2, <3>3, NodeFacts
  <2> QED  BY <2>1
<1>2. ASSUME UNCHANGED <<backed, history, shape>>, NEW s \in Streams,
             <<s, 0>> \in refs' <=> <<s, 0>> \in refs, data'[<<s, 0>>] = data[<<s, 0>>],
             cache'[s] = cache[s] \/ Len(cache'[s]) = 0,
             backed /\ s \in ArrayStreams /\ Len(data'[<<s, 1>>]) # 0 =>
               Len(data[<<s, 1>>]) # 0 \/ <<s, 0>> \in refs
      PROVE  ValuedOf(s)'
  <2>1. ValuedOf(s) /\ shape'[s] = shape[s] /\ events'[s] = events[s] /\ Sent(s)' = Sent(s)
    BY <1>2 DEF Valued, Sent, history
  <2>2. s \notin ArrayStreams => \A i \in 1..Len(cache'[s]) : ~cache'[s][i].array
    <3>1. 1..0 = {}
      OBVIOUS
    <3> QED  BY <1>2, <2>1, <3>1 DEF ValuedOf
  <2>3. Len(Arrays(s)') <= Len(Arrays(s))
    <3>1. CASE cache'[s] = cache[s]
      BY <1>1, <3>1 DEF Arrays
    <3>2. CASE Len(cache'[s]) = 0
      <4>1. cache'[s] \in Seq(Rows) /\ \A i \in 1..Len(cache'[s]) : FALSE
        BY <1>0, <3>2 DEF TypeOK
      <4>2. Len(Arrays(s)') = 0
        BY <4>1, WithArraysNone DEF Arrays
      <4> QED  BY <1>1, <4>2
    <3> QED  BY <1>2, <3>1, <3>2
  <2>4. events[s] <= events'[s] /\ Len(Arrays(s)') + events[s] <= Len(Arrays(s)) + events'[s]
    <3>1. events[s] \in Nat /\ Len(Arrays(s)) \in Nat /\ Len(Arrays(s)') \in Nat
      <4>1. cache'[s] \in Seq(Rows)
        BY <1>0 DEF TypeOK
      <4>2. Arrays(s)' \in Seq(Rows)
        BY <4>1, WithArraysType DEF Arrays
      <4>3. Len(Arrays(s)') \in Nat
        BY ONLY <4>2
      <4>4. events[s] \in Nat
        BY ONLY <1>0, <1>2 DEF TypeOK
      <4>5. Len(Arrays(s)) \in Nat
        BY ONLY <1>1, <1>2
      <4> QED  BY ONLY <4>3, <4>4, <4>5
    <3> QED  BY <2>1, <2>3, <3>1
  <2>5. UNCHANGED backed /\ Sent(s) \subseteq Sent(s)'
    BY <1>2, <2>1
  <2> QED  BY <1>0, <1>2, <2>1, <2>2, <2>4, <2>5, ValuedFrame
<1>3. ASSUME NEW r \in Streams, Event(r) \/ EventLost(r), NEW s \in Streams
      PROVE  ValuedOf(s)'
  <2>1. /\ UNCHANGED <<backed, data, shape, refs>>
        /\ \/ UNCHANGED cache
           \/ cache' = [cache EXCEPT ![r] = Append(cache[r], Row(r, events'[r]))]
        /\ events' = [events EXCEPT ![r] = events[r] + 1]
    BY <1>3 DEF Event, EventLost, server, clients
  <2>2. ValuedOf(s) /\ Sent(s) \subseteq Sent(s)' /\ events[s] <= events'[s] /\ events[s] \in Nat /\ events'[s] \in Nat
    BY SentSteps DEF Valued
  <2>3. CASE cache'[s] = cache[s]
    <3>1. /\ Len(Arrays(s)') + events[s] <= Len(Arrays(s)) + events'[s]
          /\ s \notin ArrayStreams => \A i \in 1..Len(cache'[s]) : ~cache'[s][i].array
      BY <1>1, <2>2, <2>3 DEF ValuedOf, Arrays
    <3> QED  BY <1>0, <2>1, <2>2, <3>1, ValuedFrame
  <2>4. CASE s = r /\ cache'[s] = Append(cache[s], Row(s, events'[s])) /\ events'[s] = events[s] + 1
    <3> DEFINE row == Row(s, events'[s])
    <3>1. row \in Rows /\ row.array = (s \in ArrayStreams)
      BY <2>2 DEF Row, Rows
    <3>2. cache'[s] = Append(cache[s], row)
      BY <2>4
    <3> HIDE DEF row
    <3>3. Len(Arrays(s)') <= Len(Arrays(s)) + 1
      <4>1. Arrays(s)' = IF row.array THEN Append(Arrays(s), row) ELSE Arrays(s)
        BY <1>1, <3>1, <3>2, WithArraysAppended DEF Arrays
      <4>2. Len(Append(Arrays(s), row)) = Len(Arrays(s)) + 1
        BY <1>1, <3>1
      <4> QED  BY <1>1, <4>1, <4>2
    <3>4. Len(Arrays(s)') \in Nat
      <4>1. cache'[s] \in Seq(Rows)
        BY <1>0 DEF TypeOK
      <4>2. Arrays(s)' \in Seq(Rows)
        BY <4>1, WithArraysType DEF Arrays
      <4> QED  BY <4>2
    <3>5. Len(Arrays(s)') + events[s] <= Len(Arrays(s)) + events'[s]
      BY <1>1, <2>2, <2>4, <3>3, <3>4
    <3>6. s \notin ArrayStreams => \A i \in 1..Len(cache'[s]) : ~cache'[s][i].array
      <4>1. /\ Len(cache'[s]) = Len(cache[s]) + 1 /\ cache'[s][Len(cache[s]) + 1] = row
            /\ \A i \in 1..Len(cache[s]) : cache'[s][i] = cache[s][i]
        BY <1>1, <3>1, <3>2, AppendProperties
      <4>2. \A i \in 1..Len(cache'[s]) : i \in 1..Len(cache[s]) \/ i = Len(cache[s]) + 1
        BY <1>1, <4>1
      <4> QED  BY <2>2, <3>1, <4>1, <4>2 DEF ValuedOf
    <3> QED  BY <1>0, <2>1, <2>2, <3>5, <3>6, ValuedFrame
  <2> QED
    <3>1. cache \in [Streams -> Seq(Rows)] /\ events \in [Streams -> Nat]
      BY <1>0 DEF TypeOK
    <3>2. \/ cache'[s] = cache[s]
          \/ s = r /\ cache'[s] = Append(cache[s], Row(s, events'[s])) /\ events'[s] = events[s] + 1
      BY <2>1, <3>1
    <3> QED  BY <2>3, <2>4, <3>2
<1>4. ASSUME UNCHANGED <<history, shape>>, \A s \in Streams : <<s, 0>> \in refs' <=> <<s, 0>> \in refs,
             UNCHANGED backed,
             \/ UNCHANGED <<cache, data>>
             \/ /\ pc \in {"table", "retry"} /\ MayStore(<<job, part>>, cache[job])
                /\ UNCHANGED cache \/ cache' = [cache EXCEPT ![job] = <<>>],
             NEW s \in Streams
      PROVE  ValuedOf(s)'
  <2>1. CASE UNCHANGED <<cache, data>>
    BY <1>2, <1>4, <2>1
  <2>2. CASE /\ pc \in {"table", "retry"} /\ MayStore(<<job, part>>, cache[job])
             /\ UNCHANGED cache \/ cache' = [cache EXCEPT ![job] = <<>>]
    <3>1. /\ job \in Streams /\ part \in Nat \ {0} /\ part <= Parts[job]
          /\ backed => ~raised
      BY <2>2 DEF IInv, TypeOK, Control
    <3>2. <<job, part>> \in Nodes /\ <<s, 0>> # <<job, part>> /\ (s # job => <<s, 1>> # <<job, part>>)
      BY <3>1, NodeFacts
    <3>3. data'[<<s, 0>>] = data[<<s, 0>>] /\ (s # job => data'[<<s, 1>>] = data[<<s, 1>>])
      <4>1. cache[job] \in Seq(Rows)
        BY <1>1, <3>1
      <4>2. CASE UNCHANGED data
        BY <4>2
      <4>3. CASE Store(<<job, part>>, cache[job])
        BY <1>0, <1>1, <3>2, <4>1, <4>3, StoreFacts
      <4> QED  BY <2>2, <4>2, <4>3 DEF MayStore
    <3>4. cache'[s] = cache[s] \/ Len(cache'[s]) = 0
      <4>1. cache \in [Streams -> Seq(Rows)]
        BY <1>0 DEF TypeOK
      <4>2. cache'[s] = cache[s] \/ cache'[s] = <<>>
        BY <2>2, <4>1
      <4>3. Len(<<>>) = 0
        OBVIOUS
      <4> QED  BY ONLY <4>2, <4>3, Zenon
    <3>5. backed /\ s \in ArrayStreams /\ s = job => <<s, 0>> \in refs
      <4>1. pc \in {"table", "retry"}
        BY <2>2
      <4>2. ASSUME backed, s \in ArrayStreams, s = job
            PROVE  <<s, 0>> \in refs
        <5>1. AlignedOf(s) /\ InTables(s)
          BY <3>1, <4>1, <4>2 DEF IInv, Aligned, InTables
        <5> QED  BY <5>1 DEF AlignedOf
      <4> QED  BY <4>2
    <3> QED  BY <1>2, <1>4, <3>3, <3>4, <3>5
  <2> QED  BY <1>4, <2>1, <2>2
<1>5. ASSUME \/ CreateArrays \/ CreateArraysFails \/ UploadArrays
             \/ UploadArraysFails \/ PatchArrays \/ PatchArraysFails,
             UNCHANGED <<backed, history>>, job \in Streams, Arrays(job) # <<>>, cache[job] # <<>>
      PROVE  Valued'
  <2> DEFINE n == <<job, 0>>
  <2>1. /\ n \in Nodes /\ data[n] \in Seq(Nat) /\ Len(data[n]) \in Nat /\ shape[job] \in Nat /\ events[job] \in Nat
        /\ cache[job] \in Seq(Rows) /\ Arrays(job) \in Seq(Rows) /\ Len(Arrays(job)) \in Nat
        /\ shape[job] + Len(Arrays(job)) <= events[job] /\ Len(data[n]) <= events[job]
        /\ Len(Arrays(job)) <= events[job]
    <3>1. n \in Nodes /\ data[n] \in Seq(Nat) /\ Len(data[n]) \in Nat /\ shape[job] \in Nat /\ events[job] \in Nat
      BY <1>0, <1>5, ArrayFacts DEF TypeOK
    <3>2. cache[job] \in Seq(Rows) /\ Arrays(job) \in Seq(Rows) /\ Len(Arrays(job)) \in Nat
      BY <1>1, <1>5
    <3>3. shape[job] + Len(Arrays(job)) <= events[job] /\ Len(data[n]) <= events[job]
      BY <1>5 DEF Valued, ValuedOf
    <3>4. \A a, b, c \in Nat : a + b <= c => b <= c
      OBVIOUS
    <3> QED  BY <3>1, <3>2, <3>3, <3>4
  <2>2. /\ UNCHANGED job
        /\ pc \in {"arrays", "upload"} /\ (pc = "upload" => n \notin refs)
        /\ \A s \in Streams : s # job => shape'[s] = shape[s] /\ (<<s, 0>> \in refs' <=> <<s, 0>> \in refs)
        /\ n \in refs => n \in refs'
        /\ cache' = cache \/ PopArrays
    <3>1. n \in made \ refs \/ pc # "upload"
      BY DEF IInv, Control
    <3>2. shape \in [Streams -> Nat]
      BY <1>0 DEF TypeOK
    <3> QED  BY <1>5, <3>1, <3>2 DEF CreateArrays, CreateArraysFails, UploadArrays, UploadArraysFails, PatchArrays,
                          PatchArraysFails, RaisePopped, ToTables, batch, clients
  <2>3. \A s \in Streams : s # job => cache'[s] = cache[s]
    BY <1>0, <1>5, <2>2, PoppedCache
  <2>4. PopArrays => Len(Arrays(job)') = 0
    <3>1. ASSUME PopArrays
          PROVE  Len(Arrays(job)') = 0
      <4>1. cache'[job] = Popped(cache[job])
        BY <1>0, <1>5, <3>1, PoppedCache
      <4>2. Popped(cache[job]) \in Seq(Rows) /\ \A i \in 1..Len(Popped(cache[job])) : ~Popped(cache[job])[i].array
        BY <2>1, PoppedFacts DEF Popped
      <4>3. Arrays(job)' = WithArrays(Popped(cache[job]))
        BY <2>2, <4>1 DEF Arrays
      <4> QED  BY <4>2, <4>3, WithArraysNone
    <3> QED  BY <3>1
  <2>5. backed => /\ ~raised /\ job \in ArrayStreams /\ lost[job] = {} /\ Arrays(job) = cache[job]
                  /\ Done(job) \in Nat /\ Done(job) + Len(cache[job]) = events[job]
                  /\ \A i \in 1..Len(cache[job]) : cache[job][i].seq = Done(job) + i
                  /\ n \in refs => shape[job] = Len(data[n])
                  /\ IF pc = "upload" THEN Done(job) = 0 ELSE data[n] = [i \in 1..Done(job) |-> i]
    <3>1. ASSUME backed
          PROVE  ~raised /\ job \in ArrayStreams
      <4>1. ~raised
        BY <2>2, <3>1 DEF IInv, Control
      <4>2. ASSUME job \notin ArrayStreams
            PROVE  FALSE
        <5>1. \A i \in 1..Len(cache[job]) : ~cache[job][i].array
          BY <1>5, <4>2 DEF Valued, ValuedOf
        <5>2. Len(Arrays(job)) = 0 /\ Arrays(job) \in Seq(Rows)
          BY <2>1, <5>1, WithArraysNone DEF Arrays
        <5> QED  BY <1>5, <5>2
      <4> QED  BY <4>1, <4>2
    <3> QED  BY <1>5, <2>2, <3>1, AlignedFacts, NumberFacts DEF IInv
  <2>6. /\ \A m \in Nodes : m # n => data'[m] = data[m]
        /\ shape'[job] + Len(Arrays(job)') <= events[job]
        /\ Len(data'[n]) <= events[job]
        /\ backed => ValuesOf(job, data[n])'
    <3>1. CASE UNCHANGED data /\ (CreateArraysFails \/ UploadArraysFails \/ PatchArraysFails)
      <4>1. PopArrays /\ shape' = shape /\ refs' = refs
        BY <3>1 DEF CreateArraysFails, UploadArraysFails, PatchArraysFails, RaisePopped, clients
      <4>2. backed => ValuesOf(job, data[n])
        BY <1>5 DEF Valued, ValuedOf
      <4>3. backed => ValuesOf(job, data[n])'
        BY <2>2, <3>1, <4>1, <4>2 DEF ValuesOf
      <4> QED  BY <2>1, <2>4, <3>1, <4>1, <4>3
    <3>2. CASE Create(n) /\ (CreateArrays \/ CreateArraysFails)
      <4>1. /\ UNCHANGED <<refs, shape>> /\ n \notin refs
            /\ UNCHANGED cache \/ PopArrays
        BY <3>2 DEF CreateArrays, CreateArraysFails, RaisePopped, clients
      <4>2. /\ \A m \in Nodes : m # n => data'[m] = data[m]
            /\ data'[n] = Filled(Arrays(job)) /\ Len(data'[n]) = Len(Arrays(job))
        BY <1>5, <3>2, ArrayFacts
      <4>3. shape'[job] + Len(Arrays(job)') <= events[job]
        <5>1. CASE UNCHANGED cache
          BY <2>1, <2>2, <4>1, <5>1 DEF Arrays
        <5>2. CASE PopArrays
          BY <2>1, <2>4, <4>1, <5>2
        <5> QED  BY <4>1, <5>1, <5>2
      <4>4. ValuesOf(job, data[n])'
        <5>1. \A i \in 1..Len(Arrays(job)) : Filled(Arrays(job))[i] = 0
          BY DEF Filled
        <5>2. \A i \in 1..Len(data'[n]) : data'[n][i] = 0
          BY <4>2, <5>1
        <5> QED  BY <2>2, <4>1, <5>2 DEF ValuesOf
      <4> QED  BY <2>1, <4>2, <4>3, <4>4
    <3>3. CASE Upload(n) /\ (UploadArrays \/ UploadArraysFails)
      <4>1. /\ PopArrays /\ pc = "upload"
            /\ (shape' = shape \/ shape'[job] = Len(Arrays(job)))
        <5>1. shape \in [Streams -> Nat]
          BY <1>0 DEF TypeOK
        <5> QED  BY <1>5, <3>3, <5>1 DEF UploadArrays, UploadArraysFails, RaisePopped, clients
      <4>2. /\ \A m \in Nodes : m # n => data'[m] = data[m]
            /\ data'[n] = Seqs(Arrays(job)) /\ Len(data'[n]) = Len(Arrays(job))
        BY <1>5, <3>3, ArrayFacts
      <4>3. shape'[job] + Len(Arrays(job)') <= events[job]
        BY <2>1, <2>4, <4>1
      <4>4. ASSUME backed
            PROVE  ValuesOf(job, data[n])'
        <5>1. \A i \in 1..Len(cache[job]) : cache[job][i].seq = i
          <6>1. \A i \in 1..Len(cache[job]) : cache[job][i].seq = 0 + i
            BY <2>5, <4>1, <4>4
          <6> QED  BY <6>1
        <5>2. \A i \in 1..Len(data'[n]) : data'[n][i] = i
          <6>1. data'[n] = Seqs(cache[job])
            BY <2>5, <4>2, <4>4
          <6>2. Len(Seqs(cache[job])) = Len(cache[job])
                /\ \A i \in 1..Len(cache[job]) : Seqs(cache[job])[i] = cache[job][i].seq
            BY <2>1, SeqsFacts
          <6> QED  BY ONLY <5>1, <6>1, <6>2
        <5> QED  BY <2>2, <5>2 DEF ValuesOf
      <4> QED  BY <2>1, <4>2, <4>3, <4>4
    <3>4. CASE Patch(n) /\ (PatchArrays \/ PatchArraysFails)
      <4>1. /\ PopArrays /\ pc = "arrays" /\ n \in refs
            /\ (shape' = shape \/ shape'[job] = Len(data'[n]))
        <5>1. shape \in [Streams -> Nat]
          BY <1>0 DEF TypeOK
        <5> QED  BY <1>5, <3>4, <5>1 DEF PatchArrays, PatchArraysFails, RaisePopped, clients
      <4>2. /\ \A m \in Nodes : m # n => data'[m] = data[m]
            /\ data'[n] = Patched(data[n], shape[job], Seqs(Arrays(job))) /\ data'[n] \in Seq(Nat)
        BY <1>5, <2>1, <3>4, ArrayFacts
      <4>3. Len(data'[n]) <= events[job] /\ Len(data'[n]) \in Nat
        <5>1. Seqs(Arrays(job)) \in Seq(Nat) /\ Len(Seqs(Arrays(job))) = Len(Arrays(job))
          BY <2>1, SeqsFacts
        <5>2. Len(data'[n]) = Len(data[n]) \/ Len(data'[n]) = shape[job] + Len(Arrays(job))
          BY <2>1, <4>2, <5>1, PatchedFacts
        <5> QED  BY <2>1, <5>2
      <4>4. shape'[job] + Len(Arrays(job)') <= events[job]
        BY <2>1, <2>4, <4>1, <4>3
      <4>5. ASSUME backed
            PROVE  ValuesOf(job, data[n])'
        <5>1. PICK d \in Nat, e \in Nat, rows \in Seq(Rows) :
                d = Done(job) /\ e = events[job] /\ rows = cache[job] /\ d + Len(rows) = e
          BY <2>1, <2>5, <4>5
        <5>2. /\ data[n] = [i \in 1..d |-> i] /\ shape[job] = Len(data[n]) /\ Arrays(job) = rows
              /\ \A i \in 1..Len(rows) : rows[i].seq = d + i
          BY <2>5, <4>1, <4>5, <5>1
        <5>3. shape[job] = d
          BY <5>2
        <5>4. Patched([i \in 1..d |-> i], d, Seqs(rows)) = [i \in 1..e |-> i]
          BY <5>1, <5>2, CountedOn
        <5>5. data'[n] = [i \in 1..e |-> i]
          BY <4>2, <5>2, <5>3, <5>4
        <5>6. \A i \in 1..Len(data'[n]) : data'[n][i] = i
          BY <5>5
        <5> QED  BY <2>2, <5>6 DEF ValuesOf
      <4> QED  BY <4>2, <4>3, <4>4, <4>5
    <3> QED
      <4>1. \/ UNCHANGED data /\ (CreateArraysFails \/ UploadArraysFails \/ PatchArraysFails)
            \/ Create(n) /\ (CreateArrays \/ CreateArraysFails)
            \/ Upload(n) /\ (UploadArrays \/ UploadArraysFails)
            \/ Patch(n) /\ (PatchArrays \/ PatchArraysFails)
        BY <1>5 DEF CreateArrays, CreateArraysFails, UploadArrays, UploadArraysFails, PatchArrays, PatchArraysFails
      <4> QED  BY <3>1, <3>2, <3>3, <3>4, <4>1
  <2> HIDE DEF n
  <2>7. \A s \in Streams : s # job => /\ cache'[s] = cache[s] /\ shape'[s] = shape[s]
                                      /\ <<s, 0>> \in refs' <=> <<s, 0>> \in refs
    BY <2>2, <2>3
  <2> QED  BY <1>5, <2>2, <2>6, <2>7, ValuedChanged DEF n
<1> QED
  <2>1. ASSUME \A s \in Streams : ValuedOf(s)'
        PROVE  Valued'
    BY ONLY <2>1, Zenon DEF Valued
  <2> QED  BY <1>3, <1>4, <1>5, <2>1, WriterSteps

\* A descriptor, whether the writer gets to know it or not.
LEMMA DescribedKept ==
  ASSUME StreamTypes, Described, Numbered, NEW s \in Streams,
         descriptors' = [descriptors EXCEPT ![s] = @ + 1], UNCHANGED <<history, taken>>,
         LET with == WithDescriptor(s, descriptors'[s])
         IN \/ /\ metadata' = [metadata EXCEPT ![s] = with]
               /\ nodes' = [nodes EXCEPT ![s] = with] \/ nodes' = nodes
            \/ UNCHANGED <<metadata, nodes>>
  PROVE  /\ StreamTypes' /\ Described' /\ Numbered'
         /\ \A t \in Streams : /\ descriptors[t] <= descriptors'[t]
                               /\ Range(nodes'[t]) \subseteq Range(nodes[t]) \cup {descriptors[t] + 1}
<1> DEFINE with == Append(nodes[s], descriptors[s] + 1)
<1>1. /\ descriptors[s] \in Nat /\ descriptors' \in [Streams -> Nat]
      /\ descriptors'[s] = descriptors[s] + 1
      /\ \A t \in Streams : t # s => descriptors'[t] = descriptors[t]
      /\ \A t \in Streams : nodes[t] \in Seq(Nat) /\ metadata[t] \in Seq(Nat)
  BY DEF StreamTypes
<1>2. /\ with \in Seq(Nat) /\ IsUpTo(with, descriptors[s] + 1) /\ Rising(with)
      /\ Range(with) = Range(nodes[s]) \cup {descriptors[s] + 1}
      /\ IsUpTo(nodes[s], descriptors[s] + 1)
  BY <1>1, RisingAppended DEF Described
<1>3. IsUpTo(metadata[s], descriptors[s] + 1)
  BY <1>1, RisingAppended DEF Described
<1>4. \/ /\ metadata' = [metadata EXCEPT ![s] = with]
         /\ nodes' = [nodes EXCEPT ![s] = with] \/ nodes' = nodes
      \/ UNCHANGED <<metadata, nodes>>
  BY <1>1 DEF WithDescriptor
<1> HIDE DEF with
<1>5. StreamTypes'
  <2>1. ASSUME NEW f \in [Streams -> Seq(Nat)]
        PROVE  [f EXCEPT ![s] = with] \in [Streams -> Seq(Nat)]
    BY <1>2
  <2>2. nodes' \in [Streams -> Seq(Nat)] /\ metadata' \in [Streams -> Seq(Nat)]
    <3>1. nodes \in [Streams -> Seq(Nat)] /\ metadata \in [Streams -> Seq(Nat)]
      BY DEF StreamTypes
    <3>2. /\ [nodes EXCEPT ![s] = with] \in [Streams -> Seq(Nat)]
          /\ [metadata EXCEPT ![s] = with] \in [Streams -> Seq(Nat)]
      BY ONLY <2>1, <3>1, Zenon
    <3> QED  BY ONLY <1>4, <3>1, <3>2
  <2> QED  BY <1>1, <2>2, Zenon DEF StreamTypes
<1>6. /\ \A t \in Streams : t # s => nodes'[t] = nodes[t] /\ metadata'[t] = metadata[t]
      /\ \/ metadata'[s] = with /\ nodes'[s] \in {with, nodes[s]}
         \/ metadata'[s] = metadata[s] /\ nodes'[s] = nodes[s]
  BY <1>1, <1>4 DEF StreamTypes
<1>7. Described'
  <2>1. ASSUME NEW t \in Streams, t # s
        PROVE  /\ IsUpTo(nodes'[t], descriptors'[t]) /\ IsUpTo(metadata'[t], descriptors'[t])
               /\ Rising(nodes'[t]) /\ Rising(metadata'[t])
               /\ Range(nodes'[t]) \subseteq Range(metadata'[t])
    BY <1>1, <1>6, <2>1 DEF Described
  <2>2. /\ IsUpTo(nodes'[s], descriptors'[s]) /\ IsUpTo(metadata'[s], descriptors'[s])
        /\ Rising(nodes'[s]) /\ Rising(metadata'[s])
        /\ Range(nodes'[s]) \subseteq Range(metadata'[s])
    BY <1>1, <1>2, <1>3, <1>6 DEF Described
  <2>3. \A t \in Streams :
          /\ IsUpTo(nodes'[t], descriptors'[t]) /\ IsUpTo(metadata'[t], descriptors'[t])
          /\ Rising(nodes'[t]) /\ Rising(metadata'[t])
          /\ Range(nodes'[t]) \subseteq Range(metadata'[t])
    BY ONLY <2>1, <2>2, Zenon
  <2> QED  BY ONLY <2>3, Zenon DEF Described
<1>8. Numbered'
  <2>1. Range(nodes[s]) \subseteq Range(nodes'[s])
    BY <1>2, <1>6
  <2>2. \A t \in Streams : Range(nodes[t]) \subseteq Range(nodes'[t])
    BY <1>6, <2>1
  <2>3. \A t \in Streams : IsUpTo(taken[t], descriptors'[t])
    <3>1. \A t \in Streams : descriptors[t] \in Nat /\ descriptors'[t] \in Nat /\ descriptors[t] <= descriptors'[t]
      BY <1>1 DEF StreamTypes
    <3> QED  BY <3>1 DEF Numbered, IsUpTo
  <2>4. \A t \in Streams : Sent(t)' = Sent(t) /\ events'[t] = events[t] /\ taken'[t] = taken[t]
    BY DEF Sent, history
  <2>5. ASSUME NEW t \in Streams
        PROVE  /\ Len(taken'[t]) = events'[t] /\ IsUpTo(taken'[t], descriptors'[t])
               /\ \A i \in Sent(t)' : taken'[t][i] \in Range(nodes'[t])
               /\ \A i, j \in 1..Len(taken'[t]) : i < j => taken'[t][i] <= taken'[t][j]
    BY <2>2, <2>3, <2>4 DEF Numbered
  <2> QED  BY ONLY <2>5, Zenon DEF Numbered
<1>9. \A t \in Streams : /\ descriptors[t] <= descriptors'[t]
                         /\ Range(nodes'[t]) \subseteq Range(nodes[t]) \cup {descriptors[t] + 1}
  <2>1. ASSUME NEW t \in Streams, t # s
        PROVE  descriptors[t] <= descriptors'[t] /\ Range(nodes'[t]) \subseteq Range(nodes[t])
    <3>1. descriptors[t] \in Nat
      BY DEF StreamTypes
    <3> QED  BY <1>1, <1>6, <2>1, <3>1
  <2> QED  BY <1>1, <1>2, <1>6, <2>1
<1> QED  BY <1>5, <1>7, <1>8, <1>9

\* An event has the last descriptor; if the writer does not know it the event is lost.
LEMMA NumberedKept ==
  ASSUME IInv, StreamTypes, Described, Numbered, NEW s \in Streams, EventOf(s) \/ EventUnknown(s)
  PROVE  StreamTypes' /\ Described' /\ Numbered'
<1> DEFINE d == descriptors[s]
           q == Append(taken[s], d)
<1>0. /\ UNCHANGED <<nodes, metadata, descriptors>> /\ taken' = [taken EXCEPT ![s] = q]
      /\ (Event(s) /\ d \in Range(nodes[s])) \/ (EventLost(s) /\ d \in 1..d)
  <2>1. MaxDescriptors[s] \in Nat
    BY DescriptorsAssumption
  <2> QED  BY <2>1 DEF EventOf, EventUnknown, Taken
<1>1. events \in [Streams -> Nat] /\ events' = [events EXCEPT ![s] = events[s] + 1]
  BY <1>0 DEF Event, EventLost, IInv, TypeOK
<1>2. d \in Nat /\ taken[s] \in Seq(Nat) /\ nodes[s] \in Seq(Nat) /\ IsUpTo(nodes[s], d)
  BY DEF StreamTypes, Described
<1>3. /\ Len(taken[s]) \in Nat /\ q \in Seq(Nat) /\ Len(q) = Len(taken[s]) + 1
      /\ \A i \in 1..Len(taken[s]) : q[i] = taken[s][i]
      /\ q[Len(taken[s]) + 1] = d
  BY <1>2
<1>4. d \in 1..d
  <2>1. CASE d \in Range(nodes[s])
    <3>1. PICK i \in DOMAIN nodes[s] : nodes[s][i] = d
      BY <2>1 DEF Range
    <3>2. i \in 1..Len(nodes[s])
      BY <1>2, <3>1
    <3> QED  BY <1>2, <3>1, <3>2 DEF IsUpTo
  <2> QED  BY <1>0, <2>1
<1> HIDE DEF d, q
<1>5. StreamTypes'
  BY <1>0, <1>3 DEF StreamTypes
<1>6. Described'
  BY <1>0 DEF Described
<1>7. /\ taken'[s] = q /\ events'[s] = events[s] + 1 /\ events[s] \in Nat
      /\ \A t \in Streams : t # s => taken'[t] = taken[t] /\ events'[t] = events[t]
  BY <1>0, <1>1 DEF StreamTypes
<1>8. /\ \A i \in 1..Len(taken[s]) : taken[s][i] \in 1..d
      /\ \A i, j \in 1..Len(taken[s]) : i < j => taken[s][i] <= taken[s][j]
      /\ Len(taken[s]) = events[s] /\ \A i \in Sent(s) : taken[s][i] \in Range(nodes[s])
  BY DEF Numbered, IsUpTo, d
<1>9. ASSUME NEW i \in 1..Len(q)
      PROVE  (i \in 1..Len(taken[s]) /\ q[i] = taken[s][i]) \/ (i = Len(taken[s]) + 1 /\ q[i] = d)
  BY <1>3
<1>10. \A i \in 1..Len(q) : q[i] \in 1..d
  BY <1>4, <1>8, <1>9
<1>11. \A i \in Sent(s)' : q[i] \in Range(nodes[s])
  <2>1. lost \in [Streams -> SUBSET Nat]
    BY DEF IInv, TypeOK
  <2>2. Sent(s) \subseteq 1..events[s] /\ Next
    <3>1. Next
      BY <1>0 DEF Next
    <3> QED  BY <3>1, SentSteps
  <2>3. CASE EventLost(s)
    <3>1. lost'[s] = lost[s] \cup {events[s] + 1}
      BY <1>7, <2>1, <2>3 DEF EventLost
    <3>2. Sent(s)' \subseteq Sent(s)
      BY <1>7, <3>1 DEF Sent
    <3> QED  BY <1>3, <1>8, <2>2, <3>2
  <2>4. CASE Event(s) /\ d \in Range(nodes[s])
    <3>1. Sent(s)' \subseteq Sent(s) \cup {events[s] + 1}
      BY <2>2, SentSteps
    <3> QED  BY <1>3, <1>8, <2>2, <2>4, <3>1
  <2> QED  BY <1>0, <2>3, <2>4
<1>12. \A i, j \in 1..Len(q) : i < j => q[i] <= q[j]
  <2>1. ASSUME NEW i \in 1..Len(q), NEW j \in 1..Len(q), i < j
        PROVE  q[i] <= q[j]
    <3>1. i \in 1..Len(taken[s]) /\ q[i] = taken[s][i] /\ q[i] \in 1..d
      BY <1>3, <1>8, <2>1
    <3>2. CASE j \in 1..Len(taken[s])
      BY <1>3, <1>8, <2>1, <3>1, <3>2
    <3>3. CASE j = Len(taken[s]) + 1
      BY <1>2, <1>3, <3>1, <3>3 DEF d
    <3> QED  BY <1>3, <3>2, <3>3
  <2> QED  BY <2>1
<1>13. ASSUME NEW t \in Streams, t # s
       PROVE  Sent(t)' = Sent(t)
  <2>1. lost'[t] = lost[t]
    BY <1>0, <1>13 DEF Event, EventLost, IInv, TypeOK
  <2> QED  BY <1>7, <1>13, <2>1 DEF Sent
<1>14. Numbered'
  <2>1. ASSUME NEW t \in Streams
        PROVE  /\ Len(taken'[t]) = events'[t] /\ IsUpTo(taken'[t], descriptors'[t])
               /\ \A i \in Sent(t)' : taken'[t][i] \in Range(nodes'[t])
               /\ \A i, j \in 1..Len(taken'[t]) : i < j => taken'[t][i] <= taken'[t][j]
    <3>1. CASE t = s
      BY <1>0, <1>3, <1>7, <1>8, <1>10, <1>11, <1>12, <3>1 DEF IsUpTo, d
    <3>2. CASE t # s
      BY <1>0, <1>7, <1>13, <3>2 DEF Numbered
    <3> QED  BY <3>1, <3>2
  <2> QED  BY ONLY <2>1, Zenon DEF Numbered
<1> QED  BY <1>5, <1>6, <1>14

\* A table that has rows keeps them.
LEMMA RowsStay ==
  ASSUME IInv, Next, NEW s \in Streams, Len(data[<<s, 1>>]) # 0
  PROVE  Len(data'[<<s, 1>>]) # 0
<1>1. TypeOK /\ <<s, 1>> \in Nodes /\ \A r \in Streams : <<s, 1>> # <<r, 0>>
  <2>1. 1 \in Nat \ {0} /\ 1 <= Parts[s]
    BY SizesAssumption
  <2> QED  BY <2>1, NodeFacts DEF IInv
<1>2. CASE UNCHANGED data
  BY <1>2
<1>3. CASE /\ \/ CreateArrays \/ CreateArraysFails \/ UploadArrays
              \/ UploadArraysFails \/ PatchArrays \/ PatchArraysFails
           /\ job \in Streams
  <2>1. UNCHANGED data \/ Create(<<job, 0>>) \/ Upload(<<job, 0>>) \/ Patch(<<job, 0>>)
    BY <1>3 DEF CreateArrays, CreateArraysFails, UploadArrays, UploadArraysFails, PatchArrays, PatchArraysFails
  <2> QED  BY <1>1, <1>3, <2>1, ArrayFacts
<1>4. CASE pc \in {"table", "retry"} /\ MayStore(<<job, part>>, cache[job])
  <2>1. job \in Streams /\ <<job, part>> \in Nodes /\ cache[job] \in Seq(Rows) /\ data[<<s, 1>>] \in Seq(Nat)
    BY <1>1, <1>4, NodeFacts DEF IInv, TypeOK, Control
  <2>2. CASE Store(<<job, part>>, cache[job])
    <3>1. data'[<<s, 1>>] = data[<<s, 1>>] \/ data'[<<s, 1>>] = data[<<s, 1>>] \o Seqs(cache[job])
      BY <1>1, <2>1, <2>2, StoreFacts
    <3>2. Len(data[<<s, 1>>] \o Seqs(cache[job])) = Len(data[<<s, 1>>]) + Len(cache[job])
          /\ Len(data[<<s, 1>>]) \in Nat /\ Len(cache[job]) \in Nat
      BY <2>1, AppendedRows
    <3>3. \A a, b \in Nat : a # 0 => a + b # 0
      OBVIOUS
    <3>4. Len(data[<<s, 1>>] \o Seqs(cache[job])) # 0
      BY ONLY <3>2, <3>3, Len(data[<<s, 1>>]) # 0, Zenon
    <3> QED  BY <3>1, <3>4
  <2> QED  BY <1>4, <2>2 DEF MayStore
<1>5. ASSUME NEW r \in Streams, Event(r) \/ EventLost(r)
      PROVE  UNCHANGED data
  BY <1>5 DEF Event, EventLost, server
<1> QED  BY <1>2, <1>3, <1>4, <1>5, WriterSteps

\* The writer may go on while the exporter reads.
LEMMA ReadKept ==
  ASSUME IInv, StreamTypes, StreamTypes', Read, UNCHANGED readVars,
         \A s \in Streams : /\ descriptors[s] <= descriptors'[s]
                            /\ Range(nodes'[s]) \subseteq Range(nodes[s]) \cup {descriptors[s] + 1}
                            /\ Sent(s) \subseteq Sent(s)' /\ Sent(s)' \subseteq Sent(s) \cup {events[s] + 1}
                            /\ Len(data[<<s, 1>>]) # 0 => Len(data'[<<s, 1>>]) # 0,
         stopDoc => stopDoc' /\ UNCHANGED <<metadata, data, made>>
  PROVE  Read'
<1>1. UNCHANGED <<step, reading, ended, docs, found, table>>
  BY DEF readVars
<1>2. ended => stopDoc /\ stopDoc' /\ UNCHANGED <<metadata, data, made>>
  BY DEF Read
<1>3. /\ ended' \in BOOLEAN /\ docs' \in Seq(Nat) /\ table' \in Seq(Nat)
      /\ ended' => stopDoc'
      /\ step' \in {"table", "arrays"} /\ ended' => found' = {p \in 0..1 : <<reading', p>> \in made'}
  <2>1. ASSUME step' \in {"table", "arrays"}, ended'
        PROVE  found' = {p \in 0..1 : <<reading', p>> \in made'}
    BY <1>1, <1>2, <2>1 DEF Read
  <2> QED  BY <1>1, <1>2, <2>1 DEF Read
<1>4. ASSUME ReadStream
      PROVE  ReadStream'
  <2>1. /\ reading \in Streams /\ docs \in Seq(Nat) /\ IsUpTo(docs, descriptors[reading])
        /\ descriptors[reading] \in Nat /\ descriptors'[reading] \in Nat
        /\ descriptors[reading] <= descriptors'[reading] /\ DOMAIN docs = 1..Len(docs)
    <3>1. reading \in Streams /\ docs \in Seq(Nat) /\ IsUpTo(docs, descriptors[reading])
      BY <1>4 DEF ReadStream, Read
    <3>2. descriptors[reading] \in Nat /\ descriptors'[reading] \in Nat
      BY <3>1 DEF StreamTypes
    <3>3. descriptors[reading] <= descriptors'[reading]
      BY <3>1
    <3> QED  BY <3>1, <3>2, <3>3
  <2>2. IsUpTo(docs, descriptors'[reading])
    BY <2>1 DEF IsUpTo
  <2>3. ASSUME NEW d \in Range(nodes'[reading])
        PROVE  d \in Range(docs) \/ \A e \in Range(docs) : e < d
    <3>1. CASE d \in Range(nodes[reading])
      BY <1>4, <3>1 DEF ReadStream
    <3>2. CASE d = descriptors[reading] + 1
      <4>1. \A e \in Range(docs) : e \in 1..descriptors[reading]
        BY <2>1 DEF Range, IsUpTo
      <4> QED  BY <2>1, <3>2, <4>1
    <3> QED  BY <2>1, <2>3, <3>1, <3>2
  <2> QED  BY <1>1, <1>2, <1>4, <2>2, <2>3 DEF ReadStream
<1>5. ASSUME ReadStream, ReadRows
      PROVE  ReadRows'
  <2>1. /\ reading \in Streams /\ events[reading] \in Nat /\ Sent(reading) \subseteq 1..events[reading]
        /\ Sent(reading)' = (1..events'[reading]) \ lost'[reading]
    BY <1>1, <1>5, NumberFacts DEF ReadStream, IInv, Sent
  <2>2. ASSUME NEW n \in Range(table)
        PROVE  {m \in Sent(reading)' : m < n} \subseteq Range(table)
    <3>1. n \in 1..events[reading]
      BY <1>5, <2>1 DEF ReadRows
    <3>2. \A m \in Sent(reading)' : m < n => m \in Sent(reading)
      <4>1. \A m \in Sent(reading)' : m \in Sent(reading) \/ m = events[reading] + 1
        BY <1>1, <2>1
      <4> QED  BY <2>1, <3>1, <4>1
    <3> QED  BY <1>5, <3>2 DEF ReadRows
  <2> QED  BY <1>1, <1>2, <1>5, <2>1, <2>2 DEF ReadRows
<1>6. step' \in {"parts", "table", "arrays"} => ReadStream'
  BY <1>1, <1>4 DEF Read
<1>7. step' = "arrays" => ReadRows'
  BY <1>1, <1>5 DEF Read
<1> QED  BY ONLY <1>3, <1>6, <1>7, Zenon DEF Read

\* A handler that fails before it has written anything only raises.
LEMMA RaisedOnly ==
  ASSUME IInv, Receiving, raised' = TRUE, lasting' \in BOOLEAN, lasting => lasting',
         faults' \in Nat,
         UNCHANGED <<backed, pc, batch, cache, clients, notes, server, history>>
  PROVE  IInv'
<1>1. /\ UNCHANGED <<job, stopping, part, attempts, refs, shape, data, made, stopDoc, published, closed, events, lost>>
      /\ UNCHANGED <<backed, pc, cache, notes>>
  BY DEF batch, clients, server, history
<1>2. pc = "idle" /\ ~stopDoc
  BY DEF IInv, TypeOK, Ended, Receiving
<1>3. TypeOK'
  BY <1>1 DEF IInv, TypeOK
<1>4. Control' /\ Ended' /\ Known'
  BY <1>1, <1>2 DEF IInv, TypeOK, Control, Ended, Known
<1>5. (Losses /\ Cached /\ Stored /\ RowsAppearInOrder /\ Noted /\ Aligned /\ Shaped)'
  <2>1. \A t \in Tables : ~Given(t) /\ ~Given(t)'
    BY <1>1, <1>2 DEF Given, InTables
  <2> QED  BY <1>1, <1>2, <2>1, RowsKept DEF Single
<1> QED  BY <1>3, <1>4, <1>5 DEF IInv

\* What is promised of array nodes is about data, caches and clients.
LEMMA ValuedSame ==
  ASSUME Valued, UNCHANGED <<backed, cache, clients, data, history>>
  PROVE  Valued'
<1>1. UNCHANGED <<refs, shape, events, lost>>
  BY DEF clients, history
<1>2. ASSUME NEW s \in Streams
      PROVE  ValuedOf(s)'
  <2>1. ValuedOf(s) /\ Arrays(s)' = Arrays(s) /\ Sent(s)' = Sent(s)
    BY <1>1 DEF Valued, Arrays, Sent
  <2> QED  BY <1>1, <2>1 DEF ValuedOf, ValuesOf
<1> QED  BY ONLY <1>2, Zenon DEF Valued

\* A descriptor that succeeds, and one that fails with an error that lasts.
LEMMA DescriptorKept ==
  ASSUME ExportIInv, NEW s \in Streams, Descriptor(s) \/ DescriptorFails(s), UNCHANGED readVars
  PROVE  ExportIInv' /\ (raised' /\ ~raised => lasting')
<1>0. /\ IInv /\ lasting \in BOOLEAN /\ faults \in Nat /\ ~stopDoc /\ DescriptorsKnown /\ StreamTypes /\ Described
      /\ Numbered /\ Valued /\ Read
  <2>1. Receiving
    BY DEF Descriptor, DescriptorFails, Received
  <2> QED  BY <2>1 DEF ExportIInv, IInv, TypeOK, Ended, Receiving
<1>1. /\ descriptors' = [descriptors EXCEPT ![s] = @ + 1] /\ UNCHANGED <<history, taken>>
      /\ UNCHANGED <<backed, cache, clients, data, server>>
  BY DEF Descriptor, DescriptorFails, Received, server
<1>2. LET with == WithDescriptor(s, descriptors'[s])
      IN \/ /\ metadata' = [metadata EXCEPT ![s] = with]
            /\ nodes' = [nodes EXCEPT ![s] = with] \/ nodes' = nodes
         \/ UNCHANGED <<metadata, nodes>>
  BY DEF Descriptor, DescriptorFails
<1>3. StreamTypes' /\ Described' /\ Numbered'
  BY <1>0, <1>1, <1>2, DescribedKept
<1>4. Valued'
  BY <1>0, <1>1, ValuedSame
<1>5. Read'
  <2>1. ASSUME NEW r \in Streams
        PROVE  /\ descriptors[r] <= descriptors'[r]
               /\ Range(nodes'[r]) \subseteq Range(nodes[r]) \cup {descriptors[r] + 1}
    BY <1>0, <1>1, <1>2, DescribedKept
  <2>2. \A r \in Streams : Sent(r)' = Sent(r) /\ data'[<<r, 1>>] = data[<<r, 1>>]
    BY <1>1 DEF Sent, history
  <2> QED  BY <1>0, <1>3, <2>1, <2>2, ReadKept
<1>6. CASE Descriptor(s)
  <2>1. UNCHANGED vars /\ UNCHANGED <<lasting, raised>>
    BY <1>6 DEF Descriptor, Received, NoFault, vars, failures
  <2>2. IInv'
    BY <1>0, <2>1, NextIInv
  <2>3. DescriptorsKnown'
    <3>1. nodes[s] \in Seq(Nat) /\ descriptors[s] \in Nat /\ descriptors'[s] = descriptors[s] + 1
      BY <1>0, <1>1 DEF StreamTypes
    <3>2. IsUpTo(nodes[s], descriptors[s]) /\ Rising(nodes[s])
      BY <1>0 DEF Described
    <3>3. nodes'[s] = Append(nodes[s], descriptors[s] + 1)
      BY <1>0, <1>6, <3>1 DEF Descriptor, StreamTypes, WithDescriptor
    <3>4. Range(nodes'[s]) = Range(nodes[s]) \cup {descriptors[s] + 1}
      BY <3>1, <3>2, <3>3, RisingAppended
    <3>5. \A d \in Nat : (1..d) \cup {d + 1} = 1..(d + 1)
      OBVIOUS
    <3>6. ASSUME ~lasting
          PROVE  Range(nodes'[s]) = 1..descriptors'[s] /\ descriptors'[s] # 0
      BY <1>0, <3>1, <3>4, <3>5, <3>6 DEF DescriptorsKnown
    <3>7. \A t \in Streams : t # s => /\ nodes'[t] = nodes[t] /\ metadata'[t] = metadata[t]
                                      /\ descriptors'[t] = descriptors[t]
      BY <1>0, <1>1, <1>6 DEF Descriptor, StreamTypes
    <3>8. ASSUME ~lasting, NEW t \in Streams
          PROVE  Range(nodes'[t]) = 1..descriptors'[t] /\ (metadata'[t] # <<>> => descriptors'[t] # 0)
      BY <1>0, <3>6, <3>7, <3>8 DEF DescriptorsKnown
    <3> QED  BY <2>1, <3>8 DEF DescriptorsKnown
  <2> QED  BY <1>3, <1>4, <1>5, <2>1, <2>2, <2>3 DEF ExportIInv
<1>7. CASE DescriptorFails(s)
  <2>1. lasting' /\ faults' \in Nat
    <3>1. CASE NodeRefused(s)
      <4>0. descriptors[s] \in Nat
        BY <1>0 DEF StreamTypes
      <4>1. ASSUME ~lasting
            PROVE  FALSE
        <5>1. Range(nodes[s]) = 1..descriptors[s] /\ (metadata[s] # <<>> => descriptors[s] # 0)
          BY <1>0, <4>1 DEF DescriptorsKnown
        <5>2. nodes[s] = <<>> /\ metadata[s] # <<>>
          BY <3>1 DEF NodeRefused
        <5>3. descriptors[s] # 0
          BY ONLY <5>1, <5>2, Zenon
        <5>4. 1 \in 1..descriptors[s]
          BY ONLY <4>0, <5>3
        <5>5. Range(<<>>) = {}
          BY DEF Range
        <5> QED  BY ONLY <5>1, <5>2, <5>4, <5>5, Zenon
      <4> QED  BY <1>0, <1>7, <3>1, <4>1 DEF DescriptorFails, failures
    <3>2. CASE ~NodeRefused(s)
      <4>1. Fault(TRUE)
        BY <1>7, <3>2 DEF DescriptorFails
      <4>2. lasting'
        BY <4>1 DEF Fault
      <4>3. faults' \in Nat
        BY <1>0, <4>1 DEF Fault
      <4> QED  BY <4>2, <4>3
    <3> QED  BY <3>1, <3>2
  <2>2. lasting' \in BOOLEAN
    <3>1. lasting' = lasting \/ Fault(TRUE)
      BY <1>7 DEF DescriptorFails, failures
    <3> QED  BY <1>0, <3>1 DEF Fault
  <2>3. IInv'
    BY <1>0, <1>7, <2>1, <2>2, RaisedOnly DEF DescriptorFails, Received
  <2>4. DescriptorsKnown'
    BY <2>1 DEF DescriptorsKnown
  <2> QED  BY <1>3, <1>4, <1>5, <2>1, <2>3, <2>4 DEF ExportIInv
<1> QED  BY <1>6, <1>7

\* The other steps of the run are those of the writer.
LEMMA WriterKept ==
  ASSUME ExportIInv, Next, UNCHANGED <<nodes, metadata, descriptors, readVars>>,
         StreamTypes' /\ Described' /\ Numbered'
  PROVE  ExportIInv' /\ (raised' /\ ~raised => lasting' \/ (pc = "table" /\ part # SeqNumPart[job]))
<1>1. IInv /\ IInv' /\ DescriptorsKnown /\ StreamTypes /\ Valued /\ Read
  BY NextIInv DEF ExportIInv
<1>2. Valued'
  BY <1>1, ValuedKept
<1>3. lasting => lasting'
  BY <1>1, LastingStays
<1>4. DescriptorsKnown'
  BY <1>1, <1>3 DEF DescriptorsKnown
<1>5. Read'
  <2>1. ASSUME NEW s \in Streams
        PROVE  /\ descriptors[s] <= descriptors'[s]
               /\ Range(nodes'[s]) \subseteq Range(nodes[s]) \cup {descriptors[s] + 1}
               /\ Sent(s) \subseteq Sent(s)' /\ Sent(s)' \subseteq Sent(s) \cup {events[s] + 1}
               /\ Len(data[<<s, 1>>]) # 0 => Len(data'[<<s, 1>>]) # 0
    <3>1. descriptors[s] \in Nat
      BY <1>1 DEF StreamTypes
    <3> QED  BY <1>1, <3>1, SentSteps, RowsStay
  <2>2. stopDoc => stopDoc' /\ UNCHANGED <<metadata, data, made>>
    BY <1>1, WriterSteps
  <2> QED  BY <1>1, <2>1, <2>2, ReadKept
<1> QED  BY <1>1, <1>2, <1>4, <1>5, RaisesIfLasting DEF ExportIInv

\* What the exporter reads is what is promised at the time.
LEMMA ExportKept ==
  ASSUME ExportIInv, Export, UNCHANGED <<vars, streamVars>>
  PROVE  ExportIInv' /\ UNCHANGED <<raised, lasting>>
<1>0. IInv /\ DescriptorsKnown /\ StreamTypes /\ Described /\ Numbered /\ Valued /\ Read
  BY DEF ExportIInv
<1>1. /\ UNCHANGED <<nodes, metadata, descriptors, taken>>
      /\ UNCHANGED <<backed, cache, clients, data, history, events, lost, made, stopDoc, lasting, raised>>
  BY DEF vars, streamVars, server, history, failures
<1>2. \A s \in Streams : Sent(s)' = Sent(s)
  BY <1>1 DEF Sent
<1>3. IInv' /\ Valued'
  BY <1>0, <1>1, NextIInv, ValuedSame
<1>4. DescriptorsKnown' /\ StreamTypes' /\ Described'
  BY <1>0, <1>1 DEF DescriptorsKnown, StreamTypes, Described
<1>5. Numbered'
  BY <1>0, <1>1, <1>2 DEF Numbered
<1>6. CASE RequestExport \/ ReadArrays
  <2>1. /\ step' \in {"stream", "idle"} /\ (ended' = stopDoc \/ ended' = FALSE)
        /\ (docs' = docs \/ docs' = <<>>) /\ (table' = table \/ table' = <<>>)
    BY <1>6 DEF RequestExport, ReadArrays
  <2>2. stopDoc \in BOOLEAN /\ <<>> \in Seq(Nat)
    BY <1>0 DEF IInv, TypeOK
  <2>3. ended' \in BOOLEAN /\ docs' \in Seq(Nat) /\ table' \in Seq(Nat) /\ (ended' => stopDoc')
    <3>1. ended' \in BOOLEAN /\ (ended' => stopDoc')
      <4>1. stopDoc' = stopDoc
        BY <1>1
      <4>2. ASSUME ended' = stopDoc
            PROVE  ended' \in BOOLEAN /\ (ended' => stopDoc')
        BY ONLY <2>2, <4>1, <4>2, Zenon
      <4>3. ASSUME ended' = FALSE
            PROVE  ended' \in BOOLEAN /\ (ended' => stopDoc')
        BY ONLY <4>3, Zenon
      <4> QED  BY ONLY <2>1, <4>2, <4>3, Zenon
    <3>2. docs \in Seq(Nat) /\ table \in Seq(Nat)
      BY <1>0 DEF Read
    <3>3. docs' \in Seq(Nat) /\ table' \in Seq(Nat)
      BY ONLY <2>1, <2>2, <3>2
    <3> QED  BY <3>1, <3>3
  <2>4. Read'
    BY <2>1, <2>3 DEF Read
  <2> QED  BY <1>1, <1>3, <1>4, <1>5, <2>4 DEF ExportIInv
<1>7. ASSUME NEW s \in Streams, ReadDescriptors(s)
      PROVE  ExportIInv'
  <2>1. /\ step' = "parts" /\ reading' = s /\ docs' = metadata[s] /\ Parts[s] = 1 /\ metadata[s] # <<>>
        /\ UNCHANGED <<ended, found, table>>
    BY <1>7 DEF ReadDescriptors
  <2>2. metadata[s] \in Seq(Nat) /\ Len(metadata[s]) # 0
    <3>1. metadata[s] \in Seq(Nat)
      BY <1>0 DEF StreamTypes
    <3> QED  BY <2>1, <3>1
  <2>3. ReadStream'
    BY <1>0, <1>1, <2>1, <2>2 DEF ReadStream, Described
  <2>4. Read'
    BY <1>0, <1>1, <2>1, <2>2, <2>3 DEF Read
  <2> QED  BY <1>3, <1>4, <1>5, <2>4 DEF ExportIInv
<1>8. CASE ReadParts
  <2>1. /\ step = "parts" /\ step' = "table" /\ UNCHANGED <<reading, ended, docs, table>>
        /\ found' = {p \in 0..1 : <<reading, p>> \in made}
    BY <1>8 DEF ReadParts
  <2>2. ReadStream'
    BY <1>0, <1>1, <2>1 DEF Read, ReadStream
  <2>3. Read'
    BY <1>0, <1>1, <2>1, <2>2 DEF Read
  <2> QED  BY <1>1, <1>3, <1>4, <1>5, <2>3 DEF ExportIInv
<1>9. CASE ReadTable
  <2> DEFINE t == <<reading, 1>>
  <2>1. /\ step = "table" /\ step' = "arrays" /\ UNCHANGED <<reading, ended, docs, found>>
        /\ table' = IF 1 \in found THEN data[t] ELSE <<>>
    BY <1>9 DEF ReadTable
  <2>2. ReadStream /\ ReadStream' /\ (ended => found = {p \in 0..1 : <<reading, p>> \in made})
    BY <1>0, <1>1, <2>1 DEF Read, ReadStream
  <2>3. t \in Nodes /\ t \in Tables /\ data[t] \in Seq(Nat) /\ reading \in Streams
    <3>1. reading \in Streams /\ 1 \in Nat \ {0} /\ 1 <= Parts[reading]
      BY <2>2 DEF ReadStream
    <3>2. t \in Tables
      BY <3>1, NodeFacts
    <3> QED  BY <1>0, <3>1, <3>2, NodeFacts DEF IInv, TypeOK
  <2>4. Range(data[t]) \subseteq Sent(reading) /\ lost[reading] \in SUBSET Nat /\ events[reading] \in Nat
    BY <1>0, <2>3 DEF IInv, Stored, TypeOK
  <2>5. ASSUME NEW n \in Range(data[t])
        PROVE  {m \in Sent(reading) : m < n} \subseteq Range(data[t])
    <3> DEFINE r == data[t]
    <3>1. Len(r) \in Nat /\ DOMAIN r = 1..Len(r) /\ \A i \in 1..Len(r) : r[i] \in Nat
      BY <2>3
    <3>2. PICK i \in 1..Len(r) : r[i] = n
      BY <2>3, <3>1 DEF Range
    <3>3. 1..(n - 1) \subseteq Range(SubSeq(r, 1, i - 1)) \cup lost[reading]
      BY <1>0, <2>3, <3>2 DEF IInv, RowsAppearInOrder
    <3>4. i - 1 \in 0..Len(r)
      BY <3>1
    <3>5. \A x : x \in Range(SubSeq(r, 1, i - 1)) => \E j \in 1..(i - 1) : r[j] = x
      BY <2>3, <3>4, BeginningFacts
    <3>6. \A j \in 1..(i - 1) : r[j] \in Range(r)
      <4>1. \A j \in DOMAIN r : r[j] \in Range(r)
        BY DEF Range
      <4>2. \A j \in 1..(i - 1) : j \in 1..Len(r)
        BY <3>1, <3>4
      <4> QED  BY <3>1, <4>1, <4>2
    <3>7. \A m \in Sent(reading) : m < n => m \in 1..(n - 1) /\ m \notin lost[reading]
      <4>1. n \in Nat /\ \A m \in Sent(reading) : m \in 1..events[reading] /\ m \notin lost[reading]
        BY <3>1, <3>2 DEF Sent
      <4> QED  BY <2>4, <4>1
    <3> QED  BY <3>3, <3>5, <3>6, <3>7
  <2>6. ended => table' = data[t]
    <3>1. ASSUME ended, 1 \notin found
          PROVE  data[t] = <<>>
      <4>1. t \notin made
        BY <2>2, <3>1
      <4> QED  BY <1>0, <2>3, <4>1 DEF IInv, Known
    <3> QED  BY <2>1, <3>1
  <2>7. Range(<<>>) = {} /\ <<>> \in Seq(Nat) /\ Len(<<>>) = 0
    BY DEF Range
  <2>8. table' = data[t] \/ table' = <<>>
    BY <2>1
  <2>9. UNCHANGED t /\ table' \in Seq(Nat)
    BY <2>1, <2>3, <2>7, <2>8
  <2> HIDE DEF t
  <2>10. ReadRows'
    <3>1. Range(table') \subseteq Sent(reading) /\ (Len(table') # 0 => Len(data[t]) # 0)
      BY <2>4, <2>7, <2>8
    <3>2. \A n \in Range(table') : {m \in Sent(reading) : m < n} \subseteq Range(table')
      BY <2>5, <2>7, <2>8
    <3>3. Sent(reading)' = Sent(reading)
      BY <1>1, <2>1 DEF Sent
    <3> QED  BY <1>1, <2>1, <2>6, <3>1, <3>2, <3>3 DEF ReadRows, t
  <2>11. Read'
    <3>1. ended => found = {p \in 0..1 : <<reading, p>> \in made}
      BY <2>2
    <3> QED  BY <1>0, <1>1, <2>1, <2>2, <2>9, <2>10, <3>1 DEF Read
  <2> QED  BY <1>1, <1>3, <1>4, <1>5, <2>11 DEF ExportIInv
<1> QED  BY <1>1, <1>6, <1>7, <1>8, <1>9 DEF Export

\* So the invariant is kept by every step, and a handler raises only as before.
LEMMA ExportStep ==
  ASSUME ExportIInv, ExportNext
  PROVE  ExportIInv' /\ (raised' /\ ~raised => lasting' \/ (pc = "table" /\ part # SeqNumPart[job]))
<1>0. IInv /\ StreamTypes /\ Described /\ Numbered
  BY DEF ExportIInv
<1>1. ASSUME NEW s \in Streams, Descriptor(s) \/ DescriptorFails(s), UNCHANGED readVars
      PROVE  ExportIInv' /\ (raised' /\ ~raised => lasting')
  BY <1>1, DescriptorKept
<1>2. ASSUME NEW s \in Streams, EventOf(s) \/ EventUnknown(s), UNCHANGED readVars
      PROVE  ExportIInv' /\ (raised' /\ ~raised => lasting' \/ (pc = "table" /\ part # SeqNumPart[job]))
  <2>1. Next /\ UNCHANGED <<nodes, metadata, descriptors>>
    BY <1>2 DEF EventOf, EventUnknown, Next
  <2>2. StreamTypes' /\ Described' /\ Numbered'
    BY <1>0, <1>2, NumberedKept
  <2> QED  BY <1>2, <2>1, <2>2, WriterKept
<1>3. ASSUME WriteBatch \/ EndRun, UNCHANGED <<streamVars, readVars>>
      PROVE  ExportIInv' /\ (raised' /\ ~raised => lasting' \/ (pc = "table" /\ part # SeqNumPart[job]))
  <2>1. Next /\ UNCHANGED <<nodes, metadata, descriptors, taken>>
    BY <1>3 DEF Next, streamVars
  <2>2. UNCHANGED history
    <3>1. CASE WriteBatch
      BY <3>1 DEF WriteBatch, NoArrays, CreateArrays, CreateArraysFails, UploadArrays, UploadArraysFails, PatchArrays,
                PatchArraysFails, CreateTable, CreateTableFails, AppendTable, AppendTransient, AppendNotNoted,
                AppendRejected, RetryTransient
    <3>2. CASE EndRun
      BY <3>2 DEF EndRun, Stop, StopFlush, StopWrite, StopWriteFails, Close
    <3> QED  BY <1>3, <3>1, <3>2
  <2>3. \A s \in Streams : Sent(s)' = Sent(s) /\ events'[s] = events[s]
    BY <2>2 DEF Sent, history
  <2>4. StreamTypes' /\ Described'
    BY <1>0, <2>1 DEF StreamTypes, Described
  <2>5. Numbered'
    BY <1>0, <2>1, <2>3 DEF Numbered
  <2> QED  BY <1>3, <2>1, <2>4, <2>5, WriterKept
<1>4. ASSUME Export, UNCHANGED <<vars, streamVars>>
      PROVE  ExportIInv' /\ (raised' => raised)
  BY <1>4, ExportKept
<1> QED  BY <1>1, <1>2, <1>3, <1>4 DEF ExportNext

-----------------------------------------------------------------------------
(***************************************************************************)
(* What the exporter makes of it.                                          *)
(***************************************************************************)

\* The numbers of a finite set, from the least to the greatest, each once.
LEMMA InOrderOfFacts ==
  ASSUME NEW S \in SUBSET Nat, IsFiniteSet(S)
  PROVE  /\ Cardinality(S) \in Nat /\ DOMAIN InOrderOf(S) = 1..Cardinality(S)
         /\ \A i \in 1..Cardinality(S) : InOrderOf(S)[i] \in S
         /\ \A i, j \in 1..Cardinality(S) : i < j => InOrderOf(S)[i] < InOrderOf(S)[j]
         /\ \A n \in S : \E i \in 1..Cardinality(S) : InOrderOf(S)[i] = n
<1> DEFINE UpTo(n) == {m \in S : m <= n}
           c == Cardinality(S)
           rank == [n \in S |-> Cardinality(UpTo(n))]
<1>1. c \in Nat
  BY FS_CardinalityType
<1>2. ASSUME NEW n \in S
      PROVE  IsFiniteSet(UpTo(n)) /\ rank[n] = Cardinality(UpTo(n)) /\ rank[n] \in 1..c
  <2>1. UpTo(n) \in SUBSET S /\ n \in UpTo(n) /\ rank[n] = Cardinality(UpTo(n))
    OBVIOUS
  <2> HIDE DEF UpTo, c, rank
  <2>2. IsFiniteSet(UpTo(n)) /\ Cardinality(UpTo(n)) <= Cardinality(S)
    BY ONLY <2>1, IsFiniteSet(S), FS_Subset
  <2>3. Cardinality(UpTo(n)) \in Nat
    BY <2>2, FS_CardinalityType
  <2>4. /\ IsFiniteSet(UpTo(n) \ {n}) /\ Cardinality(UpTo(n) \ {n}) = Cardinality(UpTo(n)) - 1
    BY <2>1, <2>2, FS_RemoveElement
  <2>5. Cardinality(UpTo(n) \ {n}) \in Nat
    BY <2>4, FS_CardinalityType
  <2> QED  BY <1>1, <2>1, <2>2, <2>3, <2>4, <2>5 DEF c
<1>3. ASSUME NEW a \in S, NEW b \in S, a < b
      PROVE  rank[a] < rank[b]
  <2>1. UpTo(a) \in SUBSET (UpTo(b) \ {b}) /\ b \in UpTo(b)
    <3>1. a \in Nat /\ b \in Nat /\ \A m \in S : m \in Nat
      OBVIOUS
    <3>2. \A m \in S : m <= a => m <= b /\ m # b
      BY <1>3, <3>1
    <3>3. \A m \in UpTo(a) : m \in UpTo(b) \ {b}
      BY <3>2
    <3>4. b \in UpTo(b)
      BY <3>1
    <3> HIDE DEF UpTo
    <3> QED  BY <3>3, <3>4
  <2>2. IsFiniteSet(UpTo(b)) /\ rank[a] = Cardinality(UpTo(a)) /\ rank[b] = Cardinality(UpTo(b))
        /\ rank[a] \in 1..c /\ rank[b] \in 1..c
    BY <1>2
  <2> HIDE DEF UpTo, rank, c
  <2>3. IsFiniteSet(UpTo(b) \ {b}) /\ Cardinality(UpTo(b) \ {b}) = Cardinality(UpTo(b)) - 1
    BY <2>1, <2>2, FS_RemoveElement
  <2>4. Cardinality(UpTo(a)) <= Cardinality(UpTo(b) \ {b})
    BY <2>1, <2>3, FS_Subset
  <2> QED  BY <1>1, <2>2, <2>3, <2>4
<1> HIDE DEF rank
<1>4. \A a, b \in S : /\ rank[a] = rank[b] => a = b
                      /\ rank[a] < rank[b] => a < b
  <2>1. ASSUME NEW a \in S, NEW b \in S
        PROVE  (rank[a] = rank[b] => a = b) /\ (rank[a] < rank[b] => a < b)
    <3>1. a \in Nat /\ b \in Nat /\ rank[a] \in 1..c /\ rank[b] \in 1..c
      BY <1>2
    <3>2. a < b \/ a = b \/ b < a
      BY <3>1
    <3> QED  BY <1>1, <1>3, <3>1, <3>2
  <2> QED  BY <2>1
<1>5. ASSUME NEW i \in 1..c
      PROVE  \E n \in S : rank[n] = i
  <2>1. SUFFICES ASSUME \A n \in S : rank[n] # i  PROVE FALSE
    OBVIOUS
  <2> DEFINE T == (1..c) \ {i}
  <2>2. IsFiniteSet(1..c) /\ Cardinality(1..c) = c
    <3>1. c # 0
      BY <1>1
    <3> HIDE DEF c
    <3> QED  BY <1>1, <3>1, FS_Interval
  <2>3. IsFiniteSet(T) /\ Cardinality(T) = c - 1
    BY <2>2, FS_RemoveElement
  <2>4. rank \in [S -> T]
    <3>1. \A n \in S : rank[n] \in T
      BY <1>2, <2>1
    <3>2. rank = [n \in S |-> rank[n]]
      BY DEF rank
    <3> QED  BY ONLY <3>1, <3>2
  <2>5. Cardinality(T) < Cardinality(S)
    BY <1>1, <2>3
  <2> HIDE DEF T
  <2>6. \E x, y \in S : x # y /\ rank[x] = rank[y]
    BY <2>3, <2>4, <2>5, FS_PigeonHole
  <2> QED  BY <1>4, <2>6
<1> DEFINE r == InOrderOf(S)
<1>6. DOMAIN r = 1..c /\ \A i \in 1..c : r[i] \in S /\ rank[r[i]] = i
  <2>1. r = [i \in 1..c |-> CHOOSE n \in S : Cardinality(UpTo(n)) = i]
    BY DEF InOrderOf
  <2>2. ASSUME NEW i \in 1..c
        PROVE  r[i] \in S /\ rank[r[i]] = i
    <3>1. \E n \in S : Cardinality(UpTo(n)) = i
      BY <1>2, <1>5
    <3> DEFINE x == CHOOSE n \in S : Cardinality(UpTo(n)) = i
    <3>2. x \in S /\ Cardinality(UpTo(x)) = i
      BY <3>1
    <3>3. r[i] = x
      BY <2>1
    <3> HIDE DEF x, r, UpTo
    <3> QED  BY <1>2, <3>2, <3>3
  <2> QED  BY <2>1, <2>2
<1> HIDE DEF r
<1>7. \A i, j \in 1..c : i < j => r[i] < r[j]
  <2> HIDE DEF c
  <2>1. ASSUME NEW i \in 1..c, NEW j \in 1..c, i < j
        PROVE  r[i] < r[j]
    <3>1. r[i] \in S /\ r[j] \in S /\ rank[r[i]] < rank[r[j]]
      BY <1>6, <2>1
    <3> QED  BY <1>4, <3>1
  <2> QED  BY <2>1
<1>8. \A n \in S : \E i \in 1..c : r[i] = n
  BY <1>2, <1>4, <1>6
<1> QED  BY <1>1, <1>6, <1>7, <1>8 DEF r, c

\* The numbers from 1 to k are in order.
LEMMA InOrderOfInterval ==
  ASSUME NEW k \in Nat
  PROVE  InOrderOf(1..k) = [i \in 1..k |-> i]
<1>1. \A n \in 0..k : IsFiniteSet(1..n) /\ Cardinality(1..n) = n
  BY FS_Interval
<1>2. \A n \in 1..k : {m \in 1..k : m <= n} = 1..n
  OBVIOUS
<1>3. \A n \in 1..k : Cardinality({m \in 1..k : m <= n}) = n
  <2>1. ASSUME NEW n \in 1..k
        PROVE  Cardinality({m \in 1..k : m <= n}) = n
    <3>1. n \in 0..k /\ {m \in 1..k : m <= n} = 1..n
      BY <1>2
    <3> QED  BY ONLY <1>1, <3>1, Zenon
  <2> QED  BY <2>1
<1>4. \A i \in 1..k : (CHOOSE n \in 1..k : Cardinality({m \in 1..k : m <= n}) = i) = i
  BY <1>3
<1>5. Cardinality(1..k) = k
  BY <1>1
<1>6. InOrderOf(1..k) = [i \in 1..Cardinality(1..k) |->
                           CHOOSE n \in 1..k : Cardinality({m \in 1..k : m <= n}) = i]
  BY DEF InOrderOf
<1> QED  BY <1>4, <1>5, <1>6

\* The descriptor of an event and those before it are older than the event, the
\* next one is younger.
LEMMA DescriptorTimes ==
  ASSUME StreamTypes, Numbered, NEW s \in Streams, NEW i \in 1..Len(taken[s]), NEW d \in Nat
  PROVE  /\ TimeOf(s, i) \in Nat /\ DescriptorTime(s, d) \in Nat
         /\ d <= taken[s][i] => DescriptorTime(s, d) <= TimeOf(s, i)
         /\ d > taken[s][i] => DescriptorTime(s, d) > TimeOf(s, i)
<1> DEFINE r == taken[s]
           Before == {j \in DOMAIN taken[s] : taken[s][j] < d}
<1>1. /\ r \in Seq(Nat) /\ Len(r) \in Nat /\ DOMAIN r = 1..Len(r) /\ r[i] \in Nat
      /\ \A j \in 1..Len(r) : r[j] \in Nat
      /\ \A j, k \in 1..Len(r) : j < k => r[j] <= r[k]
  BY DEF StreamTypes, Numbered
<1>2. Before \subseteq 1..Len(r)
  BY <1>1
<1>3. \A n \in Nat : IsFiniteSet(1..n) /\ Cardinality(1..n) = n
  BY FS_Interval
<1>4. IsFiniteSet(Before) /\ Cardinality(Before) \in Nat
  BY <1>1, <1>2, <1>3, FS_Subset, FS_CardinalityType
<1>5. TimeOf(s, i) = i + r[i] /\ DescriptorTime(s, d) = d + Cardinality(Before)
  BY DEF TimeOf, DescriptorTime
<1>6. ASSUME d <= r[i]
      PROVE  Cardinality(Before) <= i - 1
  <2>1. \A j \in Before : j \in 1..(i - 1)
    BY <1>1, <1>6
  <2>2. i - 1 \in Nat
    OBVIOUS
  <2> HIDE DEF Before
  <2>3. Before \subseteq 1..(i - 1)
    BY <2>1
  <2>4. IsFiniteSet(1..(i - 1)) /\ Cardinality(1..(i - 1)) = i - 1
    BY <1>3, <2>2
  <2>5. Cardinality(Before) <= Cardinality(1..(i - 1))
    BY ONLY <2>3, <2>4, FS_Subset
  <2> QED  BY <2>4, <2>5
<1>7. ASSUME d > r[i]
      PROVE  Cardinality(Before) >= i
  <2>1. \A j \in 1..i : j \in Before
    BY <1>1, <1>7
  <2> HIDE DEF Before
  <2>2. 1..i \subseteq Before /\ i \in Nat
    BY <2>1
  <2> QED  BY <1>3, <1>4, <2>2, FS_Subset
<1> HIDE DEF Before
<1> QED  BY <1>1, <1>4, <1>5, <1>6, <1>7

\* So the exporter finds the own descriptor of an event or, if that is younger than
\* all it has read, the last of these.
LEMMA DescriptorFound ==
  ASSUME StreamTypes, Numbered, ReadStream, docs \in Seq(Nat), NEW i \in 1..Len(taken[reading]),
         NEW own, own = taken[reading][i], own \in Range(docs) \/ \A e \in Range(docs) : e < own,
         NEW d, d = IF own \in Range(docs) THEN own ELSE docs[Len(docs)]
  PROVE  /\ DescriptorAt(DescriptorDocs, TimeOf(reading, i)).uid = d
         /\ DescriptorTime(reading, d) <= TimeOf(reading, i)
<1> DEFINE dd == DescriptorDocs
           K == {1} \cup {k \in DOMAIN dd : dd[k].time <= TimeOf(reading, i)}
<1>1. /\ docs \in Seq(Nat) /\ DOMAIN docs = 1..Len(docs) /\ Len(docs) \in Nat
      /\ \A k \in 1..Len(docs) : docs[k] \in Nat /\ docs[k] \in Range(docs)
      /\ \A j, k \in 1..Len(docs) : j < k => docs[j] < docs[k]
  BY DEF Range, ReadStream, Rising
<1>2. reading \in Streams /\ own \in Nat /\ Len(docs) # 0
  <2>1. reading \in Streams /\ Len(docs) # 0
    BY DEF ReadStream
  <2>2. taken[reading] \in Seq(Nat)
    BY <2>1 DEF StreamTypes
  <2> QED  BY <2>1, <2>2
<1>3. PICK k \in 1..Len(docs) : docs[k] = d /\ d <= own /\ (d = own \/ k = Len(docs))
  <2>1. CASE own \in Range(docs)
    <3>1. PICK k \in 1..Len(docs) : docs[k] = own
      BY <1>1, <2>1 DEF Range
    <3> QED  BY <1>2, <2>1, <3>1
  <2>2. CASE own \notin Range(docs)
    <3>1. Len(docs) \in 1..Len(docs)
      BY <1>1, <1>2
    <3>2. docs[Len(docs)] < own /\ docs[Len(docs)] \in Nat
      BY <1>1, <2>2, <3>1
    <3> QED  BY <1>2, <2>2, <3>1, <3>2
  <2> QED  BY <2>1, <2>2
<1>4. d \in Nat
  BY <1>1, <1>3
<1>5. DOMAIN dd = 1..Len(docs) /\ \A j \in 1..Len(docs) : /\ dd[j].uid = docs[j]
                                                          /\ dd[j].time = DescriptorTime(reading, docs[j])
  BY <1>1 DEF DescriptorDocs
<1> HIDE DEF dd
<1>6. DescriptorTime(reading, d) <= TimeOf(reading, i)
  BY <1>2, <1>3, <1>4, DescriptorTimes
<1>7. k \in K
  BY <1>3, <1>5, <1>6
<1>8. ASSUME NEW j \in K
      PROVE  k >= j
  <2>1. CASE j = 1
    BY <1>1, <2>1
  <2>2. CASE j # 1
    <3>1. j \in 1..Len(docs) /\ DescriptorTime(reading, docs[j]) <= TimeOf(reading, i)
      BY <1>5, <2>2
    <3>2. ASSUME j > k
          PROVE  FALSE
      <4>1. docs[j] > own /\ docs[j] \in Nat
        <5>1. docs[k] < docs[j] /\ k # Len(docs) /\ docs[j] \in Nat
          <6>1. j \in 1..Len(docs) /\ k < j /\ k # Len(docs)
            <7>1. \A l \in Nat : \A x, y \in 1..l : y > x => x < y /\ x # l
              OBVIOUS
            <7>2. Len(docs) \in Nat /\ j \in 1..Len(docs) /\ k \in 1..Len(docs)
              BY <1>1, <3>1
            <7> HIDE DEF K
            <7> QED  BY ONLY <3>2, <7>1, <7>2, Zenon
          <6> QED  BY <1>1, <6>1
        <5>2. docs[k] = own
          BY <1>3, <5>1
        <5> QED  BY <1>2, <5>1, <5>2
      <4>2. /\ DescriptorTime(reading, docs[j]) > TimeOf(reading, i)
            /\ DescriptorTime(reading, docs[j]) \in Nat /\ TimeOf(reading, i) \in Nat
        BY <1>2, <4>1, DescriptorTimes
      <4> QED  BY <3>1, <4>2
    <3> QED  BY <1>1, <3>1, <3>2
  <2> QED  BY <2>1, <2>2
<1>9. \A j \in K : j \in Nat
  BY <1>1, <1>5
<1> HIDE DEF K
<1>10. Max(K) = k
  <2>1. \A x \in K : (\A y \in K : x >= y) => x = k
    BY <1>7, <1>8, <1>9
  <2> QED  BY <1>7, <1>8, <2>1 DEF Max
<1>11. DescriptorAt(dd, TimeOf(reading, i)) = dd[Max(K)]
  BY DEF DescriptorAt, K
<1>12. DescriptorAt(dd, TimeOf(reading, i)).uid = d
  BY <1>3, <1>5, <1>10, <1>11
<1> QED  BY <1>6, <1>12 DEF dd

\* Numbers of which none is without those before it are the first ones.
LEMMA FirstOnes ==
  ASSUME NEW e \in Nat, NEW S, S \subseteq 1..e, S # {}, \A n \in S : 1..(n - 1) \subseteq S
  PROVE  \E k \in 1..e : S = 1..k
<1> DEFINE Bounds == {k \in 0..e : S \subseteq 1..k}
<1>1. PICK k \in Bounds : \A j \in Bounds : k <= j
  <2>1. e \in Bounds /\ Bounds \in SUBSET Nat
    OBVIOUS
  <2> HIDE DEF Bounds
  <2> QED  BY <2>1, LeastIndex
<1>2. k # 0
  <2>1. 1..0 = {} /\ S \subseteq 1..k
    BY <1>1
  <2> QED  BY <2>1
<1>3. k \in S
  <2>1. k - 1 \in 0..e /\ k - 1 \notin Bounds
    BY <1>1, <1>2
  <2>2. PICK n \in S : n \notin 1..(k - 1)
    BY <2>1
  <2>3. n \in 1..k
    BY <1>1
  <2>4. n = k
    BY <1>1, <2>2, <2>3
  <2> QED  BY <2>2, <2>4
<1>4. 1..(k - 1) \subseteq S /\ S \subseteq 1..k /\ k \in 1..e
  BY <1>1, <1>2, <1>3
<1>5. \A n \in 1..k : n \in 1..(k - 1) \/ n = k
  BY <1>4
<1> QED  BY <1>3, <1>4, <1>5

\* The last read: what the exporter has, and how it numbers that.
LEMMA ReadFacts ==
  ASSUME ExportIInv, step = "arrays"
  PROVE  /\ IInv /\ StreamTypes /\ Described /\ Numbered /\ ReadStream /\ ReadRows
         /\ reading \in Streams /\ <<reading, 0>> \in Nodes /\ <<reading, 1>> \in Tables /\ events[reading] \in Nat
         /\ docs \in Seq(Nat) /\ Sent(reading) \subseteq 1..events[reading]
         /\ Len(Values) \in Nat /\ DOMAIN Values = 1..Len(Values) /\ Len(Values) <= events[reading]
         /\ Len(Values) # 0 => Sent(reading) # {}
         /\ Values = data[<<reading, 0>>] \/ Values = <<>>
         /\ ended => /\ stopDoc /\ Values = data[<<reading, 0>>] /\ docs = metadata[reading]
                     /\ Range(table) = Sent(reading)
         /\ IF table = <<>>
            THEN Range(table) = {} /\ SeqNums = [i \in 1..Len(Values) |-> i]
            ELSE /\ Range(table) # {} /\ IsFiniteSet(Range(table)) /\ Range(table) \in SUBSET Nat
                 /\ SeqNums = InOrderOf(Range(table))
<1>1. /\ IInv /\ TypeOK /\ StreamTypes /\ Described /\ Numbered /\ ReadStream /\ ReadRows /\ Valued
      /\ docs \in Seq(Nat) /\ table \in Seq(Nat) /\ reading \in Streams
      /\ ended => /\ stopDoc /\ docs = metadata[reading]
                  /\ found = {p \in 0..1 : <<reading, p>> \in made} /\ table = data[<<reading, 1>>]
  BY DEF ExportIInv, IInv, Read, ReadStream, ReadRows
<1>2. /\ <<reading, 0>> \in Nodes /\ <<reading, 1>> \in Tables /\ events[reading] \in Nat
      /\ Sent(reading) \subseteq 1..events[reading] /\ data[<<reading, 0>>] \in Seq(Nat)
  <2>1. 1 \in Nat \ {0} /\ 1 <= Parts[reading]
    BY <1>1, SizesAssumption
  <2>2. <<reading, 0>> \in Nodes /\ <<reading, 1>> \in Tables
    BY <1>1, <2>1, NodeFacts
  <2>3. events[reading] \in Nat /\ data[<<reading, 0>>] \in Seq(Nat)
    BY <1>1, <2>2 DEF TypeOK
  <2>4. Sent(reading) \subseteq 1..events[reading]
    BY DEF Sent
  <2> QED  BY <2>2, <2>3, <2>4
<1>3. Values = data[<<reading, 0>>] \/ Values = <<>>
  BY DEF Values
<1>4. /\ Len(data[<<reading, 0>>]) <= events[reading]
      /\ Len(data[<<reading, 0>>]) # 0 => Sent(reading) # {}
  BY <1>1 DEF Valued, ValuedOf
<1>5. Values \in Seq(Nat) /\ Len(<<>>) = 0 /\ \A n \in Nat : 0 <= n
  <2>1. <<>> \in Seq(Nat) /\ Len(<<>>) = 0 /\ \A n \in Nat : 0 <= n
    OBVIOUS
  <2> QED  BY ONLY <1>2, <1>3, <2>1
<1>6. /\ Len(Values) \in Nat /\ DOMAIN Values = 1..Len(Values) /\ Len(Values) <= events[reading]
      /\ Len(Values) # 0 => Sent(reading) # {}
  <2>1. Len(Values) \in Nat /\ DOMAIN Values = 1..Len(Values)
    BY <1>5
  <2>2. CASE Values = data[<<reading, 0>>]
    BY <1>4, <2>1, <2>2
  <2>3. CASE Values = <<>>
    BY <1>2, <1>5, <2>1, <2>3
  <2> QED  BY <1>3, <2>2, <2>3
<1>7. ASSUME ended
      PROVE  Values = data[<<reading, 0>>] /\ Range(table) = Sent(reading)
  <2>1. ASSUME 0 \notin found
        PROVE  data[<<reading, 0>>] = <<>>
    <3>1. <<reading, 0>> \notin made
      BY <1>1, <1>7, <2>1
    <3> QED  BY <1>1, <1>2, <3>1 DEF IInv, Known
  <2>2. Range(table) = Sent(reading)
    BY <1>1, <1>2, <1>7, StoppedFacts
  <2> QED  BY <2>1, <2>2 DEF Values
<1>8. CASE table = <<>>
  <2>1. Range(table) = {}
    BY <1>8 DEF Range
  <2>2. SeqNums = [i \in 1..Len(Values) |-> i]
    BY <1>6, <1>8 DEF SeqNums
  <2> QED  BY <1>1, <1>2, <1>3, <1>6, <1>7, <1>8, <2>1, <2>2
<1>9. CASE table # <<>>
  <2>1. Len(table) # 0 /\ Len(table) \in Nat /\ DOMAIN table = 1..Len(table)
    BY <1>1, <1>9
  <2>2. Range(table) # {}
    <3>1. 1 \in DOMAIN table
      BY <2>1
    <3> QED  BY <3>1 DEF Range
  <2>3. Range(table) \subseteq 1..events[reading]
    BY <1>1, <1>2 DEF ReadRows
  <2>4. IsFiniteSet(1..events[reading])
    BY <1>2, FS_Interval
  <2>5. IsFiniteSet(Range(table))
    BY <2>3, <2>4, FS_Subset
  <2>6. Range(table) \in SUBSET Nat
    BY <1>2, <2>3
  <2>7. SeqNums = InOrderOf(Range(table))
    BY <1>9 DEF SeqNums
  <2> QED  BY <1>1, <1>2, <1>3, <1>6, <1>7, <1>9, <2>2, <2>5, <2>6, <2>7
<1> QED  BY <1>8, <1>9

\* The numbers of what is exported rise; with a table they are those of its rows,
\* which are the first ones as long as no event was lost.
LEMMA SeqNumsFacts ==
  ASSUME ExportIInv, step = "arrays"
  PROVE  \E k \in Nat :
           /\ DOMAIN SeqNums = 1..k
           /\ \A i, j \in 1..k : i < j => SeqNums[i] < SeqNums[j]
           /\ table # <<>> => {SeqNums[i] : i \in 1..k} = Range(table)
           /\ table = <<>> => k = Len(Values)
           /\ (table = <<>> \/ lost[reading] = {}) => \A i \in 1..k : SeqNums[i] = i
<1>1. CASE table = <<>>
  <2>1. PICK k \in Nat : k = Len(Values) /\ SeqNums = [i \in 1..k |-> i]
    BY <1>1, ReadFacts
  <2> QED  BY <1>1, <2>1
<1>2. CASE table # <<>>
  <2> DEFINE S == Range(table)
             r == SeqNums
  <2>1. S # {} /\ IsFiniteSet(S) /\ S \in SUBSET Nat /\ r = InOrderOf(S)
    BY <1>2, ReadFacts
  <2> HIDE DEF S, r
  <2>2. PICK k \in Nat : k = Cardinality(S)
    BY <2>1, InOrderOfFacts
  <2>3. /\ DOMAIN r = 1..k /\ \A i \in 1..k : r[i] \in S
        /\ \A i, j \in 1..k : i < j => r[i] < r[j]
        /\ \A n \in S : \E i \in 1..k : r[i] = n
    BY <2>1, <2>2, InOrderOfFacts
  <2>4. {r[i] : i \in 1..k} = S
    BY ONLY <2>3
  <2>5. ASSUME lost[reading] = {}
        PROVE  \A i \in 1..k : r[i] = i
    <3>1. Sent(reading) = 1..events[reading] /\ events[reading] \in Nat /\ ReadRows
      BY <2>5, ReadFacts DEF Sent
    <3>2. S \subseteq 1..events[reading] /\ \A n \in S : 1..(n - 1) \subseteq S
      <4>1. S \subseteq 1..events[reading] /\ \A n \in S : {m \in 1..events[reading] : m < n} \subseteq S
        BY <3>1 DEF ReadRows, S
      <4>2. ASSUME NEW n \in S, NEW m \in 1..(n - 1)
            PROVE  m \in S
        <5>1. m \in 1..events[reading] /\ m < n
          BY <3>1, <4>1
        <5> QED  BY <4>1, <5>1
      <4> QED  BY <4>1, <4>2
    <3>3. PICK c \in 1..events[reading] : S = 1..c
      BY <2>1, <3>1, <3>2, FirstOnes
    <3>4. c \in Nat /\ r = [i \in 1..c |-> i]
      BY <2>1, <3>1, <3>3, InOrderOfInterval
    <3> QED  BY <2>3, <3>4
  <2> QED  BY <1>2, <2>3, <2>4, <2>5 DEF S, r
<1> QED  BY <1>1, <1>2

\* The events, one for each number.
LEMMA Exported ==
  /\ DOMAIN ExportedEvents = DOMAIN SeqNums
  /\ \A i \in DOMAIN SeqNums :
       /\ ExportedEvents[i].seq_num = SeqNums[i]
       /\ table # <<>> =>
            /\ ExportedEvents[i].time = TimeOf(reading, SeqNums[i])
            /\ ExportedEvents[i].descriptor = DescriptorAt(DescriptorDocs, TimeOf(reading, SeqNums[i])).uid
       /\ ExportedEvents[i].values = IF i <= Len(Values) THEN {Values[i]} ELSE {}
<1> DEFINE time(i) == IF table = <<>> THEN 0 ELSE TimeOf(reading, SeqNums[i])
<1>1. ExportedEvents = [i \in DOMAIN SeqNums |->
                          [seq_num |-> SeqNums[i], time |-> time(i),
                           descriptor |-> DescriptorAt(DescriptorDocs, time(i)).uid,
                           values |-> IF i <= Len(Values) THEN {Values[i]} ELSE {}]]
  BY Zenon DEF ExportedEvents
<1>2. table # <<>> => \A i \in DOMAIN SeqNums : time(i) = TimeOf(reading, SeqNums[i])
  OBVIOUS
<1> HIDE DEF time
<1> QED  BY <1>1, <1>2

\* What is exported are first events, without those that were lost.
LEMMA ExportComplete == ExportIInv => ExportIsComplete
<1> SUFFICES ASSUME ExportIInv, step = "arrays"
             PROVE  LET exported == ExportedEvents
                        numbers == {exported[i].seq_num : i \in DOMAIN exported}
                        written == (1..events[reading]) \ lost[reading]
                    IN /\ \A i, j \in DOMAIN exported : i < j => exported[i].seq_num < exported[j].seq_num
                       /\ (table # <<>> \/ lost[reading] = {}) =>
                            numbers \subseteq written /\ \A n \in numbers : {m \in written : m < n} \subseteq numbers
                       /\ ended => numbers = written
  BY DEF ExportIsComplete
<1> DEFINE exported == ExportedEvents
           numbers == {exported[i].seq_num : i \in DOMAIN exported}
<1>1. PICK k \in Nat :
        /\ DOMAIN SeqNums = 1..k
        /\ \A i, j \in 1..k : i < j => SeqNums[i] < SeqNums[j]
        /\ table # <<>> => {SeqNums[i] : i \in 1..k} = Range(table)
        /\ table = <<>> => k = Len(Values)
        /\ (table = <<>> \/ lost[reading] = {}) => \A i \in 1..k : SeqNums[i] = i
  BY SeqNumsFacts
<1>2. DOMAIN exported = 1..k /\ \A i \in 1..k : exported[i].seq_num = SeqNums[i]
  BY <1>1, Exported
<1> HIDE DEF exported
<1>3. numbers = {SeqNums[i] : i \in 1..k}
  BY <1>2
<1>4. table # <<>> => numbers = Range(table)
  BY <1>1, <1>3
<1>5. table = <<>> => numbers = 1..k
  BY <1>1, <1>3
<1> HIDE DEF numbers
<1>6. (1..events[reading]) \ lost[reading] = Sent(reading)
  BY DEF Sent
<1>7. CASE table # <<>>
  <2>1. /\ Range(table) \subseteq Sent(reading)
        /\ \A n \in Range(table) : {m \in Sent(reading) : m < n} \subseteq Range(table)
        /\ ended => Range(table) = Sent(reading)
    BY ReadFacts DEF ReadRows
  <2> QED  BY <1>1, <1>2, <1>4, <1>6, <1>7, <2>1 DEF exported, numbers
<1>8. CASE table = <<>>
  <2>1. /\ Len(Values) <= events[reading] /\ events[reading] \in Nat /\ k = Len(Values)
        /\ Len(Values) # 0 => Sent(reading) # {}
        /\ ended => Sent(reading) = {}
    BY <1>1, <1>8, ReadFacts
  <2>2. lost[reading] = {} => /\ 1..k \subseteq Sent(reading)
                              /\ \A n \in 1..k : {m \in Sent(reading) : m < n} \subseteq 1..k
    <3>1. ASSUME lost[reading] = {}
          PROVE  Sent(reading) = 1..events[reading]
      BY <3>1 DEF Sent
    <3> QED  BY <2>1, <3>1
  <2>3. ended => 1..k = {}
    BY <2>1
  <2> QED  BY <1>1, <1>2, <1>5, <1>6, <1>8, <2>1, <2>2, <2>3 DEF exported, numbers
<1> QED  BY <1>7, <1>8

\* With descriptors and values of their own.
LEMMA ExportFaithful == ExportIInv => ExportIsFaithful
<1> SUFFICES ASSUME ExportIInv, step = "arrays", NEW i \in DOMAIN ExportedEvents
             PROVE  LET event == ExportedEvents[i]
                        own == taken[reading][event.seq_num]
                    IN /\ table # <<>> =>
                            /\ event.descriptor = IF ended \/ own \in Range(docs) THEN own ELSE docs[Len(docs)]
                            /\ Precedes(reading, event.descriptor, event)
                       /\ backed => event.values \subseteq {event.seq_num} \cup (IF table = <<>> THEN {0} ELSE {})
                       /\ (backed /\ ended /\ reading \in ArrayStreams) => event.values = {event.seq_num}
  BY DEF ExportIsFaithful
<1> DEFINE event == ExportedEvents[i]
           own == taken[reading][event.seq_num]
<1>1. PICK k \in Nat :
        /\ DOMAIN SeqNums = 1..k
        /\ table # <<>> => {SeqNums[j] : j \in 1..k} = Range(table)
        /\ table = <<>> => k = Len(Values)
        /\ (table = <<>> \/ lost[reading] = {}) => \A j \in 1..k : SeqNums[j] = j
  BY SeqNumsFacts
<1>2. /\ i \in 1..k /\ event.seq_num = SeqNums[i]
      /\ table # <<>> =>
           /\ event.time = TimeOf(reading, event.seq_num)
           /\ event.descriptor = DescriptorAt(DescriptorDocs, TimeOf(reading, event.seq_num)).uid
      /\ event.values = IF i <= Len(Values) THEN {Values[i]} ELSE {}
  BY <1>1, Exported
<1> HIDE DEF event
<1>3. ASSUME table # <<>>
      PROVE  /\ event.descriptor = IF ended \/ own \in Range(docs) THEN own ELSE docs[Len(docs)]
             /\ Precedes(reading, event.descriptor, event)
  <2> DEFINE d == IF own \in Range(docs) THEN own ELSE docs[Len(docs)]
  <2>1. event.seq_num \in Sent(reading) /\ event.seq_num \in 1..Len(taken[reading])
    <3>1. event.seq_num \in Range(table)
      BY <1>1, <1>2, <1>3
    <3>2. Range(table) \subseteq Sent(reading) /\ Sent(reading) \subseteq 1..events[reading]
          /\ Len(taken[reading]) = events[reading]
      BY ReadFacts DEF ReadRows, Numbered
    <3> QED  BY <3>1, <3>2
  <2>2. own \in Range(nodes[reading])
    BY <2>1, ReadFacts DEF Numbered
  <2>3. own \in Range(docs) \/ \A e \in Range(docs) : e < own
    BY <2>2, ReadFacts DEF ReadStream
  <2>4. ended => own \in Range(docs)
    BY <2>2, ReadFacts DEF Described
  <2> HIDE DEF own, d
  <2>5. /\ DescriptorAt(DescriptorDocs, TimeOf(reading, event.seq_num)).uid = d
        /\ DescriptorTime(reading, d) <= TimeOf(reading, event.seq_num)
    <3>1. StreamTypes /\ Numbered /\ ReadStream /\ docs \in Seq(Nat)
      BY ReadFacts
    <3>2. PICK n \in 1..Len(taken[reading]) : n = event.seq_num
      BY <2>1
    <3>3. own = taken[reading][n] /\ d = IF own \in Range(docs) THEN own ELSE docs[Len(docs)]
      BY <3>2 DEF own, d
    <3>4. /\ DescriptorAt(DescriptorDocs, TimeOf(reading, n)).uid = d
          /\ DescriptorTime(reading, d) <= TimeOf(reading, n)
      BY <2>3, <3>1, <3>3, DescriptorFound
    <3> QED  BY <3>2, <3>4
  <2> QED  BY <1>2, <1>3, <2>4, <2>5 DEF Precedes, d
<1>4. ASSUME backed
      PROVE  /\ event.seq_num = i
             /\ event.values \subseteq {event.seq_num} \cup (IF table = <<>> THEN {0} ELSE {})
  <2>1. lost[reading] = {}
    BY <1>4, ReadFacts DEF IInv, Losses
  <2>2. event.seq_num = i
    BY <1>1, <1>2, <2>1
  <2>3. ASSUME i <= Len(Values)
        PROVE  Values[i] = i \/ (table = <<>> /\ Values[i] = 0)
    <3>1. i \in 1..Len(Values)
      BY <1>2, <2>3, ReadFacts
    <3>2. Values = data[<<reading, 0>>] /\ Len(data[<<reading, 0>>]) # 0
      <4>1. Values # <<>> /\ Len(Values) # 0
        <5>1. Len(Values) # 0
          BY <3>1, ReadFacts
        <5>2. Len(<<>>) = 0
          OBVIOUS
        <5> QED  BY ONLY <5>1, <5>2
      <4> QED  BY <4>1, ReadFacts
    <3>3. ValuedOf(reading)
      BY ReadFacts DEF ExportIInv, Valued
    <3>4. Values[i] = i \/ (<<reading, 0>> \notin refs /\ Values[i] = 0)
      BY <1>4, <3>1, <3>2, <3>3 DEF ValuedOf, ValuesOf
    <3>5. ASSUME table # <<>>
          PROVE  <<reading, 0>> \in refs
      <4>1. Len(data[<<reading, 1>>]) # 0
        <5>1. table \in Seq(Nat)
          BY DEF ExportIInv, Read
        <5>2. Len(table) # 0
          BY <3>5, <5>1
        <5> QED  BY <5>2, ReadFacts DEF ReadRows
      <4> QED  BY <1>4, <3>2, <3>3, <4>1 DEF ValuedOf
    <3> QED  BY <3>4, <3>5
  <2> QED  BY <1>2, <2>2, <2>3
<1>5. ASSUME backed, ended, reading \in ArrayStreams
      PROVE  event.values = {event.seq_num}
  <2>1. stopDoc /\ Values = data[<<reading, 0>>] /\ lost[reading] = {} /\ Range(table) = Sent(reading)
        /\ events[reading] \in Nat
    BY <1>5, ReadFacts DEF IInv, Losses
  <2>2. Values = [n \in 1..events[reading] |-> n]
    BY <1>5, <2>1, ReadFacts, Promises DEF ArraysAligned
  <2>3. Len(Values) = events[reading]
    BY <2>1, <2>2
  <2>4. i \in 1..events[reading]
    <3>1. CASE table = <<>>
      BY <1>1, <1>2, <2>3, <3>1
    <3>2. CASE table # <<>>
      <4>1. SeqNums[i] = i /\ SeqNums[i] \in Range(table)
        BY <1>1, <1>2, <2>1, <3>2
      <4> QED  BY <2>1, <4>1 DEF Sent
    <3> QED  BY <3>1, <3>2
  <2>5. i <= Len(Values) /\ Values[i] = i
    BY <2>1, <2>2, <2>3, <2>4
  <2> QED  BY <1>2, <1>4, <1>5, <2>5
<1> QED  BY <1>3, <1>4, <1>5 DEF event

\* The writer keeps its promises to whoever exports the run, too: every state of
\* RunExport satisfies the invariant, in which lost events are counted.
THEOREM ExportInvariance == ExportSpec => []ExportIInv
<1>1. ExportInit => ExportIInv
  <2>1. ASSUME ExportInit
        PROVE  ExportIInv
    <3>1. IInv /\ DescriptorsKnown
      BY <2>1, InitIInv DEF ExportInit, DescriptorsKnown, Range
    <3>2. \A s \in Streams : /\ data[<<s, 0>>] = <<>> /\ data[<<s, 1>>] = <<>> /\ cache[s] = <<>> /\ shape[s] = 0
                             /\ events[s] = 0 /\ taken[s] = <<>> /\ nodes[s] = <<>> /\ metadata[s] = <<>>
      <4>1. \A s \in Streams : <<s, 0>> \in Nodes /\ <<s, 1>> \in Nodes
        <5>1. \A s \in Streams : 1 \in Nat \ {0} /\ 1 <= Parts[s]
          BY SizesAssumption
        <5> QED  BY <5>1, NodeFacts
      <4> QED  BY <2>1, <4>1 DEF ExportInit, Init
    <3>3. Len(<<>>) = 0 /\ 1..0 = {} /\ <<>> \in Seq(Rows) /\ <<>> \in Seq(Nat) /\ Range(<<>>) = {}
      BY DEF Range
    <3>4. StreamTypes /\ Described
      BY <2>1, <3>2, <3>3 DEF ExportInit, StreamTypes, Described, IsUpTo, Rising
    <3>5. Numbered
      <4>1. \A s \in Streams : Sent(s) = {}
        BY <3>2, <3>3 DEF Sent
      <4> QED  BY <3>2, <3>3, <4>1 DEF Numbered, IsUpTo
    <3>6. Valued
      <4>1. \A s \in Streams : Len(Arrays(s)) = 0
        BY <3>2, <3>3, WithArraysNone DEF Arrays
      <4>2. ASSUME NEW s \in Streams
            PROVE  ValuedOf(s)
        <5>1. /\ shape[s] + Len(Arrays(s)) <= events[s] /\ Len(data[<<s, 0>>]) <= events[s]
              /\ Len(data[<<s, 0>>]) = 0 /\ Len(data[<<s, 1>>]) = 0 /\ Len(cache[s]) = 0
          BY <3>2, <3>3, <4>1
        <5>2. ValuesOf(s, data[<<s, 0>>])
          BY <3>3, <5>1 DEF ValuesOf
        <5> QED  BY <3>3, <5>1, <5>2 DEF ValuedOf
      <4> QED  BY <4>2 DEF Valued
    <3>7. Read
      BY <2>1, <3>3 DEF ExportInit, Read
    <3> QED  BY <3>1, <3>4, <3>5, <3>6, <3>7 DEF ExportIInv
  <2> QED  BY <2>1
<1>2. ExportIInv /\ [ExportNext]_exportVars => ExportIInv'
  <2>1. ASSUME ExportIInv, UNCHANGED exportVars
        PROVE  ExportIInv'
    <3>1. /\ UNCHANGED <<vars, nodes, metadata, descriptors, taken, lasting>>
          /\ UNCHANGED <<backed, cache, clients, data, history, events, lost, made, stopDoc>>
          /\ UNCHANGED <<step, reading, ended, docs, found, table>>
      BY <2>1 DEF exportVars, streamVars, readVars, vars, failures, server, history
    <3>2. IInv' /\ DescriptorsKnown'
      BY <2>1, <3>1, NextIInv DEF ExportIInv, DescriptorsKnown
    <3>3. \A s \in Streams : Sent(s)' = Sent(s)
      BY <3>1 DEF Sent
    <3>4. StreamTypes' /\ Described'
      BY <2>1, <3>1 DEF ExportIInv, StreamTypes, Described
    <3>5. Numbered'
      BY <2>1, <3>1, <3>3 DEF ExportIInv, Numbered
    <3>6. Valued'
      BY <2>1, <3>1, ValuedSame DEF ExportIInv
    <3>7. Read'
      <4>1. ReadStream' <=> ReadStream
        BY <3>1 DEF ReadStream
      <4>2. ReadRows' <=> ReadRows
        <5>1. Sent(reading)' = Sent(reading)
          BY <3>1 DEF Sent
        <5> QED  BY <3>1, <5>1 DEF ReadRows
      <4> QED  BY <2>1, <3>1, <4>1, <4>2 DEF ExportIInv, Read
    <3> QED  BY <3>2, <3>4, <3>5, <3>6, <3>7 DEF ExportIInv
  <2> QED  BY <2>1, ExportStep
<1> QED  BY <1>1, <1>2, PTL DEF ExportSpec

\* So with descriptors, of which some fail and take events with them, all of the
\* above holds as well.
THEOREM ExportPromises ==
  ExportSpec => [](RowsAppearInOrder /\ TablesComplete /\ DuplicatesNoted /\ ArraysAligned /\ ClosedIsFinal)
<1>1. ExportIInv => RowsAppearInOrder /\ TablesComplete /\ DuplicatesNoted /\ ArraysAligned /\ ClosedIsFinal
  BY Promises DEF ExportIInv
<1> QED  BY <1>1, ExportInvariance, PTL

\* And a handler of descriptors or events, too, raises only if an error has lasted.
THEOREM ExportTransientIsSurvived == ExportSpec => TransientIsSurvived
<1> DEFINE Why == raised' /\ ~raised => lasting' \/ (pc = "table" /\ part # SeqNumPart[job])
<1>1. ExportIInv /\ [ExportNext]_exportVars => [Why]_vars
  BY ExportStep DEF exportVars
<1> QED  BY <1>1, ExportInvariance, PTL DEF ExportSpec, TransientIsSurvived

\* What is exported of a stream with one table, whatever was stored between two of
\* its reads, are first events, each once, and of a run that had ended all that
\* were not lost.
THEOREM ExportIsCompleteThm == ExportSpec => []ExportIsComplete
BY ExportComplete, ExportInvariance, PTL

\* Each of them has its own descriptor or the last one that was read, and no array
\* value of another event.
THEOREM ExportIsFaithfulThm == ExportSpec => []ExportIsFaithful
BY ExportFaithful, ExportInvariance, PTL
====
