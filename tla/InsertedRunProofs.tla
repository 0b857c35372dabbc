------------------------- MODULE InsertedRunProofs --------------------------
(***************************************************************************)
(* Proofs about ConditionalBackup, about what BackupFiles leaves in files  *)
(* and dictionaries and about the run that InsertedRun posts and reads, for *)
(* any set of backups, any length of the buffer, runs of any length, any   *)
(* number of attempts and of faults.                                       *)
(***************************************************************************)
EXTENDS InsertedRun, SequenceTheorems, FiniteSetTheorems, WellFoundedInduction, TLAPS

\* How many documents have left the buffer of a run of n documents.
Left(n) == IF n > MaxLen THEN n - MaxLen ELSE 0

\* While the primary works the buffer holds the end of the run; afterwards it
\* is empty between calls.
BufferIsTail == buffer = IF primaryFailed THEN <<>> ELSE Docs(Left(received) + 1, received)

Failure == primaryFailed <=> failedAt > 0

IInv == TypeOK /\ BufferIsTail /\ Failure /\ PrimaryHasPrefix /\ RunIsNotSplit

-----------------------------------------------------------------------------
(***************************************************************************)
(* Facts about Docs                                                        *)
(***************************************************************************)

\* Docs(m, n) is a sequence of numbers; it has n - m + 1 of them.
LEMMA DocsSeq ==
  ASSUME NEW m \in Nat \ {0}, NEW n \in Nat, m <= n + 1
  PROVE  /\ Docs(m, n) \in Seq(Nat)
         /\ Len(Docs(m, n)) = n - m + 1
         /\ \A i \in 1..(n - m + 1) : Docs(m, n)[i] = m + i - 1
<1> DEFINE k == n - m + 1
<1>1. k \in Nat
  OBVIOUS
<1>2. Docs(m, n) = [i \in 1..k |-> m + i - 1]
  BY DEF Docs
<1>3. \A i \in 1..k : m + i - 1 \in Nat
  OBVIOUS
<1> HIDE DEF k
<1>4. Docs(m, n) \in Seq(Nat) /\ Len(Docs(m, n)) = k /\ \A i \in 1..k : Docs(m, n)[i] = m + i - 1
  BY <1>1, <1>2, <1>3
<1> QED  BY <1>4 DEF k

\* The next document goes to the end.
LEMMA DocsAppend ==
  ASSUME NEW m \in Nat \ {0}, NEW n \in Nat, m <= n + 1
  PROVE  Append(Docs(m, n), n + 1) = Docs(m, n + 1)
<1>1. Docs(m, n) \in Seq(Nat) /\ Len(Docs(m, n)) = n - m + 1
      /\ \A i \in 1..(n - m + 1) : Docs(m, n)[i] = m + i - 1
  BY DocsSeq
<1>2. Docs(m, n + 1) \in Seq(Nat) /\ Len(Docs(m, n + 1)) = n - m + 2
      /\ \A i \in 1..(n - m + 2) : Docs(m, n + 1)[i] = m + i - 1
  BY DocsSeq
<1>3. /\ Append(Docs(m, n), n + 1) \in Seq(Nat)
      /\ Len(Append(Docs(m, n), n + 1)) = n - m + 2
      /\ \A i \in 1..(n - m + 1) : Append(Docs(m, n), n + 1)[i] = m + i - 1
      /\ Append(Docs(m, n), n + 1)[n - m + 2] = n + 1
  <2> DEFINE d == Docs(m, n)
             e == n + 1
             l == n - m + 1
  <2>1. l + 1 = n - m + 2 /\ e \in Nat /\ l \in Nat
    OBVIOUS
  <2>2. d \in Seq(Nat) /\ Len(d) = l /\ \A i \in 1..l : d[i] = m + i - 1
    BY <1>1
  <2> HIDE DEF d, e, l
  <2>3. /\ Append(d, e) \in Seq(Nat) /\ Len(Append(d, e)) = l + 1
        /\ \A i \in 1..l : Append(d, e)[i] = d[i]
        /\ Append(d, e)[l + 1] = e
    BY <2>1, <2>2, AppendProperties
  <2>4. \A i \in 1..l : Append(d, e)[i] = m + i - 1
    BY <2>2, <2>3
  <2> QED  BY <2>1, <2>3, <2>4 DEF d, e, l
<1>4. \A i \in 1..(n - m + 2) : Append(Docs(m, n), n + 1)[i] = Docs(m, n + 1)[i]
  BY <1>2, <1>3
<1> QED  BY <1>2, <1>3, <1>4, SeqEqual

\* Dropping the first document.
LEMMA DocsTail ==
  ASSUME NEW m \in Nat \ {0}, NEW n \in Nat, m <= n
  PROVE  Tail(Docs(m, n)) = Docs(m + 1, n)
<1>1. Docs(m, n) \in Seq(Nat) /\ Len(Docs(m, n)) = n - m + 1
      /\ \A i \in 1..(n - m + 1) : Docs(m, n)[i] = m + i - 1
  BY DocsSeq
<1>2. Docs(m + 1, n) \in Seq(Nat) /\ Len(Docs(m + 1, n)) = n - m
      /\ \A i \in 1..(n - m) : Docs(m + 1, n)[i] = m + i
  <2>1. /\ m + 1 \in Nat \ {0} /\ m + 1 <= n + 1
        /\ n - (m + 1) + 1 = n - m /\ \A i \in 1..(n - m) : (m + 1) + i - 1 = m + i
    OBVIOUS
  <2>2. /\ Docs(m + 1, n) \in Seq(Nat)
        /\ Len(Docs(m + 1, n)) = n - (m + 1) + 1
        /\ \A i \in 1..(n - (m + 1) + 1) : Docs(m + 1, n)[i] = (m + 1) + i - 1
    BY <2>1, DocsSeq
  <2> QED  BY <2>1, <2>2
<1>3. /\ Tail(Docs(m, n)) \in Seq(Nat)
      /\ Len(Tail(Docs(m, n))) = n - m
      /\ \A i \in 1..(n - m) : Tail(Docs(m, n))[i] = m + i
  <2>1. Docs(m, n) # <<>> /\ Len(Docs(m, n)) - 1 = n - m
    BY <1>1, EmptySeq
  <2>2. /\ Tail(Docs(m, n)) \in Seq(Nat) /\ Len(Tail(Docs(m, n))) = n - m
        /\ \A i \in 1..(n - m) : Tail(Docs(m, n))[i] = Docs(m, n)[i + 1]
    BY <1>1, <2>1, HeadTailProperties
  <2>3. \A i \in 1..(n - m) : Docs(m, n)[i + 1] = m + i
    BY <1>1
  <2> QED  BY <2>2, <2>3
<1> QED  BY <1>2, <1>3, SeqEqual

\* One more document in the buffer: it still holds the end of the run.
LEMMA BufferedTail ==
  ASSUME NEW n \in Nat
  PROVE  /\ Buffered(Docs(Left(n) + 1, n), n + 1) = Docs(Left(n + 1) + 1, n + 1)
         /\ Buffered(Docs(Left(n) + 1, n), n + 1) \in Seq(Nat)
         /\ Len(Buffered(Docs(Left(n) + 1, n), n + 1)) <= MaxLen
<1> USE MaxLenAssumption
<1>1. Left(n) \in Nat /\ Left(n) <= n /\ Left(n + 1) \in Nat /\ Left(n + 1) <= n + 1
  BY DEF Left
<1>2. Len(Docs(Left(n) + 1, n)) = n - Left(n)
  <2>1. Left(n) + 1 \in Nat \ {0} /\ Left(n) + 1 <= n + 1 /\ n - (Left(n) + 1) + 1 = n - Left(n)
    BY <1>1
  <2>2. Len(Docs(Left(n) + 1, n)) = n - (Left(n) + 1) + 1
    BY <2>1, DocsSeq
  <2> QED  BY <2>1, <2>2
<1>3. Buffered(Docs(Left(n) + 1, n), n + 1) = Docs(Left(n + 1) + 1, n + 1)
  <2>1. CASE n < MaxLen
    <3>1. Left(n) = 0 /\ Left(n + 1) = 0
      BY <2>1 DEF Left
    <3>2. Len(Docs(1, n)) = n /\ Left(n) + 1 = 1 /\ Left(n + 1) + 1 = 1
      BY <3>1, DocsSeq
    <3>3. Append(Docs(1, n), n + 1) = Docs(1, n + 1)
      <4>1. 1 \in Nat \ {0} /\ 1 <= n + 1
        OBVIOUS
      <4> QED  BY <4>1, DocsAppend
    <3> QED  BY <2>1, <3>2, <3>3 DEF Buffered
  <2>2. CASE n >= MaxLen
    <3>1. /\ Left(n) + 1 \in Nat \ {0} /\ Left(n) + 1 <= n
          /\ Left(n) + 2 \in Nat \ {0} /\ Left(n) + 2 <= n + 1
          /\ Left(n + 1) + 1 = Left(n) + 2 /\ Left(n) + 1 + 1 = Left(n) + 2
      BY <2>2 DEF Left
    <3>2. ~(Len(Docs(Left(n) + 1, n)) < MaxLen)
      BY <1>2, <2>2 DEF Left
    <3>3. Tail(Docs(Left(n) + 1, n)) = Docs(Left(n) + 2, n)
      BY <1>1, <3>1, DocsTail
    <3>4. Append(Docs(Left(n) + 2, n), n + 1) = Docs(Left(n) + 2, n + 1)
      BY <1>1, <3>1, DocsAppend
    <3> QED  BY <3>1, <3>2, <3>3, <3>4, <1>1 DEF Buffered
  <2> QED  BY <2>1, <2>2
<1>4. Docs(Left(n + 1) + 1, n + 1) \in Seq(Nat) /\ Len(Docs(Left(n + 1) + 1, n + 1)) <= MaxLen
  <2>1. Len(Docs(Left(n + 1) + 1, n + 1)) = n + 1 - Left(n + 1)
        /\ Docs(Left(n + 1) + 1, n + 1) \in Seq(Nat)
    <3>1. /\ Left(n + 1) + 1 \in Nat \ {0} /\ n + 1 \in Nat
          /\ Left(n + 1) + 1 <= (n + 1) + 1
          /\ (n + 1) - (Left(n + 1) + 1) + 1 = n + 1 - Left(n + 1)
      BY <1>1
    <3>2. /\ Docs(Left(n + 1) + 1, n + 1) \in Seq(Nat)
          /\ Len(Docs(Left(n + 1) + 1, n + 1)) = (n + 1) - (Left(n + 1) + 1) + 1
      BY <3>1, DocsSeq
    <3> QED  BY <3>1, <3>2
  <2> QED  BY <2>1 DEF Left
<1> QED  BY <1>3, <1>4

\* Concatenating onto an empty sequence, and of one more document.
LEMMA ConcatFacts ==
  ASSUME NEW s \in Seq(Nat), NEW e \in Nat
  PROVE  <<>> \o s = s /\ s \o <<e>> = Append(s, e)
BY ConcatEmptySeq, AppendIsConcat

-----------------------------------------------------------------------------
(***************************************************************************)
(* The three kinds of call                                                 *)
(***************************************************************************)

LEMMA CallPrimaryInvariant ==
  ASSUME IInv, CallPrimary PROVE IInv'
<1>1. received \in Nat /\ received' = received + 1 /\ received' \in 1..NumDocs
  BY NumDocsAssumption DEF IInv, TypeOK, CallPrimary
<1>2. /\ buffer' = Docs(Left(received') + 1, received')
      /\ buffer' \in Seq(Nat) /\ Len(buffer') <= MaxLen
  BY <1>1, BufferedTail DEF IInv, BufferIsTail, CallPrimary
<1>3. primary' = Docs(1, received')
  <2>1. 1 \in Nat \ {0} /\ 1 <= received + 1
    BY <1>1
  <2>2. primary = Docs(1, received)
    BY DEF IInv, PrimaryHasPrefix, CallPrimary
  <2> QED  BY <1>1, <2>1, <2>2, DocsAppend DEF CallPrimary
<1>4. TypeOK'
  <2>1. primary' \in Seq(Nat)
    BY <1>1, <1>3, AppendProperties DEF IInv, TypeOK, CallPrimary
  <2> QED  BY <1>1, <1>2, <2>1 DEF IInv, TypeOK, CallPrimary
<1>5. BufferIsTail' /\ Failure' /\ PrimaryHasPrefix' /\ RunIsNotSplit'
  BY <1>2, <1>3 DEF IInv, BufferIsTail, Failure, PrimaryHasPrefix, RunIsNotSplit, CallPrimary, Left
<1> QED  BY <1>4, <1>5 DEF IInv

\* A replay adds docs to what every backup has been offered.
LEMMA ReplayTypes ==
  ASSUME TypeOK, NEW docs \in Seq(Nat), Replay(docs)
  PROVE  /\ offered' \in [Backups -> Seq(Nat)]
         /\ \A b \in Backups : offered'[b] = offered[b] \o docs
         /\ refused' \in [Backups -> SUBSET Nat]
         /\ buffer' = <<>> /\ buffer' \in Seq(Nat) /\ Len(buffer') <= MaxLen
<1>1. {docs[i] : i \in 1..Len(docs)} \subseteq Nat
  BY ElementOfSeq
<1>2. refused' \in [Backups -> SUBSET Nat]
  BY <1>1 DEF Replay, TypeOK
<1>3. offered' \in [Backups -> Seq(Nat)] /\ \A b \in Backups : offered'[b] = offered[b] \o docs
  BY ConcatProperties DEF Replay, TypeOK
<1>4. buffer' = <<>> /\ buffer' \in Seq(Nat) /\ Len(buffer') <= MaxLen
  BY EmptySeq, MaxLenAssumption DEF Replay
<1> QED  BY <1>2, <1>3, <1>4

LEMMA CallPrimaryFailsInvariant ==
  ASSUME IInv, CallPrimaryFails PROVE IInv'
<1>1. received \in Nat /\ received' = received + 1 /\ received' \in 1..NumDocs
  BY NumDocsAssumption DEF IInv, TypeOK, CallPrimaryFails
<1> DEFINE docs == Buffered(buffer, received')
<1>2. docs = Docs(Left(received') + 1, received') /\ docs \in Seq(Nat)
  BY <1>1, BufferedTail DEF IInv, BufferIsTail, CallPrimaryFails
<1>3. /\ offered' \in [Backups -> Seq(Nat)]
      /\ \A b \in Backups : offered'[b] = offered[b] \o docs
      /\ refused' \in [Backups -> SUBSET Nat]
      /\ buffer' = <<>> /\ buffer' \in Seq(Nat) /\ Len(buffer') <= MaxLen
  BY <1>2, ReplayTypes DEF IInv, CallPrimaryFails
<1> HIDE DEF docs
<1>4. TypeOK'
  BY <1>1, <1>3 DEF IInv, TypeOK, CallPrimaryFails
<1>5. BufferIsTail' /\ Failure'
  BY <1>1, <1>3 DEF IInv, BufferIsTail, Failure, CallPrimaryFails
<1>6. PrimaryHasPrefix'
  BY <1>1 DEF IInv, PrimaryHasPrefix, CallPrimaryFails
<1>7. RunIsNotSplit'
  <2>1. ASSUME NEW b \in Backups PROVE offered'[b] = docs
    <3>1. offered[b] = <<>>
      BY DEF IInv, RunIsNotSplit, CallPrimaryFails
    <3> QED  BY <1>1, <1>2, <1>3, <3>1, ConcatFacts
  <2>2. Dropped' = Left(received') /\ primaryFailed'
    BY DEF Dropped, Left, CallPrimaryFails
  <2> QED  BY <1>2, <2>1, <2>2 DEF RunIsNotSplit
<1> QED  BY <1>4, <1>5, <1>6, <1>7 DEF IInv

LEMMA CallBackupsInvariant ==
  ASSUME IInv, CallBackups PROVE IInv'
<1>1. received \in Nat /\ received' = received + 1 /\ received' \in 1..NumDocs
  BY NumDocsAssumption DEF IInv, TypeOK, CallBackups
<1>2. Buffered(buffer, received') = <<received'>> /\ <<received'>> \in Seq(Nat)
  <2>1. buffer = <<>> /\ Len(buffer) < MaxLen
    BY MaxLenAssumption, EmptySeq DEF IInv, BufferIsTail, CallBackups
  <2> QED  BY <1>1, <2>1 DEF Buffered
<1>3. /\ offered' \in [Backups -> Seq(Nat)]
      /\ \A b \in Backups : offered'[b] = offered[b] \o <<received'>>
      /\ refused' \in [Backups -> SUBSET Nat]
      /\ buffer' = <<>> /\ buffer' \in Seq(Nat) /\ Len(buffer') <= MaxLen
  BY <1>2, ReplayTypes DEF IInv, CallBackups
<1>4. TypeOK'
  BY <1>1, <1>3 DEF IInv, TypeOK, CallBackups
<1>5. BufferIsTail' /\ Failure' /\ PrimaryHasPrefix'
  BY <1>3 DEF IInv, BufferIsTail, Failure, PrimaryHasPrefix, CallBackups
<1>6. RunIsNotSplit'
  <2>1. Dropped \in Nat /\ Dropped + 1 \in Nat \ {0} /\ Dropped + 1 <= received + 1
        /\ Dropped' = Dropped /\ primaryFailed /\ primaryFailed'
    BY <1>1, MaxLenAssumption DEF Dropped, IInv, TypeOK, CallBackups
  <2>2. ASSUME NEW b \in Backups PROVE offered'[b] = Docs(Dropped + 1, received')
    <3>1. offered[b] = Docs(Dropped + 1, received) /\ offered[b] \in Seq(Nat)
      BY <2>1 DEF IInv, RunIsNotSplit, TypeOK
    <3>2. offered'[b] = Append(offered[b], received')
      BY <1>1, <1>3, <3>1, ConcatFacts
    <3> QED  BY <1>1, <2>1, <3>1, <3>2, DocsAppend
  <2> QED  BY <2>1, <2>2 DEF RunIsNotSplit
<1> QED  BY <1>4, <1>5, <1>6 DEF IInv

-----------------------------------------------------------------------------
(***************************************************************************)
(* The theorems                                                            *)
(***************************************************************************)

\* Before the first document.
LEMMA InitIInv == Init => IInv
<1> SUFFICES ASSUME Init PROVE IInv
  OBVIOUS
<1>1. Docs(1, 0) = <<>>
  <2>1. Docs(1, 0) \in Seq(Nat) /\ Len(Docs(1, 0)) = 0
    BY DocsSeq
  <2> QED  BY <2>1, EmptySeq
<1>2. Left(0) = 0
  BY MaxLenAssumption DEF Left
<1>3. TypeOK
  <2>1. <<>> \in Seq(Nat) /\ Len(<<>>) <= MaxLen
    BY EmptySeq, MaxLenAssumption
  <2>2. offered \in [Backups -> Seq(Nat)] /\ refused \in [Backups -> SUBSET Nat]
    BY <2>1 DEF Init
  <2>3. received \in 0..NumDocs /\ failedAt \in 0..received /\ primaryFailed \in BOOLEAN
    <3>1. received = 0 /\ failedAt = 0
      BY DEF Init
    <3>2. primaryFailed \in BOOLEAN
      BY DEF Init
    <3> QED  BY <3>1, <3>2, NumDocsAssumption
  <2>4. buffer = <<>> /\ primary = <<>>
    BY DEF Init
  <2> QED  BY <2>1, <2>2, <2>3, <2>4 DEF TypeOK
<1>4. BufferIsTail /\ Failure /\ PrimaryHasPrefix /\ RunIsNotSplit
  BY <1>1, <1>2 DEF Init, BufferIsTail, Failure, PrimaryHasPrefix, RunIsNotSplit
<1> QED  BY <1>3, <1>4 DEF IInv

\* The invariant holds in every reachable state.
THEOREM Invariance == Spec => []IInv
<1>1. Init => IInv
  BY InitIInv
<1>2. IInv /\ [Next]_vars => IInv'
  <2> SUFFICES ASSUME IInv, [Next]_vars PROVE IInv'
    OBVIOUS
  <2>1. CASE UNCHANGED vars
    BY <2>1 DEF IInv, TypeOK, BufferIsTail, Failure, PrimaryHasPrefix, RunIsNotSplit, Dropped, vars
  <2> QED
    BY <2>1, CallPrimaryInvariant, CallPrimaryFailsInvariant, CallBackupsInvariant DEF Next
<1> QED  BY <1>1, <1>2, PTL DEF Spec

\* The types, and the bound on the buffer.
THEOREM TypeCorrect == Spec => []TypeOK
<1>1. IInv => TypeOK
  BY DEF IInv
<1> QED  BY <1>1, Invariance, PTL

\* The primary never gets a document after its first failure: a failed run
\* can not look complete.
THEOREM PrimaryIsPrefix == Spec => []PrimaryHasPrefix
<1>1. IInv => PrimaryHasPrefix
  BY DEF IInv
<1> QED  BY <1>1, Invariance, PTL

\* Every backup is offered the failed run, once and in order, up to what the
\* buffer had dropped.
THEOREM RunStaysWhole == Spec => []RunIsNotSplit
<1>1. IInv => RunIsNotSplit
  BY DEF IInv
<1> QED  BY <1>1, Invariance, PTL

\* The promise of the docstring holds for runs that fit into the buffer.
THEOREM PromiseForShortRuns == Spec => []ShortRunsPreserved
<1>1. IInv => ShortRunsPreserved
  <2> SUFFICES ASSUME IInv, received <= MaxLen, primaryFailed, NEW b \in Backups
               PROVE  offered[b] = Docs(1, received)
    BY DEF ShortRunsPreserved
  <2>1. Dropped + 1 = 1
    BY MaxLenAssumption, NumDocsAssumption DEF IInv, TypeOK, Dropped
  <2> QED  BY <2>1 DEF IInv, RunIsNotSplit
<1> QED  BY <1>1, Invariance, PTL

-----------------------------------------------------------------------------
(***************************************************************************)
(* What the writers append, by induction over the documents                *)
(***************************************************************************)
\* Every set of naturals has a least element: what follows by induction is
\* proved by looking at the first index at which it would fail.
LEMMA LeastIndex ==
  ASSUME NEW S \in SUBSET Nat, S # {}
  PROVE  \E x \in S : \A y \in S : x <= y
<1> DEFINE Less == {ss \in Nat \X Nat : ss[1] < ss[2]}
<1>1. Less = OpToRel(<, Nat)
  BY Zenon DEF OpToRel
<1>2. IsWellFoundedOn(OpToRel(<, Nat), Nat)
  BY NatLessThanWellFounded
<1>3. IsWellFoundedOn(Less, Nat)
  BY ONLY <1>1, <1>2, Zenon
<1>4. \A x, y \in Nat : <<y, x>> \notin Less => x <= y
  OBVIOUS
<1> HIDE DEF Less
<1>5. \E x \in S : \A y \in S : <<y, x>> \notin Less
  BY <1>3, WFMin
<1> QED  BY <1>4, <1>5

Texts == [doc : Nat, whole : BOOLEAN]

Step(old, docs, failed, torn, f, i) ==
  IF i = 0 THEN old
  ELSE IF docs[i] \in failed \ torn THEN f[i - 1]
  ELSE Append(f[i - 1], [doc |-> docs[i], whole |-> docs[i] \notin torn])
IsWriting(old, docs, failed, torn, f, n) ==
  f = [i \in 0..n |-> Step(old, docs, failed, torn, f, i)]

\* The recursion of Written defines a function.
LEMMA WritingExists ==
  ASSUME NEW old, NEW docs, NEW failed, NEW torn, NEW n \in Nat
  PROVE  \E f : IsWriting(old, docs, failed, torn, f, n)
<1> DEFINE Next1(f, i) == Step(old, docs, failed, torn, f, i)
           Is(f, m) == IsWriting(old, docs, failed, torn, f, m)
           Bad == {m \in Nat : ~\E f : Is(f, m)}
<1>1. ASSUME NEW m \in Bad, \A k \in Bad : m <= k
      PROVE  FALSE
  <2>1. CASE m = 0
    <3> DEFINE g == [i \in 0..0 |-> old]
    <3>1. g = [i \in 0..0 |-> Next1(g, i)]
      BY DEF Step
    <3>2. Is(g, 0)
      BY <3>1 DEF IsWriting
    <3> QED  BY <2>1, <3>2
  <2>2. CASE m # 0
    <3>1. m \in Nat \ {0} /\ m - 1 \in Nat /\ ~(m <= m - 1)
      BY <2>2
    <3>2. \E f : Is(f, m - 1)
      BY <1>1, <3>1
    <3>3. PICK f : Is(f, m - 1)
      BY <3>2
    <3> DEFINE g == [k \in 0..m |-> IF k < m THEN f[k] ELSE Next1(f, m)]
    <3>4. f = [k \in 0..(m - 1) |-> Next1(f, k)]
      BY <3>3 DEF IsWriting
    <3>5. ASSUME NEW k \in 0..m
          PROVE  g[k] = Next1(g, k)
      <4>1. CASE k = 0
        <5>1. 0 \in 0..m /\ 0 < m /\ 0 \in 0..(m - 1)
          BY <3>1
        <5>2. g[0] = f[0]
          BY <5>1
        <5>3. f[0] = Next1(f, 0)
          BY <3>4, <5>1
        <5> QED  BY <4>1, <5>2, <5>3 DEF Step
      <4>2. CASE k # 0
        <5>1. k - 1 \in 0..m /\ k - 1 < m
          BY <3>1, <4>2
        <5>2. g[k - 1] = f[k - 1]
          BY <5>1
        <5>3. Next1(g, k) = Next1(f, k)
          BY <5>2, <4>2 DEF Step
        <5>4. k < m => k \in 0..(m - 1)
          BY <3>1
        <5>5. k < m => f[k] = Next1(f, k)
          BY <3>4, <5>4
        <5>6. ~(k < m) => k = m
          BY <3>1
        <5> QED  BY <5>3, <5>5, <5>6
      <4> QED  BY <4>1, <4>2
    <3>6. g = [k \in 0..m |-> g[k]]
      OBVIOUS
    <3> HIDE DEF g
    <3>7. g = [k \in 0..m |-> Next1(g, k)]
      BY <3>5, <3>6
    <3>8. Is(g, m)
      BY <3>7 DEF IsWriting
    <3> QED  BY <3>8
  <2> QED  BY <2>1, <2>2
<1>2. Bad = {}
  <2>1. Bad \in SUBSET Nat
    OBVIOUS
  <2> HIDE DEF Bad
  <2> QED  BY <2>1, <1>1, LeastIndex
<1> QED  BY <1>2

\* The text t is the old one with the first k of docs appended, but those a
\* writer raised on before it wrote anything.
Adds(old, docs, k, torn, failed, t) ==
  /\ t \in Seq(Texts) /\ Len(t) >= Len(old)
  /\ \A i \in 1..Len(old) : t[i] = old[i]
  /\ \A i \in (Len(old) + 1)..Len(t) :
       \E j \in 1..k : t[i] = [doc |-> docs[j], whole |-> docs[j] \notin torn]
  /\ \A i, j \in (Len(old) + 1)..Len(t) : i < j => t[i].doc < t[j].doc
  /\ \A j \in 1..k : docs[j] \in failed \/ \E i \in 1..Len(t) : t[i] = [doc |-> docs[j], whole |-> TRUE]

\* One document more.
LEMMA AddsOne ==
  ASSUME NEW old \in Seq(Texts), NEW docs \in Seq(Nat), NEW failed, NEW torn \in SUBSET failed,
         \A i, j \in 1..Len(docs) : i < j => docs[i] < docs[j],
         NEW k \in 1..Len(docs), NEW t, Adds(old, docs, k - 1, torn, failed, t)
  PROVE  Adds(old, docs, k, torn, failed,
              IF docs[k] \in failed \ torn THEN t
              ELSE Append(t, [doc |-> docs[k], whole |-> docs[k] \notin torn]))
<1> DEFINE p == [doc |-> docs[k], whole |-> docs[k] \notin torn]
<1>1. /\ t \in Seq(Texts) /\ Len(t) >= Len(old) /\ Len(t) \in Nat /\ Len(old) \in Nat
      /\ \A i \in 1..Len(old) : t[i] = old[i]
  BY DEF Adds
<1>2. \A i \in (Len(old) + 1)..Len(t) :
        \E j \in 1..(k - 1) : t[i] = [doc |-> docs[j], whole |-> docs[j] \notin torn]
  BY DEF Adds
<1>3. \A i, j \in (Len(old) + 1)..Len(t) : i < j => t[i].doc < t[j].doc
  BY DEF Adds
<1>4. \A j \in 1..(k - 1) : docs[j] \in failed \/ \E i \in 1..Len(t) : t[i] = [doc |-> docs[j], whole |-> TRUE]
  BY DEF Adds
<1>5. /\ k \in Nat /\ docs[k] \in Nat /\ p \in Texts
      /\ \A j \in 1..k : j \in 1..(k - 1) \/ j = k
      /\ 1..(k - 1) \subseteq 1..k
      /\ \A j \in 1..(k - 1) : docs[j] < docs[k]
  <2>1. /\ k \in Nat
        /\ \A j \in 1..k : j \in 1..(k - 1) \/ j = k
        /\ 1..(k - 1) \subseteq 1..k
        /\ \A j \in 1..(k - 1) : j \in 1..Len(docs) /\ j < k
    OBVIOUS
  <2>2. docs[k] \in Nat
    OBVIOUS
  <2>3. (docs[k] \notin torn) \in BOOLEAN
    BY Zenon
  <2>4. p \in Texts
    BY <2>2, <2>3, Zenon DEF Texts
  <2> QED  BY <2>1, <2>2, <2>4
<1>6. CASE docs[k] \in failed \ torn
  BY <1>1, <1>2, <1>3, <1>4, <1>5, <1>6 DEF Adds
<1>7. CASE ~(docs[k] \in failed \ torn)
  <2> DEFINE u == Append(t, p)
  <2>1. /\ u \in Seq(Texts) /\ Len(u) = Len(t) + 1
        /\ \A i \in 1..Len(t) : u[i] = t[i]
        /\ u[Len(t) + 1] = p
    BY <1>1, <1>5, AppendProperties
  <2> HIDE DEF u
  <2>2. Len(u) >= Len(old) /\ \A i \in 1..Len(old) : u[i] = old[i]
    BY <1>1, <2>1
  <2>3. \A i \in (Len(old) + 1)..Len(u) : i \in (Len(old) + 1)..Len(t) \/ i = Len(t) + 1
    BY <1>1, <2>1
  <2>4. \A i \in (Len(old) + 1)..Len(t) : i \in 1..Len(t) /\ u[i] = t[i]
    BY <1>1, <2>1
  <2>5. ASSUME NEW i \in (Len(old) + 1)..Len(u)
        PROVE  \E j \in 1..k : u[i] = [doc |-> docs[j], whole |-> docs[j] \notin torn]
    <3>1. CASE i = Len(t) + 1
      BY <3>1, <2>1
    <3>2. CASE i \in (Len(old) + 1)..Len(t)
      BY <3>2, <1>2, <1>5, <2>4
    <3> QED  BY <2>3, <3>1, <3>2
  <2>6. ASSUME NEW i \in (Len(old) + 1)..Len(u), NEW j \in (Len(old) + 1)..Len(u), i < j
        PROVE  u[i].doc < u[j].doc
    <3>1. i \in (Len(old) + 1)..Len(t)
      BY <2>6, <2>1, <1>1
    <3>2. CASE j = Len(t) + 1
      <4>1. PICK l \in 1..(k - 1) : t[i] = [doc |-> docs[l], whole |-> docs[l] \notin torn]
        BY <3>1, <1>2
      <4>2. u[i].doc = docs[l] /\ u[j].doc = docs[k]
        BY <4>1, <3>1, <3>2, <2>1, <2>4
      <4> QED  BY <4>2, <1>5
    <3>3. CASE j \in (Len(old) + 1)..Len(t)
      BY <2>6, <3>1, <3>3, <1>3, <2>4
    <3> QED  BY <2>3, <3>2, <3>3
  <2>7. ASSUME NEW j \in 1..k, docs[j] \notin failed
        PROVE  \E i \in 1..Len(u) : u[i] = [doc |-> docs[j], whole |-> TRUE]
    <3>1. CASE j = k
      <4>1. docs[k] \notin torn
        BY <3>1, <2>7
      <4>2. (docs[k] \notin torn) = TRUE
        BY <4>1, Zenon
      <4>3. p = [doc |-> docs[j], whole |-> TRUE]
        BY <4>2, <3>1, Zenon
      <4>4. Len(t) + 1 \in 1..Len(u)
        BY <2>1, <1>1
      <4> QED  BY <4>3, <4>4, <2>1, Zenon
    <3>2. CASE j \in 1..(k - 1)
      <4>1. PICK i \in 1..Len(t) : t[i] = [doc |-> docs[j], whole |-> TRUE]
        BY <3>2, <2>7, <1>4
      <4>2. i \in 1..Len(u) /\ u[i] = t[i]
        BY <2>1, <1>1
      <4> QED  BY <4>1, <4>2
    <3> QED  BY <1>5, <3>1, <3>2
  <2>8. Adds(old, docs, k, torn, failed, u)
    BY <2>1, <2>2, <2>5, <2>6, <2>7 DEF Adds
  <2> QED  BY <2>8, <1>7 DEF u
<1> QED  BY <1>6, <1>7

\* What a writer leaves when it was called with docs.
LEMMA WrittenAdds ==
  ASSUME NEW old \in Seq(Texts), NEW docs \in Seq(Nat), NEW failed, NEW torn \in SUBSET failed,
         \A i, j \in 1..Len(docs) : i < j => docs[i] < docs[j]
  PROVE  Adds(old, docs, Len(docs), torn, failed, Written(old, docs, failed, torn))
<1> DEFINE N == Len(docs)
<1>0. N \in Nat
  OBVIOUS
<1>1. Written(old, docs, failed, torn) = (CHOOSE f : IsWriting(old, docs, failed, torn, f, N))[N]
  BY Zenon DEF Written, IsWriting, Step
<1>2. \E f : IsWriting(old, docs, failed, torn, f, N)
  BY <1>0, WritingExists
<1>3. PICK f : IsWriting(old, docs, failed, torn, f, N) /\ Written(old, docs, failed, torn) = f[N]
  BY <1>1, <1>2
<1> HIDE DEF N
<1>4. \A i \in 0..N : f[i] = Step(old, docs, failed, torn, f, i)
  <2>1. f = [i \in 0..N |-> Step(old, docs, failed, torn, f, i)]
    BY <1>3 DEF IsWriting
  <2> DEFINE P(i) == Step(old, docs, failed, torn, f, i)
  <2>2. f = [i \in 0..N |-> P(i)]
    BY <2>1
  <2> HIDE DEF P
  <2>3. \A i \in 0..N : f[i] = P(i)
    BY <2>2
  <2> QED  BY <2>3 DEF P
<1> DEFINE Bad == {k \in 0..N : ~Adds(old, docs, k, torn, failed, f[k])}
<1>5. ASSUME NEW k \in Bad, \A j \in Bad : k <= j
      PROVE  FALSE
  <2>1. CASE k = 0
    <3>1. f[0] = old
      <4>1. 0 \in 0..N
        BY <1>0
      <4>2. f[0] = Step(old, docs, failed, torn, f, 0)
        BY <1>4, <4>1, Zenon
      <4> QED  BY <4>2, Zenon DEF Step
    <3>2. /\ 1..0 = {} /\ Len(old) \in Nat /\ (Len(old) + 1)..Len(old) = {}
      OBVIOUS
    <3>3. Adds(old, docs, 0, torn, failed, old)
      BY <3>2 DEF Adds
    <3> QED  BY <2>1, <3>1, <3>3
  <2>2. CASE k # 0
    <3>1. k \in 1..N /\ k - 1 \in 0..N /\ ~(k <= k - 1) /\ k \in 0..N
      BY <1>0, <2>2
    <3>2. Adds(old, docs, k - 1, torn, failed, f[k - 1])
      BY <1>5, <3>1
    <3>3. f[k] = IF docs[k] \in failed \ torn THEN f[k - 1]
                 ELSE Append(f[k - 1], [doc |-> docs[k], whole |-> docs[k] \notin torn])
      BY <1>4, <2>2, <3>1 DEF Step
    <3>4. Adds(old, docs, k, torn, failed, f[k])
      <4> DEFINE t == f[k - 1]
                 v == IF docs[k] \in failed \ torn THEN t
                      ELSE Append(t, [doc |-> docs[k], whole |-> docs[k] \notin torn])
      <4>1. f[k] = v
        BY <3>3, Zenon
      <4>2. Adds(old, docs, k - 1, torn, failed, t)
        BY <3>2, Zenon
      <4>3. k \in 1..Len(docs)
        BY <3>1 DEF N
      <4> HIDE DEF t
      <4>4. Adds(old, docs, k, torn, failed, v)
        BY <4>2, <4>3, AddsOne, Zenon
      <4> QED  BY <4>1, <4>4, Zenon
    <3> QED  BY <3>4
  <2> QED  BY <2>1, <2>2
<1>6. Bad = {}
  <2>1. Bad \in SUBSET Nat
    BY <1>0
  <2> HIDE DEF Bad
  <2> QED  BY <2>1, <1>5, LeastIndex
<1>7. Adds(old, docs, N, torn, failed, f[N])
  BY <1>0, <1>6
<1> QED  BY <1>3, <1>7 DEF N

\* A reader would find what t has of the documents low to n, in order, except those
\* in R and, in a file, what shares a line with one of them or of another run.
Fits(b, t, low, n, R) ==
  /\ t \in Seq(Texts)
  /\ \A i \in 1..Len(t) :
       t[i].doc <= n /\ (~t[i].whole => b \in Files /\ t[i].doc \in R \cup {Other})
  /\ \A i, j \in 1..Len(t) :
       (i < j /\ t[i].doc # Other /\ t[j].doc # Other) => t[i].doc < t[j].doc
  /\ \A d \in low..n : d \in R \/ \E i \in 1..Len(t) : t[i] = [doc |-> d, whole |-> TRUE]

\* A writer that is called with the documents x to n.
LEMMA FitsWritten ==
  ASSUME NEW b, NEW old, NEW low \in Nat, NEW x \in Nat \ {0}, NEW n \in Nat, x <= n + 1,
         NEW R, NEW torn \in SUBSET R, torn # {} => b \in Files, Fits(b, old, low, x - 1, R)
  PROVE  Fits(b, Written(old, Docs(x, n), R, torn), low, n, R)
<1> DEFINE docs == Docs(x, n)
           t == Written(old, docs, R, torn)
<1>1. docs \in Seq(Nat) /\ Len(docs) = n - x + 1 /\ \A i \in 1..(n - x + 1) : docs[i] = x + i - 1
  BY DocsSeq
<1>2. old \in Seq(Texts) /\ Len(old) \in Nat
  BY DEF Fits
<1> HIDE DEF docs
<1>3. \A i, j \in 1..Len(docs) : i < j => docs[i] < docs[j]
  BY <1>1
<1>4. Adds(old, docs, Len(docs), torn, R, t)
  BY <1>1, <1>2, <1>3, WrittenAdds
<1> HIDE DEF t
<1>5. /\ t \in Seq(Texts) /\ Len(t) >= Len(old) /\ Len(t) \in Nat
      /\ \A i \in 1..Len(old) : t[i] = old[i]
  BY <1>4 DEF Adds
<1>6. \A i \in 1..Len(t) : i \in 1..Len(old) \/ i \in (Len(old) + 1)..Len(t)
  BY <1>2, <1>5
<1>7. ASSUME NEW i \in (Len(old) + 1)..Len(t)
      PROVE  /\ t[i].doc \in x..n /\ t[i].doc # Other
             /\ ~t[i].whole => t[i].doc \in torn
  <2>1. PICK j \in 1..Len(docs) : t[i] = [doc |-> docs[j], whole |-> docs[j] \notin torn]
    BY <1>4 DEF Adds
  <2> DEFINE p == docs[j]
             q == docs[j] \notin torn
             u == t[i]
  <2>2. u = [doc |-> p, whole |-> q]
    BY <2>1
  <2> HIDE DEF p, q, u
  <2>3. u.doc = p /\ u.whole = q
    BY <2>2
  <2>4. p \in x..n
    BY <1>1 DEF p
  <2>5. t[i].doc = p
    BY <2>3 DEF u
  <2>6. ~t[i].whole => t[i].doc \in torn
    BY <2>3, Zenon DEF u, p, q
  <2> QED  BY <2>4, <2>5, <2>6 DEF Other
<1>8. ASSUME NEW i \in 1..Len(old)
      PROVE  /\ t[i].doc \in Nat /\ t[i].doc <= x - 1
             /\ ~t[i].whole => b \in Files /\ t[i].doc \in R \cup {Other}
  <2>1. old[i] \in Texts
    BY <1>2
  <2>2. old[i].doc \in Nat
    BY <2>1 DEF Texts
  <2> QED  BY <2>2, <1>5 DEF Fits
<1>9. ASSUME NEW i \in 1..Len(t)
      PROVE  t[i].doc <= n /\ (~t[i].whole => b \in Files /\ t[i].doc \in R \cup {Other})
  BY <1>6, <1>7, <1>8
<1>10. ASSUME NEW i \in 1..Len(t), NEW j \in 1..Len(t), i < j, t[i].doc # Other, t[j].doc # Other
       PROVE  t[i].doc < t[j].doc
  <2>1. CASE j \in 1..Len(old)
    <3>1. i \in 1..Len(old)
      BY <1>10, <2>1
    <3>2. t[i] = old[i] /\ t[j] = old[j]
      BY <2>1, <3>1, <1>5
    <3> QED  BY <3>1, <3>2, <2>1, <1>10 DEF Fits
  <2>2. CASE i \in 1..Len(old) /\ j \in (Len(old) + 1)..Len(t)
    BY <2>2, <1>7, <1>8
  <2>3. CASE i \in (Len(old) + 1)..Len(t) /\ j \in (Len(old) + 1)..Len(t)
    BY <2>3, <1>4, <1>10 DEF Adds
  <2>4. i \in (Len(old) + 1)..Len(t) => j \notin 1..Len(old)
    BY <1>10, <1>2
  <2> QED  BY <1>6, <2>1, <2>2, <2>3, <2>4
<1>11. ASSUME NEW d \in low..n, d \notin R
       PROVE  \E i \in 1..Len(t) : t[i] = [doc |-> d, whole |-> TRUE]
  <2>1. CASE d < x
    <3>1. d \in low..(x - 1)
      BY <2>1
    <3>2. PICK i \in 1..Len(old) : old[i] = [doc |-> d, whole |-> TRUE]
      BY <3>1, <1>11 DEF Fits
    <3> QED  BY <3>2, <1>5, <1>2
  <2>2. CASE d >= x
    <3>1. d - x + 1 \in 1..Len(docs) /\ docs[d - x + 1] = d
      BY <2>2, <1>1
    <3> QED  BY <3>1, <1>4, <1>11 DEF Adds
  <2>3. d < x \/ d >= x
    OBVIOUS
  <2> QED  BY <2>1, <2>2, <2>3, Zenon
<1>12. Fits(b, t, low, n, R)
  BY <1>5, <1>9, <1>10, <1>11 DEF Fits
<1> QED  BY <1>12 DEF t, docs

\* The documents a backup is offered last.
LEMMA DocsFrom ==
  ASSUME NEW m \in Nat \ {0}, NEW x \in Nat \ {0}, NEW n \in Nat, m <= x, x <= n + 1
  PROVE  SubSeq(Docs(m, n), x - m + 1, Len(Docs(m, n))) = Docs(x, n)
<1> DEFINE d == Docs(m, n)
           k == x - m
           t == SubSeq(d, k + 1, Len(d))
           e == Docs(x, n)
<1>1. d \in Seq(Nat) /\ Len(d) = n - m + 1 /\ \A i \in 1..(n - m + 1) : d[i] = m + i - 1
  BY DocsSeq
<1>2. e \in Seq(Nat) /\ Len(e) = n - x + 1 /\ \A i \in 1..(n - x + 1) : e[i] = x + i - 1
  BY DocsSeq
<1>3. k \in Nat /\ k <= Len(d) /\ Len(d) - k = n - x + 1 /\ Len(d) \in Nat
  BY <1>1
<1> HIDE DEF d, e
<1>4. t \in Seq(Nat) /\ Len(t) = n - x + 1 /\ \A i \in 1..(n - x + 1) : t[i] = d[k + i]
  <2>1. \A i \in (k + 1)..Len(d) : d[i] \in Nat
    BY <1>1, <1>3
  <2>2. /\ t \in Seq(Nat) /\ Len(t) = IF k + 1 <= Len(d) THEN Len(d) - (k + 1) + 1 ELSE 0
        /\ \A i \in 1..(Len(d) - (k + 1) + 1) : t[i] = d[(k + 1) + i - 1]
    <3> DEFINE a == k + 1
               l == Len(d)
    <3>1. a \in 1..(l + 1) /\ l \in a - 1..l
      BY <1>3
    <3> HIDE DEF a, l
    <3>2. /\ SubSeq(d, a, l) \in Seq(Nat)
          /\ Len(SubSeq(d, a, l)) = IF a <= l THEN l - a + 1 ELSE 0
          /\ \A i \in 1..(l - a + 1) : SubSeq(d, a, l)[i] = d[a + i - 1]
      BY <1>1, <3>1, SubSeqProperties DEF l
    <3> QED  BY <3>2 DEF a, l
  <2> HIDE DEF t
  <2> QED  BY <2>2, <1>3
<1>5. \A i \in 1..(n - x + 1) : t[i] = e[i]
  BY <1>1, <1>2, <1>3, <1>4
<1> HIDE DEF t
<1>6. t = e
  BY <1>2, <1>4, <1>5, SeqEqual
<1> QED  BY <1>6 DEF t, d, e

-----------------------------------------------------------------------------
(***************************************************************************)
(* The files and dictionaries of the backups                               *)
(***************************************************************************)
\* A backup has nothing before the primary fails; then it has a name and what Fits.
Filed ==
  \A b \in Backups :
    IF primaryFailed
    THEN /\ named[b] = (IF Dropped = 0 THEN "uid" ELSE "time")
         /\ Fits(b, text[b], Dropped + 1, received, refused[b])
    ELSE named[b] = "not" /\ text[b] = <<>>

FilesIInv ==
  /\ IInv /\ Filed
  /\ DOMAIN named = Backups /\ DOMAIN text = Backups
  /\ text = [b \in Backups |-> text[b]] /\ named = [b \in Backups |-> named[b]]

\* What has been lost from the buffer is known when the primary has failed.
LEMMA DroppedFacts ==
  ASSUME IInv
  PROVE  /\ Dropped \in Nat /\ received \in Nat /\ failedAt \in 0..received /\ Dropped <= received
         /\ primaryFailed => failedAt \in 1..received /\ Dropped < received
         /\ Dropped = 0 <=> failedAt <= MaxLen
<1>1. received \in Nat /\ failedAt \in 0..received /\ (primaryFailed <=> failedAt > 0)
  BY NumDocsAssumption DEF IInv, TypeOK, Failure
<1> QED  BY <1>1, MaxLenAssumption DEF Dropped

\* Where the writers raised on a document that they wrote in part.
Torn(b, torn) ==
  /\ text'[b] = Written(text[b], SubSeq(offered'[b], Len(offered[b]) + 1, Len(offered'[b])), refused'[b], torn)
  /\ torn \subseteq refused'[b] /\ (torn # {} => b \in Files)

LEMMA CallTorn ==
  ASSUME Call, NEW b \in Backups
  PROVE  \E torn : Torn(b, torn)
<1>1. PICK torn \in [Backups -> SUBSET (1..received')] :
        /\ \A c \in Backups : torn[c] \subseteq (IF c \in Files THEN refused'[c] \ refused[c] ELSE {})
        /\ text' = [c \in Backups |->
             Written(text[c], SubSeq(offered'[c], Len(offered[c]) + 1, Len(offered'[c])), refused'[c], torn[c])]
  BY DEF Call
<1>2. torn[b] \subseteq (IF b \in Files THEN refused'[b] \ refused[b] ELSE {})
  BY <1>1
<1>3. text'[b] = Written(text[b], SubSeq(offered'[b], Len(offered[b]) + 1, Len(offered'[b])), refused'[b], torn[b])
  BY <1>1
<1>4. Torn(b, torn[b])
  BY <1>2, <1>3, Zenon DEF Torn
<1> QED  BY <1>4

\* A backup that is not called writes nothing.
LEMMA NothingWritten ==
  ASSUME NEW failed, NEW torn \in SUBSET failed, NEW s \in Seq(Nat)
  PROVE  Written(<<>>, SubSeq(s, Len(s) + 1, Len(s)), failed, torn) = <<>>
<1>1. SubSeq(s, Len(s) + 1, Len(s)) = <<>>
  <2>1. Len(s) \in Int /\ Len(s) + 1 \in Int /\ Len(s) < Len(s) + 1
    OBVIOUS
  <2> QED  BY <2>1, SubSeqEmpty
<1> DEFINE none == <<>>
           t == Written(none, none, failed, torn)
<1>2. none \in Seq(Texts) /\ none \in Seq(Nat) /\ Len(none) = 0
  OBVIOUS
<1> HIDE DEF none
<1>3. \A i, j \in 1..Len(none) : i < j => none[i] < none[j]
  BY <1>2
<1>4. Adds(none, none, Len(none), torn, failed, t)
  BY <1>2, <1>3, WrittenAdds
<1> HIDE DEF t
<1>5. t \in Seq(Texts) /\ \A i \in (0 + 1)..Len(t) : \E j \in 1..0 : TRUE
  BY <1>2, <1>4 DEF Adds
<1>6. Len(t) \in Nat
  BY <1>5
<1>7. Len(t) = 0
  BY <1>5, <1>6
<1>8. t = <<>>
  BY <1>5, <1>7, EmptySeq
<1> QED  BY <1>1, <1>8 DEF t, none

\* __call__ with what the backups write.
LEMMA CallFiled ==
  ASSUME FilesIInv, Call
  PROVE  FilesIInv'
<1>1. IInv' /\ IInv
  <2>1. Next /\ IInv
    BY DEF Call, FilesIInv
  <2> QED  BY <2>1, CallPrimaryInvariant, CallPrimaryFailsInvariant, CallBackupsInvariant DEF Next
<1>2. /\ DOMAIN named' = Backups /\ DOMAIN text' = Backups
      /\ text' = [b \in Backups |-> text'[b]] /\ named' = [b \in Backups |-> named'[b]]
      /\ \A b \in Backups : named'[b] = Named(b, offered'[b])
  <2>1. PICK torn : text' = [c \in Backups |->
             Written(text[c], SubSeq(offered'[c], Len(offered[c]) + 1, Len(offered'[c])), refused'[c], torn[c])]
    BY DEF Call
  <2>2. named' = [c \in Backups |-> Named(c, offered'[c])]
    BY DEF Call
  <2>3. DOMAIN text' = Backups /\ text' = [b \in Backups |-> text'[b]]
    BY <2>1
  <2> QED  BY <2>2, <2>3
<1>3. /\ Dropped \in Nat /\ received \in Nat /\ Dropped <= received
      /\ Dropped' \in Nat /\ received' \in Nat /\ Dropped' <= received'
      /\ primaryFailed' => Dropped' < received'
      /\ primaryFailed \in BOOLEAN /\ primaryFailed' \in BOOLEAN
      /\ refused \in [Backups -> SUBSET Nat] /\ refused' \in [Backups -> SUBSET Nat]
      /\ offered \in [Backups -> Seq(Nat)]
  <2>1. /\ Dropped \in Nat /\ received \in Nat /\ Dropped <= received
    BY <1>1, DroppedFacts
  <2>2. /\ Dropped' \in Nat /\ received' \in Nat /\ Dropped' <= received'
        /\ primaryFailed' => Dropped' < received'
    <3>1. /\ Dropped' \in Nat /\ received' \in Nat /\ failedAt' \in 0..received' /\ Dropped' <= received'
          /\ primaryFailed' => failedAt' \in 1..received' /\ Dropped' < received'
      <4>1. received' \in Nat /\ failedAt' \in 0..received' /\ (primaryFailed' <=> failedAt' > 0)
        BY <1>1, NumDocsAssumption DEF IInv, TypeOK, Failure
      <4>2. PICK r, f, d : r = received' /\ f = failedAt' /\ d = Dropped'
        OBVIOUS
      <4>3. d = IF f > MaxLen THEN f - MaxLen ELSE 0
        BY <4>2 DEF Dropped
      <4>4. r \in Nat /\ f \in 0..r
        BY <4>1, <4>2
      <4>5. d \in Nat /\ d <= r /\ (f > 0 => f \in 1..r /\ d < r)
        BY <4>3, <4>4, MaxLenAssumption
      <4> QED  BY <4>1, <4>2, <4>5, Zenon
    <3> QED  BY <3>1
  <2>3. TypeOK /\ TypeOK'
    BY <1>1 DEF IInv
  <2> QED  BY <2>1, <2>2, <2>3 DEF TypeOK
<1>4. ASSUME NEW b \in Backups
      PROVE  IF primaryFailed'
             THEN /\ named'[b] = (IF Dropped' = 0 THEN "uid" ELSE "time")
                  /\ Fits(b, text'[b], Dropped' + 1, received', refused'[b])
             ELSE named'[b] = "not" /\ text'[b] = <<>>
  <2>1. PICK torn : Torn(b, torn)
    BY CallTorn
  <2>0. PICK n \in Nat, low \in Nat, R \in SUBSET Nat : n = received' /\ low = Dropped' /\ R = refused'[b]
    BY <1>3
  <2>2. refused[b] \in SUBSET Nat /\ refused'[b] \in SUBSET Nat /\ refused[b] \subseteq refused'[b]
    <3>1. refused[b] \subseteq refused'[b]
      <4>1. CASE CallPrimary
        BY <4>1 DEF CallPrimary
      <4>2. ASSUME NEW docs, Replay(docs)  PROVE refused[b] \subseteq refused'[b]
        BY <4>2 DEF Replay
      <4>3. CASE CallPrimaryFails
        BY <4>2, <4>3 DEF CallPrimaryFails
      <4>4. CASE CallBackups
        BY <4>2, <4>4 DEF CallBackups
      <4> QED  BY <4>1, <4>3, <4>4 DEF Call, Next
    <3> QED  BY <3>1, <1>3
  <2>3. CASE CallPrimary
    <3>1. ~primaryFailed /\ ~primaryFailed' /\ offered' = offered
      BY <2>3 DEF CallPrimary
    <3>2. text[b] = <<>> /\ named[b] = "not"
      BY <3>1 DEF FilesIInv, Filed
    <3>3. offered[b] = <<>> /\ offered[b] \in Seq(Nat)
      BY <3>1, <1>1, <1>3 DEF IInv, RunIsNotSplit
    <3>4. named'[b] = "not"
      BY <1>2, <3>1, <3>2, <3>3 DEF Named
    <3>5. text'[b] = <<>>
      <4>1. text'[b] = Written(<<>>, SubSeq(offered[b], Len(offered[b]) + 1, Len(offered[b])), refused'[b], torn)
            /\ torn \in SUBSET refused'[b]
        BY <2>1, <3>1, <3>2 DEF Torn
      <4> QED  BY <4>1, <3>3, NothingWritten
    <3> QED  BY <3>1, <3>4, <3>5
  <2>4. CASE CallPrimaryFails
    <3>1. ~primaryFailed /\ primaryFailed' /\ received' = received + 1
      BY <2>4 DEF CallPrimaryFails
    <3> DEFINE x == low + 1
               docs == Docs(x, n)
    <3>2. text[b] = <<>> /\ named[b] = "not" /\ offered[b] = <<>> /\ Len(offered[b]) = 0
      BY <3>1, <1>1 DEF FilesIInv, Filed, IInv, RunIsNotSplit
    <3>3. offered'[b] = docs
      BY <3>1, <1>1, <2>0 DEF IInv, RunIsNotSplit
    <3>4. x \in Nat \ {0} /\ x <= n + 1 /\ x - x + 1 = 1 /\ x <= x /\ x <= n
      <4>1. low < n
        BY <1>3, <3>1, <2>0
      <4> QED  BY <4>1
    <3>5. SubSeq(docs, 1, Len(docs)) = docs
      BY <3>4, DocsFrom
    <3>6. /\ text'[b] = Written(<<>>, docs, R, torn)
          /\ torn \in SUBSET R /\ (torn # {} => b \in Files)
      <4>1. Len(offered[b]) + 1 = 1
        BY <3>2
      <4> HIDE DEF docs
      <4> QED  BY <2>1, <2>0, <3>2, <3>3, <3>5, <4>1 DEF Torn
    <3>7. Fits(b, <<>>, x, x - 1, R)
      <4>1. <<>> \in Seq(Texts) /\ 1..Len(<<>>) = {} /\ x..(x - 1) = {}
        BY <3>4
      <4> QED  BY <4>1 DEF Fits
    <3>8. Fits(b, text'[b], x, n, R)
      <4> HIDE DEF x
      <4>1. Fits(b, Written(<<>>, docs, R, torn), x, n, R)
        BY <3>4, <3>6, <3>7, FitsWritten
      <4> QED  BY <4>1, <3>6
    <3>9. named'[b] = IF Dropped' = 0 THEN "uid" ELSE "time"
      <4>1. docs \in Seq(Nat) /\ Len(docs) # 0 /\ docs[1] = x
        <5>1. /\ docs \in Seq(Nat) /\ Len(docs) = n - x + 1
              /\ \A i \in 1..(n - x + 1) : docs[i] = x + i - 1
          BY <3>4, DocsSeq
        <5>2. 1 \in 1..(n - x + 1) /\ x + 1 - 1 = x /\ n - x + 1 # 0
          BY <3>4
        <5> HIDE DEF docs, x
        <5> QED  BY <5>1, <5>2
      <4>2. docs # <<>>
        <5> HIDE DEF docs
        <5> QED  BY <4>1
      <4>3. named'[b] = IF docs[1] = 1 THEN "uid" ELSE "time"
        BY <1>2, <3>2, <3>3, <4>2 DEF Named
      <4>4. docs[1] = 1 <=> low = 0
        <5> HIDE DEF docs
        <5> QED  BY <4>1
      <4> QED  BY <4>3, <4>4, <2>0
    <3> QED  BY <3>1, <3>8, <3>9, <2>0
  <2>5. CASE CallBackups
    <3>1. primaryFailed /\ primaryFailed' /\ received' = received + 1 /\ Dropped' = Dropped
      BY <2>5 DEF CallBackups, Dropped
    <3> DEFINE m == Dropped + 1
               x == n
    <3>2. Fits(b, text[b], m, received, refused[b]) /\ named[b] = IF Dropped = 0 THEN "uid" ELSE "time"
      BY <3>1 DEF FilesIInv, Filed
    <3>3. offered[b] = Docs(m, received) /\ offered'[b] = Docs(m, x)
      BY <3>1, <1>1, <2>0 DEF IInv, RunIsNotSplit
    <3>4. /\ m \in Nat \ {0} /\ x \in Nat \ {0} /\ m <= x /\ x <= x + 1 /\ x - 1 = received
          /\ m <= received + 1 /\ x - m + 1 = received - m + 1 + 1
      BY <1>3, <3>1, <2>0
    <3>5. Len(offered[b]) + 1 = x - m + 1
      <4>1. Len(Docs(m, received)) = received - m + 1
        BY <1>3, <3>4, DocsSeq
      <4> QED  BY <4>1, <3>3, <3>4
    <3>6. SubSeq(Docs(m, x), x - m + 1, Len(Docs(m, x))) = Docs(x, x)
      BY <3>4, DocsFrom
    <3>7. /\ text'[b] = Written(text[b], Docs(x, x), R, torn)
          /\ torn \in SUBSET R /\ (torn # {} => b \in Files)
      BY <2>1, <2>0, <3>3, <3>5, <3>6 DEF Torn
    <3>8. Fits(b, text[b], m, x - 1, R)
      BY <3>2, <3>4, <2>2, <2>0 DEF Fits
    <3>9. Fits(b, text'[b], m, x, R)
      <4>1. Fits(b, Written(text[b], Docs(x, x), R, torn), m, x, R)
        <5> HIDE DEF m
        <5> QED  BY <3>4, <3>7, <3>8, FitsWritten
      <4> QED  BY <4>1, <3>7
    <3>10. named'[b] = named[b]
      BY <1>2, <3>2 DEF Named
    <3> QED  BY <3>1, <3>2, <3>9, <3>10, <2>0
  <2> QED  BY <2>3, <2>4, <2>5 DEF Call, Next
<1>5. Filed'
  BY <1>4 DEF Filed
<1> QED  BY <1>1, <1>2, <1>5 DEF FilesIInv

\* Another run writes to the same file or key.
LEMMA OtherRunFiled ==
  ASSUME FilesIInv, NEW b \in Backups, OtherRun(b)
  PROVE  FilesIInv'
<1>1. IInv' /\ Dropped' = Dropped /\ UNCHANGED <<vars, named>>
  BY DEF OtherRun, vars, FilesIInv, IInv, TypeOK, BufferIsTail, Failure, PrimaryHasPrefix, RunIsNotSplit, Dropped
<1>2. primaryFailed
  BY DEF OtherRun, FilesIInv, Filed
<1>3. PICK whole \in {TRUE, b \notin Files} : text' = [text EXCEPT ![b] = Append(@, [doc |-> Other, whole |-> whole])]
  BY DEF OtherRun
<1>4. /\ text' = [c \in Backups |-> IF c = b THEN Append(text[b], [doc |-> Other, whole |-> whole]) ELSE text[c]]
  BY <1>3 DEF FilesIInv
<1> DEFINE p == [doc |-> Other, whole |-> whole]
           t == text[b]
           u == text'[b]
<1>5. p \in Texts /\ p.doc = Other /\ (~p.whole => b \in Files)
  <2>1. whole \in BOOLEAN /\ (~whole => b \in Files)
    OBVIOUS
  <2> QED  BY <2>1 DEF Texts, Other
<1>6. Fits(b, t, Dropped + 1, received, refused[b])
  BY <1>2 DEF FilesIInv, Filed
<1>7. u = Append(t, p)
  BY <1>4
<1>8. t \in Seq(Texts) /\ Len(t) \in Nat
  BY <1>6 DEF Fits
<1> HIDE DEF p, t, u
<1>9. /\ u \in Seq(Texts) /\ Len(u) = Len(t) + 1
      /\ \A i \in 1..Len(t) : u[i] = t[i]
      /\ u[Len(t) + 1] = p
  BY <1>5, <1>7, <1>8, AppendProperties
<1>10. received \in Nat
  BY DroppedFacts DEF FilesIInv
<1>11. \A i \in 1..Len(u) : i \in 1..Len(t) \/ i = Len(t) + 1
  BY <1>8, <1>9
<1>12. Fits(b, u, Dropped + 1, received, refused[b])
  <2>1. ASSUME NEW i \in 1..Len(u)
        PROVE  u[i].doc <= received /\ (~u[i].whole => b \in Files /\ u[i].doc \in refused[b] \cup {Other})
    <3>1. CASE i = Len(t) + 1
      BY <3>1, <1>5, <1>9, <1>10 DEF Other
    <3>2. CASE i \in 1..Len(t)
      BY <3>2, <1>6, <1>9 DEF Fits
    <3> QED  BY <3>1, <3>2, <1>11
  <2>2. ASSUME NEW i \in 1..Len(u), NEW j \in 1..Len(u), i < j, u[i].doc # Other, u[j].doc # Other
        PROVE  u[i].doc < u[j].doc
    <3>1. j \in 1..Len(t)
      BY <2>2, <1>5, <1>9, <1>11
    <3>2. i \in 1..Len(t) /\ u[i] = t[i] /\ u[j] = t[j]
      BY <3>1, <2>2, <1>8, <1>9
    <3> QED  BY <3>1, <3>2, <2>2, <1>6 DEF Fits
  <2>3. ASSUME NEW d \in (Dropped + 1)..received, d \notin refused[b]
        PROVE  \E i \in 1..Len(u) : u[i] = [doc |-> d, whole |-> TRUE]
    <3>1. PICK i \in 1..Len(t) : t[i] = [doc |-> d, whole |-> TRUE]
      BY <2>3, <1>6 DEF Fits
    <3>2. i \in 1..Len(u) /\ u[i] = t[i]
      BY <1>8, <1>9
    <3> QED  BY <3>1, <3>2
  <2> QED  BY <1>9, <2>1, <2>2, <2>3 DEF Fits
<1>13. \A c \in Backups : Fits(c, text'[c], Dropped + 1, received, refused[c])
  <2>1. \A c \in Backups : c # b => text'[c] = text[c]
    BY <1>4
  <2>2. \A c \in Backups : Fits(c, text[c], Dropped + 1, received, refused[c])
    BY <1>2 DEF FilesIInv, Filed
  <2> QED  BY <2>1, <2>2, <1>12 DEF u
<1>14. Filed'
  BY <1>1, <1>2, <1>13 DEF Filed, FilesIInv, vars
<1>15. DOMAIN text' = Backups /\ text' = [c \in Backups |-> text'[c]]
  BY <1>4
<1> QED  BY <1>1, <1>14, <1>15 DEF FilesIInv

\* What a reader finds of a run that fits into the buffer.
LEMMA FilesReadBack ==
  ASSUME FilesIInv
  PROVE  ReadBack
<1> SUFFICES ASSUME primaryFailed, received <= MaxLen, NEW b \in Backups
             PROVE  /\ named[b] = "uid"
                    /\ \A i, j \in Found(b) : i < j => text[b][i].doc < text[b][j].doc
                    /\ \A d \in 1..received :
                         \/ \E i \in Found(b) : text[b][i].doc = d
                         \/ d \in refused[b]
                         \/ \E i \in DOMAIN text[b] \ {1} :
                              /\ b \in Files /\ text[b][i] = [doc |-> d, whole |-> TRUE]
                              /\ text[b][i - 1].doc \in refused[b] \cup {Other} /\ ~text[b][i - 1].whole
  BY Zenon DEF ReadBack
<1> DEFINE t == text[b]
<1>1. Dropped = 0 /\ received \in Nat
  <2>1. failedAt \in 0..received /\ received \in Nat /\ MaxLen \in Nat
    BY DroppedFacts, MaxLenAssumption DEF FilesIInv
  <2>2. failedAt <= MaxLen
    BY <2>1
  <2> QED  BY <2>1, <2>2, DroppedFacts DEF FilesIInv
<1>2. named[b] = "uid" /\ Fits(b, t, 1, received, refused[b])
  <2>1. Dropped + 1 = 1
    BY <1>1
  <2> QED  BY <1>1, <2>1 DEF FilesIInv, Filed
<1>3. t \in Seq(Texts) /\ Len(t) \in Nat /\ DOMAIN t = 1..Len(t)
  BY <1>2 DEF Fits
<1>4. \A i \in Found(b) : i \in 1..Len(t) /\ t[i].doc # Other
  BY <1>3 DEF Found
<1> HIDE DEF t
<1>5. \A i, j \in Found(b) : i < j => t[i].doc < t[j].doc
  BY <1>2, <1>4 DEF Fits
<1>6. ASSUME NEW d \in 1..received, d \notin refused[b], ~\E i \in Found(b) : t[i].doc = d
      PROVE  \E i \in DOMAIN t \ {1} :
               /\ b \in Files /\ t[i] = [doc |-> d, whole |-> TRUE]
               /\ t[i - 1].doc \in refused[b] \cup {Other} /\ ~t[i - 1].whole
  <2>1. PICK i \in 1..Len(t) : t[i] = [doc |-> d, whole |-> TRUE]
    BY <1>2, <1>6 DEF Fits
  <2>2. t[i].doc = d /\ t[i].whole /\ d # Other
    BY <2>1 DEF Other
  <2>3. i \notin Found(b)
    BY <1>6, <2>2
  <2>4. i > 1 /\ ~t[i - 1].whole
    BY <2>2, <2>3, <1>3 DEF Found, Parsable, t
  <2>5. i - 1 \in 1..Len(t)
    BY <2>4, <1>3
  <2>6. b \in Files /\ t[i - 1].doc \in refused[b] \cup {Other}
    BY <2>4, <2>5, <1>2 DEF Fits
  <2>7. i \in DOMAIN t \ {1}
    BY <2>4, <1>3
  <2> QED  BY <2>1, <2>4, <2>6, <2>7, Zenon
<1> QED  BY <1>2, <1>5, <1>6 DEF t

-----------------------------------------------------------------------------
(***************************************************************************)
(* The server: what one post does                                          *)
(***************************************************************************)
\* There are at most as many copies of a document as attempts without a response,
\* and the one that was answered.
LEMMA PostFacts ==
  ASSUME NEW tries \in Posts
  PROVE  /\ Cardinality(Copies(tries)) \in Nat /\ Cardinality(Lost(tries)) \in Nat
         /\ Returns(tries) => /\ Cardinality(Copies(tries)) >= 1
                              /\ Cardinality(Copies(tries)) <= Cardinality(Lost(tries)) + 1
         /\ ~Returns(tries) => Cardinality(Copies(tries)) <= Cardinality(Lost(tries))
         /\ unique => Cardinality(Copies(tries)) <= 1
<1>1. PICK n \in 1..Attempts : tries \in [1..n -> Unanswered \cup {"stored", "refused"}]
  BY DEF Posts
<1>2. n \in Nat \ {0}
  BY AttemptsAssumption
<1>3. DOMAIN tries = 1..n /\ Len(tries) = n /\ Last(tries) = tries[n]
  BY <1>1, <1>2 DEF Last
<1>4. /\ \A i \in 1..(n - 1) : tries[i] \in Unanswered
      /\ unique => Cardinality(Copies(tries)) <= 1
  BY <1>3 DEF Posts
<1> DEFINE C == Copies(tries)
           L == Lost(tries)
<1>5. IsFiniteSet(C) /\ IsFiniteSet(L) /\ n \in 1..n
  <2>1. C \subseteq 1..n /\ L \subseteq 1..n
    BY <1>3 DEF Copies, Lost
  <2>2. IsFiniteSet(1..n)
    BY <1>2, FS_Interval
  <2>3. n \in 1..n
    BY <1>2
  <2> HIDE DEF C, L
  <2>4. IsFiniteSet(C) /\ IsFiniteSet(L)
    BY <2>1, <2>2, FS_Subset
  <2> QED  BY <2>3, <2>4
<1>6. C \subseteq L \cup {n}
  <2>1. \A i \in 1..n : i = n \/ i \in 1..(n - 1)
    BY <1>2
  <2> QED  BY <2>1, <1>3, <1>4 DEF Copies, Lost
<1>7. ~Returns(tries) => C \subseteq L
  <2>1. n \in C /\ tries[n] # "stored" => n \in L
    BY <1>3 DEF Copies, Lost, Unanswered
  <2> QED  BY <2>1, <1>3, <1>6 DEF Returns
<1>8. Returns(tries) => n \in C
  BY <1>3, <1>5 DEF Returns, Copies
<1> HIDE DEF C, L
<1>9. /\ Cardinality(C) \in Nat /\ Cardinality(L) \in Nat
  BY <1>5, FS_CardinalityType
<1>10. Cardinality(L \cup {n}) <= Cardinality(L) + 1 /\ IsFiniteSet(L \cup {n})
  BY <1>5, <1>9, FS_AddElement
<1>11. Cardinality(C) <= Cardinality(L) + 1
  <2>1. Cardinality(C) <= Cardinality(L \cup {n})
    BY <1>6, <1>10, FS_Subset
  <2>2. Cardinality(L \cup {n}) \in Nat
    BY <1>10, FS_CardinalityType
  <2> QED  BY <2>1, <2>2, <1>9, <1>10
<1>12. ~Returns(tries) => Cardinality(C) <= Cardinality(L)
  BY <1>5, <1>7, FS_Subset
<1>13. Returns(tries) => Cardinality(C) >= 1
  <2>1. Cardinality(C) = 0 => C = {}
    BY <1>5, FS_EmptySet
  <2> QED  BY <2>1, <1>8, <1>9
<1> QED  BY <1>4, <1>9, <1>11, <1>12, <1>13 DEF C, L

\* The documents of s are 1 to last in order, and repeated ones together.
Posted(s, last) ==
  /\ s \in Seq(Nat) /\ last \in Nat
  /\ last = IF Len(s) = 0 THEN 0 ELSE s[Len(s)]
  /\ \A i \in 1..Len(s) : s[i] \in 1..last
  /\ \A d \in 1..last : \E i \in 1..Len(s) : s[i] = d
  /\ \A i \in 1..(Len(s) - 1) : s[i] <= s[i + 1]

\* The next document is posted and stored one or more times.
LEMMA PostedNext ==
  ASSUME NEW s, NEW last, Posted(s, last), NEW k \in Nat \ {0}
  PROVE  /\ Posted(s \o [i \in 1..k |-> last + 1], last + 1)
         /\ Len(s \o [i \in 1..k |-> last + 1]) = Len(s) + k
<1> DEFINE v == last + 1
           add == [i \in 1..k |-> v]
           t == s \o add
<1>1. s \in Seq(Nat) /\ Len(s) \in Nat /\ last \in Nat /\ v \in Nat
  BY DEF Posted
<1>2. add \in Seq(Nat) /\ Len(add) = k /\ \A i \in 1..k : add[i] = v
  BY <1>1
<1> HIDE DEF add
<1>3. /\ t \in Seq(Nat) /\ Len(t) = Len(s) + k
      /\ \A i \in 1..Len(t) : t[i] = IF i <= Len(s) THEN s[i] ELSE add[i - Len(s)]
  BY <1>1, <1>2, ConcatProperties
<1> HIDE DEF t
<1>4. \A i \in 1..Len(s) : i \in 1..Len(t) /\ t[i] = s[i]
  BY <1>1, <1>3
<1>5. \A i \in 1..Len(t) : i > Len(s) => t[i] = v
  <2>1. \A i \in 1..Len(t) : i > Len(s) => i - Len(s) \in 1..k /\ ~(i <= Len(s))
    BY <1>1, <1>3
  <2> QED  BY <2>1, <1>2, <1>3
<1>6. Len(t) \in 1..Len(t) /\ Len(t) > Len(s) /\ Len(t) \in Nat
  BY <1>1, <1>3
<1>7. v = IF Len(t) = 0 THEN 0 ELSE t[Len(t)]
  BY <1>5, <1>6
<1>8. \A i \in 1..Len(s) : s[i] \in 1..last
  BY DEF Posted
<1>9. \A i \in 1..Len(t) : t[i] \in 1..v
  <2>1. ASSUME NEW i \in 1..Len(t)  PROVE t[i] \in 1..v
    <3>1. CASE i <= Len(s)
      <4>1. i \in 1..Len(s)
        BY <3>1, <1>1
      <4> QED  BY <4>1, <1>1, <1>4, <1>8
    <3>2. CASE i > Len(s)
      BY <3>2, <1>1, <1>5
    <3> QED  BY <3>1, <3>2, <1>1
  <2> QED  BY <2>1
<1>10. \A d \in 1..v : \E i \in 1..Len(t) : t[i] = d
  <2>1. ASSUME NEW d \in 1..v  PROVE \E i \in 1..Len(t) : t[i] = d
    <3>1. CASE d = v
      BY <3>1, <1>5, <1>6
    <3>2. CASE d # v
      <4>1. d \in 1..last
        BY <3>2, <1>1
      <4>2. PICK i \in 1..Len(s) : s[i] = d
        BY <4>1 DEF Posted
      <4> QED  BY <4>2, <1>4
    <3> QED  BY <3>1, <3>2
  <2> QED  BY <2>1
<1>11. \A i \in 1..(Len(t) - 1) : t[i] <= t[i + 1]
  <2>1. ASSUME NEW i \in 1..(Len(t) - 1)  PROVE t[i] <= t[i + 1]
    <3>0. i \in 1..Len(t) /\ i + 1 \in 1..Len(t)
      BY <1>6
    <3>1. CASE i + 1 <= Len(s)
      <4>1. i \in 1..(Len(s) - 1) /\ i \in 1..Len(s) /\ i + 1 \in 1..Len(s)
        BY <3>1, <3>0, <1>1
      <4> QED  BY <4>1, <1>4 DEF Posted
    <3>2. CASE i + 1 > Len(s)
      <4>1. t[i + 1] = v /\ t[i] \in 1..v
        BY <3>0, <3>2, <1>5, <1>9
      <4> QED  BY <4>1, <1>1
    <3> QED  BY <3>0, <3>1, <3>2, <1>1
  <2> QED  BY <2>1
<1>12. Posted(t, v)
  BY <1>1, <1>3, <1>7, <1>9, <1>10, <1>11 DEF Posted
<1> QED  BY <1>3, <1>12 DEF t, add

\* The server has the run up to the document the primary failed on, or to the one before it.
Served ==
  /\ unique \in BOOLEAN /\ lost \in Nat
  /\ \E last \in Nat :
       /\ Posted(stored, last)
       /\ IF primaryFailed THEN last \in {failedAt - 1, failedAt} ELSE last = received
       /\ Len(stored) - last <= IF unique THEN 0 ELSE lost

LEMMA InsertServed ==
  ASSUME IInv, Served, Insert
  PROVE  Served'
<1>1. PICK last \in Nat :
        /\ Posted(stored, last) /\ last = received
        /\ Len(stored) - last <= IF unique THEN 0 ELSE lost
  BY DEF Served, Insert
<1>2. PICK tries \in Posts :
        /\ primaryFailed' = ~Returns(tries)
        /\ lost' = lost + Cardinality(Lost(tries))
        /\ stored' = stored \o [i \in 1..Cardinality(Copies(tries)) |-> received']
  BY DEF Insert
<1> DEFINE c == Cardinality(Copies(tries))
           l == Cardinality(Lost(tries))
<1>3. /\ c \in Nat /\ l \in Nat
      /\ Returns(tries) => c >= 1 /\ c <= l + 1
      /\ ~Returns(tries) => c <= l
      /\ unique => c <= 1
  BY PostFacts
<1>4. /\ received' = received + 1 /\ unique' = unique
      /\ primaryFailed' => failedAt' = received + 1
  <2>1. CallPrimary \/ CallPrimaryFails
    BY DEF Insert, Call, Next, CallBackups
  <2> QED  BY <2>1 DEF CallPrimary, CallPrimaryFails, Insert
<1> HIDE DEF c, l
<1>5. Len(stored) \in Nat /\ lost \in Nat /\ unique \in BOOLEAN /\ lost' = lost + l
  BY <1>1, <1>2 DEF Served, Posted, l
<1>6. CASE c = 0
  <2>1. stored' = stored
    <3>1. [i \in 1..c |-> received'] = <<>>
      BY <1>6
    <3>2. stored' = stored \o <<>> /\ stored \in Seq(Nat)
      BY <1>1, <1>2, <3>1 DEF c, Posted
    <3> QED  BY <3>2, ConcatEmptySeq
  <2>2. ~Returns(tries) /\ primaryFailed'
    <3>1. ~(c >= 1)
      BY <1>6
    <3>2. ~Returns(tries)
      BY <1>3, <3>1, Zenon
    <3> QED  BY <1>2, <3>2, Zenon
  <2>3. Posted(stored', last) /\ last \in {failedAt' - 1, failedAt'}
    BY <1>1, <1>4, <2>1, <2>2
  <2>4. Len(stored') - last <= IF unique' THEN 0 ELSE lost'
    BY <1>1, <1>3, <1>4, <1>5, <2>1
  <2>5. unique' \in BOOLEAN /\ lost' \in Nat
    BY <1>3, <1>4, <1>5
  <2> QED  BY <2>2, <2>3, <2>4, <2>5 DEF Served
<1>7. CASE c # 0
  <2>1. Posted(stored', last + 1) /\ Len(stored') = Len(stored) + c
    <3>1. stored' = stored \o [i \in 1..c |-> last + 1]
      BY <1>1, <1>2, <1>4 DEF c
    <3>2. c \in Nat \ {0}
      BY <1>3, <1>7
    <3> QED  BY <3>1, <3>2, <1>1, PostedNext
  <2>2. IF primaryFailed' THEN last + 1 \in {failedAt' - 1, failedAt'} ELSE last + 1 = received'
    BY <1>1, <1>4
  <2>3. c <= l + 1
    BY <1>3
  <2>4. Len(stored') - (last + 1) <= IF unique' THEN 0 ELSE lost'
    <3>1. CASE unique
      BY <3>1, <1>1, <1>3, <1>4, <1>5, <1>7, <2>1
    <3>2. CASE ~unique
      BY <3>2, <1>1, <1>3, <1>4, <1>5, <2>1, <2>3
    <3> QED  BY <3>1, <3>2
  <2>5. unique' \in BOOLEAN /\ lost' \in Nat /\ last + 1 \in Nat
    BY <1>3, <1>4, <1>5
  <2> QED  BY <2>1, <2>2, <2>4, <2>5 DEF Served
<1> QED  BY <1>6, <1>7

\* What the server has is in order.
LEMMA ServedInOrder ==
  ASSUME IInv, Served
  PROVE  InsertedInOrder
<1>1. PICK n \in Nat :
       /\ Posted(stored, n)
       /\ IF primaryFailed THEN n \in {failedAt - 1, failedAt} ELSE n = received
       /\ Len(stored) - n <= IF unique THEN 0 ELSE lost
  BY DEF Served
<1>2. stored \in Seq(Nat) /\ Len(stored) \in Nat
  BY <1>1 DEF Posted
<1>3. (IF stored = <<>> THEN 0 ELSE Last(stored)) = n
  <2>1. stored = <<>> <=> Len(stored) = 0
    BY <1>2, EmptySeq
  <2>2. n = IF Len(stored) = 0 THEN 0 ELSE stored[Len(stored)]
    BY <1>1 DEF Posted
  <2> QED  BY <2>1, <2>2 DEF Last
<1>4. ToSet(stored) = 1..n
  <2>1. DOMAIN stored = 1..Len(stored)
    BY <1>2
  <2>2. /\ \A i \in 1..Len(stored) : stored[i] \in 1..n
        /\ \A d \in 1..n : \E i \in 1..Len(stored) : stored[i] = d
    BY <1>1 DEF Posted
  <2>3. ToSet(stored) = {stored[i] : i \in 1..Len(stored)}
    BY <2>1 DEF ToSet
  <2> QED  BY <2>2, <2>3
<1>5. n \in Len(primary)..(IF primaryFailed THEN failedAt ELSE received)
  <2>1. received \in Nat /\ failedAt \in 0..received /\ (primaryFailed => failedAt \in 1..received)
    BY DroppedFacts
  <2>2. \A k \in Nat : Len(Docs(1, k)) = k
    <3>1. ASSUME NEW k \in Nat  PROVE Len(Docs(1, k)) = k
      <4>1. Len(Docs(1, k)) = k - 1 + 1
        BY DocsSeq
      <4> QED  BY <4>1
    <3> QED  BY <3>1
  <2>3. Len(primary) = IF primaryFailed THEN failedAt - 1 ELSE received
    <3>1. primary = Docs(1, IF primaryFailed THEN failedAt - 1 ELSE received)
      BY DEF IInv, PrimaryHasPrefix
    <3>2. (IF primaryFailed THEN failedAt - 1 ELSE received) \in Nat
      BY <2>1
    <3> QED  BY <2>2, <3>1, <3>2
  <2> QED  BY <1>1, <2>1, <2>3
<1>6. \A i \in 1..(Len(stored) - 1) : stored[i] <= stored[i + 1]
  BY <1>1 DEF Posted
<1> QED  BY <1>1, <1>3, <1>4, <1>5, <1>6 DEF InsertedInOrder

-----------------------------------------------------------------------------
(***************************************************************************)
(* documents(): what has been yielded when the connection fails stays      *)
(***************************************************************************)
\* The last n positions yielded are 1 to n.
EndsWith(y, n) == Len(y) >= n /\ \A i \in 1..n : y[Len(y) - n + i] = i

\* A position follows the one before it, or the generator has begun again, which it
\* has done at most k times.
Begun(y) == {i \in 1..Len(y) : y[i] = 1}
Runs(y, k) ==
  /\ y \in Seq(Nat)
  /\ \A i \in 2..Len(y) : y[i] \in {1, y[i - 1] + 1}
  /\ Cardinality(Begun(y)) <= k

\* A bound that is too high by one.
LEMMA RunsMore ==
  ASSUME NEW y, NEW k \in Nat \ {0}, Runs(y, k) \/ Runs(y, k - 1)
  PROVE  Runs(y, k)
<1>1. y \in Seq(Nat) /\ Len(y) \in Nat
  BY DEF Runs
<1>2. IsFiniteSet(Begun(y))
  <2>1. IsFiniteSet(1..Len(y)) /\ Begun(y) \subseteq 1..Len(y)
    BY <1>1, FS_Interval DEF Begun
  <2> QED  BY <2>1, FS_Subset
<1>3. Cardinality(Begun(y)) \in Nat
  BY <1>2, FS_CardinalityType
<1> QED  BY <1>3 DEF Runs

\* The next k positions are yielded.
LEMMA Yields ==
  ASSUME NEW y, NEW n \in Nat, NEW k \in Nat, NEW j \in Nat, NEW m \in Nat,
         Runs(y, j), EndsWith(y, n), j <= m, n = 0 /\ k > 0 => j + 1 <= m
  PROVE  Runs(y \o [i \in 1..k |-> n + i], m) /\ EndsWith(y \o [i \in 1..k |-> n + i], n + k)
<1> DEFINE add == [i \in 1..k |-> n + i]
           z == y \o add
           N == Len(y)
<1>1. y \in Seq(Nat) /\ N \in Nat
  BY DEF Runs
<1>2. add \in Seq(Nat) /\ Len(add) = k /\ \A i \in 1..k : add[i] = n + i
  <2>1. \A i \in 1..k : n + i \in Nat
    OBVIOUS
  <2> QED  BY <2>1
<1> HIDE DEF add
<1>3. /\ z \in Seq(Nat) /\ Len(z) = N + k
      /\ \A i \in 1..(N + k) : z[i] = IF i <= N THEN y[i] ELSE add[i - N]
  BY <1>1, <1>2, ConcatProperties
<1> HIDE DEF z
<1>4. \A i \in 1..N : z[i] = y[i]
  BY <1>1, <1>3
<1>5. \A i \in 1..k : z[N + i] = n + i
  <2>1. \A i \in 1..k : N + i \in 1..(N + k) /\ ~(N + i <= N) /\ (N + i) - N = i
    BY <1>1
  <2> QED  BY <2>1, <1>2, <1>3
<1>6. Len(y) >= n /\ \A i \in 1..n : y[N - n + i] = i
  BY DEF EndsWith
<1>7. \A i \in 2..N : y[i] \in {1, y[i - 1] + 1}
  BY DEF Runs
<1> HIDE DEF N
<1>8. \A i \in 2..Len(z) : z[i] \in {1, z[i - 1] + 1}
  <2>1. ASSUME NEW i \in 2..Len(z)  PROVE z[i] \in {1, z[i - 1] + 1}
    <3>1. CASE i <= N
      <4>1. i \in 2..N /\ i \in 1..N /\ i - 1 \in 1..N
        BY <3>1, <1>1
      <4> QED  BY <4>1, <1>4, <1>7
    <3>2. CASE i > N + 1
      <4>1. i - N \in 1..k /\ N + (i - N) = i /\ (i - N) - 1 \in 1..k /\ N + ((i - N) - 1) = i - 1
        BY <3>2, <1>1, <1>3
      <4>2. z[i] = n + (i - N) /\ z[i - 1] = n + ((i - N) - 1)
        BY <4>1, <1>5
      <4> QED  BY <4>1, <4>2
    <3>3. CASE i = N + 1
      <4>1. 1 \in 1..k /\ i - 1 = N /\ N \in 1..N
        BY <3>3, <1>1, <1>3
      <4>2. z[i] = n + 1 /\ z[i - 1] = y[N]
        BY <3>3, <4>1, <1>4, <1>5
      <4>3. CASE n = 0
        BY <4>2, <4>3
      <4>4. CASE n # 0
        <5>1. n \in 1..n /\ N - n + n = N
          BY <4>4, <1>1
        <5>2. y[N] = n
          BY <5>1, <1>6
        <5> QED  BY <5>2, <4>2
      <4> QED  BY <4>3, <4>4
    <3>4. i <= N \/ i > N + 1 \/ i = N + 1
      BY <1>1, <1>3
    <3> QED  BY <3>1, <3>2, <3>3, <3>4
  <2> QED  BY <2>1
<1>9. Cardinality(Begun(z)) <= m
  <2>1. IsFiniteSet(Begun(y)) /\ Cardinality(Begun(y)) \in Nat /\ Cardinality(Begun(y)) <= j
    <3>1. IsFiniteSet(1..Len(y)) /\ Begun(y) \subseteq 1..Len(y)
      BY <1>1, FS_Interval DEF Begun, N
    <3>2. IsFiniteSet(Begun(y))
      BY <3>1, FS_Subset
    <3>3. Cardinality(Begun(y)) \in Nat
      BY <3>2, FS_CardinalityType
    <3> QED  BY <3>2, <3>3 DEF Runs
  <2>2. \A i \in 1..Len(z) : i \in 1..N \/ (i - N \in 1..k /\ N + (i - N) = i)
    BY <1>1, <1>3
  <2>3. CASE n = 0 /\ k > 0
    <3>1. Begun(z) \subseteq Begun(y) \cup {N + 1}
      <4>1. ASSUME NEW i \in 1..Len(z), z[i] = 1, i \notin 1..N  PROVE i = N + 1
        <5>1. i - N \in 1..k /\ N + (i - N) = i
          BY <2>2, <4>1
        <5>2. z[i] = n + (i - N)
          BY <5>1, <1>5
        <5> QED  BY <5>1, <5>2, <2>3, <4>1, <1>1
      <4> QED  BY <4>1, <1>4 DEF Begun, N
    <3>2. /\ IsFiniteSet(Begun(y) \cup {N + 1})
          /\ Cardinality(Begun(y) \cup {N + 1}) <= Cardinality(Begun(y)) + 1
          /\ Cardinality(Begun(y) \cup {N + 1}) \in Nat
      <4>1. IsFiniteSet(Begun(y) \cup {N + 1})
        BY <2>1, FS_AddElement
      <4>2. Cardinality(Begun(y) \cup {N + 1}) <= Cardinality(Begun(y)) + 1
        BY <2>1, FS_AddElement
      <4> QED  BY <4>1, <4>2, FS_CardinalityType
    <3>3. Cardinality(Begun(z)) <= Cardinality(Begun(y) \cup {N + 1}) /\ IsFiniteSet(Begun(z))
      BY <3>1, <3>2, FS_Subset
    <3>4. Cardinality(Begun(z)) \in Nat
      BY <3>3, FS_CardinalityType
    <3> QED  BY <2>1, <2>3, <3>2, <3>3, <3>4
  <2>4. CASE n # 0 \/ k = 0
    <3>1. Begun(z) \subseteq Begun(y)
      <4>1. ASSUME NEW i \in 1..Len(z), z[i] = 1  PROVE i \in 1..N
        <5>1. ASSUME i - N \in 1..k, N + (i - N) = i  PROVE FALSE
          <6>1. z[i] = n + (i - N)
            BY <5>1, <1>5
          <6> QED  BY <5>1, <6>1, <2>4, <4>1
        <5> QED  BY <5>1, <2>2
      <4> QED  BY <4>1, <1>4 DEF Begun, N
    <3>2. Cardinality(Begun(z)) <= Cardinality(Begun(y)) /\ IsFiniteSet(Begun(z))
      BY <2>1, <3>1, FS_Subset
    <3>3. Cardinality(Begun(z)) \in Nat
      BY <3>2, FS_CardinalityType
    <3> QED  BY <2>1, <3>2, <3>3
  <2> QED  BY <2>3, <2>4
<1>10. Runs(z, m)
  BY <1>3, <1>8, <1>9 DEF Runs
<1>11. EndsWith(z, n + k)
  <2>1. Len(z) >= n + k
    BY <1>1, <1>3, <1>6 DEF N
  <2>2. ASSUME NEW i \in 1..(n + k)  PROVE z[Len(z) - (n + k) + i] = i
    <3>0. Len(z) - (n + k) + i = N - n + i
      BY <1>1, <1>3
    <3>1. CASE i <= n
      <4>1. i \in 1..n /\ N - n + i \in 1..N
        BY <3>1, <1>1, <1>6 DEF N
      <4> QED  BY <3>0, <4>1, <1>4, <1>6
    <3>2. CASE i > n
      <4>1. i - n \in 1..k /\ N + (i - n) = N - n + i /\ n + (i - n) = i
        BY <3>2, <1>1
      <4>2. z[N + (i - n)] = n + (i - n)
        BY <4>1, <1>5
      <4> QED  BY <3>0, <4>1, <4>2
    <3> QED  BY <3>1, <3>2
  <2> QED  BY <2>1, <2>2 DEF EndsWith
<1> QED  BY <1>10, <1>11 DEF z, add

\* How many documents have arrived when p pieces have.
LEMMA WholeFacts ==
  ASSUME Len(stored) \in Nat \ {0}
  PROVE  /\ Pieces \in Nat /\ Pieces > 0 /\ Whole(0) = 0
         /\ \A p \in 0..Pieces : Whole(p) \in 0..Len(stored)
         /\ \A p, q \in 0..Pieces : p <= q => Whole(p) <= Whole(q)
<1> DEFINE n == Len(stored)
<1>1. n \in Nat \ {0} /\ Pieces = 2 * n
  BY DEF Pieces
<1> HIDE DEF n
<1>2. Pieces \in Nat /\ Pieces > 0 /\ 0 # Pieces /\ 0 \div 2 = 0
  BY <1>1
<1>3. \A p \in 0..Pieces : /\ p \div 2 \in 0..n
                           /\ p # Pieces => p \div 2 <= n - 1
  BY <1>1
<1>4. \A p, q \in 0..Pieces : p <= q => p \div 2 <= q \div 2
  BY <1>1
<1>5. \A p \in 0..Pieces : Whole(p) = IF p = Pieces /\ ~newline THEN n - 1 ELSE p \div 2
  BY DEF Whole, n
<1>6. Whole(0) = 0
  BY <1>2, <1>5
<1>7. \A p \in 0..Pieces : Whole(p) \in 0..n
  BY <1>1, <1>3, <1>5
<1>8. \A p, q \in 0..Pieces : p <= q => Whole(p) <= Whole(q)
  <2>1. ASSUME NEW p \in 0..Pieces, NEW q \in 0..Pieces, p <= q  PROVE Whole(p) <= Whole(q)
    <3>1. CASE q = Pieces /\ ~newline
      <4>1. Whole(q) = n - 1
        BY <3>1, <1>5
      <4>2. p # Pieces => Whole(p) = p \div 2 /\ p \div 2 <= n - 1
        BY <1>3, <1>5
      <4>3. p = Pieces => Whole(p) = n - 1
        BY <3>1, <1>5
      <4> QED  BY <4>1, <4>2, <4>3, <1>1
    <3>2. CASE ~(q = Pieces /\ ~newline)
      <4>1. Whole(q) = q \div 2
        BY <3>2, <1>5
      <4>2. ~(p = Pieces /\ ~newline)
        BY <3>2, <2>1, <1>2
      <4> QED  BY <4>1, <4>2, <2>1, <1>4, <1>5
    <3> QED  BY <3>1, <3>2
  <2> QED  BY <2>1
<1> QED  BY <1>2, <1>6, <1>7, <1>8 DEF n

\* While a response is read its last attempt has yielded what has arrived of it.
Reading ==
  /\ newline \in BOOLEAN /\ attempt \in Nat \ {0} /\ pieces \in Nat
  /\ reading \in {"no", "reading", "done", "raised"}
  /\ IF reading = "no" THEN yielded = <<>> /\ attempt = 1 /\ pieces = 0
     ELSE received = NumDocs /\ ~primaryFailed /\ stored # <<>>
  /\ reading = "reading" =>
       /\ pieces <= Pieces /\ EndsWith(yielded, Whole(pieces))
       /\ Runs(yielded, IF Whole(pieces) = 0 THEN attempt - 1 ELSE attempt)
  /\ reading \in {"done", "raised"} => Runs(yielded, attempt)
  /\ reading = "done" => EndsWith(yielded, Len(stored))

InsertedIInv == FilesIInv /\ Served /\ Reading

\* Nothing has been yielded yet.
LEMMA NothingYielded ==
  \A k \in Nat : Runs(<<>>, k) /\ EndsWith(<<>>, 0)
<1>1. Begun(<<>>) = {} /\ Cardinality({}) = 0
  BY FS_EmptySet DEF Begun
<1> QED  BY <1>1 DEF Runs, EndsWith

LEMMA DocumentsReading ==
  ASSUME Served, Reading, Documents
  PROVE  Reading'
<1>1. UNCHANGED <<vars, storeVars, serverVars>>
  BY DEF Documents
<1>2. received' = received /\ primaryFailed' = primaryFailed /\ stored' = stored /\ newline' = newline
  <2>1. received' = received /\ primaryFailed' = primaryFailed /\ stored' = stored
    BY <1>1 DEF vars, serverVars
  <2>2. newline' = newline
    BY DEF Documents, Read, Chunk, ResponseEnds, ResponseBreaks
  <2> QED  BY <2>1, <2>2
<1>3. Pieces' = Pieces
  BY <1>2 DEF Pieces
<1>4. Whole(pieces)' = Whole(pieces')
  BY <1>2 DEF Whole, Pieces
<1>5. stored \in Seq(Nat) /\ Len(stored) \in Nat
  BY DEF Served, Posted
<1>6. stored # <<>> => Len(stored) \in Nat \ {0}
  BY <1>5, EmptySeq
<1>7. CASE Read
  <2>1. /\ reading' = "reading" /\ received = NumDocs /\ ~primaryFailed /\ stored # <<>>
        /\ attempt' = 1 /\ pieces' = 0 /\ yielded' = <<>>
    BY <1>7 DEF Read, Reading
  <2>2. Whole(0) = 0 /\ Pieces \in Nat
    BY <2>1, <1>6, WholeFacts
  <2>3. Runs(yielded', 0) /\ EndsWith(yielded', 0)
    BY <2>1, NothingYielded
  <2>4. (IF Whole(pieces)' = 0 THEN attempt' - 1 ELSE attempt') = 0 /\ Whole(pieces)' = 0
    BY <1>4, <2>1, <2>2
  <2> QED  BY <1>2, <1>3, <2>1, <2>2, <2>3, <2>4 DEF Reading
<1>8. ASSUME reading = "reading"
      PROVE  /\ Len(stored) \in Nat \ {0} /\ pieces \in 0..Pieces /\ Pieces \in Nat /\ Pieces > 0
             /\ Whole(0) = 0
             /\ \A p \in 0..Pieces : Whole(p) \in 0..Len(stored)
             /\ \A p, q \in 0..Pieces : p <= q => Whole(p) <= Whole(q)
             /\ attempt \in Nat \ {0} /\ received = NumDocs /\ ~primaryFailed /\ stored # <<>>
             /\ EndsWith(yielded, Whole(pieces))
             /\ Runs(yielded, IF Whole(pieces) = 0 THEN attempt - 1 ELSE attempt)
             /\ newline \in BOOLEAN
  <2>1. /\ attempt \in Nat \ {0} /\ received = NumDocs /\ ~primaryFailed /\ stored # <<>>
        /\ EndsWith(yielded, Whole(pieces)) /\ newline \in BOOLEAN
        /\ Runs(yielded, IF Whole(pieces) = 0 THEN attempt - 1 ELSE attempt)
        /\ pieces \in Nat /\ pieces <= Pieces
    BY <1>8 DEF Reading
  <2>2. Len(stored) \in Nat \ {0}
    BY <1>6, <2>1
  <2>3. /\ Pieces \in Nat /\ Pieces > 0 /\ Whole(0) = 0
        /\ \A p \in 0..Pieces : Whole(p) \in 0..Len(stored)
        /\ \A p, q \in 0..Pieces : p <= q => Whole(p) <= Whole(q)
    BY <2>2, WholeFacts
  <2>4. pieces \in 0..Pieces
    BY <2>1, <2>3
  <2> QED  BY <2>1, <2>2, <2>3, <2>4
<1>9. CASE Chunk
  <2>1. reading = "reading" /\ reading' = reading /\ attempt' = attempt
    BY <1>9 DEF Chunk
  <2>2. PICK more \in (pieces + 1)..Pieces : pieces' = more /\ yielded' = yielded \o Between(pieces, more)
    BY <1>9 DEF Chunk
  <2> DEFINE n == Whole(pieces)
             w == Whole(more)
             k == w - n
             j == IF n = 0 THEN attempt - 1 ELSE attempt
             m == IF w = 0 THEN attempt - 1 ELSE attempt
  <2>3. more \in 0..Pieces /\ pieces <= more
    BY <1>8, <2>1, <2>2
  <2>4. n \in Nat /\ w \in Nat /\ n <= w
    BY <1>8, <2>1, <2>3
  <2>5. attempt \in Nat \ {0} /\ EndsWith(yielded, n) /\ Runs(yielded, j)
    BY <1>8, <2>1
  <2>6. yielded' = yielded \o [i \in 1..k |-> n + i]
    BY <2>2 DEF Between
  <2> HIDE DEF n, w
  <2>7. k \in Nat /\ j \in Nat /\ m \in Nat /\ j <= m /\ (n = 0 /\ k > 0 => j + 1 <= m) /\ n + k = w
    BY <2>4, <2>5
  <2> HIDE DEF k, j, m
  <2>8. Runs(yielded', m) /\ EndsWith(yielded', w)
    BY <2>4, <2>5, <2>6, <2>7, Yields
  <2>9. Whole(pieces)' = w
    BY <1>4, <2>2 DEF w
  <2>10. Runs(yielded', IF Whole(pieces)' = 0 THEN attempt' - 1 ELSE attempt')
    BY <2>1, <2>8, <2>9 DEF m
  <2>11. pieces' \in Nat /\ pieces' <= Pieces'
    BY <1>3, <1>8, <2>1, <2>2, <2>3
  <2> QED  BY <1>2, <1>8, <2>1, <2>8, <2>9, <2>10, <2>11 DEF Reading
<1>10. CASE ResponseEnds
  <2>1. /\ reading = "reading" /\ reading' = "done" /\ attempt' = attempt /\ pieces = Pieces /\ pieces' = pieces
    BY <1>10 DEF ResponseEnds
  <2> DEFINE n == Whole(pieces)
             k == Len(stored) - n
             j == IF n = 0 THEN attempt - 1 ELSE attempt
  <2>2. yielded' = yielded \o [i \in 1..k |-> n + i]
    BY <1>10, <2>1 DEF ResponseEnds
  <2>3. n \in 0..Len(stored) /\ attempt \in Nat \ {0} /\ EndsWith(yielded, n) /\ Runs(yielded, j)
    BY <1>8, <2>1
  <2> HIDE DEF n
  <2>4. n \in Nat /\ k \in Nat /\ j \in Nat /\ j <= attempt /\ (n = 0 /\ k > 0 => j + 1 <= attempt) /\ n + k = Len(stored)
    BY <1>5, <2>3
  <2> HIDE DEF k, j
  <2>5. Runs(yielded', attempt) /\ EndsWith(yielded', Len(stored))
    BY <2>2, <2>3, <2>4, Yields
  <2>6. pieces' \in Nat
    BY <1>8, <2>1
  <2> QED  BY <1>2, <1>8, <2>1, <2>5, <2>6 DEF Reading
<1>11. CASE ResponseBreaks
  <2>1. reading = "reading" /\ yielded' = yielded
    BY <1>11 DEF ResponseBreaks
  <2>2. Runs(yielded, attempt) /\ EndsWith(yielded, 0) /\ attempt \in Nat \ {0}
    <3>1. attempt \in Nat \ {0} /\ Runs(yielded, IF Whole(pieces) = 0 THEN attempt - 1 ELSE attempt)
      BY <1>8, <2>1
    <3>2. Runs(yielded, attempt)
      BY <3>1, RunsMore
    <3>3. EndsWith(yielded, 0)
      BY <3>2 DEF EndsWith, Runs
    <3> QED  BY <3>1, <3>2, <3>3
  <2>3. CASE attempt < Attempts
    <3>1. attempt' = attempt + 1 /\ pieces' = 0 /\ reading' = "reading"
      BY <1>11, <2>1, <2>3 DEF ResponseBreaks
    <3>2. Whole(pieces)' = 0
      BY <1>4, <1>8, <2>1, <3>1
    <3>3. (IF Whole(pieces)' = 0 THEN attempt' - 1 ELSE attempt') = attempt /\ attempt' \in Nat \ {0}
      BY <2>2, <3>1, <3>2
    <3>4. pieces' \in Nat /\ pieces' <= Pieces'
      BY <1>3, <1>8, <2>1, <3>1
    <3> QED  BY <1>2, <1>8, <2>1, <2>2, <3>1, <3>2, <3>3, <3>4 DEF Reading
  <2>4. CASE ~(attempt < Attempts)
    <3>1. attempt' = attempt /\ pieces' = pieces /\ reading' = "raised"
      BY <1>11, <2>4 DEF ResponseBreaks
    <3>2. pieces' \in Nat
      BY <1>8, <2>1, <3>1
    <3> QED  BY <1>2, <1>8, <2>1, <2>2, <3>1, <3>2 DEF Reading
  <2> QED  BY <2>3, <2>4
<1> QED  BY <1>7, <1>9, <1>10, <1>11 DEF Documents

\* Nobody reads while a run is written.
LEMMA OthersReading ==
  ASSUME Reading, Insert \/ Otherwise
  PROVE  Reading'
<1>1. reading = "no"
  <2>1. CASE Otherwise
    BY <2>1 DEF Otherwise, Reading
  <2>2. CASE Insert
    <3>1. received < NumDocs
      BY <2>2 DEF Insert, Call, Next, CallPrimary, CallPrimaryFails, CallBackups
    <3>2. received # NumDocs
      BY <3>1, NumDocsAssumption
    <3> QED  BY <3>2 DEF Reading
  <2> QED  BY <2>1, <2>2
<1>2. UNCHANGED readerVars
  BY DEF Insert, Otherwise
<1> QED  BY <1>1, <1>2 DEF Reading, readerVars

\* documents() ends with the whole run.
LEMMA ReadingEnds ==
  ASSUME Served, Reading
  PROVE  DocumentsEndWithRun
<1>1. Runs(yielded, attempt)
  <2>1. CASE reading = "no"
    <3>1. yielded = <<>> /\ attempt \in Nat
      BY <2>1 DEF Reading
    <3> QED  BY <3>1, NothingYielded
  <2>2. CASE reading = "reading"
    <3>1. attempt \in Nat \ {0} /\ Runs(yielded, IF Whole(pieces) = 0 THEN attempt - 1 ELSE attempt)
      BY <2>2 DEF Reading
    <3> QED  BY <3>1, RunsMore
  <2>3. CASE reading \in {"done", "raised"}
    BY <2>3 DEF Reading
  <2> QED  BY <2>1, <2>2, <2>3 DEF Reading
<1>2. DOMAIN yielded = 1..Len(yielded)
  BY <1>1 DEF Runs
<1>3. {i \in DOMAIN yielded : yielded[i] = 1} = Begun(yielded)
  BY <1>2 DEF Begun
<1>4. reading = "done" => EndsWith(yielded, Len(stored))
  BY DEF Reading
<1> QED  BY <1>1, <1>3, <1>4 DEF DocumentsEndWithRun, Runs, EndsWith

-----------------------------------------------------------------------------
(***************************************************************************)
(* The theorems about InsertedRun                                          *)
(***************************************************************************)
allVars == <<vars, storeVars, serverVars, readerVars>>

\* Initially no document has come.
LEMMA InserterInitIInv == InserterInit => InsertedIInv
<1> SUFFICES ASSUME InserterInit PROVE InsertedIInv
  OBVIOUS
<1>1. Init /\ FilesInit
  BY DEF InserterInit, FilesInit
<1>2. IInv
  BY <1>1, InitIInv
<1>3. ~primaryFailed /\ received = 0
  BY <1>1 DEF Init
<1>4. Filed /\ FilesIInv
  BY <1>1, <1>2, <1>3 DEF FilesInit, Filed, FilesIInv
<1>5. Served
  <2>1. stored = <<>> /\ lost = 0 /\ unique \in BOOLEAN
    BY DEF InserterInit
  <2>2. Posted(<<>>, 0) /\ Len(<<>>) = 0
    BY DEF Posted
  <2> QED  BY <1>3, <2>1, <2>2 DEF Served
<1>6. Reading
  BY DEF InserterInit, Reading
<1> QED  BY <1>4, <1>5, <1>6 DEF InsertedIInv

\* A backup that is called, or another run, leaves the server alone.
LEMMA OtherwiseServed ==
  ASSUME Served, Otherwise
  PROVE  Served'
<1>1. primaryFailed /\ UNCHANGED serverVars
  BY DEF Otherwise
<1>2. primaryFailed' /\ failedAt' = failedAt
  <2>1. CASE Call
    <3>1. CallBackups
      BY <1>1, <2>1 DEF Call, Next, CallPrimary, CallPrimaryFails
    <3> QED  BY <1>1, <3>1 DEF CallBackups
  <2>2. ASSUME NEW b \in Backups, OtherRun(b)  PROVE primaryFailed' /\ failedAt' = failedAt
    BY <1>1, <2>2 DEF OtherRun, vars
  <2> QED  BY <2>1, <2>2 DEF Otherwise, FilesNext
<1> QED  BY <1>1, <1>2 DEF Served, serverVars

\* A step in which nothing of a run and its backups changes.
LEMMA FilesUnchanged ==
  ASSUME FilesIInv, UNCHANGED <<vars, storeVars>>
  PROVE  FilesIInv'
<1>1. IInv'
  BY DEF vars, FilesIInv, IInv, TypeOK, BufferIsTail, Failure, PrimaryHasPrefix, RunIsNotSplit, Dropped
<1>2. UNCHANGED <<named, text, primaryFailed, received, refused>> /\ Dropped' = Dropped
  BY DEF vars, storeVars, Dropped
<1>3. Filed'
  BY <1>2 DEF FilesIInv, Filed
<1> QED  BY <1>1, <1>2, <1>3 DEF FilesIInv

LEMMA InserterNextIInv ==
  ASSUME InsertedIInv, [InserterNext]_allVars
  PROVE  InsertedIInv'
<1>1. FilesIInv /\ Served /\ Reading /\ IInv
  BY DEF InsertedIInv, FilesIInv
<1>2. CASE Insert
  <2>1. FilesIInv'
    BY <1>1, <1>2, CallFiled DEF Insert
  <2>2. Served'
    BY <1>1, <1>2, InsertServed
  <2>3. Reading'
    BY <1>1, <1>2, OthersReading
  <2> QED  BY <2>1, <2>2, <2>3 DEF InsertedIInv
<1>3. CASE Otherwise
  <2>1. FilesIInv'
    BY <1>1, <1>3, CallFiled, OtherRunFiled DEF Otherwise, FilesNext
  <2>2. Served'
    BY <1>1, <1>3, OtherwiseServed
  <2>3. Reading'
    BY <1>1, <1>3, OthersReading
  <2> QED  BY <2>1, <2>2, <2>3 DEF InsertedIInv
<1>4. CASE Documents
  <2>1. UNCHANGED <<vars, storeVars, serverVars>>
    BY <1>4 DEF Documents
  <2>2. FilesIInv'
    BY <1>1, <2>1, FilesUnchanged
  <2>3. Served'
    BY <1>1, <2>1 DEF Served, vars, serverVars
  <2>4. Reading'
    BY <1>1, <1>4, DocumentsReading
  <2> QED  BY <2>2, <2>3, <2>4 DEF InsertedIInv
<1>5. CASE UNCHANGED allVars
  <2>1. UNCHANGED <<vars, storeVars, serverVars, readerVars>>
    BY <1>5 DEF allVars
  <2>2. FilesIInv'
    BY <1>1, <2>1, FilesUnchanged
  <2>3. Served'
    BY <1>1, <2>1 DEF Served, vars, serverVars
  <2>4. Reading'
    <3>1. Whole(pieces)' = Whole(pieces) /\ Pieces' = Pieces
      BY <2>1 DEF Whole, Pieces, serverVars, readerVars
    <3> QED  BY <1>1, <2>1, <3>1 DEF Reading, vars, serverVars, readerVars
  <2> QED  BY <2>2, <2>3, <2>4 DEF InsertedIInv
<1> QED  BY <1>2, <1>3, <1>4, <1>5 DEF InserterNext

\* The backups, what they have written, the server and the reader of a run
\* fit together in every reachable state.
THEOREM InserterInvariance == InserterSpec => []InsertedIInv
<1>1. InserterInit => InsertedIInv
  BY InserterInitIInv
<1>2. InsertedIInv /\ [InserterNext]_allVars => InsertedIInv'
  BY InserterNextIInv
<1> QED  BY <1>1, <1>2, PTL DEF InserterSpec, allVars

\* Whatever is written and posted, the buffer of the run is that of the
\* _ConditionalBackup: every step of the composition is one of its calls, or
\* leaves it alone.
THEOREM InserterIsBackup == InserterSpec => Spec
<1>1. InserterInit => Init
  BY DEF InserterInit, FilesInit
<1>2. [InserterNext]_allVars => [Next]_vars
  <2> SUFFICES ASSUME [InserterNext]_allVars PROVE [Next]_vars
    OBVIOUS
  <2>1. CASE Insert
    BY <2>1 DEF Insert, Call
  <2>2. CASE Otherwise
    BY <2>2 DEF Otherwise, FilesNext, Call, OtherRun
  <2>3. CASE Documents
    BY <2>3 DEF Documents
  <2>4. CASE UNCHANGED allVars
    BY <2>4 DEF allVars
  <2> QED  BY <2>1, <2>2, <2>3, <2>4 DEF InserterNext
<1> QED  BY <1>1, <1>2, PTL DEF InserterSpec, Spec, allVars

\* Of a run that fits into the buffer a reader of the files and dictionaries
\* finds each document once and in order, except those a writer raised on and
\* what shares a line with something that was written in part.
THEOREM ReadBackThm == InserterSpec => []ReadBack
<1>1. InsertedIInv => ReadBack
  BY FilesReadBack DEF InsertedIInv
<1> QED  BY <1>1, InserterInvariance, PTL

\* The server has the documents in order, up to the one at which the primary
\* failed, and a document twice only where a response was lost.
THEOREM InsertedInOrderThm == InserterSpec => []InsertedInOrder
<1>1. InsertedIInv => InsertedInOrder
  BY ServedInOrder DEF InsertedIInv, FilesIInv
<1> QED  BY <1>1, InserterInvariance, PTL

\* However often the connection fails, what documents() yields ends with the
\* whole run when it returns.
THEOREM DocumentsEndWithRunThm == InserterSpec => []DocumentsEndWithRun
<1>1. InsertedIInv => DocumentsEndWithRun
  BY ReadingEnds DEF InsertedIInv
<1> QED  BY <1>1, InserterInvariance, PTL
=============================================================================
