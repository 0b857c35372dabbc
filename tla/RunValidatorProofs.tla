------------------------- MODULE RunValidatorProofs --------------------------
(***************************************************************************)
(* Proofs about RunValidator, for any data keys, structures, options and   *)
(* any number of calls and faults.                                         *)
(***************************************************************************)
EXTENDS RunValidator, SequenceTheorems, FiniteSetTheorems, WellFoundedInduction, TLAPS

KeySet == ToSet(Keys)
FixKinds == {"data type", "shape", "chunks", "dims"}

IsSeq(s) == Len(s) \in Nat /\ s = [i \in 1..Len(s) |-> s[i]]
InRange(x, s) == \E i \in 1..Len(s) : s[i] = x
NoRepeats(s) == \A i, j \in 1..Len(s) : s[i] = s[j] => i = j

\* Of a data type and a structure it is used which fields they have, and that the
\* number of dimensions with names is a number.
IsType(t) == t = [names |-> t.names, types |-> t.types]
IsStructure(s) ==
  /\ s = [data_type |-> s.data_type, shape |-> s.shape, chunks |-> s.chunks, dims |-> s.dims, layout |-> s.layout]
  /\ IsType(s.data_type) /\ s.dims \in Nat

TypeOK ==
  /\ step \in {"idle", "structure", "reading", "notes"}
  /\ at \in Nat /\ (step \in {"structure", "reading"} => at \in 1..Len(Keys))
  /\ \A k \in KeySet : case[k] \in Cases[k]
  /\ DOMAIN structure = KeySet /\ structure = [k \in KeySet |-> structure[k]]
  /\ \A k \in KeySet : IsStructure(structure[k])
  /\ present \subseteq KeySet /\ IsSeq(notes) /\ IsSeq(found) /\ faults \in Nat
  /\ options \in Options /\ noted \in BOOLEAN
  /\ refused \in BOOLEAN
  /\ result \in {"none", "true", "false", "raised"} /\ (step # "idle" => result = "none") /\ settled \in {"no", "local", "remote"}
  /\ before.faults \in Nat /\ before.faults <= faults /\ before.present \subseteq present
  /\ before.settled \in {"no", "local", "remote"}

-----------------------------------------------------------------------------
\* The structure of this key has been compared in this call, after its last repetition.
Compared(i) ==
  \/ step = "structure" /\ i < at
  \/ step = "reading" /\ (options.remote \/ i <= at)
  \/ step = "notes"

NotedIn(seq, k, kinds) == \E i \in 1..Len(seq) : seq[i][1] = k /\ seq[i][2] \in kinds

\* The notes of the call were refused, and so it only warns.
WarnedOnly(k) == refused /\ options.remote /\ ~options.raise /\ NotedIn(found, k, {"failed", "ignored"})

\* What has been compared is as its files are, or it will be noted.
Answered ==
  IF step = "idle"
  THEN (result = "true" /\ options.write) =>
         \A k \in KeySet : Agrees(k) \/ NotedIn(notes, k, {"failed", "ignored"}) \/ WarnedOnly(k)
  ELSE \A i \in 1..Len(Keys) : Compared(i) =>
         Agrees(Keys[i]) \/ NotedIn(found, Keys[i], {"failed", "ignored"})

\* What has been repaired in local calls is noted, or will be.
Repairs ==
  (noted /\ (step = "idle" \/ ~options.remote)) =>
    \A k \in KeySet : structure[k] # case[k].stored =>
      \/ NotedIn(notes, k, FixKinds \cup {"failed"})
      \/ step # "idle" /\ NotedIn(found, k, FixKinds \cup {"failed"})

-----------------------------------------------------------------------------
AsRepaired(k, s) == Repaired(s, case[k].file, case[k].multiplier)

\* Comparing the structure s of the key k once more changes nothing, here or on the
\* server: it is repaired, has nothing to be noted, or can not be repaired.
Final(where, k, s) ==
  \/ AsRepaired(k, s) = s
  \/ /\ where = "local"
     /\ \/ Fixes(s, case[k].file, case[k].multiplier) = <<>>
        \/ FieldsDiffer(s, case[k].file)

\* A call from where nothing is left to do.
Settled(where, now) ==
  /\ \A k \in KeySet :
       /\ k \in now.present => Final(where, k, now.structure[k])
       /\ (where = "local" /\ k \notin now.present) => InRange(<<k, "failed", "asset">>, now.notes)
  /\ where = "local" => NoRepeats(now.notes)

\* The keys that a call has compared which may settle the run.
Settling ==
  (step # "idle" /\ options.fix /\ before.present = present /\ before.faults = faults) =>
    \A i \in 1..Len(Keys) : Compared(i) =>
      /\ Keys[i] \in present => Final(Where, Keys[i], structure[Keys[i]])
      /\ (Where = "local" /\ Keys[i] \notin present) => InRange(<<Keys[i], "failed", "asset">>, found)

NamesAgree == \A k \in KeySet : structure[k].data_type.names = case[k].file.data_type.names

Repeated == before.settled = Where /\ before.present = present /\ before.faults = faults

\* All notes but for those of ignored errors were there before.
OnlyIgnored(new, old) == IsPrefix(old, new) /\ \A i \in DOMAIN new \ DOMAIN old : new[i][2] = "ignored"

\* A call that repeats one that settled the run.
Repeating ==
  Repeated =>
    /\ structure = before.structure
    /\ step # "idle" =>
         /\ notes = before.notes
         /\ (options.fix /\ NamesAgree) =>
              \A i \in 1..Len(found) :
                IF options.remote THEN found[i][2] = "ignored" ELSE InRange(found[i], before.notes)
    /\ step = "idle" => ((options.fix /\ NamesAgree) => OnlyIgnored(notes, before.notes))

SettledFacts ==
  /\ (step = "idle" /\ settled # "no") => Settled(settled, Now)
  /\ before.settled # "no" => Settled(before.settled, before)
  /\ IsSeq(before.notes)

IInv == TypeOK /\ Answered /\ Repairs /\ Settling /\ Repeating /\ SettledFacts
-----------------------------------------------------------------------------
(***************************************************************************)
(* Keys and structures                                                     *)
(***************************************************************************)
\* The keys are those in the sequence, and each of their cases has structures.
LEMMA KeyFacts ==
  /\ Len(Keys) \in Nat /\ DOMAIN Keys = 1..Len(Keys)
  /\ (Keys = <<>>) <=> (Len(Keys) = 0)
  /\ \A i \in 1..Len(Keys) : Keys[i] \in KeySet
  /\ \A k \in KeySet : \E i \in 1..Len(Keys) : Keys[i] = k
<1>1. Keys \in Seq(DOMAIN Cases)
  BY KeysAssumption
<1>2. Len(Keys) \in Nat /\ DOMAIN Keys = 1..Len(Keys)
  BY <1>1
<1>3. (Keys = <<>>) <=> (Len(Keys) = 0)
  BY <1>1, EmptySeq
<1> QED  BY <1>2, <1>3 DEF KeySet, ToSet

\* A data type that has been corrected is not corrected again, and keeps its names.
LEMMA TrueTypeAgain ==
  ASSUME NEW s, NEW r, NEW file, IsType(s.data_type), IsType(file.data_type),
         r.data_type = TrueType(s, file)
  PROVE  /\ TrueType(r, file) = r.data_type
         /\ IsType(r.data_type) /\ r.data_type.names = s.data_type.names
         /\ OneColumn(r, file) <=> OneColumn(s, file)
<1> DEFINE one == file.data_type.types[1]
           most == Max(ToSet(file.data_type.types))
<1>1. PICK t, f, u : t = s.data_type /\ f = file.data_type /\ u = r.data_type
  OBVIOUS
<1>2. t = [names |-> t.names, types |-> t.types] /\ f = [names |-> f.names, types |-> f.types]
  BY <1>1 DEF IsType
<1>3. CASE t.names = f.names
  <2>1. u = f
    BY <1>1, <1>3 DEF TrueType
  <2>2. TrueType(r, file) = f
    BY <1>1, <1>3, <2>1 DEF TrueType
  <2> QED  BY <1>1, <1>2, <1>3, <2>1, <2>2 DEF IsType, OneColumn, Structured
<1>4. CASE t.names # f.names /\ OneColumn(s, file)
  <2>1. u = [t EXCEPT !.types = [i \in DOMAIN t.types |-> one]]
    BY <1>1, <1>4 DEF TrueType
  <2> HIDE DEF one
  <2>2. u.names = t.names /\ u.types = [i \in DOMAIN t.types |-> one]
        /\ u = [names |-> t.names, types |-> [i \in DOMAIN t.types |-> one]]
    BY <1>2, <2>1
  <2>3. OneColumn(r, file)
    BY <1>1, <1>4, <2>2 DEF OneColumn, Structured
  <2>4. TrueType(r, file) = [u EXCEPT !.types = [i \in DOMAIN u.types |-> one]]
    BY <1>1, <1>4, <2>2, <2>3 DEF TrueType, one
  <2>5. [u EXCEPT !.types = [i \in DOMAIN u.types |-> one]] = u
    BY <2>2
  <2> QED  BY <1>1, <1>4, <2>2, <2>3, <2>4, <2>5 DEF IsType
<1>5. CASE t.names # f.names /\ ~OneColumn(s, file) /\ Structured(t)
  <2>1. u = [t EXCEPT !.types = f.types]
    BY <1>1, <1>5 DEF TrueType
  <2>2. u.names = t.names /\ u = [names |-> t.names, types |-> f.types]
    BY <1>2, <2>1
  <2>3. ~OneColumn(r, file) /\ Structured(u)
    BY <1>1, <1>5, <2>2 DEF OneColumn, Structured
  <2>4. TrueType(r, file) = [u EXCEPT !.types = f.types]
    BY <1>1, <1>5, <2>2, <2>3 DEF TrueType
  <2> QED  BY <1>1, <1>5, <2>2, <2>3, <2>4 DEF IsType
<1>6. CASE t.names # f.names /\ ~OneColumn(s, file) /\ ~Structured(t)
  <2>1. u = [names |-> <<>>, types |-> <<most>>]
    BY <1>1, <1>6 DEF TrueType
  <2> HIDE DEF most
  <2>2. u.names = t.names /\ u.names = <<>> /\ u = [names |-> u.names, types |-> u.types]
    BY <1>6, <2>1 DEF Structured
  <2>3. ~OneColumn(r, file) /\ ~Structured(u)
    BY <1>1, <2>2 DEF OneColumn, Structured
  <2>4. TrueType(r, file) = [names |-> <<>>, types |-> <<most>>]
    BY <1>1, <1>6, <2>2, <2>3 DEF TrueType, most
  <2> QED  BY <1>1, <1>6, <2>1, <2>2, <2>3, <2>4 DEF IsType
<1> QED  BY <1>3, <1>4, <1>5, <1>6

\* Names that are as many as the dimensions stay.
LEMMA NamedDimsAgain ==
  ASSUME NEW d \in Nat, NEW n \in Nat
  PROVE  NamedDims(d, n) \in Nat /\ NamedDims(NamedDims(d, n), n) = NamedDims(d, n)
<1>1. CASE d # 0 /\ d < n
  <2>1. Cardinality((d + 1)..(n - 1)) = n - 1 - d
    <3>1. d + 1 \in Int /\ n - 1 \in Int /\ (n - 1) - (d + 1) + 1 = n - 1 - d
      OBVIOUS
    <3>2. Cardinality((d + 1)..(n - 1)) = IF d + 1 > n - 1 THEN 0 ELSE (n - 1) - (d + 1) + 1
      BY <3>1, FS_Interval
    <3> QED  BY <1>1, <3>1, <3>2
  <2>2. NamedDims(d, n) = n
    BY <1>1, <2>1 DEF NamedDims
  <2>3. NamedDims(n, n) = n
    BY DEF NamedDims
  <2> QED  BY <2>2, <2>3
<1>2. CASE ~(d # 0 /\ d < n) /\ d > n
  <2>1. NamedDims(d, n) = n
    BY <1>2 DEF NamedDims
  <2>2. NamedDims(n, n) = n
    BY DEF NamedDims
  <2> QED  BY <2>1, <2>2
<1>3. CASE ~(d # 0 /\ d < n) /\ ~(d > n)
  <2>1. NamedDims(d, n) = d
    BY <1>3 DEF NamedDims
  <2> QED  BY <2>1
<1> QED  BY <1>1, <1>2, <1>3

\* The dimensions of a repaired structure are counted.
LEMMA MultipliedShape ==
  ASSUME NEW s, NEW file, Structure(file), NEW m \in Nat
  PROVE  Len(Multiplied(s, file, m).shape) \in Nat
<1>1. /\ file.shape \in Seq(Nat) /\ file.shape # <<>>
      /\ Tail(file.shape) \in Seq(Nat) /\ Front(file.shape) \in Seq(Nat) /\ file.shape[1] \in Nat
  <2>1. file.shape \in Seq(Nat) /\ file.shape # <<>>
    BY DEF Structure
  <2>2. Len(file.shape) \in Nat \ {0}
    BY <2>1, EmptySeq
  <2>3. Tail(file.shape) \in Seq(Nat) /\ file.shape[1] \in Nat
    BY <2>1, <2>2
  <2>4. Front(file.shape) \in Seq(Nat)
    <3>1. /\ 1 \in 1..(Len(file.shape) + 1) /\ Len(file.shape) - 1 \in 0..Len(file.shape)
      BY <2>2
    <3>2. SubSeq(file.shape, 1, Len(file.shape) - 1) \in Seq(Nat)
      BY <2>1, <2>2, <3>1
    <3> QED  BY <3>2 DEF Front
  <2> QED  BY <2>1, <2>3, <2>4
<1>2. CASE Divides(m, file.shape)
  <2>1. Multiplied(s, file, m).shape = <<file.shape[1] \div m, m>> \o Tail(file.shape)
    BY <1>2 DEF Multiplied
  <2>2. file.shape[1] \div m \in Nat
    <3>1. m # 0
      BY <1>2, Zenon DEF Divides
    <3>2. \A a \in Nat : a \div m \in Nat
      BY <3>1
    <3> QED  BY <1>1, <3>2
  <2>3. <<file.shape[1] \div m, m>> \in Seq(Nat)
    BY <2>2
  <2> QED  BY <1>1, <2>1, <2>3
<1>3. CASE ~Divides(m, file.shape) /\ OneColumn(s, file)
  <2>1. Multiplied(s, file, m).shape = Front(file.shape) \o <<1>>
    BY <1>3 DEF Multiplied
  <2> QED  BY <1>1, <2>1
<1>4. CASE ~Divides(m, file.shape) /\ ~OneColumn(s, file)
  <2>1. Multiplied(s, file, m).shape = file.shape
    BY <1>4 DEF Multiplied
  <2> QED  BY <1>1, <2>1
<1> QED  BY <1>2, <1>3, <1>4

\* What has been repaired is not repaired again.
LEMMA RepairedAgain ==
  ASSUME NEW s, IsStructure(s), NEW file, Structure(file), NEW m \in Nat
  PROVE  IsStructure(Repaired(s, file, m)) /\ Repaired(Repaired(s, file, m), file, m) = Repaired(s, file, m)
<1> DEFINE true == Multiplied(s, file, m)
           n == Len(true.shape)
           r == Repaired(s, file, m)
           again == Multiplied(r, file, m)
<1>1. r = [data_type |-> TrueType(s, file), shape |-> true.shape, chunks |-> true.chunks,
           dims |-> NamedDims(s.dims, n), layout |-> true.layout]
  BY DEF Repaired
<1>2. n \in Nat
  BY MultipliedShape
<1> HIDE DEF r
<1>3. /\ r.data_type = TrueType(s, file) /\ r.shape = true.shape /\ r.chunks = true.chunks
      /\ r.dims = NamedDims(s.dims, n) /\ r.layout = true.layout
  BY <1>1
<1>4. IsType(s.data_type) /\ IsType(file.data_type) /\ s.dims \in Nat
  BY DEF IsStructure, IsType, Structure
<1>5. /\ TrueType(r, file) = r.data_type /\ IsType(r.data_type)
      /\ OneColumn(r, file) <=> OneColumn(s, file)
  BY <1>3, <1>4, TrueTypeAgain
<1>6. again.shape = true.shape /\ again.chunks = true.chunks /\ again.layout = r.layout
  BY <1>3, <1>5 DEF Multiplied
<1>7. NamedDims(s.dims, n) \in Nat /\ NamedDims(NamedDims(s.dims, n), n) = NamedDims(s.dims, n)
  BY <1>2, <1>4, NamedDimsAgain
<1>8. Repaired(r, file, m) = [data_type |-> TrueType(r, file), shape |-> again.shape, chunks |-> again.chunks,
                             dims |-> NamedDims(r.dims, Len(again.shape)), layout |-> again.layout]
  BY DEF Repaired
<1>9. Repaired(r, file, m) = [data_type |-> r.data_type, shape |-> r.shape, chunks |-> r.chunks,
                              dims |-> r.dims, layout |-> r.layout]
  BY <1>3, <1>5, <1>6, <1>7, <1>8
<1>10. r = [data_type |-> r.data_type, shape |-> r.shape, chunks |-> r.chunks, dims |-> r.dims, layout |-> r.layout]
  BY <1>1
<1> QED  BY <1>3, <1>5, <1>7, <1>9, <1>10 DEF IsStructure, r

\* One kind of fix more, or not.
LEMMA OneFix ==
  ASSUME NEW S, NEW s \in Seq(S), NEW x \in S, NEW c \in BOOLEAN, NEW kinds,
         \A i \in 1..Len(s) : s[i][1] \in kinds, x[1] \in kinds
  PROVE  LET t == s \o (IF c THEN <<x>> ELSE <<>>)
         IN /\ t \in Seq(S) /\ ((t = <<>>) <=> (s = <<>> /\ ~c))
            /\ \A i \in 1..Len(t) : t[i][1] \in kinds
<1> DEFINE t == s \o (IF c THEN <<x>> ELSE <<>>)
<1>1. CASE c
  <2>1. t = Append(s, x)
    BY <1>1, AppendIsConcat
  <2> HIDE DEF t
  <2>2. /\ t \in Seq(S) /\ Len(t) = Len(s) + 1 /\ Len(s) \in Nat
        /\ \A i \in 1..Len(s) : t[i] = s[i]
        /\ t[Len(s) + 1] = x
    BY <2>1, AppendProperties
  <2>3. t # <<>>
    BY <2>2
  <2>4. \A i \in 1..Len(t) : i \in 1..Len(s) \/ i = Len(s) + 1
    BY <2>2
  <2>5. \A i \in 1..Len(t) : t[i][1] \in kinds
    BY <2>2, <2>4
  <2> QED  BY <1>1, <2>2, <2>3, <2>5 DEF t
<1>2. CASE ~c
  <2>1. t = s
    BY <1>2, ConcatEmptySeq
  <2> QED  BY <1>2, <2>1
<1> QED  BY <1>1, <1>2

Repairable(s, file, m) ==
  LET to == Repaired(s, file, m)
  IN s.data_type = file.data_type /\ s.shape = to.shape /\ s.chunks = to.chunks /\ s.dims = to.dims

\* What is fixed has a kind, and nothing is if the structure is that of the file.
LEMMA FixesFacts ==
  ASSUME NEW s, NEW file, NEW m
  PROVE  LET fixes == Fixes(s, file, m)
         IN /\ IsSeq(fixes) /\ (fixes = <<>> <=> Repairable(s, file, m))
            /\ \A i \in 1..Len(fixes) : fixes[i][1] \in FixKinds
<1> DEFINE to == Repaired(s, file, m)
           First(chunks) == [d \in DOMAIN chunks |-> chunks[d][1]]
           a == <<"data type", s.data_type, to.data_type>>
           b == <<"shape", s.shape, to.shape>>
           c == <<"chunks", First(s.chunks), First(to.chunks)>>
           d == <<"dims", s.dims, to.dims>>
           S == {a, b, c, d}
           p == s.data_type # file.data_type
           q == s.shape # to.shape
           u == s.chunks # to.chunks
           v == s.dims # to.dims
           f1 == IF p THEN <<a>> ELSE <<>>
           f2 == f1 \o (IF q THEN <<b>> ELSE <<>>)
           f3 == f2 \o (IF u THEN <<c>> ELSE <<>>)
           f4 == f3 \o (IF v THEN <<d>> ELSE <<>>)
<1>1. Fixes(s, file, m) = f1 \o (IF q THEN <<b>> ELSE <<>>) \o (IF u THEN <<c>> ELSE <<>>) \o (IF v THEN <<d>> ELSE <<>>)
  BY Zenon DEF Fixes
<1>2. a[1] = "data type" /\ b[1] = "shape" /\ c[1] = "chunks" /\ d[1] = "dims"
  OBVIOUS
<1>3. a[1] \in FixKinds /\ b[1] \in FixKinds /\ c[1] \in FixKinds /\ d[1] \in FixKinds
  BY <1>2 DEF FixKinds
<1>4. p \in BOOLEAN /\ q \in BOOLEAN /\ u \in BOOLEAN /\ v \in BOOLEAN
  OBVIOUS
<1>5. a \in S /\ b \in S /\ c \in S /\ d \in S
  OBVIOUS
<1>6. Repairable(s, file, m) <=> ~p /\ ~q /\ ~u /\ ~v
  BY Zenon DEF Repairable
<1> HIDE DEF a, b, c, d, S, p, q, u, v
<1>7. f1 \in Seq(S) /\ (f1 = <<>> <=> ~p) /\ \A i \in 1..Len(f1) : f1[i][1] \in FixKinds
  BY <1>3, <1>5
<1> HIDE DEF f1
<1>8. f2 \in Seq(S) /\ ((f2 = <<>>) <=> (f1 = <<>> /\ ~q)) /\ \A i \in 1..Len(f2) : f2[i][1] \in FixKinds
  BY <1>3, <1>4, <1>5, <1>7, OneFix
<1> HIDE DEF f2
<1>9. f3 \in Seq(S) /\ ((f3 = <<>>) <=> (f2 = <<>> /\ ~u)) /\ \A i \in 1..Len(f3) : f3[i][1] \in FixKinds
  BY <1>3, <1>4, <1>5, <1>8, OneFix
<1> HIDE DEF f3
<1>10. f4 \in Seq(S) /\ ((f4 = <<>>) <=> (f3 = <<>> /\ ~v)) /\ \A i \in 1..Len(f4) : f4[i][1] \in FixKinds
  BY <1>3, <1>4, <1>5, <1>9, OneFix
<1>11. Fixes(s, file, m) = f4
  BY <1>1 DEF f2, f3
<1> HIDE DEF f4
<1>12. IsSeq(f4)
  BY <1>10 DEF IsSeq
<1> QED  BY <1>6, <1>7, <1>8, <1>9, <1>10, <1>11, <1>12

\* The structure s is that of the files of k, but for its layout.
AgreesAs(k, s) == AsRepaired(k, s) = [s EXCEPT !.layout = AsRepaired(k, s).layout]

\* Comparing a structure: the one that is stored is final and agrees with the files;
\* so does the one that is there if nothing is fixed.
LEMMA Comparing ==
  ASSUME NEW k \in KeySet, case[k] \in Cases[k], NEW s, IsStructure(s)
  PROVE  LET r == AsRepaired(k, s)
             file == case[k].file
             fixes == Fixes(s, file, case[k].multiplier)
         IN /\ IsStructure(r) /\ AsRepaired(k, r) = r /\ AgreesAs(k, r)
            /\ (fixes = <<>> \/ r = s) => AgreesAs(k, s)
            /\ FieldsDiffer(s, file) => fixes # <<>> /\ s.data_type.names # file.data_type.names
            /\ (r = s /\ s.data_type.names = file.data_type.names) => fixes = <<>>
<1> DEFINE r == AsRepaired(k, s)
           file == case[k].file
           m == case[k].multiplier
           fixes == Fixes(s, file, m)
<1>1. Structure(file) /\ m \in Nat
  BY CasesAssumption DEF KeySet
<1>2. r = Repaired(s, file, m)
  BY DEF AsRepaired
<1>3. IsStructure(r) /\ Repaired(r, file, m) = r
  BY <1>1, <1>2, RepairedAgain
<1>4. AsRepaired(k, r) = r
  BY <1>3 DEF AsRepaired
<1>5. AgreesAs(k, r)
  <2>1. r = [r EXCEPT !.layout = r.layout]
    <3> HIDE DEF r
    <3> QED  BY <1>3 DEF IsStructure
  <2> QED  BY <1>4, <2>1 DEF AgreesAs
<1>6. fixes = <<>> <=> Repairable(s, file, m)
  BY FixesFacts
<1>7. r.data_type = TrueType(s, file)
  BY <1>2 DEF Repaired
<1>8. s.data_type.names = file.data_type.names => r.data_type = file.data_type
  BY <1>7 DEF TrueType
<1>9. (fixes = <<>> \/ r = s) => AgreesAs(k, s)
  <2>1. CASE r = s
    BY <2>1, <1>5
  <2>2. CASE fixes = <<>>
    <3>1. s.data_type = file.data_type /\ s.shape = r.shape /\ s.chunks = r.chunks /\ s.dims = r.dims
      BY <1>2, <1>6, <2>2, Zenon DEF Repairable
    <3>2. r.data_type = s.data_type
      BY <3>1, <1>8
    <3>3. r = [s EXCEPT !.layout = r.layout]
      <4> HIDE DEF r
      <4> QED  BY <3>1, <3>2, <1>3 DEF IsStructure
    <3> QED  BY <3>3 DEF AgreesAs
  <2> QED  BY <2>1, <2>2
<1>10. FieldsDiffer(s, file) => fixes # <<>> /\ s.data_type.names # file.data_type.names
  <2> SUFFICES ASSUME FieldsDiffer(s, file)
               PROVE  fixes # <<>> /\ s.data_type.names # file.data_type.names
    OBVIOUS
  <2>1. s.data_type # file.data_type /\ s.data_type.names # <<>>
    BY DEF FieldsDiffer, Structured
  <2>2. fixes # <<>>
    BY <2>1, <1>6 DEF Repairable
  <2>3. s.data_type.names # file.data_type.names
    BY <2>1 DEF FieldsDiffer, Structured
  <2> QED  BY <2>2, <2>3
<1>11. (r = s /\ s.data_type.names = file.data_type.names) => fixes = <<>>
  <2> SUFFICES ASSUME r = s, s.data_type.names = file.data_type.names
               PROVE  fixes = <<>>
    OBVIOUS
  <2>1. s.data_type = file.data_type
    BY <1>8
  <2>2. Repaired(s, file, m) = s
    BY <1>2
  <2> QED  BY <2>1, <2>2, <1>6, Zenon DEF Repairable
<1> QED  BY <1>3, <1>4, <1>5, <1>9, <1>10, <1>11

-----------------------------------------------------------------------------
(***************************************************************************)
(* Notes                                                                   *)
(***************************************************************************)
\* Two sequences have their elements in one set.
LEMMA SeqsOf ==
  ASSUME NEW s, NEW t, IsSeq(s), IsSeq(t)
  PROVE  \E S : s \in Seq(S) /\ t \in Seq(S)
<1> DEFINE S == {s[i] : i \in 1..Len(s)} \cup {t[i] : i \in 1..Len(t)}
           n == Len(s)
           m == Len(t)
<1>1. n \in Nat /\ m \in Nat /\ s = [i \in 1..n |-> s[i]] /\ t = [i \in 1..m |-> t[i]]
  BY DEF IsSeq
<1>2. (\A i \in 1..n : s[i] \in S) /\ (\A i \in 1..m : t[i] \in S)
  OBVIOUS
<1> HIDE DEF S, n, m
<1>3. s \in [1..n -> S] /\ t \in [1..m -> S]
  BY <1>1, <1>2
<1> QED  BY <1>1, <1>3

\* What is appended to a sequence.
LEMMA Concatenated ==
  ASSUME NEW s, NEW t, IsSeq(s), IsSeq(t)
  PROVE  /\ IsSeq(s \o t) /\ Len(s) \in Nat /\ Len(t) \in Nat /\ Len(s \o t) = Len(s) + Len(t)
         /\ \A i \in 1..Len(s) : i \in 1..Len(s \o t) /\ (s \o t)[i] = s[i]
         /\ \A i \in 1..Len(t) : Len(s) + i \in 1..Len(s \o t) /\ (s \o t)[Len(s) + i] = t[i]
         /\ \A i \in 1..Len(s \o t) :
              i \in 1..Len(s) \/ (i - Len(s) \in 1..Len(t) /\ (s \o t)[i] = t[i - Len(s)])
<1>1. PICK S : s \in Seq(S) /\ t \in Seq(S)
  BY SeqsOf
<1> DEFINE u == s \o t
<1>2. /\ u \in Seq(S) /\ Len(u) = Len(s) + Len(t) /\ Len(s) \in Nat /\ Len(t) \in Nat
      /\ \A i \in 1..Len(u) : u[i] = IF i <= Len(s) THEN s[i] ELSE t[i - Len(s)]
  BY <1>1, ConcatProperties
<1> HIDE DEF u
<1>3. IsSeq(u)
  BY <1>2 DEF IsSeq
<1>4. \A i \in 1..Len(s) : i \in 1..Len(u) /\ u[i] = s[i]
  BY <1>2
<1>5. \A i \in 1..Len(u) : i \in 1..Len(s) \/ (i - Len(s) \in 1..Len(t) /\ ~(i <= Len(s)))
  BY <1>2
<1>6. \A i \in 1..Len(t) : Len(s) + i \in 1..Len(u) /\ ~(Len(s) + i <= Len(s)) /\ Len(s) + i - Len(s) = i
  BY <1>2
<1> QED  BY <1>2, <1>3, <1>4, <1>5, <1>6 DEF u

\* One note.
LEMMA OneNote ==
  ASSUME NEW s, IsSeq(s), NEW x
  PROVE  Append(s, x) = s \o <<x>> /\ IsSeq(<<x>>) /\ Len(<<x>>) = 1 /\ <<x>>[1] = x
<1>1. IsSeq(<<x>>)
  BY DEF IsSeq
<1>2. PICK S : s \in Seq(S) /\ <<x>> \in Seq(S)
  BY <1>1, SeqsOf
<1>3. x \in S
  <2>1. <<x>>[1] \in S /\ <<x>>[1] = x
    BY <1>2, ElementOfSeq
  <2> QED  BY <2>1
<1> QED  BY <1>1, <1>2, <1>3, AppendIsConcat

\* No notes.
LEMMA NoNote ==
  ASSUME NEW s, IsSeq(s)
  PROVE  s \o <<>> = s /\ <<>> \o s = s /\ IsSeq(<<>>) /\ Len(<<>>) = 0 /\ 1..0 = {}
<1>1. IsSeq(<<>>)
  BY DEF IsSeq
<1>2. PICK S : s \in Seq(S) /\ <<>> \in Seq(S)
  BY <1>1, SeqsOf
<1> QED  BY <1>1, <1>2, ConcatEmptySeq

\* Every set of naturals has a least element: what follows by induction is
\* proved by looking at the first index at which it would fail.
LEMMA LeastIndex ==
  ASSUME NEW S \in SUBSET Nat, S # {}
  PROVE  \E x \in S : \A y \in S : x <= y
<1> DEFINE Less == {ss \in Nat \X Nat : ss[1] < ss[2]}
<1>1. Less = OpToRel(<, Nat)
  BY Zenon DEF OpToRel
<1>2. IsWellFoundedOn(OpToRel(<, Nat), Nat)
  BY NatLessThanWellFounded
<1>3. IsWellFoundedOn(Less, Nat)
  BY ONLY <1>1, <1>2, Zenon
<1>4. \A x, y \in Nat : <<y, x>> \notin Less => x <= y
  OBVIOUS
<1> HIDE DEF Less
<1>5. \E x \in S : \A y \in S : <<y, x>> \notin Less
  BY <1>3, WFMin
<1> QED  BY <1>4, <1>5

\* The recursion of Merged.
MergeStep(all, f, i) ==
  IF i = 0 THEN <<>>
  ELSE IF \E j \in DOMAIN f[i - 1] : f[i - 1][j] = all[i] THEN f[i - 1]
  ELSE Append(f[i - 1], all[i])
IsMerging(all, f, n) == f = [i \in 0..n |-> MergeStep(all, f, i)]

LEMMA MergingExists ==
  ASSUME NEW all, NEW n \in Nat
  PROVE  \E f : IsMerging(all, f, n)
<1> DEFINE Next1(f, i) == MergeStep(all, f, i)
           Is(f, m) == IsMerging(all, f, m)
           Bad == {m \in Nat : ~\E f : Is(f, m)}
<1>1. ASSUME NEW m \in Bad, \A k \in Bad : m <= k
      PROVE  FALSE
  <2>1. CASE m = 0
    <3> DEFINE g == [i \in 0..0 |-> <<>>]
    <3>1. g = [i \in 0..0 |-> Next1(g, i)]
      BY DEF MergeStep
    <3>2. Is(g, 0)
      BY <3>1 DEF IsMerging
    <3> QED  BY <2>1, <3>2
  <2>2. CASE m # 0
    <3>1. m \in Nat \ {0} /\ m - 1 \in Nat /\ ~(m <= m - 1)
      BY <2>2
    <3>2. \E f : Is(f, m - 1)
      BY <1>1, <3>1
    <3>3. PICK f : Is(f, m - 1)
      BY <3>2
    <3> DEFINE g == [k \in 0..m |-> IF k < m THEN f[k] ELSE Next1(f, m)]
    <3>4. f = [k \in 0..(m - 1) |-> Next1(f, k)]
      BY <3>3 DEF IsMerging
    <3>5. ASSUME NEW k \in 0..m
          PROVE  g[k] = Next1(g, k)
      <4>1. CASE k = 0
        <5>1. 0 \in 0..m /\ 0 < m /\ 0 \in 0..(m - 1)
          BY <3>1
        <5>2. g[0] = f[0]
          BY <5>1
        <5>3. f[0] = Next1(f, 0)
          BY <3>4, <5>1
        <5> QED  BY <4>1, <5>2, <5>3 DEF MergeStep
      <4>2. CASE k # 0
        <5>1. k - 1 \in 0..m /\ k - 1 < m
          BY <3>1, <4>2
        <5>2. g[k - 1] = f[k - 1]
          BY <5>1
        <5>3. Next1(g, k) = Next1(f, k)
          BY <5>2, <4>2 DEF MergeStep
        <5>4. k < m => k \in 0..(m - 1)
          BY <3>1
        <5>5. k < m => f[k] = Next1(f, k)
          BY <3>4, <5>4
        <5>6. ~(k < m) => k = m
          BY <3>1
        <5> QED  BY <5>3, <5>5, <5>6
      <4> QED  BY <4>1, <4>2
    <3>6. g = [k \in 0..m |-> g[k]]
      OBVIOUS
    <3> HIDE DEF g
    <3>7. g = [k \in 0..m |-> Next1(g, k)]
      BY <3>5, <3>6
    <3>8. Is(g, m)
      BY <3>7 DEF IsMerging
    <3> QED  BY <3>8
  <2> QED  BY <2>1, <2>2
<1>2. Bad = {}
  <2>1. Bad \in SUBSET Nat
    OBVIOUS
  <2> HIDE DEF Bad
  <2> QED  BY <2>1, <1>1, LeastIndex
<1> QED  BY <1>2

\* Of the first k notes, each is kept once; of those that only repeat the notes in
\* old, which has no repetitions, the ones in old.
Keeps(S, old, new, k, t) ==
  LET all == old \o new
  IN /\ t \in Seq(S) /\ NoRepeats(t)
     /\ \A j \in 1..k : InRange(all[j], t)
     /\ (NoRepeats(old) /\ \A j \in 1..Len(new) : InRange(new[j], old)) =>
          /\ Len(t) = IF k <= Len(old) THEN k ELSE Len(old)
          /\ \A i \in 1..Len(t) : t[i] = old[i]

LEMMA KeepsOne ==
  ASSUME NEW S, NEW old \in Seq(S), NEW new \in Seq(S), NEW k \in 1..Len(old \o new),
         NEW t, Keeps(S, old, new, k - 1, t)
  PROVE  Keeps(S, old, new, k, IF \E j \in DOMAIN t : t[j] = (old \o new)[k] THEN t
                               ELSE Append(t, (old \o new)[k]))
<1> DEFINE all == old \o new
           x == all[k]
           Only == NoRepeats(old) /\ \A j \in 1..Len(new) : InRange(new[j], old)
           n == Len(old)
<1>1. /\ all \in Seq(S) /\ n \in Nat /\ Len(new) \in Nat /\ Len(all) = n + Len(new)
      /\ \A i \in 1..Len(all) : all[i] = IF i <= n THEN old[i] ELSE new[i - n]
  BY ConcatProperties
<1>2. x \in S /\ k \in 1..Len(all) /\ k \in Nat /\ k - 1 \in Nat
  BY <1>1
<1>3. t \in Seq(S) /\ DOMAIN t = 1..Len(t) /\ Len(t) \in Nat
  BY DEF Keeps
<1>4. x = IF k <= n THEN old[k] ELSE new[k - n]
  BY <1>1
<1>5. k > n => k - n \in 1..Len(new)
  BY <1>1, <1>2
<1>6. NoRepeats(t) /\ \A j \in 1..(k - 1) : InRange(all[j], t)
  BY DEF Keeps
<1>7. ASSUME Only
      PROVE  /\ Len(t) = IF k - 1 <= n THEN k - 1 ELSE n
             /\ \A i \in 1..Len(t) : t[i] = old[i]
  BY <1>7 DEF Keeps
<1>8. \A j \in 1..k : j \in 1..(k - 1) \/ j = k
  BY <1>2
<1>9. ASSUME Only, InRange(x, t)
      PROVE  k > n
  <2>1. SUFFICES ASSUME k <= n PROVE FALSE
    BY <1>1, <1>2
  <2>2. Len(t) = k - 1 /\ x = old[k]
    BY <1>4, <1>7, <1>9, <2>1, <1>2, <1>1
  <2>3. PICK i \in 1..Len(t) : t[i] = x
    BY <1>9 DEF InRange
  <2>4. old[i] = old[k] /\ i \in 1..n /\ k \in 1..n /\ i # k
    BY <1>7, <1>9, <2>1, <2>2, <2>3, <1>1, <1>2
  <2> QED  BY <2>4, <1>9 DEF NoRepeats
<1>10. ASSUME Only, ~InRange(x, t)
       PROVE  k <= n
  <2>1. SUFFICES ASSUME k > n PROVE FALSE
    BY <1>1, <1>2
  <2>2. Len(t) = n
    BY <1>7, <1>10, <2>1, <1>1, <1>2
  <2>3. InRange(x, old)
    BY <1>4, <1>5, <1>10, <2>1, <1>1, <1>2
  <2>4. PICK i \in 1..n : old[i] = x
    BY <2>3 DEF InRange
  <2>5. i \in 1..Len(t) /\ t[i] = x
    BY <1>7, <1>10, <2>2, <2>4
  <2> QED  BY <2>5, <1>10 DEF InRange
<1> HIDE DEF x
<1>11. CASE InRange(x, t)
  <2>1. \A j \in 1..k : InRange(all[j], t)
    BY <1>6, <1>8, <1>11 DEF x
  <2>2. Only => Len(t) = IF k <= n THEN k ELSE n
    <3>1. Only => k > n /\ Len(t) = IF k - 1 <= n THEN k - 1 ELSE n
      BY <1>7, <1>9, <1>11
    <3> QED  BY <3>1, <1>1, <1>2
  <2>3. Keeps(S, old, new, k, t)
    BY <1>3, <1>6, <1>7, <2>1, <2>2 DEF Keeps
  <2>4. \E j \in DOMAIN t : t[j] = x
    BY <1>3, <1>11 DEF InRange
  <2> QED  BY <2>3, <2>4 DEF x
<1>12. CASE ~InRange(x, t)
  <2> DEFINE u == Append(t, x)
  <2>1. /\ u \in Seq(S) /\ Len(u) = Len(t) + 1
        /\ \A i \in 1..Len(t) : u[i] = t[i]
        /\ u[Len(t) + 1] = x
    BY <1>2, <1>3, AppendProperties
  <2> HIDE DEF u
  <2>2. \A i \in 1..Len(u) : i \in 1..Len(t) \/ i = Len(t) + 1
    BY <1>3, <2>1
  <2>3. NoRepeats(u)
    BY <1>6, <1>12, <2>1, <2>2 DEF NoRepeats, InRange
  <2>4. ASSUME NEW j \in 1..k  PROVE InRange(all[j], u)
    <3>1. Len(t) + 1 \in 1..Len(u) /\ \A i \in 1..Len(t) : i \in 1..Len(u)
      BY <1>3, <2>1
    <3>2. CASE j = k
      BY <3>1, <3>2, <2>1 DEF InRange, x
    <3>3. CASE j \in 1..(k - 1)
      <4>1. PICK i \in 1..Len(t) : t[i] = all[j]
        BY <3>3, <1>6 DEF InRange
      <4> QED  BY <4>1, <3>1, <2>1 DEF InRange
    <3> QED  BY <3>2, <3>3, <1>8
  <2>5. ASSUME Only
        PROVE  /\ Len(u) = IF k <= n THEN k ELSE n
               /\ \A i \in 1..Len(u) : u[i] = old[i]
    <3>1. k <= n /\ Len(t) = k - 1
      BY <2>5, <1>7, <1>10, <1>12, <1>1, <1>2
    <3>2. Len(u) = k /\ u[k] = old[k] /\ Len(t) + 1 = k
      BY <3>1, <2>1, <1>2, <1>4
    <3> QED  BY <3>1, <3>2, <2>1, <2>2, <2>5, <1>7
  <2>6. Keeps(S, old, new, k, u)
    BY <2>1, <2>3, <2>4, <2>5 DEF Keeps
  <2>7. ~\E j \in DOMAIN t : t[j] = x
    BY <1>3, <1>12 DEF InRange
  <2> QED  BY <2>6, <2>7 DEF u, x
<1> QED  BY <1>11, <1>12

\* dict.fromkeys() keeps every note, once.
LEMMA MergedFacts ==
  ASSUME NEW old, NEW new, IsSeq(old), IsSeq(new)
  PROVE  LET t == Merged(old, new)
         IN /\ IsSeq(t) /\ NoRepeats(t)
            /\ \A i \in 1..Len(old) : InRange(old[i], t)
            /\ \A i \in 1..Len(new) : InRange(new[i], t)
            /\ (NoRepeats(old) /\ \A i \in 1..Len(new) : InRange(new[i], old)) => t = old
<1>1. PICK S : old \in Seq(S) /\ new \in Seq(S)
  BY SeqsOf
<1> DEFINE all == old \o new
           N == Len(all)
<1>2. /\ N \in Nat /\ N = Len(old) + Len(new) /\ Len(old) \in Nat /\ Len(new) \in Nat
      /\ \A i \in 1..Len(old) : i \in 1..N /\ all[i] = old[i]
      /\ \A i \in 1..Len(new) : Len(old) + i \in 1..N /\ all[Len(old) + i] = new[i]
  BY Concatenated
<1>3. Merged(old, new) = (CHOOSE f : IsMerging(all, f, N))[N]
  BY Zenon DEF Merged, IsMerging, MergeStep
<1>4. \E f : IsMerging(all, f, N)
  BY <1>2, MergingExists
<1>5. PICK f : IsMerging(all, f, N) /\ Merged(old, new) = f[N]
  BY <1>3, <1>4
<1> HIDE DEF N, all
<1>6. \A i \in 0..N : f[i] = MergeStep(all, f, i)
  <2> DEFINE P(i) == MergeStep(all, f, i)
  <2>1. f = [i \in 0..N |-> P(i)]
    BY <1>5 DEF IsMerging
  <2> HIDE DEF P
  <2>2. \A i \in 0..N : f[i] = P(i)
    BY <2>1
  <2> QED  BY <2>2 DEF P
<1> DEFINE Bad == {k \in 0..N : ~Keeps(S, old, new, k, f[k])}
<1>7. ASSUME NEW k \in Bad, \A j \in Bad : k <= j
      PROVE  FALSE
  <2>1. CASE k = 0
    <3>1. f[0] = <<>>
      <4>1. 0 \in 0..N
        BY <1>2
      <4>2. f[0] = MergeStep(all, f, 0)
        BY <1>6, <4>1, Zenon
      <4> QED  BY <4>2, Zenon DEF MergeStep
    <3> DEFINE none == <<>>
    <3>2. none \in Seq(S) /\ Len(none) = 0 /\ 1..0 = {} /\ 0 <= Len(old)
      BY <1>2
    <3> HIDE DEF none
    <3>3. Keeps(S, old, new, 0, none)
      BY <3>2 DEF Keeps, NoRepeats
    <3> QED  BY <2>1, <3>1, <3>3 DEF none
  <2>2. CASE k # 0
    <3>1. k \in 1..N /\ k - 1 \in 0..N /\ ~(k <= k - 1) /\ k \in 0..N
      BY <1>2, <2>2
    <3>2. Keeps(S, old, new, k - 1, f[k - 1])
      BY <1>7, <3>1
    <3>3. f[k] = IF \E j \in DOMAIN f[k - 1] : f[k - 1][j] = all[k] THEN f[k - 1]
                 ELSE Append(f[k - 1], all[k])
      BY <1>6, <2>2, <3>1, Zenon DEF MergeStep
    <3>4. Keeps(S, old, new, k, f[k])
      <4> DEFINE t == f[k - 1]
                 v == IF \E j \in DOMAIN t : t[j] = (old \o new)[k] THEN t ELSE Append(t, (old \o new)[k])
      <4>1. f[k] = v
        BY <3>3, Zenon DEF all
      <4>2. Keeps(S, old, new, k - 1, t)
        BY <3>2, Zenon
      <4>3. k \in 1..Len(old \o new)
        BY <3>1 DEF N, all
      <4> HIDE DEF t
      <4>4. Keeps(S, old, new, k, v)
        BY <1>1, <4>2, <4>3, KeepsOne, Zenon
      <4> QED  BY <4>1, <4>4, Zenon
    <3> QED  BY <3>4
  <2> QED  BY <2>1, <2>2
<1>8. Bad = {}
  <2>1. Bad \in SUBSET Nat
    BY <1>2
  <2> HIDE DEF Bad
  <2> QED  BY <2>1, <1>7, LeastIndex
<1>9. Keeps(S, old, new, N, f[N])
  BY <1>2, <1>8
<1> DEFINE t == f[N]
<1> HIDE DEF t
<1>10. Keeps(S, old, new, N, t)
  BY <1>9 DEF t
<1>11. t \in Seq(S) /\ NoRepeats(t) /\ Len(t) \in Nat /\ \A j \in 1..N : InRange(all[j], t)
  <2>1. t \in Seq(S) /\ NoRepeats(t) /\ \A j \in 1..N : InRange(all[j], t)
    BY <1>10, Zenon DEF Keeps, all
  <2> QED  BY <2>1
<1>12. IsSeq(t)
  BY <1>11 DEF IsSeq
<1>13. ASSUME NoRepeats(old), \A i \in 1..Len(new) : InRange(new[i], old)
       PROVE  t = old
  <2>1. /\ Len(t) = IF N <= Len(old) THEN N ELSE Len(old)
        /\ \A i \in 1..Len(t) : t[i] = old[i]
    BY <1>10, <1>13 DEF Keeps
  <2>2. Len(t) = Len(old)
    BY <2>1, <1>2
  <2>3. \A i \in 1..Len(old) : t[i] = old[i]
    BY <2>1, <2>2
  <2> QED  BY <2>2, <2>3, <1>1, <1>11, SeqEqual
<1>14. (\A i \in 1..Len(old) : InRange(old[i], t)) /\ \A i \in 1..Len(new) : InRange(new[i], t)
  BY <1>2, <1>11
<1>15. Merged(old, new) = t
  BY <1>5 DEF t
<1> QED  BY <1>11, <1>12, <1>13, <1>14, <1>15

\* What is noted stays noted when notes are appended, and so do notes themselves.
LEMMA NotedMore ==
  ASSUME NEW s, NEW t, IsSeq(s), IsSeq(t)
  PROVE  /\ \A k, kinds : NotedIn(s, k, kinds) \/ NotedIn(t, k, kinds) => NotedIn(s \o t, k, kinds)
         /\ \A x : InRange(x, s) \/ InRange(x, t) => InRange(x, s \o t)
<1> DEFINE u == s \o t
<1>1. /\ \A i \in 1..Len(s) : i \in 1..Len(u) /\ u[i] = s[i]
      /\ \A i \in 1..Len(t) : Len(s) + i \in 1..Len(u) /\ u[Len(s) + i] = t[i]
  BY Concatenated
<1> HIDE DEF u
<1>2. ASSUME NEW k, NEW kinds, NotedIn(s, k, kinds) \/ NotedIn(t, k, kinds)
      PROVE  NotedIn(u, k, kinds)
  <2>1. CASE NotedIn(s, k, kinds)
    BY <1>1, <2>1 DEF NotedIn
  <2>2. CASE NotedIn(t, k, kinds)
    <3>1. PICK i \in 1..Len(t) : t[i][1] = k /\ t[i][2] \in kinds
      BY <2>2 DEF NotedIn
    <3> QED  BY <1>1, <3>1 DEF NotedIn
  <2> QED  BY <1>2, <2>1, <2>2
<1>3. ASSUME NEW x, InRange(x, s) \/ InRange(x, t)
      PROVE  InRange(x, u)
  <2>1. CASE InRange(x, s)
    BY <1>1, <2>1 DEF InRange
  <2>2. CASE InRange(x, t)
    <3>1. PICK i \in 1..Len(t) : t[i] = x
      BY <2>2 DEF InRange
    <3> QED  BY <1>1, <3>1 DEF InRange
  <2> QED  BY <1>3, <2>1, <2>2
<1> QED  BY <1>2, <1>3 DEF u

-----------------------------------------------------------------------------
(***************************************************************************)
(* One key is compared or read                                             *)
(***************************************************************************)
\* The next step; the current key is the only one that may have been compared by it.
LEMMA ProceedFacts ==
  ASSUME TypeOK, step \in {"structure", "reading"}, Proceed
  PROVE  /\ step' \in {"structure", "reading", "notes"} /\ at' \in Nat
         /\ step' \in {"structure", "reading"} => at' \in 1..Len(Keys)
         /\ \A i \in 1..Len(Keys) : Compared(i)' => Compared(i) \/ (step = "structure" /\ i = at)
         /\ Key \in KeySet /\ options' = options
<1>1. Len(Keys) \in Nat /\ at \in 1..Len(Keys) /\ options' = options
  BY KeyFacts DEF TypeOK, Proceed, given
<1>2. Key \in KeySet
  BY <1>1, KeyFacts DEF Key
<1>3. CASE step = "structure" /\ options.read /\ ~options.remote
  BY <1>1, <1>2, <1>3 DEF Proceed, Compared
<1>4. CASE ~(step = "structure" /\ options.read /\ ~options.remote) /\ at < Len(Keys)
  <2>1. step' = (IF options.remote THEN step ELSE "structure") /\ at' = at + 1
    BY <1>4 DEF Proceed
  <2> QED  BY <1>1, <1>2, <1>4, <2>1 DEF Compared
<1>5. CASE ~(step = "structure" /\ options.read /\ ~options.remote) /\ ~(at < Len(Keys))
  <2>1. at = Len(Keys)
    BY <1>1, <1>5
  <2>2. \/ step = "structure" /\ options.read /\ options.remote /\ step' = "reading" /\ at' = 1
        \/ ~(step = "structure" /\ options.read /\ options.remote) /\ step' = "notes" /\ at' = at
    BY <1>5 DEF Proceed
  <2>3. \A i \in 1..Len(Keys) : i < at \/ i = at
    BY <1>1, <2>1
  <2>4. \A i \in 1..Len(Keys) : Compared(i) \/ (step = "structure" /\ i = at)
    BY <1>1, <2>1, <2>3 DEF Compared
  <2> QED  BY <1>1, <1>2, <2>2, <2>4
<1> QED  BY <1>3, <1>4, <1>5

\* What is known when a call repeats one that settled the run.
LEMMA RepeatedFacts ==
  ASSUME IInv, Repeated
  PROVE  /\ \A k \in KeySet :
              /\ k \in present => Final(Where, k, structure[k])
              /\ (Where = "local" /\ k \notin present) => InRange(<<k, "failed", "asset">>, before.notes)
         /\ Where = "local" => NoRepeats(before.notes)
<1>1. before.settled = Where /\ before.present = present /\ structure = before.structure
  BY DEF IInv, Repeated, Repeating
<1>2. Where # "no"
  BY DEF Where
<1>3. Settled(Where, before)
  BY <1>1, <1>2 DEF IInv, SettledFacts
<1> QED  BY <1>1, <1>3 DEF Settled

\* A key is compared or read, and the call goes on.
LEMMA OneKey ==
  ASSUME IInv, step \in {"structure", "reading"}, Proceed, NEW s, NEW add,
         structure' = [structure EXCEPT ![Key] = s], s \in {structure[Key], Fixed},
         found' = found \o add, IsSeq(add), faults' \in {faults, faults + 1},
         step = "structure" => AgreesAs(Key, s) \/ NotedIn(add, Key, {"failed", "ignored"}),
         (~options.remote /\ s # structure[Key]) => NotedIn(add, Key, FixKinds \cup {"failed"}),
         (step = "structure" /\ options.fix /\ faults' = faults) =>
            /\ Key \in present => Final(Where, Key, s)
            /\ (Where = "local" /\ Key \notin present) => InRange(<<Key, "failed", "asset">>, add),
         (Repeated /\ faults' = faults) =>
            /\ s = structure[Key]
            /\ (options.fix /\ NamesAgree) =>
                 \A i \in 1..Len(add) :
                   IF options.remote THEN add[i][2] = "ignored" ELSE InRange(add[i], before.notes)
  PROVE  IInv'
<1> DEFINE key == Key
<1>1. /\ step' \in {"structure", "reading", "notes"} /\ at' \in Nat
      /\ step' \in {"structure", "reading"} => at' \in 1..Len(Keys)
      /\ \A i \in 1..Len(Keys) : Compared(i)' => Compared(i) \/ (step = "structure" /\ i = at)
      /\ key \in KeySet /\ key = Keys[at]
  BY ProceedFacts DEF IInv, Key
<1>2. /\ UNCHANGED <<case, options, present, notes, result, refused, before, settled, noted>>
      /\ Where' = Where /\ step' # "idle" /\ step # "idle"
  BY <1>1 DEF Proceed, given, Where
<1>3. TypeOK
  BY DEF IInv
<1>4. /\ IsStructure(structure[key]) /\ case[key] \in Cases[key]
      /\ \A k \in KeySet : structure'[k] = IF k = key THEN s ELSE structure[k]
      /\ DOMAIN structure' = KeySet /\ structure' = [k \in KeySet |-> structure'[k]]
  BY <1>1, <1>3 DEF TypeOK
<1>5. Fixed = AsRepaired(key, structure[key])
  BY DEF Fixed, AsRepaired
<1>6. /\ IsStructure(Fixed) /\ AsRepaired(key, Fixed) = Fixed /\ AgreesAs(key, Fixed)
  BY <1>1, <1>4, <1>5, Comparing
<1>7. IsStructure(s) /\ (AgreesAs(key, structure[key]) => AgreesAs(key, s))
      /\ \A w : Final(w, key, structure[key]) => Final(w, key, s)
  BY <1>4, <1>6 DEF Final
<1>8. IsSeq(found) /\ IsSeq(notes) /\ faults \in Nat /\ before.faults \in Nat /\ before.faults <= faults
  BY <1>3 DEF TypeOK
<1>9. /\ IsSeq(found')
      /\ \A k, kinds : NotedIn(found, k, kinds) \/ NotedIn(add, k, kinds) => NotedIn(found', k, kinds)
      /\ \A x : InRange(x, found) \/ InRange(x, add) => InRange(x, found')
      /\ \A i \in 1..Len(found') :
           (i \in 1..Len(found) /\ found'[i] = found[i]) \/ (i - Len(found) \in 1..Len(add) /\ found'[i] = add[i - Len(found)])
  <2>1. IsSeq(found')
    BY <1>8, Concatenated
  <2>2. \A k, kinds : NotedIn(found, k, kinds) \/ NotedIn(add, k, kinds) => NotedIn(found', k, kinds)
    BY <1>8, NotedMore
  <2>3. \A x : InRange(x, found) \/ InRange(x, add) => InRange(x, found')
    BY <1>8, NotedMore
  <2>4. /\ \A i \in 1..Len(found) : found'[i] = found[i]
        /\ \A i \in 1..Len(found') :
             i \in 1..Len(found) \/ (i - Len(found) \in 1..Len(add) /\ found'[i] = add[i - Len(found)])
    BY <1>8, Concatenated
  <2> QED  BY <2>1, <2>2, <2>3, <2>4
<1>10. ASSUME before.faults = faults'  PROVE faults' = faults
  BY <1>8, <1>10
<1> HIDE DEF key
<1>11. TypeOK'
  <2>1. \A k \in KeySet : IsStructure(structure'[k])
    BY <1>3, <1>4, <1>7 DEF TypeOK
  <2>2. faults' \in Nat /\ before.faults <= faults'
    BY <1>8
  <2> QED  BY <1>1, <1>2, <1>3, <1>4, <1>9, <2>1, <2>2 DEF TypeOK
<1>12. Answered'
  <2>1. ASSUME NEW i \in 1..Len(Keys), Compared(i)'
        PROVE  AgreesAs(Keys[i], structure'[Keys[i]]) \/ NotedIn(found', Keys[i], {"failed", "ignored"})
    <3>1. Keys[i] \in KeySet
      BY KeyFacts
    <3>2. CASE Compared(i)
      <4>1. AgreesAs(Keys[i], structure[Keys[i]]) \/ NotedIn(found, Keys[i], {"failed", "ignored"})
        BY <1>2, <3>2, Zenon DEF IInv, Answered, Agrees, AgreesAs, AsRepaired
      <4>2. CASE NotedIn(found, Keys[i], {"failed", "ignored"})
        BY <4>2, <1>9
      <4>3. CASE AgreesAs(Keys[i], structure[Keys[i]])
        BY <4>3, <3>1, <1>4, <1>7
      <4> QED  BY <4>1, <4>2, <4>3
    <3>3. CASE step = "structure" /\ i = at
      <4>1. Keys[i] = key /\ structure'[Keys[i]] = s
        BY <3>3, <1>1, <1>4
      <4>2. AgreesAs(key, s) \/ NotedIn(add, key, {"failed", "ignored"})
        BY <3>3 DEF key
      <4> QED  BY <4>1, <4>2, <1>9
    <3> QED  BY <2>1, <3>2, <3>3, <1>1
  <2>2. \A i \in 1..Len(Keys) : Compared(i)' => Agrees(Keys[i])' \/ NotedIn(found', Keys[i], {"failed", "ignored"})
    <3>1. \A k : AgreesAs(k, structure'[k]) => Agrees(k)'
      BY <1>2, Zenon DEF Agrees, AgreesAs, AsRepaired
    <3> QED  BY <2>1, <3>1
  <2> QED  BY <1>2, <2>2 DEF Answered
<1>13. Repairs'
  <2>1. ASSUME noted, ~options.remote, NEW k \in KeySet, structure'[k] # case[k].stored
        PROVE  NotedIn(notes, k, FixKinds \cup {"failed"}) \/ NotedIn(found', k, FixKinds \cup {"failed"})
    <3>1. CASE k = key /\ s # structure[key]
      BY <3>1, <2>1, <1>9 DEF key
    <3>2. CASE structure'[k] = structure[k]
      <4>1. NotedIn(notes, k, FixKinds \cup {"failed"}) \/ NotedIn(found, k, FixKinds \cup {"failed"})
        BY <2>1, <3>2 DEF IInv, Repairs
      <4> QED  BY <4>1, <1>9
    <3> QED  BY <3>1, <3>2, <1>4
  <2> QED  BY <1>2, <2>1 DEF Repairs
<1>14. Settling'
  <2>1. ASSUME options.fix, before.present = present, before.faults = faults', NEW i \in 1..Len(Keys), Compared(i)'
        PROVE  /\ Keys[i] \in present => Final(Where, Keys[i], structure'[Keys[i]])
               /\ (Where = "local" /\ Keys[i] \notin present) => InRange(<<Keys[i], "failed", "asset">>, found')
    <3>1. Keys[i] \in KeySet /\ faults' = faults
      BY KeyFacts, <2>1, <1>10
    <3>2. CASE Compared(i)
      <4>1. /\ Keys[i] \in present => Final(Where, Keys[i], structure[Keys[i]])
            /\ (Where = "local" /\ Keys[i] \notin present) => InRange(<<Keys[i], "failed", "asset">>, found)
        BY <1>2, <2>1, <3>1, <3>2, Zenon DEF IInv, Settling
      <4>2. Final(Where, Keys[i], structure[Keys[i]]) => Final(Where, Keys[i], structure'[Keys[i]])
        BY <3>1, <1>4, <1>7
      <4> QED  BY <4>1, <4>2, <1>9
    <3>3. CASE step = "structure" /\ i = at
      <4>1. Keys[i] = key /\ structure'[Keys[i]] = s
        BY <3>3, <1>1, <1>4
      <4>2. /\ key \in present => Final(Where, key, s)
            /\ (Where = "local" /\ key \notin present) => InRange(<<key, "failed", "asset">>, add)
        BY <2>1, <3>1, <3>3 DEF key
      <4> QED  BY <4>1, <4>2, <1>9
    <3> QED  BY <2>1, <3>2, <3>3, <1>1
  <2>2. \A k : Final(Where, k, structure'[k]) => Final(Where, k, structure[k])'
    BY <1>2, Zenon DEF Final, AsRepaired
  <2>3. ASSUME options'.fix, before'.present = present', before'.faults = faults',
               NEW i \in 1..Len(Keys), Compared(i)'
        PROVE  /\ Keys[i] \in present' => Final(Where, Keys[i], structure[Keys[i]])'
               /\ (Where' = "local" /\ Keys[i] \notin present') => InRange(<<Keys[i], "failed", "asset">>, found')
    <3>1. options.fix /\ before.present = present /\ before.faults = faults'
      BY <1>2, <2>3
    <3> QED  BY <1>2, <2>1, <2>2, <2>3, <3>1
  <2> QED  BY <2>3, Zenon DEF Settling
<1>15. Repeating'
  <2>1. ASSUME Repeated'
        PROVE  /\ structure' = structure /\ structure = before.structure /\ notes = before.notes
               /\ (options.fix /\ NamesAgree) =>
                    \A i \in 1..Len(found') :
                      IF options.remote THEN found'[i][2] = "ignored" ELSE InRange(found'[i], before.notes)
    <3>1. Repeated /\ faults' = faults
      BY <2>1, <1>2, <1>10 DEF Repeated
    <3>2. /\ structure = before.structure /\ notes = before.notes
          /\ (options.fix /\ NamesAgree) =>
                 \A i \in 1..Len(found) :
                   IF options.remote THEN found[i][2] = "ignored" ELSE InRange(found[i], before.notes)
      BY <3>1, <1>2 DEF IInv, Repeating
    <3>3. structure' = structure
      <4>1. s = structure[key]
        BY <3>1 DEF key
      <4> QED  BY <4>1, <1>3, <1>4 DEF TypeOK
    <3>4. ASSUME options.fix, NamesAgree, NEW i \in 1..Len(found')
          PROVE  IF options.remote THEN found'[i][2] = "ignored" ELSE InRange(found'[i], before.notes)
      <4>1. CASE i \in 1..Len(found) /\ found'[i] = found[i]
        BY <3>2, <3>4, <4>1
      <4>2. CASE i - Len(found) \in 1..Len(add) /\ found'[i] = add[i - Len(found)]
        BY <3>1, <3>4, <4>2
      <4> QED  BY <4>1, <4>2, <1>9
    <3> QED  BY <3>2, <3>3, <3>4
  <2>2. Repeated' => (NamesAgree' <=> NamesAgree)
    BY <1>2, <2>1 DEF NamesAgree
  <2> QED  BY <1>2, <2>1, <2>2 DEF Repeating
<1>16. SettledFacts'
  <2>1. before.settled # "no" => Settled(before.settled, before)
    BY DEF IInv, SettledFacts
  <2>2. IsSeq(before.notes)
    BY DEF IInv, SettledFacts
  <2>3. \A w, n : Settled(w, n) => Settled(w, n)'
    BY <1>2, Zenon DEF Settled, Final, AsRepaired
  <2>4. before'.settled # "no" => Settled(before.settled, before)'
    BY <1>2, <2>1, <2>3
  <2> QED  BY <1>2, <2>2, <2>4 DEF SettledFacts
<1> QED  BY <1>11, <1>12, <1>13, <1>14, <1>15, <1>16 DEF IInv

-----------------------------------------------------------------------------
(***************************************************************************)
(* A call ends                                                             *)
(***************************************************************************)
\* Notes that have not changed, or have been followed by ignored errors.
LEMMA OnlyIgnoredFacts ==
  ASSUME NEW s, NEW t, IsSeq(s), IsSeq(t), \A i \in 1..Len(t) : t[i][2] = "ignored"
  PROVE  OnlyIgnored(s, s) /\ OnlyIgnored(s \o t, s)
<1>1. OnlyIgnored(s, s)
  <2>1. Len(s) \in Nat
    BY DEF IsSeq
  <2> QED  BY <2>1 DEF OnlyIgnored, IsPrefix
<1>2. OnlyIgnored(s \o t, s)
  <2> DEFINE u == s \o t
  <2>1. /\ IsSeq(u) /\ Len(s) \in Nat /\ Len(t) \in Nat /\ Len(u) = Len(s) + Len(t)
        /\ \A i \in 1..Len(s) : u[i] = s[i]
        /\ \A i \in 1..Len(u) : i \in 1..Len(s) \/ (i - Len(s) \in 1..Len(t) /\ u[i] = t[i - Len(s)])
    BY Concatenated
  <2> HIDE DEF u
  <2>2. DOMAIN u = 1..Len(u) /\ DOMAIN s = 1..Len(s)
    BY <2>1 DEF IsSeq
  <2>3. PICK S : s \in Seq(S) /\ u \in Seq(S)
    BY <2>1, SeqsOf
  <2>4. SubSeq(s, 1, Len(s)) = SubSeq(u, 1, Len(s))
    <3>1. SubSeq(s, 1, Len(s)) = [i \in 1..Len(s) |-> s[i]] /\ SubSeq(u, 1, Len(s)) = [i \in 1..Len(s) |-> u[i]]
      <4>1. 1 - 1 = 0 /\ \A i \in 1..Len(s) : i + 1 - 1 = i
        BY <2>1
      <4> QED  BY <2>1, <2>3, <4>1
    <3> QED  BY <2>1, <3>1
  <2>5. IsPrefix(s, u)
    BY <2>1, <2>4 DEF IsPrefix
  <2>6. \A i \in DOMAIN u \ DOMAIN s : u[i][2] = "ignored"
    BY <2>1, <2>2
  <2> QED  BY <2>5, <2>6 DEF OnlyIgnored, u
<1> QED  BY <1>1, <1>2

\* A call that leaves nothing settled: it raises, the server finds the run not valid,
\* or the notes are refused.
LEMMA EndsUnsettled ==
  ASSUME IInv, step # "idle", NEW outcome \in {"raised", "false", "true"}, Returns(outcome), refused' \in BOOLEAN,
         outcome # "raised" => options.remote,
         outcome = "true" => step = "notes" /\ ~options.raise /\ refused' /\ structure' = structure /\ faults' # faults,
         DOMAIN structure' = KeySet, structure' = [k \in KeySet |-> structure'[k]],
         \A k \in KeySet : IsStructure(structure'[k]),
         IsSeq(notes'), faults' \in {faults, faults + 1},
         faults' = faults => structure' = structure /\ notes' = notes
  PROVE  IInv'
<1>1. /\ step' = "idle" /\ result' = outcome
      /\ UNCHANGED <<case, options, present, at, found, before>>
      /\ Where' = Where
  BY DEF Ends, Returns, given, Where
<1>2. TypeOK
  BY DEF IInv
<1>3. settled' = "no" /\ noted' = FALSE
  <2>1. ~(/\ outcome \in (IF options.remote THEN {"true"} ELSE {"true", "false"})
          /\ options.fix /\ options.write /\ Quiet)
    <3>1. CASE outcome = "true"
      <4>1. before.faults <= faults /\ faults' = faults + 1 /\ faults \in Nat /\ before.faults \in Nat
        BY <1>2, <3>1 DEF TypeOK
      <4>2. before.faults # faults'
        BY <4>1
      <4> QED  BY <4>2 DEF Quiet
    <3>2. CASE outcome # "true"
      BY <3>2
    <3> QED  BY <3>1, <3>2
  <2>2. ~(noted /\ ~options.remote /\ options.write /\ outcome # "raised")
    OBVIOUS
  <2> QED  BY <2>1, <2>2 DEF Returns
<1>4. faults \in Nat /\ before.faults \in Nat /\ before.faults <= faults
  BY <1>2 DEF TypeOK
<1>5. TypeOK'
  <2>1. faults' \in Nat /\ before.faults <= faults' /\ result' \in {"true", "false", "raised"}
    BY <1>1, <1>4
  <2>2. settled' \in {"no", "local", "remote"} /\ noted' \in BOOLEAN
    BY <1>3
  <2>3. \A k \in KeySet : case'[k] \in Cases[k]
    BY <1>1, <1>2 DEF TypeOK
  <2> QED  BY <1>1, <1>2, <2>1, <2>2, <2>3 DEF TypeOK
<1>6. Answered'
  <2>1. ASSUME outcome = "true", NEW k \in KeySet
        PROVE  Agrees(k)' \/ WarnedOnly(k)'
    <3>1. \A i \in 1..Len(Keys) : Compared(i)
      BY <2>1 DEF Compared
    <3>2. Agrees(k) \/ NotedIn(found, k, {"failed", "ignored"})
      BY <2>1, <3>1, KeyFacts DEF IInv, Answered
    <3>3. Agrees(k)' <=> Agrees(k)
      BY <1>1, <2>1 DEF Agrees
    <3> QED  BY <1>1, <2>1, <3>2, <3>3 DEF WarnedOnly
  <2> QED  BY <1>1, <2>1 DEF Answered
<1>7. Repairs'
  BY <1>3 DEF Repairs
<1>8. Settling'
  BY <1>1 DEF Settling
<1>9. Repeating'
  <2>1. ASSUME Repeated'
        PROVE  structure' = before.structure /\ OnlyIgnored(notes', before.notes)
    <3>1. Repeated /\ faults' = faults
      BY <2>1, <1>1, <1>4 DEF Repeated
    <3>2. structure = before.structure /\ notes = before.notes
      BY <3>1 DEF IInv, Repeating
    <3>3. OnlyIgnored(notes, notes)
      <4>1. IsSeq(notes)
        BY <1>2 DEF TypeOK
      <4>2. IsSeq(<<>>) /\ \A i \in 1..Len(<<>>) : <<>>[i][2] = "ignored"
        BY <4>1, NoNote
      <4> QED  BY <4>1, <4>2, OnlyIgnoredFacts
    <3> QED  BY <3>1, <3>2, <3>3
  <2> QED  BY <1>1, <2>1 DEF Repeating
<1>10. SettledFacts'
  <2>1. before.settled # "no" => Settled(before.settled, before)'
    BY <1>1, Zenon DEF IInv, SettledFacts, Settled, Final, AsRepaired
  <2>2. IsSeq(before.notes)
    BY DEF IInv, SettledFacts
  <2> QED  BY <1>1, <1>3, <2>1, <2>2 DEF SettledFacts
<1> QED  BY <1>5, <1>6, <1>7, <1>8, <1>9, <1>10 DEF IInv

\* A call that has compared every key and returns True, or False for what it could not read.
LEMMA EndsRegularly ==
  ASSUME IInv, step = "notes", NEW outcome \in {"true", "false"}, Ends(outcome),
         structure' = structure, faults' = faults, IsSeq(notes'),
         ~options.write => notes' = notes,
         options.write =>
           /\ \A k, kinds : NotedIn(notes, k, kinds) \/ NotedIn(found, k, kinds) => NotedIn(notes', k, kinds)
           /\ Where = "local" => NoRepeats(notes') /\ \A i \in 1..Len(found) : InRange(found[i], notes'),
         (Repeated /\ options.fix /\ NamesAgree) => OnlyIgnored(notes', before.notes)
  PROVE  IInv'
<1>1. /\ step' = "idle" /\ result' = outcome
      /\ UNCHANGED <<case, options, present, at, found, before>>
      /\ Where' = Where
  BY DEF Ends, Returns, given, Where
<1>2. TypeOK
  BY DEF IInv
<1>3. /\ settled' \in {"no", Where} /\ noted' = (noted /\ ~options.remote /\ options.write)
      /\ settled' # "no" => options.fix /\ options.write /\ before.present = present /\ before.faults = faults
  <2>1. outcome # "raised"
    OBVIOUS
  <2>2. noted' = (noted /\ ~options.remote /\ options.write /\ outcome # "raised")
    BY DEF Ends, Returns
  <2>3. noted' = (noted /\ ~options.remote /\ options.write)
    BY <2>1, <2>2
  <2> QED  BY <2>3 DEF Ends, Returns, Quiet
<1>4. \A i \in 1..Len(Keys) : Compared(i)
  BY DEF Compared
<1>5. \A k \in KeySet : \E i \in 1..Len(Keys) : Keys[i] = k
  BY KeyFacts
<1>6. TypeOK'
  <2>1. settled' \in {"no", "local", "remote"} /\ noted' \in BOOLEAN /\ result' \in {"true", "false"}
    BY <1>1, <1>2, <1>3 DEF TypeOK, Where
  <2>2. refused' \in BOOLEAN
    BY DEF Ends
  <2> QED  BY <1>1, <1>2, <2>1, <2>2 DEF TypeOK
<1>7. Answered'
  <2>1. ASSUME options.write, NEW k \in KeySet
        PROVE  Agrees(k)' \/ NotedIn(notes', k, {"failed", "ignored"})
    <3>1. Agrees(k) \/ NotedIn(found, k, {"failed", "ignored"})
      BY <1>4, <1>5 DEF IInv, Answered
    <3>2. Agrees(k)' <=> Agrees(k)
      BY <1>1 DEF Agrees
    <3> QED  BY <2>1, <3>1, <3>2
  <2> QED  BY <1>1, <2>1 DEF Answered
<1>8. Repairs'
  <2>1. ASSUME noted', NEW k \in KeySet, structure[k] # case[k].stored
        PROVE  NotedIn(notes', k, FixKinds \cup {"failed"})
    <3>1. noted /\ ~options.remote /\ options.write
      BY <2>1, <1>3
    <3>2. NotedIn(notes, k, FixKinds \cup {"failed"}) \/ NotedIn(found, k, FixKinds \cup {"failed"})
      BY <2>1, <3>1 DEF IInv, Repairs
    <3> QED  BY <3>1, <3>2
  <2> QED  BY <1>1, <2>1 DEF Repairs
<1>9. Settling'
  BY <1>1 DEF Settling
<1>10. Repeating'
  <2>1. ASSUME Repeated'
        PROVE  structure' = before.structure /\ ((options.fix /\ NamesAgree) => OnlyIgnored(notes', before.notes))
    <3>1. Repeated
      BY <2>1, <1>1 DEF Repeated
    <3> QED  BY <3>1 DEF IInv, Repeating
  <2>2. NamesAgree' <=> NamesAgree
    BY <1>1 DEF NamesAgree
  <2> QED  BY <1>1, <2>1, <2>2 DEF Repeating
<1>11. ASSUME settled' # "no"
       PROVE  Settled(settled, Now)'
  <2>1. settled' = Where /\ options.fix /\ options.write /\ before.present = present /\ before.faults = faults
    BY <1>3, <1>11
  <2>2. ASSUME NEW k \in KeySet
        PROVE  /\ k \in present => Final(Where, k, structure[k])
               /\ (Where = "local" /\ k \notin present) => InRange(<<k, "failed", "asset">>, notes')
    <3>1. /\ k \in present => Final(Where, k, structure[k])
          /\ (Where = "local" /\ k \notin present) => InRange(<<k, "failed", "asset">>, found)
      BY <2>1, <1>4, <1>5 DEF IInv, Settling
    <3>2. ASSUME Where = "local", k \notin present
          PROVE  InRange(<<k, "failed", "asset">>, notes')
      <4>1. PICK i \in 1..Len(found) : found[i] = <<k, "failed", "asset">>
        BY <3>1, <3>2 DEF InRange
      <4>2. InRange(found[i], notes')
        BY <2>1, <3>2
      <4> QED  BY <4>1, <4>2
    <3> QED  BY <3>1, <3>2
  <2>3. Now'.present = present /\ Now'.structure = structure /\ Now'.notes = notes'
    BY <1>1 DEF Now
  <2>4. \A k : Final(Where, k, structure[k]) => Final(Where, k, structure[k])'
    BY <1>1, Zenon DEF Final, AsRepaired
  <2>5. ASSUME NEW k \in KeySet
        PROVE  /\ k \in Now'.present => Final(settled, k, Now.structure[k])'
               /\ (settled' = "local" /\ k \notin Now'.present) => InRange(<<k, "failed", "asset">>, Now'.notes)
    <3>1. Now'.structure[k] = structure'[k]
      BY <2>3
    <3>2. Final(Where, k, structure[k])' => Final(settled, k, Now.structure[k])'
      BY <1>1, <2>1, <3>1, Zenon DEF Final, AsRepaired
    <3> QED  BY <2>1, <2>2, <2>3, <2>4, <3>2
  <2>6. settled' = "local" => NoRepeats(Now'.notes)
    BY <2>1, <2>3
  <2> QED  BY <2>5, <2>6 DEF Settled
<1>12. SettledFacts'
  <2>1. before.settled # "no" => Settled(before.settled, before)'
    BY <1>1, Zenon DEF IInv, SettledFacts, Settled, Final, AsRepaired
  <2>2. IsSeq(before.notes)
    BY DEF IInv, SettledFacts
  <2> QED  BY <1>1, <1>11, <2>1, <2>2 DEF SettledFacts
<1> QED  BY <1>6, <1>7, <1>8, <1>9, <1>10, <1>12 DEF IInv

-----------------------------------------------------------------------------
(***************************************************************************)
(* validate()                                                              *)
(***************************************************************************)
\* What is fixed is noted for the current key.
LEMMA FixNotesFacts ==
  /\ IsSeq(FixNotes)
  /\ Fix # <<>> => \A kinds : FixKinds \subseteq kinds => NotedIn(FixNotes, Key, kinds)
  /\ Fix = <<>> => FixNotes = <<>>
<1> DEFINE n == Len(Fix)
<1>1. IsSeq(Fix) /\ \A i \in 1..Len(Fix) : Fix[i][1] \in FixKinds
  BY FixesFacts DEF Fix
<1>2. n \in Nat /\ Fix = [i \in 1..n |-> Fix[i]] /\ DOMAIN Fix = 1..n
  BY <1>1 DEF IsSeq
<1>3. FixNotes = [i \in 1..n |-> <<Key, Fix[i][1], Fix[i][2], Fix[i][3]>>]
  BY <1>2 DEF FixNotes
<1> HIDE DEF n
<1>4. Len(FixNotes) = n /\ \A i \in 1..n : FixNotes[i] = <<Key, Fix[i][1], Fix[i][2], Fix[i][3]>>
  BY <1>2, <1>3
<1>5. IsSeq(FixNotes)
  BY <1>2, <1>3, <1>4 DEF IsSeq
<1>6. ASSUME Fix # <<>>, NEW kinds, FixKinds \subseteq kinds
      PROVE  NotedIn(FixNotes, Key, kinds)
  <2>1. n # 0
    <3>1. SUFFICES ASSUME n = 0 PROVE FALSE
      OBVIOUS
    <3>2. Fix = <<>>
      BY <1>2, <3>1
    <3> QED  BY <3>2, <1>6
  <2>2. 1 \in 1..n
    BY <1>2, <2>1
  <2>3. Fix[1][1] \in kinds
    BY <1>1, <1>6, <2>2 DEF n
  <2>4. FixNotes[1][1] = Key /\ FixNotes[1][2] = Fix[1][1]
    BY <1>4, <2>2
  <2> QED  BY <1>4, <2>2, <2>3, <2>4 DEF NotedIn
<1>7. ASSUME Fix = <<>>
      PROVE  FixNotes = <<>>
  <2>1. n = 0
    BY <1>7 DEF n
  <2> QED  BY <1>3, <2>1
<1> QED  BY <1>5, <1>6, <1>7

\* The current key, its structure and what is known of comparing it.
LEMMA CurrentKey ==
  ASSUME IInv, step \in {"structure", "reading"}
  PROVE  /\ Key \in KeySet /\ IsStructure(structure[Key])
         /\ structure = [structure EXCEPT ![Key] = structure[Key]]
         /\ \A s : IsStructure(s) =>
              /\ DOMAIN [structure EXCEPT ![Key] = s] = KeySet
              /\ \A k \in KeySet : IsStructure([structure EXCEPT ![Key] = s][k])
              /\ [structure EXCEPT ![Key] = s] = [k \in KeySet |-> [structure EXCEPT ![Key] = s][k]]
         /\ Fixed = AsRepaired(Key, structure[Key]) /\ IsStructure(Fixed)
         /\ AsRepaired(Key, Fixed) = Fixed /\ AgreesAs(Key, Fixed)
         /\ Fix = Fixes(structure[Key], case[Key].file, case[Key].multiplier)
         /\ (Fix = <<>> \/ Fixed = structure[Key]) => AgreesAs(Key, structure[Key])
         /\ FieldsDiffer(structure[Key], case[Key].file) =>
              Fix # <<>> /\ structure[Key].data_type.names # case[Key].file.data_type.names
         /\ (Fixed = structure[Key] /\ NamesAgree) => Fix = <<>>
<1>1. /\ DOMAIN structure = KeySet /\ structure = [k \in KeySet |-> structure[k]]
      /\ \A k \in KeySet : IsStructure(structure[k]) /\ case[k] \in Cases[k]
      /\ at \in 1..Len(Keys)
  BY DEF IInv, TypeOK
<1>2. Key \in KeySet
  BY <1>1, KeyFacts DEF Key
<1> DEFINE key == Key
           s == structure[key]
<1>3. key \in KeySet /\ case[key] \in Cases[key] /\ IsStructure(s)
  BY <1>1, <1>2
<1>4. Fixed = AsRepaired(key, s) /\ Fix = Fixes(s, case[key].file, case[key].multiplier)
  BY DEF Fixed, AsRepaired, Fix
<1>5. NamesAgree => s.data_type.names = case[key].file.data_type.names
  BY <1>3 DEF NamesAgree
<1> HIDE DEF key
<1>6. /\ IsStructure(Fixed) /\ AsRepaired(key, Fixed) = Fixed /\ AgreesAs(key, Fixed)
      /\ (Fix = <<>> \/ Fixed = s) => AgreesAs(key, s)
      /\ FieldsDiffer(s, case[key].file) => Fix # <<>> /\ s.data_type.names # case[key].file.data_type.names
      /\ (Fixed = s /\ s.data_type.names = case[key].file.data_type.names) => Fix = <<>>
  BY <1>3, <1>4, Comparing
<1>7. structure = [structure EXCEPT ![key] = s]
  BY <1>1, <1>3
<1>8. ASSUME NEW t, IsStructure(t)
      PROVE  /\ DOMAIN [structure EXCEPT ![key] = t] = KeySet
             /\ \A k \in KeySet : IsStructure([structure EXCEPT ![key] = t][k])
             /\ [structure EXCEPT ![key] = t] = [k \in KeySet |-> [structure EXCEPT ![key] = t][k]]
  BY <1>1, <1>8
<1> QED  BY <1>3, <1>4, <1>5, <1>6, <1>7, <1>8 DEF key

\* A call that does not touch the notes raises or is not valid.
LEMMA EndsNow ==
  ASSUME IInv, step # "idle", NEW outcome \in {"raised", "false"}, Ends(outcome), UNCHANGED notes,
         outcome = "false" => options.remote,
         faults' \in {faults, faults + 1},
         \/ structure' = structure
         \/ /\ step \in {"structure", "reading"} /\ faults' # faults
            /\ structure' = [structure EXCEPT ![Key] = Fixed]
  PROVE  IInv'
<1>1. TypeOK
  BY DEF IInv
<1>2. /\ DOMAIN structure' = KeySet /\ structure' = [k \in KeySet |-> structure'[k]]
      /\ \A k \in KeySet : IsStructure(structure'[k])
  <2>1. CASE structure' = structure
    BY <1>1, <2>1 DEF TypeOK
  <2>2. CASE step \in {"structure", "reading"} /\ structure' = [structure EXCEPT ![Key] = Fixed]
    BY <2>2, CurrentKey
  <2> QED  BY <2>1, <2>2
<1>3. IsSeq(notes')
  BY <1>1 DEF TypeOK
<1>4. Returns(outcome) /\ refused' \in BOOLEAN
  BY DEF Ends
<1> QED  BY <1>2, <1>3, <1>4, EndsUnsettled

\* An error of the current key, and what else this step does.
LEMMA LocalErrorInvariant ==
  ASSUME IInv, step = "structure", ~options.remote, NEW kind, LocalError(kind),
         NEW s, structure' = [structure EXCEPT ![Key] = s],
         \/ NoFault /\ s = structure[Key]
         \/ faults' = faults + 1 /\ s \in {structure[Key], Fixed},
         faults' = faults =>
           /\ options.fix /\ Key \in present => FieldsDiffer(structure[Key], case[Key].file)
           /\ Key \notin present => kind = "asset"
  PROVE  IInv'
<1> DEFINE note == <<Key, "failed", kind>>
           add == <<note>>
<1>1. faults \in Nat /\ IsSeq(found) /\ Where = "local"
  BY DEF IInv, TypeOK, Where
<1>2. faults' \in {faults, faults + 1} /\ (faults' = faults => s = structure[Key]) /\ s \in {structure[Key], Fixed}
  BY <1>1 DEF NoFault
<1>3. CASE found' = Append(found, note) /\ Proceed
  <2>1. note[1] = Key /\ note[2] = "failed"
    OBVIOUS
  <2> HIDE DEF note
  <2>2. found' = found \o add /\ IsSeq(add) /\ Len(add) = 1 /\ add[1] = note
    BY <1>1, <1>3, OneNote
  <2> HIDE DEF add
  <2>3. \A kinds : "failed" \in kinds => NotedIn(add, Key, kinds)
    <3>1. 1 \in 1..Len(add)
      BY <2>2
    <3> QED  BY <2>1, <2>2, <3>1 DEF NotedIn
  <2>4. NotedIn(add, Key, {"failed", "ignored"}) /\ NotedIn(add, Key, FixKinds \cup {"failed"})
    BY <2>3
  <2>5. ASSUME options.fix, faults' = faults
        PROVE  /\ Key \in present => Final(Where, Key, s)
               /\ Key \notin present => InRange(<<Key, "failed", "asset">>, add)
    <3>1. Key \in present => Final(Where, Key, s)
      BY <1>1, <1>2, <2>5 DEF Final
    <3>2. Key \notin present => note = <<Key, "failed", "asset">>
      BY <2>5 DEF note
    <3>3. 1 \in 1..Len(add)
      BY <2>2
    <3> QED  BY <2>2, <3>1, <3>2, <3>3 DEF InRange
  <2>6. ASSUME Repeated, faults' = faults, options.fix, NamesAgree, NEW i \in 1..Len(add)
        PROVE  InRange(add[i], before.notes)
    <3>1. Key \notin present
      <4>1. ~FieldsDiffer(structure[Key], case[Key].file)
        BY <2>6, CurrentKey DEF NamesAgree
      <4> QED  BY <2>6, <4>1
    <3>2. InRange(<<Key, "failed", "asset">>, before.notes)
      BY <1>1, <2>6, <3>1, RepeatedFacts, CurrentKey
    <3>3. i = 1 /\ note = <<Key, "failed", "asset">>
      BY <2>2, <2>6, <3>1 DEF note
    <3> QED  BY <2>2, <3>2, <3>3
  <2> QED  BY <1>2, <1>3, <2>2, <2>4, <2>5, <2>6, OneKey
<1>4. CASE Raises
  <2>1. Ends("raised") /\ UNCHANGED notes
    BY <1>4 DEF Raises
  <2>2. structure' = structure \/ (faults' # faults /\ structure' = [structure EXCEPT ![Key] = Fixed])
    BY <1>2, CurrentKey
  <2> QED  BY <1>2, <2>1, <2>2, EndsNow
<1> QED  BY <1>3, <1>4 DEF LocalError

LEMMA LocalStructureInvariant ==
  ASSUME IInv, LocalStructure
  PROVE  IInv'
<1>1. ~options.remote /\ step = "structure" /\ faults' = faults /\ Where = "local"
  BY DEF LocalStructure, NoFault, Where
<1>2. CASE Valid /\ structure' = [structure EXCEPT ![Key] = IF Fix = <<>> THEN @ ELSE Fixed]
           /\ found' = found \o FixNotes /\ Proceed
  <2> DEFINE s == IF Fix = <<>> THEN structure[Key] ELSE Fixed
  <2>1. structure' = [structure EXCEPT ![Key] = s]
    BY <1>2
  <2>2. Key \in present /\ ~Mismatch /\ s \in {structure[Key], Fixed}
    BY <1>2 DEF Valid
  <2>3. AgreesAs(Key, s) /\ Final(Where, Key, s)
    <3>1. CASE Fix = <<>>
      <4>1. s = structure[Key]
        BY <3>1
      <4>2. Fixes(structure[Key], case[Key].file, case[Key].multiplier) = <<>>
        BY <3>1 DEF Fix
      <4> HIDE DEF s
      <4>3. AgreesAs(Key, structure[Key])
        BY <1>1, <3>1, CurrentKey
      <4> QED  BY <1>1, <4>1, <4>2, <4>3 DEF Final
    <3>2. CASE Fix # <<>>
      <4>1. s = Fixed
        BY <3>2
      <4>2. AsRepaired(Key, Fixed) = Fixed /\ AgreesAs(Key, Fixed)
        BY <1>1, CurrentKey
      <4> HIDE DEF s
      <4> QED  BY <4>1, <4>2 DEF Final
    <3> QED  BY <3>1, <3>2
  <2>4. s # structure[Key] => Fix # <<>>
    OBVIOUS
  <2>5. s # structure[Key] => NotedIn(FixNotes, Key, FixKinds \cup {"failed"})
    BY <2>4, FixNotesFacts
  <2>6. ASSUME Repeated
        PROVE  /\ s = structure[Key]
               /\ NamesAgree => \A i \in 1..Len(FixNotes) : InRange(FixNotes[i], before.notes)
    <3>1. Final(Where, Key, structure[Key])
      BY <1>1, <2>2, <2>6, RepeatedFacts, CurrentKey
    <3>2. Fix = <<>> \/ Fixed = structure[Key]
      <4>1. \/ AsRepaired(Key, structure[Key]) = structure[Key]
            \/ Fixes(structure[Key], case[Key].file, case[Key].multiplier) = <<>>
            \/ FieldsDiffer(structure[Key], case[Key].file)
        BY <3>1, Zenon DEF Final
      <4>2. FieldsDiffer(structure[Key], case[Key].file) => Mismatch
        BY <1>1, <2>2, CurrentKey DEF Mismatch
      <4> QED  BY <1>1, <2>2, <4>1, <4>2, CurrentKey
    <3>3. NamesAgree => Fix = <<>>
      BY <1>1, <3>2, CurrentKey
    <3>4. Fix = <<>> => FixNotes = <<>>
      BY FixNotesFacts
    <3>5. FixNotes = <<>> => 1..Len(FixNotes) = {}
      OBVIOUS
    <3> QED  BY <3>2, <3>3, <3>4, <3>5
  <2>7. IsSeq(FixNotes)
    BY FixNotesFacts
  <2>8. faults' \in {faults, faults + 1}
    BY <1>1
  <2> HIDE DEF s
  <2> QED  BY <1>1, <1>2, <2>1, <2>2, <2>3, <2>5, <2>6, <2>7, <2>8, OneKey
<1>3. CASE Asset /\ LocalError("asset") /\ UNCHANGED structure
  <2>1. structure' = [structure EXCEPT ![Key] = structure[Key]]
    BY <1>1, <1>3, CurrentKey
  <2>2. Key \notin present
    BY <1>3 DEF Asset
  <2> QED  BY <1>1, <1>3, <2>1, <2>2, LocalErrorInvariant DEF NoFault
<1>4. CASE Mismatch /\ LocalError("structure") /\ UNCHANGED structure
  <2>1. structure' = [structure EXCEPT ![Key] = structure[Key]]
    BY <1>1, <1>4, CurrentKey
  <2>2. Key \in present /\ (options.fix => FieldsDiffer(structure[Key], case[Key].file))
    BY <1>4 DEF Mismatch
  <2> QED  BY <1>1, <1>4, <2>1, <2>2, LocalErrorInvariant DEF NoFault
<1> QED  BY <1>2, <1>3, <1>4 DEF LocalStructure

LEMMA LocalStructureFailsInvariant ==
  ASSUME IInv, LocalStructureFails
  PROVE  IInv'
<1>1. ~options.remote /\ step = "structure" /\ faults' = faults + 1 /\ LocalError("other")
  BY DEF LocalStructureFails, Fault
<1>2. faults \in Nat
  BY DEF IInv, TypeOK
<1>3. faults' # faults
  BY <1>1, <1>2
<1>4. CASE UNCHANGED structure
  <2>1. structure' = [structure EXCEPT ![Key] = structure[Key]]
    BY <1>1, <1>4, CurrentKey
  <2> QED  BY <1>1, <1>3, <2>1, LocalErrorInvariant
<1>5. CASE structure' = [structure EXCEPT ![Key] = Fixed]
  BY <1>1, <1>3, <1>5, LocalErrorInvariant
<1> QED  BY <1>4, <1>5 DEF LocalStructureFails

\* A key is read, and what can not be read is not noted.
LEMMA QuietKey ==
  ASSUME IInv, step = "reading", Proceed, UNCHANGED <<structure, found>>, faults' = faults
  PROVE  IInv'
<1>1. IsSeq(found)
  BY DEF IInv, TypeOK
<1> DEFINE none == <<>>
<1>2. found' = found \o none /\ IsSeq(none) /\ 1..Len(none) = {}
  BY <1>1, NoNote
<1> HIDE DEF none
<1>3. structure' = [structure EXCEPT ![Key] = structure[Key]] /\ structure[Key] \in {structure[Key], Fixed}
  BY CurrentKey
<1>4. faults' \in {faults, faults + 1} /\ step # "structure" /\ step \in {"structure", "reading"}
  OBVIOUS
<1> DEFINE s == structure[Key]
<1>5. structure' = [structure EXCEPT ![Key] = s] /\ s \in {structure[Key], Fixed} /\ s = structure[Key]
  BY <1>3
<1> HIDE DEF s
<1> QED  BY <1>2, <1>4, <1>5, OneKey

LEMMA LocalReadingInvariant ==
  ASSUME IInv, LocalReading
  PROVE  IInv'
<1>1. ~options.remote /\ step = "reading" /\ faults' = faults /\ UNCHANGED <<structure, found>>
  BY DEF LocalReading, NoFault
<1>2. CASE Proceed
  BY <1>1, <1>2, QuietKey
<1>3. CASE Raises
  BY <1>1, <1>3, EndsNow DEF Raises
<1> QED  BY <1>2, <1>3 DEF LocalReading

\* Notes that are merged, and the notes of a call that repeats another.
LEMMA LocalNotesFacts ==
  ASSUME IInv, step = "notes", ~options.remote
  PROVE  /\ IsSeq(Merged(notes, found)) /\ IsSeq(notes)
         /\ \A k, kinds : NotedIn(notes, k, kinds) \/ NotedIn(found, k, kinds) => NotedIn(Merged(notes, found), k, kinds)
         /\ NoRepeats(Merged(notes, found)) /\ \A i \in 1..Len(found) : InRange(found[i], Merged(notes, found))
         /\ (Repeated /\ options.fix /\ NamesAgree) =>
              OnlyIgnored(Merged(notes, found), before.notes) /\ OnlyIgnored(notes, before.notes)
<1> DEFINE t == Merged(notes, found)
<1>1. IsSeq(notes) /\ IsSeq(found) /\ Where = "local"
  BY DEF IInv, TypeOK, Where
<1>2. /\ IsSeq(t) /\ NoRepeats(t)
      /\ \A i \in 1..Len(notes) : InRange(notes[i], t)
      /\ \A i \in 1..Len(found) : InRange(found[i], t)
      /\ (NoRepeats(notes) /\ \A i \in 1..Len(found) : InRange(found[i], notes)) => t = notes
  BY <1>1, MergedFacts
<1> HIDE DEF t
<1>3. ASSUME NEW k, NEW kinds, NotedIn(notes, k, kinds) \/ NotedIn(found, k, kinds)
      PROVE  NotedIn(t, k, kinds)
  <2>1. PICK x : InRange(x, t) /\ x[1] = k /\ x[2] \in kinds
    BY <1>2, <1>3 DEF NotedIn
  <2> QED  BY <2>1 DEF NotedIn, InRange
<1>4. ASSUME Repeated, options.fix, NamesAgree
      PROVE  OnlyIgnored(t, before.notes) /\ OnlyIgnored(notes, before.notes)
  <2>1. notes = before.notes /\ \A i \in 1..Len(found) : InRange(found[i], before.notes)
    BY <1>4 DEF IInv, Repeating
  <2>2. NoRepeats(before.notes)
    BY <1>1, <1>4, RepeatedFacts
  <2>3. t = notes
    BY <1>2, <2>1, <2>2
  <2>4. OnlyIgnored(notes, notes)
    <3>1. IsSeq(<<>>) /\ \A i \in 1..Len(<<>>) : <<>>[i][2] = "ignored"
      BY <1>1, NoNote
    <3> QED  BY <1>1, <3>1, OnlyIgnoredFacts
  <2> QED  BY <2>1, <2>3, <2>4
<1> QED  BY <1>1, <1>2, <1>3, <1>4 DEF t

LEMMA LocalNotesInvariant ==
  ASSUME IInv, LocalNotes
  PROVE  IInv'
<1> DEFINE outcome == IF errored = {} THEN "true" ELSE "false"
<1>1. ~options.remote /\ step = "notes" /\ faults' = faults /\ structure' = structure /\ Ends(outcome)
      /\ notes' = IF options.write THEN Merged(notes, found) ELSE notes
  BY DEF LocalNotes, NoFault
<1>2. outcome \in {"true", "false"}
  OBVIOUS
<1> HIDE DEF outcome
<1>3. IsSeq(notes') /\ (~options.write => notes' = notes)
  BY <1>1, LocalNotesFacts
<1>4. options.write =>
        /\ \A k, kinds : NotedIn(notes, k, kinds) \/ NotedIn(found, k, kinds) => NotedIn(notes', k, kinds)
        /\ NoRepeats(notes') /\ \A i \in 1..Len(found) : InRange(found[i], notes')
  BY <1>1, LocalNotesFacts
<1>5. (Repeated /\ options.fix /\ NamesAgree) => OnlyIgnored(notes', before.notes)
  BY <1>1, LocalNotesFacts
<1> QED  BY <1>1, <1>2, <1>3, <1>4, <1>5, EndsRegularly

\* Notes whose request fails are there or not.
LEMMA NotesFail ==
  ASSUME IInv, step = "notes", Fault, UNCHANGED structure, IsSeq(notes'),
         \/ Ends("raised")
         \/ options.remote /\ ~options.raise /\ Returns("true") /\ refused' = TRUE
  PROVE  IInv'
<1>1. TypeOK /\ faults' = faults + 1 /\ faults \in Nat
  BY DEF IInv, TypeOK, Fault
<1>2. /\ DOMAIN structure' = KeySet /\ structure' = [k \in KeySet |-> structure'[k]]
      /\ \A k \in KeySet : IsStructure(structure'[k])
  BY <1>1 DEF TypeOK
<1>3. faults' # faults /\ faults' \in {faults, faults + 1}
  BY <1>1
<1>4. PICK outcome \in {"raised", "true"} :
        /\ Returns(outcome) /\ refused' \in BOOLEAN
        /\ outcome = "true" => options.remote /\ ~options.raise /\ refused'
  BY DEF Ends
<1> QED  BY <1>2, <1>3, <1>4, EndsUnsettled

LEMMA LocalNotesFailInvariant ==
  ASSUME IInv, LocalNotesFail
  PROVE  IInv'
<1>1. step = "notes" /\ ~options.remote /\ notes' \in {notes, Merged(notes, found)}
  BY DEF LocalNotesFail
<1>2. IsSeq(notes')
  BY <1>1, LocalNotesFacts
<1> QED  BY <1>1, <1>2, NotesFail DEF LocalNotesFail

-----------------------------------------------------------------------------
(***************************************************************************)
(* The endpoint                                                            *)
(***************************************************************************)
LEMMA RemoteInvalidInvariant ==
  ASSUME IInv, options.remote, step \in {"structure", "reading"}, RemoteInvalid,
         faults' \in {faults, faults + 1}, UNCHANGED structure
  PROVE  IInv'
<1> DEFINE outcome == IF options.raise THEN "raised" ELSE "false"
<1>1. Ends(outcome) /\ UNCHANGED notes /\ outcome \in {"raised", "false"} /\ step # "idle"
  BY DEF RemoteInvalid
<1> HIDE DEF outcome
<1> QED  BY <1>1, EndsNow

\* An error of the current key; no file is missing that a local call would note.
LEMMA RemoteErrorInvariant ==
  ASSUME IInv, options.remote, step \in {"structure", "reading"}, NEW kind, RemoteError(kind),
         UNCHANGED structure, faults' \in {faults, faults + 1},
         (step = "structure" /\ faults' = faults) => Key \notin present
  PROVE  IInv'
<1> DEFINE note == <<Key, "ignored", kind>>
           add == <<note>>
           s == structure[Key]
<1>1. faults \in Nat /\ IsSeq(found) /\ Where = "remote"
  BY DEF IInv, TypeOK, Where
<1>2. CASE found' = Append(found, note) /\ Proceed
  <2>1. note[1] = Key /\ note[2] = "ignored"
    OBVIOUS
  <2> HIDE DEF note
  <2>2. found' = found \o add /\ IsSeq(add) /\ Len(add) = 1 /\ add[1] = note
    BY <1>1, <1>2, OneNote
  <2> HIDE DEF add
  <2>3. NotedIn(add, Key, {"failed", "ignored"})
    <3>1. 1 \in 1..Len(add)
      BY <2>2
    <3> QED  BY <2>1, <2>2, <3>1 DEF NotedIn
  <2>4. \A i \in 1..Len(add) : add[i][2] = "ignored"
    BY <2>1, <2>2
  <2>5. structure' = [structure EXCEPT ![Key] = s] /\ s \in {structure[Key], Fixed} /\ s = structure[Key]
    BY CurrentKey
  <2> HIDE DEF s
  <2>6. Where # "local"
    BY <1>1
  <2> QED  BY <1>2, <2>2, <2>3, <2>4, <2>5, <2>6, OneKey
<1>3. CASE RemoteInvalid
  BY <1>3, RemoteInvalidInvariant
<1> QED  BY <1>2, <1>3 DEF RemoteError

LEMMA RemoteStructureInvariant ==
  ASSUME IInv, RemoteStructure
  PROVE  IInv'
<1>1. options.remote /\ step = "structure" /\ faults' = faults /\ Where = "remote" /\ Where # "local"
      /\ faults' \in {faults, faults + 1}
  BY DEF RemoteStructure, NoFault, Where
<1>2. CASE Valid /\ structure' = [structure EXCEPT ![Key] = Fixed] /\ found' = found \o FixNotes /\ Proceed
  <2>1. AgreesAs(Key, Fixed) /\ Final(Where, Key, Fixed)
    BY <1>1, CurrentKey DEF Final
  <2>2. ASSUME Repeated
        PROVE  /\ Fixed = structure[Key]
               /\ NamesAgree => \A i \in 1..Len(FixNotes) : FixNotes[i][2] = "ignored"
    <3>1. Final(Where, Key, structure[Key])
      BY <1>1, <1>2, <2>2, RepeatedFacts, CurrentKey DEF Valid
    <3>2. Fixed = structure[Key]
      BY <1>1, <3>1, CurrentKey DEF Final
    <3>3. NamesAgree => Fix = <<>>
      BY <1>1, <3>2, CurrentKey
    <3>4. Fix = <<>> => FixNotes = <<>>
      BY FixNotesFacts
    <3>5. FixNotes = <<>> => 1..Len(FixNotes) = {}
      OBVIOUS
    <3> QED  BY <3>2, <3>3, <3>4, <3>5
  <2>3. IsSeq(FixNotes)
    BY FixNotesFacts
  <2> QED  BY <1>1, <1>2, <2>1, <2>2, <2>3, OneKey
<1>3. CASE Asset /\ RemoteError("asset") /\ UNCHANGED structure
  BY <1>1, <1>3, RemoteErrorInvariant DEF Asset
<1>4. CASE Mismatch /\ RemoteInvalid /\ UNCHANGED structure
  BY <1>1, <1>4, RemoteInvalidInvariant
<1> QED  BY <1>2, <1>3, <1>4 DEF RemoteStructure

LEMMA RemoteStructureFailsInvariant ==
  ASSUME IInv, RemoteStructureFails
  PROVE  IInv'
<1>1. options.remote /\ step = "structure" /\ faults' = faults + 1
  BY DEF RemoteStructureFails, Fault
<1>2. faults' # faults /\ faults' \in {faults, faults + 1}
  BY <1>1 DEF IInv, TypeOK
<1>3. CASE RemoteError("other") /\ UNCHANGED structure
  BY <1>1, <1>2, <1>3, RemoteErrorInvariant
<1>4. CASE RemoteInvalid /\ UNCHANGED structure
  BY <1>1, <1>2, <1>4, RemoteInvalidInvariant
<1> QED  BY <1>3, <1>4 DEF RemoteStructureFails

LEMMA RemoteReadingInvariant ==
  ASSUME IInv, RemoteReading
  PROVE  IInv'
<1>1. options.remote /\ step = "reading" /\ faults' = faults /\ UNCHANGED structure
  BY DEF RemoteReading, NoFault
<1>2. CASE UNCHANGED <<found, errored>> /\ Proceed
  BY <1>1, <1>2, QuietKey
<1>3. CASE RemoteError("reading")
  BY <1>1, <1>3, RemoteErrorInvariant
<1> QED  BY <1>2, <1>3 DEF RemoteReading

\* The endpoint begins again.
LEMMA RemoteRetriedInvariant ==
  ASSUME IInv, RemoteRetried
  PROVE  IInv'
<1>1. /\ options.remote /\ step # "idle" /\ faults' = faults + 1
      /\ step' = FirstStep /\ at' = 1 /\ found' = <<>>
      /\ UNCHANGED <<case, options, present, structure, notes, result, refused, before, settled, noted>>
  BY DEF RemoteRetried, Fault, given, served
<1>2. TypeOK /\ faults \in Nat /\ before.faults \in Nat /\ before.faults <= faults
  BY DEF IInv, TypeOK
<1>3. /\ step' \in {"structure", "notes"} /\ step' # "idle"
      /\ (step' = "structure" => at' \in 1..Len(Keys))
      /\ \A i \in 1..Len(Keys) : ~Compared(i)'
  <2>1. CASE Keys = <<>>
    BY <1>1, <2>1, KeyFacts DEF FirstStep
  <2>2. CASE Keys # <<>>
    BY <1>1, <2>2, KeyFacts DEF FirstStep, Compared
  <2> QED  BY <2>1, <2>2
<1>4. ~(before.faults = faults') /\ before.faults <= faults' /\ faults' \in Nat
  BY <1>1, <1>2
<1>5. TypeOK'
  <2>1. IsSeq(found')
    BY <1>1, <1>2, NoNote DEF TypeOK
  <2>2. \A k \in KeySet : case'[k] \in Cases[k] /\ IsStructure(structure'[k])
    BY <1>1, <1>2 DEF TypeOK
  <2>3. /\ step' \in {"idle", "structure", "reading", "notes"} /\ at' \in Nat
        /\ (step' \in {"structure", "reading"} => at' \in 1..Len(Keys))
    <3>1. at' \in Nat
      BY <1>1
    <3>2. step' \in {"structure", "notes"} /\ (step' = "structure" => at' \in 1..Len(Keys))
      BY <1>3, Zenon
    <3> QED  BY <3>1, <3>2
  <2>4. result = "none" /\ result' = "none"
    BY <1>1, <1>2 DEF TypeOK
  <2>5. /\ DOMAIN structure' = KeySet /\ structure' = [k \in KeySet |-> structure'[k]]
        /\ present' \subseteq KeySet /\ IsSeq(notes') /\ options' \in Options /\ noted' \in BOOLEAN
        /\ settled' \in {"no", "local", "remote"}
    BY <1>1, <1>2, Zenon DEF TypeOK
  <2>6. /\ before'.faults \in Nat /\ before'.faults <= faults'
        /\ before'.present \subseteq present' /\ before'.settled \in {"no", "local", "remote"}
    BY <1>1, <1>2, <1>4 DEF TypeOK
  <2>7. refused' \in BOOLEAN
    BY <1>1, <1>2, Zenon DEF TypeOK
  <2> HIDE DEF KeySet
  <2> QED  BY <1>4, <2>1, <2>2, <2>3, <2>4, <2>5, <2>6, <2>7, Zenon DEF TypeOK
<1>6. Answered' /\ Settling'
  BY <1>3 DEF Answered, Settling
<1>7. Repairs'
  BY <1>1, <1>3 DEF Repairs
<1>8. Repeating'
  BY <1>1, <1>4 DEF Repeating, Repeated
<1>9. SettledFacts'
  <2>1. before.settled # "no" => Settled(before.settled, before)'
    BY <1>1, Zenon DEF IInv, SettledFacts, Settled, Final, AsRepaired
  <2>2. IsSeq(before.notes)
    BY DEF IInv, SettledFacts
  <2> QED  BY <1>1, <1>3, <2>1, <2>2 DEF SettledFacts
<1> QED  BY <1>5, <1>6, <1>7, <1>8, <1>9 DEF IInv

LEMMA RemoteFailsInvariant ==
  ASSUME IInv, RemoteFails
  PROVE  IInv'
<1>1. faults' \in {faults, faults + 1} /\ step # "idle" /\ structure' = structure /\ Ends("raised") /\ UNCHANGED notes
  BY DEF RemoteFails, Fault, Raises
<1> QED  BY <1>1, EndsNow

\* The notes are appended.
LEMMA RemoteNotesInvariant ==
  ASSUME IInv, RemoteNotes
  PROVE  IInv'
<1>1. options.remote /\ step = "notes" /\ faults' = faults /\ structure' = structure /\ Ends("true")
      /\ notes' = IF options.write THEN notes \o found ELSE notes
  BY DEF RemoteNotes, NoFault
<1>2. IsSeq(notes) /\ IsSeq(found) /\ Where = "remote" /\ Where # "local"
  BY <1>1 DEF IInv, TypeOK, Where
<1>3. IsSeq(notes') /\ (~options.write => notes' = notes)
  BY <1>1, <1>2, Concatenated
<1>4. options.write =>
        \A k, kinds : NotedIn(notes, k, kinds) \/ NotedIn(found, k, kinds) => NotedIn(notes', k, kinds)
  BY <1>1, <1>2, NotedMore
<1>5. ASSUME Repeated, options.fix, NamesAgree
      PROVE  OnlyIgnored(notes', before.notes)
  <2>1. notes = before.notes /\ \A i \in 1..Len(found) : found[i][2] = "ignored"
    BY <1>1, <1>5 DEF IInv, Repeating
  <2>2. OnlyIgnored(notes, notes) /\ OnlyIgnored(notes \o found, notes)
    BY <1>2, <2>1, OnlyIgnoredFacts
  <2> QED  BY <1>1, <2>1, <2>2
<1> QED  BY <1>1, <1>2, <1>3, <1>4, <1>5, EndsRegularly

LEMMA RemoteNotesFailInvariant ==
  ASSUME IInv, RemoteNotesFail
  PROVE  IInv'
<1>1. IsSeq(notes) /\ IsSeq(found)
  BY DEF IInv, TypeOK
<1>2. notes' \in {notes, notes \o found}
  BY DEF RemoteNotesFail
<1>3. IsSeq(notes \o found)
  BY <1>1, Concatenated
<1>4. IsSeq(notes')
  BY <1>1, <1>2, <1>3
<1> QED  BY <1>4, NotesFail DEF RemoteNotesFail

-----------------------------------------------------------------------------
(***************************************************************************)
(* Calls, files and the theorems                                           *)
(***************************************************************************)
LEMMA CallInvariant ==
  ASSUME IInv, Call
  PROVE  IInv'
<1>1. /\ step = "idle" /\ step' = FirstStep /\ at' = 1 /\ found' = <<>> /\ result' = "none" /\ refused' = FALSE
      /\ before' = Now /\ options' \in Options
      /\ UNCHANGED <<case, present, structure, notes, faults, settled, noted>>
  BY DEF Call, served
<1>2. TypeOK
  BY DEF IInv
<1>3. /\ step' \in {"structure", "notes"} /\ step' # "idle"
      /\ (step' = "structure" => at' \in 1..Len(Keys))
      /\ \A i \in 1..Len(Keys) : ~Compared(i)'
  <2>1. CASE Keys = <<>>
    BY <1>1, <2>1, KeyFacts DEF FirstStep
  <2>2. CASE Keys # <<>>
    BY <1>1, <2>2, KeyFacts DEF FirstStep, Compared
  <2> QED  BY <2>1, <2>2
<1>4. /\ before'.structure = structure /\ before'.notes = notes /\ before'.present = present
      /\ before'.faults = faults /\ before'.settled = settled
  BY <1>1 DEF Now
<1>5. IsSeq(found') /\ 1..Len(found') = {}
  BY <1>1, <1>2, NoNote DEF TypeOK
<1>6. TypeOK'
  <2>1. \A k \in KeySet : case'[k] \in Cases[k] /\ IsStructure(structure'[k])
    BY <1>1, <1>2 DEF TypeOK
  <2>2. /\ step' \in {"idle", "structure", "reading", "notes"} /\ at' \in Nat
        /\ (step' \in {"structure", "reading"} => at' \in 1..Len(Keys))
    <3>1. at' \in Nat
      BY <1>1
    <3>2. step' \in {"structure", "notes"} /\ (step' = "structure" => at' \in 1..Len(Keys))
      BY <1>3, Zenon
    <3> QED  BY <3>1, <3>2
  <2>3. /\ DOMAIN structure' = KeySet /\ structure' = [k \in KeySet |-> structure'[k]]
        /\ present' \subseteq KeySet /\ IsSeq(notes') /\ options' \in Options /\ noted' \in BOOLEAN
        /\ settled' \in {"no", "local", "remote"}
    BY <1>1, <1>2, Zenon DEF TypeOK
  <2>4. faults \in Nat /\ faults' \in Nat
    BY <1>1, <1>2 DEF TypeOK
  <2>5. /\ before'.faults \in Nat /\ before'.faults <= faults'
        /\ before'.present \subseteq present' /\ before'.settled \in {"no", "local", "remote"}
    BY <1>1, <1>2, <1>4, <2>4 DEF TypeOK
  <2>6. result' = "none" /\ refused' \in BOOLEAN
    BY <1>1
  <2> HIDE DEF KeySet
  <2> QED  BY <1>5, <2>1, <2>2, <2>3, <2>4, <2>5, <2>6 DEF TypeOK
<1>7. Answered' /\ Settling'
  BY <1>3 DEF Answered, Settling
<1>8. Repairs'
  <2>1. ASSUME noted, NEW k \in KeySet, structure[k] # case[k].stored
        PROVE  NotedIn(notes, k, FixKinds \cup {"failed"})
    BY <1>1, <2>1 DEF IInv, Repairs
  <2> QED  BY <1>1, <2>1 DEF Repairs
<1>9. Repeating'
  BY <1>1, <1>3, <1>4, <1>5 DEF Repeating
<1>10. SettledFacts'
  <2>1. settled # "no" => Settled(settled, Now)
    BY <1>1 DEF IInv, SettledFacts
  <2>2. Now.structure = structure /\ Now.notes = notes /\ Now.present = present
    BY DEF Now
  <2>3. ASSUME settled # "no"
        PROVE  Settled(before.settled, before)'
    <3>1. \A k \in KeySet : Final(settled, k, structure[k]) => Final(before.settled, k, before.structure[k])'
      BY <1>1, <1>4, Zenon DEF Final, AsRepaired
    <3>2. /\ \A k \in KeySet :
               /\ k \in present => Final(settled, k, structure[k])
               /\ (settled = "local" /\ k \notin present) => InRange(<<k, "failed", "asset">>, notes)
          /\ settled = "local" => NoRepeats(notes)
      BY <2>1, <2>2, <2>3 DEF Settled
    <3> QED  BY <1>4, <3>1, <3>2 DEF Settled
  <2>4. IsSeq(before'.notes)
    BY <1>2, <1>4 DEF TypeOK
  <2> QED  BY <1>3, <1>4, <2>3, <2>4 DEF SettledFacts
<1> QED  BY <1>6, <1>7, <1>8, <1>9, <1>10 DEF IInv

LEMMA FileAppearsInvariant ==
  ASSUME IInv, FileAppears
  PROVE  IInv'
<1>1. PICK k \in KeySet \ present : present' = present \cup {k}
  BY DEF FileAppears, KeySet
<1>2. /\ settled' = "no"
      /\ UNCHANGED <<case, options, structure, notes, step, at, found, result, refused, faults, before, noted>>
  BY DEF FileAppears, given, served, counted
<1>3. TypeOK
  BY DEF IInv
<1>4. before.present # present' /\ before.present \subseteq present'
  BY <1>1, <1>3 DEF TypeOK
<1>5. TypeOK'
  <2>1. \A j \in KeySet : case'[j] \in Cases[j] /\ IsStructure(structure'[j])
    BY <1>2, <1>3 DEF TypeOK
  <2> QED  BY <1>1, <1>2, <1>3, <1>4, <2>1 DEF TypeOK
<1>6. Answered'
  <2>1. \A j : Agrees(j)' <=> Agrees(j)
    BY <1>2 DEF Agrees
  <2>2. \A i : Compared(i)' <=> Compared(i)
    BY <1>2 DEF Compared
  <2>3. Answered
    BY DEF IInv
  <2> QED  BY <1>2, <2>1, <2>2, <2>3 DEF Answered, WarnedOnly
<1>7. Repairs'
  BY <1>2 DEF IInv, Repairs
<1>8. Settling' /\ Repeating'
  BY <1>2, <1>4 DEF Settling, Repeating, Repeated
<1>9. SettledFacts'
  <2>1. before.settled # "no" => Settled(before.settled, before)'
    BY <1>2, Zenon DEF IInv, SettledFacts, Settled, Final, AsRepaired
  <2>2. IsSeq(before.notes)
    BY DEF IInv, SettledFacts
  <2> QED  BY <1>2, <2>1, <2>2 DEF SettledFacts
<1> QED  BY <1>5, <1>6, <1>7, <1>8, <1>9 DEF IInv

LEMMA InitInvariant ==
  ASSUME Init
  PROVE  IInv
<1>1. /\ \A k \in KeySet : case[k] \in Cases[k]
      /\ present \subseteq KeySet
      /\ structure = [k \in KeySet |-> case[k].stored] /\ notes = <<>>
      /\ step = "idle" /\ at = 1 /\ found = <<>> /\ result = "none" /\ refused = FALSE
      /\ faults = 0 /\ settled = "no" /\ noted = TRUE /\ before = Now
  BY DEF Init, KeySet
<1>2. \A k \in KeySet : IsStructure(case[k].stored)
  <2>1. \A k \in KeySet : Structure(case[k].stored)
    BY <1>1, CasesAssumption DEF KeySet
  <2>2. \A s : Structure(s) => IsStructure(s)
    BY DEF Structure, IsStructure, IsType
  <2> QED  BY <2>1, <2>2
<1>3. options \in Options
  <2>1. Options # {}
    <3>1. PICK e : e \in Ignores
      BY IgnoresAssumption
    <3>2. [remote |-> TRUE, fix |-> TRUE, read |-> TRUE, raise |-> TRUE, ignored |-> e, write |-> TRUE] \in Options
      BY <3>1 DEF Options
    <3> QED  BY <3>2
  <2>2. options = CHOOSE o \in Options : TRUE
    BY DEF Init
  <2> HIDE DEF Options
  <2> QED  BY <2>1, <2>2
<1>4. IsSeq(<<>>) /\ IsSeq(notes)
  BY <1>1 DEF IsSeq
<1>5. before.structure = structure /\ before.notes = notes /\ before.present = present
      /\ before.faults = 0 /\ before.settled = "no"
  BY <1>1 DEF Now
<1>6. TypeOK
  <2>1. /\ DOMAIN structure = KeySet /\ structure = [k \in KeySet |-> structure[k]]
        /\ \A k \in KeySet : IsStructure(structure[k])
    BY <1>1, <1>2
  <2>2. /\ step \in {"idle", "structure", "reading", "notes"}
        /\ at \in Nat /\ (step \in {"structure", "reading"} => at \in 1..Len(Keys))
        /\ result \in {"none", "true", "false", "raised"} /\ (step # "idle" => result = "none")
    BY <1>1
  <2>3. settled \in {"no", "local", "remote"} /\ noted \in BOOLEAN /\ refused \in BOOLEAN
        /\ before.settled \in {"no", "local", "remote"}
    BY <1>1, <1>5
  <2>4. faults \in Nat /\ before.faults \in Nat /\ before.faults <= faults /\ before.present \subseteq present
    BY <1>1, <1>5
  <2>5. present \subseteq KeySet /\ IsSeq(notes) /\ IsSeq(found) /\ \A k \in KeySet : case[k] \in Cases[k]
    BY <1>1, <1>4
  <2> HIDE DEF KeySet
  <2> QED  BY <1>3, <2>1, <2>2, <2>3, <2>4, <2>5, Zenon DEF TypeOK
<1>7. Answered /\ Repairs /\ Settling
  BY <1>1 DEF Answered, Repairs, Settling
<1>8. Repeating /\ SettledFacts
  BY <1>1, <1>4, <1>5 DEF Repeating, Repeated, SettledFacts, Where
<1> QED  BY <1>6, <1>7, <1>8 DEF IInv

LEMMA StutterInvariant ==
  ASSUME IInv, UNCHANGED vars
  PROVE  IInv'
<1>1. UNCHANGED <<case, options, present, structure, notes, step, at, found, errored, result, refused,
                  calls, faults, before, settled, noted>>
  BY DEF vars, given, served, counted
<1>2. TypeOK' /\ Repairs'
  BY <1>1 DEF IInv, TypeOK, Repairs
<1>3. Answered'
  <2>1. (\A j : Agrees(j)' <=> Agrees(j)) /\ \A i : Compared(i)' <=> Compared(i)
    BY <1>1 DEF Agrees, Compared
  <2>2. Answered
    BY DEF IInv
  <2> QED  BY <1>1, <2>1, <2>2 DEF Answered, WarnedOnly
<1>4. Settling' /\ Repeating' /\ SettledFacts'
  BY <1>1 DEF IInv, Settling, Repeating, Repeated, SettledFacts, Settled, Final, AsRepaired, Where, Compared,
               NamesAgree, Now
<1> QED  BY <1>2, <1>3, <1>4 DEF IInv

\* The inductive invariant of validation.
THEOREM Invariance == Spec => []IInv
<1>1. Init => IInv
  BY InitInvariant
<1>2. IInv /\ [Next]_vars => IInv'
  <2> SUFFICES ASSUME IInv, [Next]_vars PROVE IInv'
    OBVIOUS
  <2>1. CASE Local
    BY <2>1, LocalStructureInvariant, LocalStructureFailsInvariant, LocalReadingInvariant,
       LocalNotesInvariant, LocalNotesFailInvariant DEF Local
  <2>2. CASE Remote
    BY <2>2, RemoteStructureInvariant, RemoteStructureFailsInvariant, RemoteReadingInvariant,
       RemoteRetriedInvariant, RemoteFailsInvariant, RemoteNotesInvariant, RemoteNotesFailInvariant DEF Remote
  <2> QED  BY <2>1, <2>2, CallInvariant, FileAppearsInvariant, StutterInvariant DEF Next
<1> QED  BY <1>1, <1>2, PTL DEF Spec

\* What a step of the program has is what its type says: the current key is one of
\* the keys, structures have all their fields, notes are sequences.
THEOREM TypeCorrect == Spec => []TypeOK
<1>1. IInv => TypeOK
  BY DEF IInv
<1> QED  BY <1>1, Invariance, PTL

\* True means that every data source is as its files are or has a note, which is no
\* more than a warning if the request for the notes was refused.
THEOREM TrueIsValidOrNotedThm == Spec => []TrueIsValidOrNoted
<1>1. IInv => TrueIsValidOrNoted
  <2> SUFFICES ASSUME IInv, result = "true", options.write, NEW k \in KeySet
               PROVE  \/ Agrees(k) \/ Noted(k, {"failed", "ignored"})
                      \/ refused /\ options.remote /\ ~options.raise /\ Names(found, k, {"failed", "ignored"})
    BY DEF TrueIsValidOrNoted, KeySet
  <2>1. step = "idle" /\ IsSeq(notes) /\ IsSeq(found)
    BY DEF IInv, TypeOK
  <2>2. Agrees(k) \/ NotedIn(notes, k, {"failed", "ignored"}) \/ WarnedOnly(k)
    BY <2>1 DEF IInv, Answered
  <2>3. DOMAIN notes = 1..Len(notes) /\ DOMAIN found = 1..Len(found)
    BY <2>1 DEF IsSeq
  <2> QED  BY <2>2, <2>3 DEF WarnedOnly, Noted, Names, NotedIn
<1> QED  BY <1>1, Invariance, PTL

\* A call that repeats one which left nothing to do changes nothing.
THEOREM RepeatChangesNothingThm == Spec => []RepeatChangesNothing
<1>1. IInv => RepeatChangesNothing
  <2> SUFFICES ASSUME IInv, result # "none", before.settled = Where, before.present = present, before.faults = faults
               PROVE  /\ structure = before.structure
                      /\ (options.fix /\ NamesAgree) => OnlyIgnored(notes, before.notes)
    BY DEF RepeatChangesNothing, NamesAgree, OnlyIgnored, KeySet
  <2>1. step = "idle" /\ Repeated
    BY DEF IInv, TypeOK, Repeated
  <2> QED  BY <2>1 DEF IInv, Repeating
<1> QED  BY <1>1, Invariance, PTL

\* No structure is repaired without a note, even if its request got no response.
THEOREM RepairsAreNotedThm == Spec => []RepairsAreNoted
<1>1. IInv => RepairsAreNoted
  <2> SUFFICES ASSUME IInv, step = "idle", noted, NEW k \in KeySet, structure[k] # case[k].stored
               PROVE  Noted(k, {"failed", "data type", "shape", "chunks", "dims"})
    BY DEF RepairsAreNoted, KeySet
  <2>1. IsSeq(notes) /\ NotedIn(notes, k, FixKinds \cup {"failed"})
    BY DEF IInv, TypeOK, Repairs
  <2>2. DOMAIN notes = 1..Len(notes)
    BY <2>1 DEF IsSeq
  <2> QED  BY <2>1, <2>2 DEF Noted, Names, NotedIn, FixKinds
<1> QED  BY <1>1, Invariance, PTL
=============================================================================
