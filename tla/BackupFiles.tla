---------------------------- MODULE BackupFiles -----------------------------
(***************************************************************************)
(* writing/_json_writer.py below _ConditionalBackup, as TiledWriter and    *)
(* TiledInserter wire them for each run: what the backups of one run       *)
(* leave in files and dictionaries, and what a reader makes of it.         *)
(***************************************************************************)
EXTENDS ConditionalBackup, SequencesExt

CONSTANTS
  Files,     \* the backups that are JSONLinesWriters; others are JSONDictWriters
  MaxOthers  \* bound on what other runs write to the same file or key

ASSUME FilesAssumption == Files \subseteq Backups
ASSUME MaxOthersAssumption == MaxOthers \in Nat

\* A document of another run whose uid begins alike, or that was abandoned in the
\* same second.
Other == 0

VARIABLES
  named,   \* whether filename or key comes from the uid or from the time
  text     \* what is stored: each document, followed by a newline or not

storeVars == <<named, text>>

FilesInit ==
  /\ Init
  /\ named = [b \in Backups |-> "not"]
  /\ text = [b \in Backups |-> <<>>]

\* default_name() of the first document decides.
Named(b, docs) ==
  CASE named[b] # "not" -> named[b]
    [] named[b] = "not" /\ docs = <<>> -> "not"
    [] OTHER -> IF docs[1] = 1 THEN "uid" ELSE "time"

\* Mutant: the file is opened for writing instead of appending.
WrittenOver(old, docs, failed, torn) ==
  LET kept == SelectSeq(docs, LAMBDA d : d \notin failed \/ d \in torn)
  IN IF kept = <<>> THEN old ELSE << [doc |-> Last(kept), whole |-> Last(kept) \notin torn] >>

\* Documents are appended one by one.  Where a writer raises, either nothing is
\* written, or the part of a document that could be dumped, without a newline.
Written(old, docs, failed, torn) ==
  LET upto[i \in 0..Len(docs)] ==
        IF i = 0 THEN old
        ELSE IF docs[i] \in failed \ torn THEN upto[i - 1]
        ELSE Append(upto[i - 1], [doc |-> docs[i], whole |-> docs[i] \notin torn])
  IN upto[Len(docs)]

\* __call__ of the _ConditionalBackup, with what its backups write.
Call ==
  /\ Next
  /\ \E torn \in [Backups -> SUBSET (1..received')] :
       /\ \A b \in Backups : torn[b] \subseteq (IF b \in Files THEN refused'[b] \ refused[b] ELSE {})
       /\ text' = [b \in Backups |->
            Written(text[b], SubSeq(offered'[b], Len(offered[b]) + 1, Len(offered'[b])), refused'[b], torn[b])]
  /\ named' = [b \in Backups |-> Named(b, offered'[b])]

\* The chain of another run has the same name and is called in between.
OtherRun(b) ==
  /\ named[b] # "not"
  /\ Cardinality({i \in DOMAIN text[b] : text[b][i].doc = Other}) < MaxOthers
  /\ \E whole \in {TRUE, b \notin Files} :
       text' = [text EXCEPT ![b] = Append(@, [doc |-> Other, whole |-> whole])]
  /\ UNCHANGED <<vars, named>>

FilesNext == Call \/ \E b \in Backups : OtherRun(b)

FilesSpec == FilesInit /\ [][FilesNext]_<<vars, storeVars>>

-----------------------------------------------------------------------------
(***************************************************************************)
(* Properties                                                              *)
(***************************************************************************)
\* A reader can parse a line of a file if there is one document on it.
Parsable(pieces, i) == pieces[i].whole /\ (i > 1 => pieces[i - 1].whole)

\* Where in the file or list a reader finds the documents of this run.
Found(b) == {i \in DOMAIN text[b] : Parsable(text[b], i) /\ text[b][i].doc # Other}

\* "the full document stream is preserved in the backups for later replay"
\* (tiled_writer.py, lines 172-173): of a run that fits into the buffer a reader
\* finds each document once and in order under the uid of the run, except
\* those that a writer raised on and, in a file, the one after each of them or
\* after one of another run, which shares the line of what could be dumped.
ReadBack ==
  (primaryFailed /\ received <= MaxLen) =>
    \A b \in Backups :
      /\ named[b] = "uid"
      /\ \A i, j \in Found(b) : i < j => text[b][i].doc < text[b][j].doc
      /\ \A d \in 1..received :
           \/ \E i \in Found(b) : text[b][i].doc = d
           \/ d \in refused[b]
           \/ \E i \in DOMAIN text[b] \ {1} :
                /\ b \in Files /\ text[b][i] = [doc |-> d, whole |-> TRUE]
                /\ text[b][i - 1].doc \in refused[b] \cup {Other} /\ ~text[b][i - 1].whole
=============================================================================
