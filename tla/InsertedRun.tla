----------------------------- MODULE InsertedRun ------------------------------
(***************************************************************************)
(* TiledInserter: the primary of _ConditionalBackup is a _RunInserter that *)
(* posts each document to a server (clients/catalog_of_bluesky_runs.py,    *)
(* post_document), with retries, and BlueskyRunV2Mongo.documents()         *)
(* (clients/bluesky_run.py) reads the run back, with retries as well.      *)
(*                                                                         *)
(* The server is external: it stores what it is sent, or it refuses        *)
(* documents that it has already.  A run is read after its last document.  *)
(***************************************************************************)
EXTENDS BackupFiles

CONSTANTS
  Attempts,  \* attempts of retry_context()
  MaxLost    \* bound: attempts of posts of one run that got no response

ASSUME AttemptsAssumption == Attempts \in Nat \ {0} /\ MaxLost \in Nat

VARIABLES
  unique,    \* does the server refuse documents it has
  stored,    \* server: the documents of the run
  lost,      \* history: attempts that got no response
  newline,   \* does a newline end the last record of a response
  reading,   \* what documents() does
  attempt,   \* which attempt it is
  pieces,    \* pieces of records received in this attempt
  yielded    \* history: what documents() has yielded, as positions in stored

serverVars == <<unique, stored, lost>>
readerVars == <<newline, reading, attempt, pieces, yielded>>

InserterInit ==
  /\ FilesInit
  /\ unique \in BOOLEAN /\ stored = <<>> /\ lost = 0
  /\ newline \in BOOLEAN /\ reading = "no" /\ attempt = 1 /\ pieces = 0 /\ yielded = <<>>

(***************************************************************************)
(* post_document(): the attempts that get no response are repeated, and    *)
(* the document may be stored by each of them.  A refusal is not repeated. *)
(***************************************************************************)
Unanswered == {"lost", "stored, lost"}

\* Mutant: the document of an attempt that got no answer is taken out again.
CopiesAnswered(tries) == {i \in DOMAIN tries : tries[i] = "stored"}

\* The attempts that stored the document.
Copies(tries) == {i \in DOMAIN tries : tries[i] \in {"stored", "stored, lost"}}

Lost(tries) == {i \in DOMAIN tries : tries[i] \in Unanswered}

Posts ==
  {tries \in UNION {[1..n -> Unanswered \cup {"stored", "refused"}] : n \in 1..Attempts} :
     /\ \A i \in 1..(Len(tries) - 1) : tries[i] \in Unanswered
     /\ Last(tries) \in Unanswered => Len(tries) = Attempts
     /\ unique => Cardinality(Copies(tries)) <= 1}

\* Mutant: a document that was stored and refused is taken as inserted.
ReturnsOnRefusal(tries) == Last(tries) # "lost"

Returns(tries) == Last(tries) = "stored"

\* __call__ while the primary has not failed: the primary raises if the post does.
Insert ==
  /\ ~primaryFailed /\ Call
  /\ \E tries \in Posts :
       /\ primaryFailed' = ~Returns(tries)
       /\ lost' = lost + Cardinality(Lost(tries))
       /\ lost' <= MaxLost
       /\ stored' = stored \o [i \in 1..Cardinality(Copies(tries)) |-> received']
  /\ UNCHANGED <<unique, readerVars>>

Otherwise ==
  /\ primaryFailed
  /\ FilesNext
  /\ UNCHANGED <<serverVars, readerVars>>

(***************************************************************************)
(* documents(): the response is a sequence of records that arrives in      *)
(* chunks.  A record is cut into two pieces; the second has the newline    *)
(* that ends it, if there is one.  _iter_json_seq yields a document when   *)
(* its newline has arrived, and what remains at the end of the response.   *)
(***************************************************************************)
Pieces == 2 * Len(stored)

\* The number of documents yielded when p pieces have arrived.
Whole(p) == IF p = Pieces /\ ~newline THEN Len(stored) - 1 ELSE p \div 2

\* Mutant: a record is taken as whole at its first piece.
BetweenAnyPiece(p, q) == [i \in 1..((q + 1) \div 2 - (p + 1) \div 2) |-> (p + 1) \div 2 + i]

Between(p, q) == [i \in 1..(Whole(q) - Whole(p)) |-> Whole(p) + i]

Read ==
  /\ reading = "no" /\ received = NumDocs /\ ~primaryFailed /\ stored # <<>>
  /\ reading' = "reading"
  /\ UNCHANGED <<newline, attempt, pieces, yielded>>

Chunk ==
  /\ reading = "reading"
  /\ \E more \in (pieces + 1)..Pieces :
       /\ pieces' = more
       /\ yielded' = yielded \o Between(pieces, more)
  /\ UNCHANGED <<newline, reading, attempt>>

ResponseEnds ==
  /\ reading = "reading" /\ pieces = Pieces
  /\ yielded' = yielded \o [i \in 1..(Len(stored) - Whole(Pieces)) |-> Whole(Pieces) + i]
  /\ reading' = "done"
  /\ UNCHANGED <<newline, attempt, pieces>>

\* Mutant: a connection that fails is taken for the end of the response.
ResponseBreaksQuietly ==
  /\ reading = "reading" /\ reading' = "done"
  /\ UNCHANGED <<newline, attempt, pieces, yielded>>

\* The connection fails.  The next attempt begins with the first document.
ResponseBreaks ==
  /\ reading = "reading"
  /\ IF attempt < Attempts
     THEN attempt' = attempt + 1 /\ pieces' = 0 /\ UNCHANGED reading
     ELSE reading' = "raised" /\ UNCHANGED <<attempt, pieces>>
  /\ UNCHANGED <<newline, yielded>>

Documents ==
  /\ Read \/ Chunk \/ ResponseEnds \/ ResponseBreaks
  /\ UNCHANGED <<vars, storeVars, serverVars>>

InserterNext == Insert \/ Otherwise \/ Documents

InserterSpec == InserterInit /\ [][InserterNext]_<<vars, storeVars, serverVars, readerVars>>

-----------------------------------------------------------------------------
(***************************************************************************)
(* Properties                                                              *)
(***************************************************************************)
\* The server has the documents of the run in their order up to the one at
\* which the primary failed, which it may have as well; a document is there
\* several times only if the server takes it again and a response was lost.
InsertedInOrder ==
  LET last == IF stored = <<>> THEN 0 ELSE Last(stored)
  IN /\ last \in Len(primary)..(IF primaryFailed THEN failedAt ELSE received)
     /\ ToSet(stored) = 1..last
     /\ \A i \in 1..(Len(stored) - 1) : stored[i] <= stored[i + 1]
     /\ Len(stored) - last <= IF unique THEN 0 ELSE lost

\* documents() yields whole documents in their order.  After a connection that
\* failed it begins again, at most Attempts - 1 times, so its last documents
\* are the whole run and its first ones may be repeated: what the caller has
\* been given cannot be taken back.
DocumentsEndWithRun ==
  LET begun == {i \in DOMAIN yielded : yielded[i] = 1}
  IN /\ \A i \in 2..Len(yielded) : yielded[i] \in {1, yielded[i - 1] + 1}
     /\ Cardinality(begun) <= attempt
     /\ reading = "done" =>
          /\ Len(yielded) >= Len(stored)
          /\ \A i \in 1..Len(stored) : yielded[Len(yielded) - Len(stored) + i] = i
=============================================================================
