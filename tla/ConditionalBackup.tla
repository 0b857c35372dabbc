------------------------- MODULE ConditionalBackup --------------------------
(***************************************************************************)
(* writing/tiled_writer.py, _ConditionalBackup: the documents of one run   *)
(* go to the primary callback until it raises; from then on, and for the   *)
(* documents buffered so far, they go to the backup callbacks instead.     *)
(*                                                                         *)
(* The documents of the run are the numbers 1, 2, ... in the order they    *)
(* arrive.  __call__ runs in one thread, so a call is one step; which      *)
(* callbacks raise, and on which documents, is not determined.             *)
(***************************************************************************)
EXTENDS Naturals, Sequences

CONSTANTS
  Backups,        \* the backup callbacks
  MaxLen,         \* maxlen of the buffer
  NumDocs         \* bound: documents of the run

ASSUME MaxLenAssumption == MaxLen \in Nat \ {0}
ASSUME NumDocsAssumption == NumDocs \in Nat

VARIABLES
  buffer,         \* _buffer, the documents kept for the backups
  primaryFailed,  \* _primary_failed
  received,       \* history: how many documents have arrived
  failedAt,       \* history: the document the primary raised on, or 0
  primary,        \* history: the documents the primary has processed
  offered,        \* history: the documents each backup has been called with
  refused         \* history: those of them it raised on

vars == <<buffer, primaryFailed, received, failedAt, primary, offered, refused>>

\* The documents from the m-th to the n-th, in order.
Docs(m, n) == [i \in 1..(n - m + 1) |-> m + i - 1]

Init ==
  /\ buffer = <<>> /\ primaryFailed = FALSE
  /\ received = 0 /\ failedAt = 0
  /\ primary = <<>>
  /\ offered = [b \in Backups |-> <<>>]
  /\ refused = [b \in Backups |-> {}]

\* Appending to a full deque(maxlen=...) drops its first element.
Buffered(s, d) ==
  IF Len(s) < MaxLen THEN Append(s, d) ELSE Append(Tail(s), d)

\* Mutant: an exception of a backup ends its replay.
ReplayUnguarded(docs) ==
  /\ \E upto \in [Backups -> 1..Len(docs)] :
       /\ offered' = [b \in Backups |-> offered[b] \o SubSeq(docs, 1, upto[b])]
       /\ refused' = [b \in Backups |-> refused[b] \cup {docs[upto[b]]}]
  /\ buffer' = <<>>

\* Every backup is called with every document of docs and may raise on any of
\* them: that is logged, and the next one follows.  Then the buffer is cleared.
Replay(docs) ==
  /\ offered' = [b \in Backups |-> offered[b] \o docs]
  /\ \E raised \in [Backups -> SUBSET {docs[i] : i \in 1..Len(docs)}] :
       refused' = [b \in Backups |-> refused[b] \cup raised[b]]
  /\ buffer' = <<>>

\* __call__ while the primary has not failed, and the primary returns.
CallPrimary ==
  /\ received < NumDocs /\ ~primaryFailed
  /\ received' = received + 1
  /\ buffer' = Buffered(buffer, received')
  /\ primary' = Append(primary, received')
  /\ UNCHANGED <<primaryFailed, failedAt, offered, refused>>

\* __call__ in which the primary raises.
CallPrimaryFails ==
  /\ received < NumDocs /\ ~primaryFailed
  /\ received' = received + 1
  /\ primaryFailed' = TRUE /\ failedAt' = received'
  /\ Replay(Buffered(buffer, received'))
  /\ UNCHANGED primary

\* Mutant: the primary is tried again on every document.
CallBackupsAndPrimary ==
  /\ received < NumDocs /\ primaryFailed
  /\ received' = received + 1
  /\ primary' \in {primary, Append(primary, received')}
  /\ Replay(Buffered(buffer, received'))
  /\ UNCHANGED <<primaryFailed, failedAt>>

\* __call__ after the primary has failed.
CallBackups ==
  /\ received < NumDocs /\ primaryFailed
  /\ received' = received + 1
  /\ Replay(Buffered(buffer, received'))
  /\ UNCHANGED <<primaryFailed, failedAt, primary>>

Next == CallPrimary \/ CallPrimaryFails \/ CallBackups

Spec == Init /\ [][Next]_vars

-----------------------------------------------------------------------------
(***************************************************************************)
(* Properties                                                              *)
(***************************************************************************)
TypeOK ==
  /\ buffer \in Seq(Nat) /\ Len(buffer) <= MaxLen
  /\ primaryFailed \in BOOLEAN
  /\ received \in 0..NumDocs /\ failedAt \in 0..received
  /\ primary \in Seq(Nat)
  /\ offered \in [Backups -> Seq(Nat)]
  /\ refused \in [Backups -> SUBSET Nat]

\* What the primary has processed is the run up to its first failure and
\* nothing after it, so a run that failed never has its Stop document
\* (docstring, lines 167-172).
PrimaryHasPrefix ==
  primary = Docs(1, IF primaryFailed THEN failedAt - 1 ELSE received)

\* A run is never split: as long as the primary has not failed it has every
\* document and the backups have none; afterwards every backup is offered
\* every document once, in order, whatever other documents and other backups
\* raised, except what had left the buffer before the primary failed.
Dropped == IF failedAt > MaxLen THEN failedAt - MaxLen ELSE 0
RunIsNotSplit ==
  \A b \in Backups :
    offered[b] = IF primaryFailed THEN Docs(Dropped + 1, received) ELSE <<>>

\* "The full document stream is preserved in the backups" (docstring, lines
\* 172-173): of a run that fits into the buffer, the Start document included,
\* whenever the primary fails and whatever the backups raise.  Of a longer one
\* the first documents are lost.
ShortRunsPreserved ==
  (received <= MaxLen /\ primaryFailed) =>
    \A b \in Backups : offered[b] = Docs(1, received)
=============================================================================
