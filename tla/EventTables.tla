----------------------------- MODULE EventTables ----------------------------
(***************************************************************************)
(* writing/tiled_writer.py, _RunWriter, the data of Event documents: rows  *)
(* are cached per stream and written in batches, array values to a node of *)
(* their own and the rest to a table, or to several when it has more than  *)
(* MAX_TABLE_COLUMNS columns.  The Stop document flushes the caches, is    *)
(* written to the run's metadata with the notes, and closes the nodes.     *)
(*                                                                         *)
(* A handler is divided into one step per request to the server, because   *)
(* clients read the server between two requests; pc forces their order.  A *)
(* request may fail, and one that failed may have been processed all the   *)
(* same (its response was lost).                                           *)
(***************************************************************************)
EXTENDS Naturals, Sequences, FiniteSets, Functions

CONSTANTS
  Streams,        \* names of the event streams
  ArrayStreams,   \* those with a data key whose values are written as zarr
  Parts,          \* tables the internal table of each stream is split into
  SeqNumPart,     \* the one that has the column seq_num
  BatchSize,      \* batch_size
  Retries,        \* attempts of retry_context()
  NoStream,       \* not the name of a stream
  NumEvents,      \* bound: events of each stream
  MaxFaults       \* bound: requests that fail

ASSUME StreamsAssumption == ArrayStreams \subseteq Streams /\ NoStream \notin Streams
ASSUME SizesAssumption ==
  /\ BatchSize \in Nat /\ NumEvents \in Nat /\ MaxFaults \in Nat
  /\ Parts \in [Streams -> Nat \ {0}] /\ Retries \in Nat \ {0}
  /\ SeqNumPart \in [Streams -> Nat] /\ \A s \in Streams : SeqNumPart[s] \in 1..Parts[s]

\* Node <<s, 0>> holds the array values of stream s, <<s, p>> its p-th table.
Nodes == UNION {{s} \X (0..Parts[s]) : s \in Streams}
Tables == {n \in Nodes : n[2] > 0}
Root == <<NoStream, 0>>           \* the node of the run

VARIABLES
  backed,         \* is the writer the primary of a _ConditionalBackup
  pc,             \* what the writer does next
  job,            \* the stream whose batch is being written
  stopping,       \* is the handler at hand stop()
  part,           \* the table being appended to
  attempts,       \* attempts left of a forced retry
  cache,          \* _internal_data_cache: rows by stream
  refs,           \* _internal_arrays and _internal_tables: nodes it knows
  shape,          \* of the clients of array nodes: how many values those have
  notes,          \* self.notes: the rows that forced retries may have doubled
  raised,         \* did a handler raise
  data,           \* server: the rows of each node, as their seq_nums
  made,           \* server: the nodes that exist
  stopDoc,        \* server: the Stop document is in the metadata
  published,      \* server: the notes in the metadata
  closed,         \* server: the nodes whose stream is closed
  events,         \* history: seq_num of the last event of each stream
  lost,           \* history: seq_nums of events that were not cached
  faults,         \* history: requests that failed
  lasting         \* history: one of them with an error a retry does not cure

batch == <<job, stopping, part, attempts>>
server == <<data, made, stopDoc, published, closed>>
clients == <<refs, shape>>
history == <<events, lost>>
failures == <<faults, lasting>>
vars == <<backed, pc, batch, cache, clients, notes, raised, server, history,
          failures>>

Row(s, n) == [seq |-> n, array |-> s \in ArrayStreams]
Seqs(rows) == [i \in 1..Len(rows) |-> rows[i].seq]

Init ==
  /\ backed \in BOOLEAN
  /\ pc = "idle" /\ job = NoStream /\ stopping = FALSE
  /\ part = 1 /\ attempts = 0
  /\ cache = [s \in Streams |-> <<>>]
  /\ refs = {} /\ shape = [s \in Streams |-> 0] /\ notes = {} /\ raised = FALSE
  /\ data = [n \in Nodes |-> <<>>] /\ made = {}
  /\ stopDoc = FALSE /\ published = {} /\ closed = {}
  /\ events = [s \in Streams |-> 0] /\ lost = [s \in Streams |-> {}]
  /\ faults = 0 /\ lasting = FALSE

(***************************************************************************)
(* Documents reach the writer one at a time.  After an exception they do   *)
(* so only if no _ConditionalBackup has taken the run away from it.        *)
(***************************************************************************)
\* Mutant: a run that failed goes on.
ReceivingAlways == pc = "idle" /\ ~stopping

Receiving == pc = "idle" /\ ~stopping /\ (backed => ~raised)

\* A request fails; a lasting error is one that no retry cures: a 4xx, or
\* an error of a request the client has already retried as often as it does.
Fault(isLasting) ==
  /\ faults < MaxFaults
  /\ faults' = faults + 1
  /\ lasting' = (lasting \/ isLasting)
NoFault == UNCHANGED failures

\* Mutant: the batch is forgotten when writing it fails.
RaiseAndForget ==
  pc' = "idle" /\ raised' = TRUE /\ cache' = [s \in Streams |-> IF s = job THEN <<>> ELSE cache[s]]

\* The handler raises.  What it has cached stays cached.
Raise == pc' = "idle" /\ raised' = TRUE /\ UNCHANGED cache

\* The rows reach node n, or with a lost response they may have reached it.
Store(n, rows) == data' = [data EXCEPT ![n] = @ \o Seqs(rows)]
MayStore(n, rows) == Store(n, rows) \/ UNCHANGED data

(***************************************************************************)
(* event(): cache the row; write the batch when there are enough.  Events  *)
(* of a stream are numbered from 1 by the RunEngine.                       *)
(***************************************************************************)
Event(s) ==
  /\ Receiving /\ events[s] < NumEvents
  /\ events' = [events EXCEPT ![s] = @ + 1]
  /\ cache' = [cache EXCEPT ![s] = Append(@, Row(s, events'[s]))]
  /\ IF Len(cache'[s]) >= BatchSize
     THEN pc' = "arrays" /\ job' = s
     ELSE UNCHANGED <<pc, job>>
  /\ UNCHANGED <<backed, stopping, part, attempts, clients, notes, raised, server, lost, failures>>

\* A KeyError, if the handler of the event's descriptor raised: the event is
\* not cached.  The RunEngine counts on.
EventLost(s) ==
  /\ Receiving /\ raised /\ events[s] < NumEvents
  /\ events' = [events EXCEPT ![s] = @ + 1]
  /\ lost' = [lost EXCEPT ![s] = @ \cup {events'[s]}]
  /\ UNCHANGED <<backed, pc, batch, cache, clients, notes, raised, server, failures>>

(***************************************************************************)
(* _write_internal_data, first the array values: they are popped from the  *)
(* rows, then appended to their node or, to write_array(), uploaded to a   *)
(* new one: two requests, with readers between them.                       *)
(***************************************************************************)
WithArrays(rows) ==
  LET kept[i \in 0..Len(rows)] ==
        IF i = 0 THEN <<>>
        ELSE IF rows[i].array THEN Append(kept[i - 1], rows[i]) ELSE kept[i - 1]
  IN  kept[Len(rows)]
Arrays(s) == WithArrays(cache[s])
Popped(rows) == [i \in 1..Len(rows) |-> [seq |-> rows[i].seq, array |-> FALSE]]

ToTables == pc' = "table" /\ part' = 1

NoArrays ==
  /\ pc = "arrays" /\ Arrays(job) = <<>>
  /\ ToTables
  /\ UNCHANGED <<backed, job, stopping, attempts, cache, clients, notes, raised, server,
                  history, failures>>

\* The node exists without the writer knowing it: creating it is refused.
Refused(n) == n \in made /\ n \notin refs

\* The values are popped before anything is sent.  Nobody sees the cache until
\* the last of the requests has been answered, with which it is written here.
PopArrays == cache' = [cache EXCEPT ![job] = Popped(@)]
RaisePopped == PopArrays /\ pc' = "idle" /\ raised' = TRUE

\* A new array node has fill values, 0, until the values are uploaded.
Filled(rows) == [i \in 1..Len(rows) |-> 0]

Create(n) == made' = made \cup {n} /\ data' = [data EXCEPT ![n] = Filled(Arrays(job))]

CreateArrays ==
  LET n == <<job, 0>> IN
  /\ pc = "arrays" /\ Arrays(job) # <<>> /\ n \notin refs /\ ~Refused(n)
  /\ Create(n)
  /\ pc' = "upload"
  /\ UNCHANGED <<backed, batch, cache, clients, notes, raised, stopDoc, published, closed, history>>
  /\ NoFault

CreateArraysFails ==
  LET n == <<job, 0>> IN
  /\ pc = "arrays" /\ Arrays(job) # <<>> /\ n \notin refs
  /\ IF Refused(n)
     THEN UNCHANGED <<data, made, failures>>
     ELSE Fault(TRUE) /\ (Create(n) \/ UNCHANGED <<data, made>>)
  /\ RaisePopped
  /\ UNCHANGED <<backed, batch, clients, notes, stopDoc, published, closed, history>>

Upload(n) == data' = [data EXCEPT ![n] = Seqs(Arrays(job))]

UploadArrays ==
  LET n == <<job, 0>> IN
  /\ pc = "upload"
  /\ Upload(n)
  /\ refs' = refs \cup {n} /\ shape' = [shape EXCEPT ![job] = Len(Arrays(job))]
  /\ PopArrays /\ ToTables
  /\ UNCHANGED <<backed, job, stopping, attempts, notes, raised, made, stopDoc, published,
                  closed, history>>
  /\ NoFault

UploadArraysFails ==
  /\ pc = "upload"
  /\ Fault(TRUE) /\ (Upload(<<job, 0>>) \/ UNCHANGED data)
  /\ RaisePopped
  /\ UNCHANGED <<backed, batch, clients, notes, made, stopDoc, published, closed, history>>

\* The values go behind those that the client knows of: they replace others
\* of a request that was processed although it failed.
Patched(values, offset, more) ==
  LET end == offset + Len(more)
  IN  [i \in 1..(IF Len(values) > end THEN Len(values) ELSE end) |->
         IF i > offset /\ i <= end THEN more[i - offset] ELSE values[i]]
Patch(n) == data' = [data EXCEPT ![n] = Patched(@, shape[job], Seqs(Arrays(job)))]

PatchArrays ==
  LET n == <<job, 0>> IN
  /\ pc = "arrays" /\ Arrays(job) # <<>> /\ n \in refs
  /\ Patch(n)
  /\ shape' = [shape EXCEPT ![job] = Len(data'[n])]
  /\ PopArrays /\ ToTables
  /\ UNCHANGED <<backed, job, stopping, attempts, refs, notes, raised, made, stopDoc,
                  published, closed, history>>
  /\ NoFault

PatchArraysFails ==
  LET n == <<job, 0>> IN
  /\ pc = "arrays" /\ Arrays(job) # <<>> /\ n \in refs
  /\ Fault(TRUE) /\ (Patch(n) \/ UNCHANGED data)
  /\ RaisePopped
  /\ UNCHANGED <<backed, batch, clients, notes, made, stopDoc, published, closed, history>>

(***************************************************************************)
(* Then the rest of the rows, one table after the other.                   *)
(***************************************************************************)
CreateTable ==
  LET n == <<job, part>> IN
  /\ pc = "table" /\ n \notin refs /\ ~Refused(n)
  /\ made' = made \cup {n} /\ refs' = refs \cup {n}
  /\ UNCHANGED <<backed, pc, batch, cache, shape, notes, raised, data, stopDoc, published,
                  closed, history>>
  /\ NoFault

CreateTableFails ==
  LET n == <<job, part>> IN
  /\ pc = "table" /\ n \notin refs
  /\ IF Refused(n)
     THEN UNCHANGED <<made, failures>>
     ELSE Fault(TRUE) /\ made' \in {made, made \cup {n}}
  /\ Raise
  /\ UNCHANGED <<backed, batch, clients, notes, data, stopDoc, published, closed, history>>

\* The next table, or the end of the batch: the cache is cleared.
NextTable ==
  IF part < Parts[job]
  THEN pc' = "table" /\ part' = part + 1 /\ UNCHANGED cache
  ELSE /\ pc' = IF stopping THEN "stop" ELSE "idle"
       /\ cache' = [cache EXCEPT ![job] = <<>>]
       /\ UNCHANGED part

\* append_partition() returns, at the first attempt or at a forced retry.
AppendTable ==
  LET n == <<job, part>> IN
  /\ pc \in {"table", "retry"} /\ n \in refs
  /\ Store(n, cache[job])
  /\ NextTable
  /\ UNCHANGED <<backed, job, stopping, attempts, clients, notes, raised, made, stopDoc,
                  published, closed, history>>
  /\ NoFault

\* Mutant: no note on the forced retry.
AppendTransientUnnoted ==
  LET n == <<job, part>> IN
  /\ pc = "table" /\ n \in refs
  /\ Fault(FALSE) /\ MayStore(n, cache[job])
  /\ part = SeqNumPart[job]
  /\ pc' = "retry" /\ attempts' = Retries
  /\ UNCHANGED <<backed, job, stopping, part, cache, clients, notes, raised, made,
                  stopDoc, published, closed, history>>

\* The first attempt fails with a transport error, a 5xx or a 429: the note
\* needs the seq_num column of the table, then the append is tried again.
AppendTransient ==
  LET n == <<job, part>> IN
  /\ pc = "table" /\ n \in refs
  /\ Fault(FALSE) /\ MayStore(n, cache[job])
  /\ part = SeqNumPart[job]
  /\ notes' = notes \cup {<<job, row.seq>> : row \in Range(cache[job])}
  /\ pc' = "retry" /\ attempts' = Retries
  /\ UNCHANGED <<backed, job, stopping, part, cache, clients, raised, made, stopDoc,
                  published, closed, history>>

\* The same error at a table without that column: table["seq_num"] raises.
AppendNotNoted ==
  LET n == <<job, part>> IN
  /\ pc = "table" /\ n \in refs
  /\ Fault(FALSE) /\ MayStore(n, cache[job])
  /\ part # SeqNumPart[job]
  /\ Raise
  /\ UNCHANGED <<backed, batch, clients, notes, made, stopDoc, published, closed, history>>

\* Another 4xx, at the first attempt or at a retry: not processed, raised.
AppendRejected ==
  /\ pc \in {"table", "retry"} /\ <<job, part>> \in refs
  /\ Fault(TRUE)
  /\ Raise
  /\ UNCHANGED <<backed, batch, clients, notes, server, history>>

\* Mutant: the retry is not repeated.
RetryTransientOnce ==
  /\ pc = "retry"
  /\ Fault(FALSE) /\ MayStore(<<job, part>>, cache[job])
  /\ Raise
  /\ UNCHANGED <<backed, batch, clients, notes, made, stopDoc, published, closed, history>>

\* A retry fails with an error that is retried, until no attempt is left.
RetryTransient ==
  /\ pc = "retry"
  /\ Fault(attempts = 1) /\ MayStore(<<job, part>>, cache[job])
  /\ IF attempts = 1
     THEN Raise
     ELSE UNCHANGED <<pc, raised, cache>>
  /\ attempts' = attempts - 1
  /\ UNCHANGED <<backed, job, stopping, part, clients, notes, made, stopDoc, published,
                  closed, history>>

(***************************************************************************)
(* stop(): write what is cached, one stream after the other, then the Stop *)
(* document with the notes, then close the streams of all nodes.           *)
(***************************************************************************)
Stop ==
  /\ Receiving
  /\ stopping' = TRUE /\ pc' = "stop"
  /\ UNCHANGED <<backed, job, part, attempts, cache, clients, notes, raised, server,
                  history, failures>>

StopFlush(s) ==
  /\ pc = "stop" /\ cache[s] # <<>>
  /\ pc' = "arrays" /\ job' = s
  /\ UNCHANGED <<backed, stopping, part, attempts, cache, clients, notes, raised,
                  server, history, failures>>

\* Mutant: one flushed stream is enough.
FlushedOne == \E s \in Streams : cache[s] = <<>>

Flushed == \A s \in Streams : cache[s] = <<>>

StopWrite ==
  /\ pc = "stop" /\ Flushed
  /\ stopDoc' = TRUE /\ published' = notes
  /\ pc' = "close"
  /\ UNCHANGED <<backed, batch, cache, clients, notes, raised, data, made, closed,
                  history, failures>>

\* Mutant: the streams are closed even if the Stop document was not written.
StopWriteFailsCloses ==
  /\ pc = "stop" /\ Flushed
  /\ Fault(TRUE)
  /\ UNCHANGED <<stopDoc, published>>
  /\ pc' = "close" /\ raised' = TRUE
  /\ UNCHANGED <<backed, batch, cache, clients, notes, data, made, closed, history>>

StopWriteFails ==
  /\ pc = "stop" /\ Flushed
  /\ Fault(TRUE)
  /\ \/ stopDoc' = TRUE /\ published' = notes
     \/ UNCHANGED <<stopDoc, published>>
  /\ Raise
  /\ UNCHANGED <<backed, batch, clients, notes, data, made, closed, history>>

\* _close_stream_tree(): every node is tried; then the first error is raised.
Close ==
  /\ pc = "close"
  /\ \E failed \in SUBSET (refs \cup {Root}) :
       /\ faults + Cardinality(failed) <= MaxFaults
       /\ faults' = faults + Cardinality(failed)
       /\ closed' = (refs \cup {Root}) \ failed
       /\ raised' = (raised \/ failed # {})
       /\ lasting' = (lasting \/ failed # {})
  /\ pc' = "idle"
  /\ UNCHANGED <<backed, batch, cache, clients, notes, data, made, stopDoc, published,
                  history>>

-----------------------------------------------------------------------------
WriteBatch ==
  \/ NoArrays \/ CreateArrays \/ CreateArraysFails
  \/ UploadArrays \/ UploadArraysFails \/ PatchArrays \/ PatchArraysFails
  \/ CreateTable \/ CreateTableFails
  \/ AppendTable \/ AppendTransient \/ AppendNotNoted \/ AppendRejected
  \/ RetryTransient

EndRun ==
  \/ Stop \/ (\E s \in Streams : StopFlush(s))
  \/ StopWrite \/ StopWriteFails \/ Close

Next == (\E s \in Streams : Event(s) \/ EventLost(s)) \/ WriteBatch \/ EndRun

Spec == Init /\ [][Next]_vars

-----------------------------------------------------------------------------
(***************************************************************************)
(* Properties                                                              *)
(***************************************************************************)
\* A reader of a table, at any time, sees no row without the rows before it,
\* however many batches were retried or left in the cache by an exception;
\* except those of events that were never cached.
RowsAppearInOrder ==
  \A t \in Tables : \A i \in 1..Len(data[t]) :
    1..(data[t][i] - 1) \subseteq Range(SubSeq(data[t], 1, i - 1)) \cup lost[t[1]]

\* A run that has its Stop document has every event in every table, in spite
\* of lost responses, retries and exceptions (test_event_append_retried_with_
\* possible_duplication: "none are lost").  Without a backup the run goes on
\* after a descriptor has failed and is stopped as any other: the events of that
\* descriptor are in no table.
TablesComplete ==
  stopDoc =>
    \A t \in Tables :
      1..events[t[1]] \subseteq Range(data[t]) \cup (IF backed THEN {} ELSE lost[t[1]])

\* Rows stored twice are named by a note of the run ("so that possibly
\* duplicated rows can be identified later", lines 902-903).  A writer without
\* a backup gives this for streams of one table only: a batch of which some
\* tables were written is written to all of them again, without a note.
DuplicatesNoted ==
  stopDoc =>
    \A t \in {n \in Tables : backed \/ Parts[n[1]] = 1} : \A i, j \in 1..Len(data[t]) :
      (i < j /\ data[t][i] = data[t][j]) => <<t[1], data[t][i]>> \in published

\* With a backup, a run that has its Stop document has the value of every
\* event in its array nodes, once and in the order of the events, so that they
\* line up with the rows of the table.
ArraysAligned ==
  (backed /\ stopDoc) =>
    \A s \in ArrayStreams : data[<<s, 0>>] = [i \in 1..events[s] |-> i]

\* A live subscriber that is told that a stream is closed can rely on a
\* finished run: the Stop document is there with all notes, and no row is left
\* in the caches, whatever failed on the way.
ClosedIsFinal ==
  closed # {} => stopDoc /\ published = notes /\ \A s \in Streams : cache[s] = <<>>

\* An error of the kind that is retried does not fail the run ("we accept that
\* trade-off rather than failing the run", lines 901-902): an exception comes
\* from one that no retry cures, or from a table of several that has no column
\* seq_num, where the code breaks its word.
TransientIsSurvived ==
  [][raised' /\ ~raised => lasting' \/ (pc = "table" /\ part # SeqNumPart[job])]_vars
=============================================================================
