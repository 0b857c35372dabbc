------------------------------ MODULE RunExport ------------------------------
(***************************************************************************)
(* exporters.py, json_seq_exporter: the documents that are made of what    *)
(* _RunWriter has stored of a stream, its descriptors, the rows of the     *)
(* table and the values in array nodes.  The writer is that of             *)
(* EventTables, with the handler of descriptors added; a run may be        *)
(* exported at any time, also before its end and after it was abandoned.   *)
(* The exporter awaits each part of what it reads: the writer goes on      *)
(* between two of them.                                                    *)
(*                                                                         *)
(* A stream has a clock of its own: documents follow one another, and a    *)
(* descriptor is the only one in use until the next one.                   *)
(***************************************************************************)
EXTENDS EventTables, FiniteSetsExt

CONSTANT
  MaxDescriptors  \* bound: descriptors of each stream

ASSUME DescriptorsAssumption == MaxDescriptors \in [Streams -> Nat \ {0}]

VARIABLES
  nodes,          \* _desc_nodes: the descriptors of each stream it knows, in order
  metadata,       \* server: descriptors in the metadata of the stream's node
  descriptors,    \* history: how many descriptors of a stream were received
  taken,          \* history: the descriptor of each event
  step,           \* exporter: what it reads next
  reading,        \* exporter: the stream
  ended,          \* exporter: is the Stop document in the metadata of the run
  docs,           \* exporter: the descriptors, those of desc_time_uids
  found,          \* exporter: part_names, 0 for array values and 1 for a table
  table           \* exporter: the rows, those of df

streamVars == <<nodes, metadata, descriptors, taken>>
readVars == <<step, reading, ended, docs, found, table>>
exportVars == <<vars, streamVars, readVars>>

ExportInit ==
  /\ Init
  /\ nodes = [s \in Streams |-> <<>>]
  /\ metadata = [s \in Streams |-> <<>>]
  /\ descriptors = [s \in Streams |-> 0]
  /\ taken = [s \in Streams |-> <<>>]
  /\ step = "idle" /\ reading = NoStream /\ ended = FALSE
  /\ docs = <<>> /\ found = {} /\ table = <<>>

(***************************************************************************)
(* descriptor(): the first one of a stream creates its node; of another    *)
(* one uid, time and configuration are added to the _config_updates that   *)
(* the client has cached.                                                  *)
(***************************************************************************)
WithDescriptor(s, d) == Append(nodes[s], d)

Received(s) ==
  /\ Receiving /\ descriptors[s] < MaxDescriptors[s]
  /\ descriptors' = [descriptors EXCEPT ![s] = @ + 1]
  /\ UNCHANGED <<backed, pc, batch, cache, clients, notes, server, history, taken>>

\* The node exists although the writer does not know it.
NodeRefused(s) == nodes[s] = <<>> /\ metadata[s] # <<>>

Descriptor(s) ==
  /\ Received(s) /\ ~NodeRefused(s)
  /\ metadata' = [metadata EXCEPT ![s] = WithDescriptor(s, descriptors'[s])]
  /\ nodes' = [nodes EXCEPT ![s] = WithDescriptor(s, descriptors'[s])]
  /\ UNCHANGED raised /\ NoFault

DescriptorFails(s) ==
  /\ Received(s)
  /\ IF NodeRefused(s)
     THEN UNCHANGED <<metadata, failures>>
     ELSE /\ Fault(TRUE)
          /\ \/ metadata' = [metadata EXCEPT ![s] = WithDescriptor(s, descriptors'[s])]
             \/ UNCHANGED metadata
  /\ raised' = TRUE
  /\ UNCHANGED nodes

(***************************************************************************)
(* event(): a KeyError if its descriptor failed.                           *)
(***************************************************************************)
Taken(s) == taken' = [taken EXCEPT ![s] = Append(@, descriptors[s])]

EventOf(s) ==
  /\ Event(s) /\ descriptors[s] \in Range(nodes[s])
  /\ Taken(s)
  /\ UNCHANGED <<nodes, metadata, descriptors>>

EventUnknown(s) ==
  /\ EventLost(s) /\ descriptors[s] \in (1..MaxDescriptors[s]) \ Range(nodes[s])
  /\ Taken(s)
  /\ UNCHANGED <<nodes, metadata, descriptors>>

-----------------------------------------------------------------------------
(***************************************************************************)
(* The exporter reads the node of a stream that has one table: what it is  *)
(* called with, the metadata of the node, the names of its parts, and then *)
(* table and array values, of which it makes the documents.                *)
(***************************************************************************)
RequestExport ==
  /\ step = "idle"
  /\ step' = "stream" /\ ended' = stopDoc
  /\ UNCHANGED <<reading, docs, found, table>>

ReadDescriptors(s) ==
  /\ step = "stream" /\ Parts[s] = 1 /\ metadata[s] # <<>>
  /\ step' = "parts" /\ reading' = s /\ docs' = metadata[s]
  /\ UNCHANGED <<ended, found, table>>

ReadParts ==
  /\ step = "parts"
  /\ step' = "table" /\ found' = {p \in 0..1 : <<reading, p>> \in made}
  /\ UNCHANGED <<reading, ended, docs, table>>

ReadTable ==
  /\ step = "table"
  /\ step' = "arrays" /\ table' = IF 1 \in found THEN data[<<reading, 1>>] ELSE <<>>
  /\ UNCHANGED <<reading, ended, docs, found>>

\* The last of the reads: the documents are those of ExportedEvents.
ReadArrays ==
  /\ step = "arrays"
  /\ step' = "idle" /\ reading' = NoStream /\ ended' = FALSE
  /\ docs' = <<>> /\ found' = {} /\ table' = <<>>

Export == RequestExport \/ (\E s \in Streams : ReadDescriptors(s)) \/ ReadParts \/ ReadTable \/ ReadArrays

ExportNext ==
  \/ /\ \E s \in Streams : Descriptor(s) \/ DescriptorFails(s) \/ EventOf(s) \/ EventUnknown(s)
     /\ UNCHANGED readVars
  \/ (WriteBatch \/ EndRun) /\ UNCHANGED <<streamVars, readVars>>
  \/ Export /\ UNCHANGED <<vars, streamVars>>

ExportSpec == ExportInit /\ [][ExportNext]_exportVars

-----------------------------------------------------------------------------
(***************************************************************************)
(* What the exporter makes of it.                                          *)
(***************************************************************************)
\* The time of the i-th event and of the d-th descriptor of a stream.
TimeOf(s, i) == i + taken[s][i]
DescriptorTime(s, d) == d + Cardinality({i \in DOMAIN taken[s] : taken[s][i] < d})

\* build_descriptor_docs(): the metadata of the node, then one for each update.
DescriptorDocs == [k \in DOMAIN docs |-> [uid |-> docs[k], time |-> DescriptorTime(reading, docs[k])]]

\* Mutant: the first descriptor that is old enough.
DescriptorAtFirst(descriptorDocs, time) ==
  descriptorDocs[Min({1} \cup {k \in DOMAIN descriptorDocs : descriptorDocs[k].time <= time})]

\* The last descriptor that is not younger than the row.
DescriptorAt(descriptorDocs, time) ==
  descriptorDocs[Max({1} \cup {k \in DOMAIN descriptorDocs : descriptorDocs[k].time <= time})]

Values == IF 0 \in found THEN data[<<reading, 0>>] ELSE <<>>

\* Mutant: the rows of the table as they are stored.
SeqNumsStored == IF table = <<>> THEN [i \in DOMAIN Values |-> i] ELSE table

\* The numbers of a set, from the least to the greatest.
InOrderOf(S) == [i \in 1..Cardinality(S) |-> CHOOSE n \in S : Cardinality({m \in S : m <= n}) = i]

\* Rows of one seq_num are one event.  Without a table the values are counted.
SeqNums == IF table = <<>> THEN [i \in DOMAIN Values |-> i] ELSE InOrderOf(Range(table))

\* Array values are taken to be in the order of the seq_nums.
ExportedEvents ==
  [i \in DOMAIN SeqNums |->
     LET seq_num == SeqNums[i]
         time == IF table = <<>> THEN 0 ELSE TimeOf(reading, seq_num)
     IN [seq_num |-> seq_num, time |-> time,
         descriptor |-> DescriptorAt(DescriptorDocs, time).uid,
         values |-> IF i <= Len(Values) THEN {Values[i]} ELSE {}]]

\* The documents are sorted by time; sorting leaves descriptors first.
Precedes(s, d, event) == DescriptorTime(s, d) <= event.time

-----------------------------------------------------------------------------
(***************************************************************************)
(* Properties                                                              *)
(***************************************************************************)
\* What is exported of a stream, whatever the writer does between the reads, is
\* its events from the first on that were not lost, each once; those of a run
\* that had its Stop document when the export began are all there.  Without a
\* table array values are counted, which numbers them wrongly after a loss.
ExportIsComplete ==
  step = "arrays" =>
    LET exported == ExportedEvents
        numbers == {exported[i].seq_num : i \in DOMAIN exported}
        written == (1..events[reading]) \ lost[reading]
    IN /\ \A i, j \in DOMAIN exported : i < j => exported[i].seq_num < exported[j].seq_num
       /\ (table # <<>> \/ lost[reading] = {}) =>
            numbers \subseteq written /\ \A n \in numbers : {m \in written : m < n} \subseteq numbers
       /\ ended => numbers = written

\* As soon as the table has rows an event comes after its own descriptor or, if
\* that one was added after the descriptors were read, the last of these.  With
\* a backup no event gets the array value of another one, although table and
\* values are read at different times; before the table has rows it may get a
\* fill value.  With the Stop document each gets its value.
ExportIsFaithful ==
  step = "arrays" =>
    \A i \in DOMAIN ExportedEvents :
      LET event == ExportedEvents[i]
          own == taken[reading][event.seq_num]
      IN /\ table # <<>> =>
              /\ event.descriptor = IF ended \/ own \in Range(docs) THEN own ELSE docs[Len(docs)]
              /\ Precedes(reading, event.descriptor, event)
         /\ backed => event.values \subseteq {event.seq_num} \cup (IF table = <<>> THEN {0} ELSE {})
         /\ (backed /\ ended /\ reading \in ArrayStreams) => event.values = {event.seq_num}
=============================================================================
