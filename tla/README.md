# Verification of bluesky-tiled-plugins

TLA+ models of the parts of `bluesky-tiled-plugins` that write Bluesky runs to a
Tiled server and that follow them live, TLC runs that check them on small
instances, and proofs, checked by TLAPS, that some of the properties hold for
every size. Paths below are relative to `src/src/bluesky_tiled_plugins/`.

## 1. The system

A RunEngine produces *documents* (Start, Descriptor, Event, Resource, Datum,
StreamResource, StreamDatum, Stop). `TiledWriter` turns the documents of a run
into a tree of nodes on a Tiled server: a container for the run, one for each
stream, below it tables and arrays. Clients read the tree, or follow it live.

```
RunEngine --> BufferingWrapper --> TiledWriter (RunRouter: one chain per run)
                 (a thread)            |
                                _ConditionalBackup --on failure--> JSONLinesWriter, JSONDictWriter
                                       |
                                RunNormalizer --Dispatcher--> _RunWriter --HTTP--> Tiled
                                                              |   consolidators    |
BlueskyStreamSubscription <------------- websockets ---------------------------------
BlueskyRun clients, exporters, validator <---- HTTP --------------------------------|
```

| Component | State | Operations | What is hard | What makes it correct |
|---|---|---|---|---|
| `BufferingWrapper` (`writing/_buffer.py`) | queue with `unfinished_tasks`, stop event, worker thread | `__call__`, `_process_queue`, `flush`, `shutdown` | every operation in a thread of its own; checks and acts are separate steps; a queue at its limit; two ways for the worker to end | order kept, each document once; `flush` is a barrier and returns; shutdown drains |
| `_ConditionalBackup` (`writing/tiled_writer.py`) | bounded buffer, `_primary_failed` | `__call__` | primary and backups may raise on any document; buffer overflow | a failed run is never continued; backups get the run once, in order |
| `RunNormalizer` | internal and external keys, caches of Resources, Datums and references, frame counters, emitted uids | one handler per document | keys of all streams in one set; Event and Datum in either order; numbering across Resources and streams | each value emitted once, inside an Event or as a StreamDatum; StreamResource once and first; frames tile |
| `_RunWriter`, internal data | descriptors of each stream, row caches, node references, notes | `descriptor`, `event`, `stop`, `_append_with_retry`, `_close_stream_tree` | several requests per batch, each may fail or lose its response; retries duplicate | complete and ordered tables, aligned arrays, noted duplicates, close last |
| `_RunWriter`, external data | StreamDatum cache, node and consolidator references | `stream_resource`, `stream_datum`, `stop` | batches overtaking; state changed before a request that fails | assets are the frames in order; patches tile; nothing missing at Stop |
| Consolidators (`writing/consolidators.py`) | rows, assets, template, index offset | `consume_stream_datum`, `update_from_stream_resource`, `shape`, `chunks` | files, datums and frames at different granularity | chunks sum to the shape, one name per file |
| `BlueskyStreamSubscription` (`streaming.py`) | dictionary and list of subscriptions, `_closed`, a lock | constructor, handlers of new children, updates and closing, `disconnect` | callbacks on many threads, during teardown and failing starts | nothing left behind, silent after `disconnect`, no deadlock |
| `Dispatcher` (`writing/_dispatcher.py`) | callbacks by signal, tokens, weak references | `subscribe`, `unsubscribe`, `process` | equal callbacks, changes during processing | a live token is served |
| JSON writers (`writing/_json_writer.py`) | a file or a key | `__call__` | partial writes, shared names | what is backed up can be read back |
| `TiledInserter`, `post_document` | none but the backups | `__call__` | a lost response, a retried post | documents in order, doubled only where a response was lost |
| `documents()` of the Mongo client | position in the response | a generator | it is retried around what it has yielded | what is read ends with the whole run |
| Validator (`writing/validator.py`, `routers/validator.py`, `BlueskyRunV3.validate`) | structures and notes on the server | local and remote validation | a repair and its note are separate requests; repeated and retried calls | True means valid or noted; repeating changes nothing; repairs are noted |
| Exporters (`exporters.py`) | none | `json_seq_exporter` | rows, arrays and descriptors are stored apart, in other orders | the documents exported, of a live run also, are those received and not lost; external data keep their shape |
| `TiledWriter` | chain per run | `_factory` | composition | documents of a run reach its chain only (`RunRouter` of event_model, external) |
| Other clients, queries | none or a cursor | reading | - | - |

`PROJECT.json` lists under `hazards` where each of these bites, and which
property is about it.

## 2. Modules

| Module | Models | Runs | Proofs |
|---|---|---|---|
| `DocumentPipe` | abstract: items accepted in some order are delivered in that order, each once | through `BufferingWrapper` | `RefinesPipe` |
| `BufferingWrapper` | `writing/_buffer.py` | `buffer`, `buffer_shutdown_drains` | `BufferingWrapperProofs` |
| `ConditionalBackup` | `_ConditionalBackup` | through `BackupFiles` | `InsertedRunProofs` |
| `BackupFiles` | `ConditionalBackup` with the JSON writers below it | through `InsertedRun` | `InsertedRunProofs` |
| `InsertedRun` | `BackupFiles` with `TiledInserter` as the primary, the server it posts to and `documents()` | `backup` | `InsertedRunProofs` |
| `RunNormalizer` | `RunNormalizer` | `normalizer`, `normalizer_single_frames` | `RunNormalizerProofs` |
| `EventTables` | `_RunWriter`, Event data, retries, Stop and closing | through `RunExport` | `EventTablesProofs` |
| `RunExport` | `EventTables` with `_RunWriter.descriptor` and `json_seq_exporter`, which reads what is there step by step | `tables` | `EventTablesProofs` |
| `ExternalData` | `_RunWriter`, StreamDatum data, with the multipart consolidator | `external`, `external_batched_second` | `ExternalDataProofs` |
| `StreamSubscription` | `BlueskyStreamSubscription` | `subscription` | `StreamSubscriptionProofs` |
| `Dispatcher` | `writing/_dispatcher.py` | `dispatcher` | `RunNormalizerProofs` |
| `Utilities` | `list_summands` | through `Consolidators`, `RunValidator` | `ConsolidatorsProofs` |
| `Consolidators` | `writing/consolidators.py` | through `Reexport` | `ConsolidatorsProofs` |
| `Reexport` | external data through `json_seq_exporter` and back into a consolidator | `consolidators` | `ConsolidatorsProofs` |
| `RunValidator` | both validators and the client method that prefers the remote one | `validator` | `RunValidatorProofs` |
| `MC...` | the constants of the runs | | |

Definitions named *Mutant* are faults of the kind a change to the code could
bring in; `PROJECT.json` pairs each with the definition it replaces and the
property that has to notice. No specification uses them.

### BufferingWrapper

A step is what one thread does between two operations another thread can
observe. `__call__` is `CallChecked` (or `CallRejected`), which reads the stop
event, and `CallPut`, which puts the document and is enabled only when there is
room, as `Queue.put` without a timeout blocks. The worker's loop is `WorkerGet`
or `WorkerEmpty` (the timeout of `get`), `WorkerCheckStop`, `WorkerCall` (the
callback, which may raise: both outcomes lead to `finally`), `WorkerTaskDone`
and `WorkerSentinel`. The loop of `flush` tests its conditions under the queue's
mutex, so each test is a step; `shutdown` reads the event, sets it, puts the
sentinel and joins. The variable `log` records every put, `calls` every call of
the callback, `mark` the length of `log` when a flush or shutdown began. The
worker can end in two ways, by the sentinel and by the stop event after a
timeout; the second is what breaks `ShutdownDrains`. `_shutdown_lock` is created
but never used, so nothing serialises two callers of `shutdown`.

Fairness: every thread that can take a step takes one in the end (`WF`), but
nobody has to call anything, and a timeout of `flush` never has to expire.

### ConditionalBackup

Documents are numbered. `CallPrimary`, `CallPrimaryFails` and `CallBackups` are
the three ways through `__call__`; `Replay` offers the buffer to every backup,
which may raise on any document of it. `BackupFiles` extends it: its `Call` is a
step of `ConditionalBackup` together with what the writers store. A writer that
raises has written nothing (the file could not be opened) or a part of the
document without the newline (`json.dump` stopped in the middle), and the next
document goes to the same line. `OtherRun` is a run whose uid begins alike, or that
was abandoned in the same second.

### InsertedRun

The primary of `_ConditionalBackup` posts each document. `Posts` are the ways the
attempts of one post can go: those without a response are repeated, a refusal is
not, and a document may be stored by each attempt. Whether the server refuses a
document it has (`unique`) is open, as the server is not in the repository; with
`unique` a lost response makes the retry fail and the primary with it. `documents()`
reads the run after its last document: records arrive in pieces, and a connection
that fails starts the generator again.

### RunNormalizer

The handlers run one after the other in one thread, so a step is a document with
everything emitted for it. A run is given what its descriptors declare, whether
`filled` mentions external keys, and how (`declared`, `filled`); `EventKeys` is
`event_keys` of the code, over the keys of all streams. `Emit` is `_convert_datum_to_stream_datum` together
with the emission of its result, `Advanced` the arithmetic of `frame`, `index`
and `carry`. The detector's side (which frames a Datum holds) is in the history
variables `datums` and `inFile`. `uses_frame`, chosen initially, says whether
`datum_kwargs` have frame numbers. `MinFrames` is how many frames a Resource has
before another one follows.

### EventTables and ExternalData

A step is one request to the server with the bookkeeping around it, since
clients read between requests; `pc` gives the order of the code. A request may
fail, and a failed request may have been processed. Retries that cannot be told
from one slow request (idempotent ones) are not steps of their own; those that
can (`append_partition`, the patch of a data source) are. `backed`, chosen
initially, says whether a `_ConditionalBackup` stops feeding the writer after an
exception (`Receiving`). `EventTables` numbers rows by their `seq_num`; `ExternalData`
names files by StreamResource and index, and `cons` holds what the consolidator
derives its assets from: the template in use and the index offset.

An array node is made by two requests (`CreateArrays`, `UploadArrays`): between them,
and after a failure of the second, it has fill values, 0 in the model. Later values
are patched in at the length the client knows (`shape`), which lags behind the node if a
patch that failed was processed. An event whose descriptor failed raises a `KeyError`
and is not cached (`EventLost`), but the RunEngine has numbered it: `events` counts it and
`lost` has its number, so later rows keep theirs.

`RunExport` adds the handler of descriptors, whose node may exist on the server
although the writer does not know it, and the exporter. This one awaits the metadata
of the run, the descriptors of a stream, the names of its parts, the table and the array
values one after the other: each is a step, between which the writer goes on, and what
was read is kept in `ended`, `docs`, `found` and `table`. `ExportedEvents` is what the exporter
makes of it at the last read. It finds the descriptor of a row by time, with a clock
per stream.

### StreamSubscription

`handler[n]` is the thread that subscribes to node `n`: on a thread of its
parent's Subscription, or in the constructor for the root. `lock` is taken across
the request that starts a Subscription (`Subscribe` to `Start` or `StartFails`);
every other critical section is one step that needs the lock to be free. After
`StartFails` the lock is free before `Cleanup` takes it again, as in the code; the
disconnect that follows may raise, which is only logged (`CleanupDisconnectFails`).
`disconnect` is `Disconnect` (the critical section), then for each Subscription
`TeardownNext` and `TeardownDrained` or `TeardownFails`. Of tiled's
`Subscription` it is assumed that `disconnect()` waits for callbacks that run
unless it raises, and that `stream_closed` comes after the other callbacks.
Each node is announced once.

Fairness: as long as a thread inside the manager can take a step, one of them
does (`WF` of `Running`). Requests end, callbacks of the user end, and the lock is
given to somebody; within the bounds each thread has few steps, so the others
cannot keep one of them out for ever. Nothing has to be announced, updated or
closed.

### Dispatcher

`subscribe`, `unsubscribe` and the death of an object happen between documents or
while a callback runs; `process` walks its snapshot one callback at a time.
`func_cid_map` is modelled with the lifetime of its weak keys: an entry that
`_remove_proxy` has taken out of `callbacks` stays as long as a snapshot or a
traceback (`held`) has the proxy, and `Collect` is the garbage collector. `due`
records whose claim to documents is not disputed: it ends when a token that is as
old as the id, or younger, is given back. Limits: `process` is not called by a
callback, and a callback has a hash (`connect` would leave a kind without
callbacks otherwise).

### Consolidators

One consolidator, for all combinations of parameters: `Init` is the constructor,
the actions are the two documents. `Shape`, `Chunks` and `combine_patches` are the
properties and functions of the same names, compared with what they have to add
up to. `Reexport` adds the `shape` of the descriptor, with which the exporter guesses
how files were joined, and `Reingested`, the consolidator made from the export.

### RunValidator

A call is `Call`, then for each data key a step for the structure and one for the
reading, then the notes; `Local...` are the steps of `writing/validator.py`, `Remote...`
those of the endpoint and of the client that requests it. A PUT may be processed and
its response lost. The notes of a remote call are a request of their own, whose refusal
`raise_on_error=False` swallows (`refused`). `Repaired` is the structure the code computes from the stored one,
the file's and the multiplier. Calls do not overlap: both sides read all notes, add to
them and write them back, so concurrent calls could lose notes, and nothing in the
code prevents that.

## 3. Runs

| Run | Shows | Bounds and why they are enough |
|---|---|---|
| `buffer` | refinement of the pipe with its liveness, barrier, counter, draining by sentinel, calls and flushes return | 2 producers, a flush whose timeout may expire, 2 shutdowns, a queue of 1: producers block, and two sentinels and a document compete for the room |
| `buffer_shutdown_drains` | violation, below | one shutdown suffices |
| `backup` | the primary keeps a prefix, backups get the run once and in order, and it can be read back; the server has it in order; a reader of the server ends with all of it | a directory and a dictionary, buffer 3, run of 4: overflow before the failure, and two failures of a writer in a row; 2 attempts of each request and 2 lost responses: a post that is retried, and one whose attempts all fail |
| `normalizer` | resource first and once, every value emitted, frames tile | 5 Datums of 1 or 2 frames, 3 Resources of at least 3 (the frames start again twice), Events before or after their Datums, 2 descriptors: of one stream, of two that share the data key, with the key internal in one (`filled` absent, FALSE or TRUE), or with a key that cannot be renamed |
| `normalizer_single_frames` | violation | Resources of one frame |
| `tables` | order, completeness, noted duplicates, aligned arrays, closed last, transient errors survived, exports complete and faithful at any time | 2 streams, one of 2 tables and one of a table that gets a second descriptor and may be exported; batches of 2, 3 events: a batch, its successor and the flush at the end; 3 failures: a failure, a retry that fails, a failure at the end, or a descriptor that failed, whose events are lost before or after others |
| `external` | assets, completeness, patches | `batch_size` 1 and 3, 6 frames in datums of 1 and 2, 2 StreamResources, one jump of the indices, 2 failures |
| `external_batched_second` | violation | batches of 2, two StreamResources |
| `subscription` | nothing left behind, silence, leaves first, `disconnect` returns | a run, a selected and an unselected stream, two data nodes, two callers, 2 failures |
| `dispatcher` | everyone subscribed is served, in order; nobody twice or without a token | a function and a method, 2 kinds of documents, 3 tokens, 2 documents: equal callbacks, a token that outlives its id, changes during a document and between two |
| `validator` | True means valid or noted, repeating changes nothing, repairs are noted | 2 calls with any options, 1 fault, 2 data keys: images stored as in the file or by events, with other types, chunks, names and fields, and sums; files that are there, appear or are missing |
| `consolidators` | chunks, frames, layout, numbers of files, export and back | datums of 1, 3 or 4 frames, chunks of 1 or 2, 4 datums, 3 StreamResources |

Deadlock is not checked where the system may stop for good: a run ends, a
manager is disconnected, nobody has to call the wrapper.

### Where the code and what is said of it differ

1. `shutdown(wait=True)` may return with documents unprocessed
   (`buffer_shutdown_drains`).
2. With batches, files of a second StreamResource are registered before the rest
   of the first and under wrong numbers (`external_batched_second`).
3. Frames of Resources that hold one frame each are lost
   (`normalizer_single_frames`).

Limits that are written into the properties instead of being shown by a run: the
backups of a run longer than the buffer miss its beginning, and the document after
one that was dumped in part is lost with it (`ReadBack`); a StreamResource that
changes `files_per_datum` does not start at file 0, although the comments say it does,
and the recorded layout is not that of its files (`FilesRestartAtZero`, `OrigChunksFit`);
one of two tokens of equal callbacks takes both, and a callback that raises a
`ReferenceError` of its own is unsubscribed (`EveryoneServed`);
a call that read the stop event before it was set puts its document afterwards,
and blocks for ever if the queue is full (`CallReturns` and
`PipeLiveness` promise something until the stop event is set only); a second `disconnect()` returns at once (`SilentAfterDisconnect` is
about the first); without a backup the rows of a split table may be doubled
without a note (`DuplicatesNoted`), array values may be missing
(`ArraysAligned`), and the events of a descriptor that failed are in no table, although the
Stop document is written over them (`tiled_writer.py:1130-1134`, `TablesComplete`): "none are
lost", as the test of forced retries says, is true of the events that were cached; indices that are left out between two StreamResources shift the
numbers of files (`AssetsAreFramesUnmixed`); streams that share a Resource with
frame numbers see gaps (`FramesTile`), and a key that is internal in one stream and
external in another is emitted as a value, its Datum never, if an Event has no
`filled` (`Ambiguous`). A callback that is unsubscribed so stays unserved while its
traceback lives. A run that is abandoned is never closed, so those who follow it
wait for ever.

Split tables: a transient error at a table without `seq_num` is not retried, although
the docstring of `_append_with_retry` (`tiled_writer.py:896`) excepts client errors only;
`TransientIsSurvived` says what holds for the others. Names of columns that the split
tables do not have break the exporter, so `ExportIsFaithful` and `ExportIsComplete` are about
streams with one table. An export of a run that goes on may give an event the last descriptor
that was read instead of its own, and before the table has rows a fill value for a value; and
if the table has no rows, array values are counted, which numbers them wrongly once an event was
lost. Both properties say so. An empty `external`, which the normalizer sets, is taken for internal
(exporters.py:224).

Validation: a remote call with `raise_on_error=False` whose notes the server refuses returns
True all the same, and they are nowhere but in the warnings (`bluesky_run.py:537`);
`TrueIsValidOrNoted` then promises the warnings only. A local call returns True with errors of structure in the notes, which
`TrueIsValidOrNoted` allows; a remote call notes ignored errors again each time,
although the comment at `writing/validator.py:149` says repeated validation is
idempotent, and structured types whose names are not those of the file are fixed
each time (`RepeatChangesNothing` excepts both); repairs made before an exception, or
before the endpoint finds another key invalid, stay without a note
(`RepairsAreNoted` is about local calls that do not raise).

Export: a multiplier, a chunk shape and `files_per_datum` are lost, several
StreamResources become one, and a multipart resource of one file cannot be written
again for lack of a template, although `docs/how-to/exporters.md:23-25` promises the
same structure; `ReexportedAlike` holds for one StreamResource without a multiplier.

Hazards that no property catches, because what the code does there is what it is
(`PROJECT.json` names them with their lines): a call at a full queue after the worker's end;
the table without `seq_num`; a key internal in one stream and external in another without
`filled`; two tokens of equal callbacks. The properties above are excused there.

## 4. Proofs

`BufferingWrapperProofs`, for any sets of threads, any queue size and number of
documents: `IInv`, the conjunction of the type invariant, the counter
(`UnfinishedIsOutstanding`), `Fifo` (the queue is what was put and not yet
taken), `Called` (the calls are the documents taken, in order), `Marks` (marks
are lengths the log had) and `FlushBarrier`, is inductive. `FlushBarrier` alone
is not: that the counter is 0 says nothing unless the counter is tied to the
queue and the queue to the log. From `IInv` follow the theorems on the counter,
on `flush`, on draining by sentinel, and step simulation of `DocumentPipe`
(`RefinesPipe`). Assumed are only the named assumptions of the module: timed
flushers are flushers, flushers and callers of shutdown are different threads,
the queue has room for one item, the sentinel is not a document.

`InsertedRunProofs`, for any number of backups, attempts and faults and any sizes:

- `ConditionalBackup`: the buffer is the last `MaxLen` documents until the primary fails
  (`BufferIsTail`), which makes `RunIsNotSplit` inductive. `PromiseForShortRuns` is what
  remains of the docstring's promise: a run no longer than the buffer is preserved in full.
- `BackupFiles`: `Filed` says of each file and dictionary, by `Fits`, what `ReadBack`
  needs: every document offered is whole in it or was refused, they are in order,
  and what is torn was refused, or is another run's, and is in a file. `FitsWritten` is the
  step: what a call writes, by the recursive function `Written`, still fits.
- `InsertedRun`: `Posted` says that what the server holds climbs from 1 in steps of 0 or 1;
  `Served` that it ends with the last document received or, after a failure, with the one that
  failed or the one before it, and that it has no more extra copies than responses were lost,
  none on a server whose index is unique. `InsertedInOrder` follows. `Reading` relates what `documents()` has yielded to the
  pieces of the response it has read: `EndsWith` and `Runs`, from which
  `DocumentsEndWithRun` follows.
- `InserterIsBackup`: each step of the composition is a call of `ConditionalBackup` or
  leaves its variables alone, so all that is proved of `ConditionalBackup` holds of it.

`EventTablesProofs`, for any streams, tables, batch size, retries, events and faults:
the table a batch has reached is `part`, so `Written(t)` is how many events a table
has for certain, `Done(s)` how many were in batches that are finished. `Sent` are the events
that were not lost, and `Losses` says that there is none else before a handler raised, nor
with a backup. `Cached` and `Stored` say where each event sent is: in the cache, in the
tables, or both while a request is repeated. `RowsAppearInOrder` is not inductive without them: that the
rows of a batch follow each other in the table is nothing if the batch is not
known to follow the rows before it. `Noted` relates every row that may be stored
again to the note that was made before it was sent again, `Aligned` the arrays to
events and cache, `Shaped` what a client knows of an array node to its length,
`Known` the nodes on the server to those the writer knows, which is why an
error that does not last leads to no exception. All is proved for `EventTables` and, with
the invariant of the descriptors, for `RunExport`, the specification the run
`tables` checks: `ExportPromises` and `ExportTransientIsSurvived`. `ExportIsFaithful`
`ExportIsComplete` and
`ExportIsFaithful` need four more: `Described`, that the metadata of a stream has the descriptors
in the order they were received, those the writer knows among them; `Numbered`, that an event that was not lost
has a descriptor the writer knows and none has an older one than the event before it; `Valued`,
that the values in an array node are, with a backup, the first ones in order even if
the run was abandoned, or fill values as long as there is no row; `Read`, that what the exporter
has read still holds, although there may be more by now: descriptors that were added since are
younger, rows later. `DescriptorTimes` counts the events before a descriptor, so an event
is not older than its descriptor and older than all later ones: the search by time
finds its own, or the last that was read. `SeqNumsFacts` says that the numbers exported are
the least of those sent, so that where nothing is lost the i-th is i and the values of arrays line up with them.

`ExternalDataProofs`, for any batch sizes, StreamResources, frames, gaps and faults.
`Counted` says that the rows of the consolidator, the datums at hand and the datums in
the cache add up to the frames; a sum over a sequence is stated by a function of
partial sums (`Sums`), which is given explicitly wherever a step changes the
sequence. `Patched` says that the server is `fresh` rows behind the consolidator, or,
while a request that was processed is sent again, not. `Named` knows which template
and which offset the consolidator has, and that its files, those of the datums at hand and those
of the cached ones are the frames in order: `AssetsAreFramesUnmixed` needs all three.

`StreamSubscriptionProofs`, for any tree, any number of callers of `disconnect` and of
faults: `Phases` relates handler and Subscription of one node, `Locked` the lock to the
handler that holds it, `Announces` a node to its parent. `Listed` and `TakenOver`
order the list of the manager and what a caller took from it; `OneOwner` says that one
caller found the manager open, and `Owned`, from which `NoneLeftBehind` follows,
that every Subscription that may have events is in the list, is being cleaned up by
its handler, waits to be torn down by that caller, or could not be disconnected.
`LeavesFirst` is an action property: it is proved of each step from the order of
teardown. Of the tree it is assumed only that parents are nodes without data
(`TreeAssumption`): a node that the root does not lead to is never announced. `None` is nobody.

`RunNormalizerProofs`, for any descriptors and any order of Events, Resources and Datums:
`AnnouncedOnce` (with `_emitted`) gives `ResourceOnceBeforeDatum`. For
`EveryValueEmitted`, `Referenced` says that each reference has led to one StreamDatum or
waits in `_ext_ref_cache`, and the Datum of a StreamDatum is no longer in the cache; `Described`
what the keys of the descriptors are. At `stop` the caches are emptied in a loop,
a recursive function of the model: that it emits each waiting reference once is an
induction over the cache. `FramesTile` needs `Numbered` (Datums of a Resource follow each other)
and `Tiled` (the last StreamDatum of a stream stops where the carry and the index of
`next_frame` say). `FramesTileThm` assumes `MaxSize < MinFrames`, that a Resource which is
followed by another has more frames than one Datum: `normalizer_single_frames` shows that the
theorem is false without it, as the code tells a new Resource by a frame number
that is lower than the last.

The same module proves the `Dispatcher` through which the normalizer emits, for any
callbacks, kinds of documents, tokens and documents. `ClaimsHaveIds` and
`IdsHaveClaims` tie the claims in `due` to the ids in `callbacks` and in `func_cid_map`, whose
entries may outlive those of `callbacks`: one that does belongs to nobody who has a claim, so
`connect` gives a new id where a claim begins. `ClaimsOfTokens` says which tokens an id is in, those as
old as the claim or younger, so that `disconnect` takes the id exactly where the claim ends.
`SameOrder` and `OwedServed` carry the order of claims from the ids to the
snapshot and to the calls made: `EveryoneServed` at the return. `Tokened` and `ServedOnce` give
`OnlySubscribersOnce`.

`RunValidatorProofs`, for any data keys, structures, multipliers, ignored errors, calls and
faults. `Answered` follows the keys a call has compared, after its last repetition: each agrees with its files or
has a note among those written, or, where the server refused them and nothing is to be
raised, among the warnings (`WarnedOnly`). `Repairs` says the same of each structure that is not the
one the writer stored, between two local calls and within one: a local call repairs and notes in
one step, or the request fails and "failed" is noted. `RepeatChangesNothing` is not inductive: that a call changes nothing
needs that the call before it left nothing to do, for every key it compared and with the files it saw. `Settled`
says that, by `Final`: the structure is repaired, or cannot be. What makes it last is an
algebraic fact about `Repaired`: `RepairedAgain`, the repair of a repaired structure
is itself, although a multiplier splits the first dimension (the file is divided, not what is stored), and
`TrueTypeAgain`, its types and names stay. `MergedFacts` is about the recursive
function in `Merged`: it has every old note and every new one, each once, and is what it
was if no note is new.
Assumed of the constants: keys have cases, structures have their types and as many chunks as
dimensions, and there is a choice of errors to ignore. Keys may be any number, also none
(`FirstStep`), and files may appear at any time.

`ConsolidatorsProofs`, for any shapes, chunks, parameters, numbers of rows and
StreamResources. A sum or a product over a sequence is given by its partial sums
(`TotalOf`, `ElementsOf`). `list_summandsFacts` is the arithmetic of
`list_summands`: its parts, repeated, add up, and a smaller part stands where a
multiple of the whole ends. `Constructed` is what the constructor sees to; with
`FilesOfDatumFacts`, the identity of `files_per_datum` and frames per file, and
`Counted`, rows and files by indices, it gives `FilesHoldFrames`, and with `Laid`
`OrigChunksFit`. These hold while the StreamResources agree on `files_per_datum`, which is
`layouts = {files_per_datum}`: as the set only grows, a state in which they agree comes
from states in which they agreed. `Restarting` says that the files before another with its
StreamResource are as many as its number, `Patched` that patches are ordered pairwise,
each beginning where the one before it ends: the least patch that ends
after a row contains it, so the box has no row but theirs. `ReexportIsConsolidator` carries all this to the
specification the run checks, and `Described` adds how the shape of a datum came from that of
the descriptor, from which the exporter guesses `join_method`.

The invariants of all these proofs were checked by TLC on the instances of the runs before
they were proved. TLAPS's induction theorems take an operator as a parameter, which
the provers here cannot instantiate; where a proof needs induction over a number or a
sequence, it takes the least counterexample, which exists because `<` on the naturals is
well-founded (`LeastIndex`), and shows that recursive functions exist the same way.

The theorems named `TypeCorrect` and `Invariance` are about the inductive invariants, which
give the variables their types; no run needs them on their own.

Only model-checked: liveness, which needs fairness and ENABLED, and the mutants. Every
safety invariant and action property that a passing run checks is stated by a theorem.
Only proved: `PatchesCombine`, what `combine_patches` returns for the patches of a run; it is about one
function and no run needs it.

## 5. Not modelled

Formatting, metadata, dtypes and padding, URIs and mime types; patches a user gives the
normalizer; the tiled server and client beyond what a request may do; queries, which
only describe a search that the server evaluates; the accessors of clients, which read,
and the older layouts of the tree; the fallback of the validator for old servers
and its test for a Stop document. Two Events that reference one Datum (the second
reference fails in `stop`) and Datums of which some come before and some after their
Events (they are emitted out of the order of the frames) are outside what is checked.
`JSONWriter` is not used by the package. Ragged arrays are written as arrays are. The
merging of `seq_nums` in `concatenate_stream_datums` feeds a map that nothing reads but
`has_skips`. An exception in the normalizer ends the run in the model, as it does below
`_ConditionalBackup`; without a backup later documents still reach it.

## 6. What could come next

1. `RunWriter`: `EventTables` and `ExternalData` composed under an abstract
   specification of a run, which the composition implements.
2. Concurrent validation of one run, which may lose notes.
