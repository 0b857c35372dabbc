-------------------------- MODULE BufferingWrapper --------------------------
(***************************************************************************)
(* writing/_buffer.py: a callback that puts documents into a bounded       *)
(* queue, a worker thread that hands them to the wrapped callback,         *)
(* flush() as a read-after-write barrier and shutdown() with a sentinel.   *)
(*                                                                         *)
(* A step is what one thread does between two operations that other        *)
(* threads can observe: a read or write of the stop event, an operation    *)
(* on the queue (atomic under the queue's mutex), a call of the wrapped    *)
(* callback.  The queue is queue.Queue of the standard library: an item    *)
(* put adds one to unfinished_tasks, task_done() takes one off.            *)
(***************************************************************************)
EXTENDS Naturals, Sequences

CONSTANTS
  Producers,      \* threads that call the wrapper with documents
  Flushers,       \* threads that call flush(), each once
  TimedFlushers,  \* those of them that pass a timeout
  Shutdowners,    \* threads that call shutdown(), each once (one may be atexit)
  QueueSize,      \* maxsize of the queue
  NumDocs,        \* bound: documents each producer offers
  None            \* the sentinel

ASSUME FlushersAssumption ==
  TimedFlushers \subseteq Flushers /\ Flushers \cap Shutdowners = {}
ASSUME QueueSizeAssumption == QueueSize \in Nat \ {0}
ASSUME NumDocsAssumption == NumDocs \in Nat
ASSUME NoneAssumption == None \notin Producers \X (1..NumDocs)

Documents == Producers \X (1..NumDocs)     \* the n-th document of a producer
Items == Documents \cup {None}

VARIABLES
  queue,          \* the items in the queue
  unfinished,     \* its unfinished_tasks counter
  stopEvent,      \* _stop_event.is_set()
  worker,         \* where the worker thread is
  item,           \* the item the worker took last
  producer,       \* where each producer is inside __call__
  offered,        \* documents each producer has called the wrapper with
  flusher,        \* where each flusher is, or what its flush() returned
  shutdowner,     \* where each caller of shutdown() is
  log,            \* history: every item put, in order
  calls,          \* history: every document given to the wrapped callback
  mark            \* history: Len(log) when each flush() or shutdown() began

queueVars == <<queue, unfinished, log>>
workerVars == <<worker, item, calls>>
producerVars == <<producer, offered>>
stopVars == <<stopEvent, shutdowner>>
vars == <<queueVars, workerVars, producerVars, stopVars, flusher, mark>>

\* How the worker thread can have ended: it saw the stop event after its
\* get() timed out, or it took the sentinel.
Ended == {"timeout", "sentinel"}

Init ==
  /\ queue = <<>> /\ unfinished = 0 /\ log = <<>>
  /\ stopEvent = FALSE
  /\ worker = "get" /\ item = None /\ calls = <<>>
  /\ producer = [p \in Producers |-> "idle"]
  /\ offered = [p \in Producers |-> 0]
  /\ flusher = [f \in Flushers |-> "idle"]
  /\ mark = [t \in Flushers \cup Shutdowners |-> 0]
  /\ shutdowner = [s \in Shutdowners |-> "idle"]

(***************************************************************************)
(* queue.Queue                                                             *)
(***************************************************************************)
\* put() blocks while the queue is full.
Put(i) ==
  /\ Len(queue) < QueueSize
  /\ queue' = Append(queue, i)
  /\ unfinished' = unfinished + 1
  /\ log' = Append(log, i)

TaskDone ==
  /\ unfinished' = unfinished - 1
  /\ UNCHANGED <<queue, log>>

(***************************************************************************)
(* __call__: the stop event is read first, then the document is put.       *)
(* Another thread may run between the two.                                 *)
(***************************************************************************)
CallRejected(p) ==
  /\ producer[p] = "idle" /\ offered[p] < NumDocs
  /\ stopEvent
  /\ offered' = [offered EXCEPT ![p] = @ + 1]
  /\ UNCHANGED <<producer, queueVars, workerVars, stopVars, flusher, mark>>

CallChecked(p) ==
  /\ producer[p] = "idle" /\ offered[p] < NumDocs
  /\ ~stopEvent
  /\ offered' = [offered EXCEPT ![p] = @ + 1]
  /\ producer' = [producer EXCEPT ![p] = "put"]
  /\ UNCHANGED <<queueVars, workerVars, stopVars, flusher, mark>>

CallPut(p) ==
  /\ producer[p] = "put"
  /\ Put(<<p, offered[p]>>)
  /\ producer' = [producer EXCEPT ![p] = "idle"]
  /\ UNCHANGED <<offered, workerVars, stopVars, flusher, mark>>

(***************************************************************************)
(* _process_queue.  get(timeout=1) raises Empty on an empty queue; the     *)
(* stop event is read after that, in a step of its own.                    *)
(***************************************************************************)
WorkerGet ==
  /\ worker = "get" /\ queue # <<>>
  /\ item' = Head(queue)
  /\ queue' = Tail(queue)
  /\ worker' = "got"
  /\ UNCHANGED <<unfinished, log, calls, producerVars, stopVars, flusher, mark>>

WorkerEmpty ==
  /\ worker = "get" /\ queue = <<>>
  /\ worker' = "empty"
  /\ UNCHANGED <<item, calls, queueVars, producerVars, stopVars, flusher, mark>>

\* Mutant: the loop ends whenever the queue is found empty.
WorkerCheckStopAlways ==
  /\ worker = "empty"
  /\ worker' = "timeout"
  /\ UNCHANGED <<item, calls, queueVars, producerVars, stopVars, flusher, mark>>

WorkerCheckStop ==
  /\ worker = "empty"
  /\ worker' = IF stopEvent THEN "timeout" ELSE "get"
  /\ UNCHANGED <<item, calls, queueVars, producerVars, stopVars, flusher, mark>>

\* Mutant: an exception of the wrapped callback ends the thread.
WorkerCallUnguarded ==
  /\ worker = "got" /\ item # None
  /\ calls' = Append(calls, item)
  /\ worker' \in {"called", "sentinel"}
  /\ UNCHANGED <<item, queueVars, producerVars, stopVars, flusher, mark>>

\* Mutant: a document whose processing raised is processed again.
WorkerCallRetried ==
  /\ worker = "got" /\ item # None
  /\ calls' = Append(calls, item)
  /\ worker' \in {"called", "got"}
  /\ UNCHANGED <<item, queueVars, producerVars, stopVars, flusher, mark>>

\* The wrapped callback returns or raises: both lead to the finally clause.
WorkerCall ==
  /\ worker = "got" /\ item # None
  /\ calls' = Append(calls, item)
  /\ worker' = "called"
  /\ UNCHANGED <<item, queueVars, producerVars, stopVars, flusher, mark>>

WorkerTaskDone ==
  /\ worker = "called"
  /\ TaskDone
  /\ worker' = "get"
  /\ UNCHANGED <<item, calls, producerVars, stopVars, flusher, mark>>

\* Mutant: the thread ends on the sentinel without task_done().
WorkerSentinelUncounted ==
  /\ worker = "got" /\ item = None
  /\ worker' = "sentinel"
  /\ UNCHANGED <<item, calls, queueVars, producerVars, stopVars, flusher, mark>>

\* Mutant: the thread ends as soon as it sees the stop event.
WorkerSentinelHasty ==
  /\ worker = "got" /\ (item = None \/ stopEvent)
  /\ TaskDone
  /\ worker' = "sentinel"
  /\ UNCHANGED <<item, calls, producerVars, stopVars, flusher, mark>>

\* The sentinel: break, and task_done() in the finally clause on the way out.
WorkerSentinel ==
  /\ worker = "got" /\ item = None
  /\ TaskDone
  /\ worker' = "sentinel"
  /\ UNCHANGED <<item, calls, producerVars, stopVars, flusher, mark>>

(***************************************************************************)
(* flush(): the loop body runs under the queue's mutex and wait() gives it *)
(* up, so each test of the loop is one step; a test that only waits again  *)
(* changes nothing.                                                        *)
(***************************************************************************)
FlushBegin(f) ==
  /\ flusher[f] = "idle"
  /\ flusher' = [flusher EXCEPT ![f] = "waiting"]
  /\ mark' = [mark EXCEPT ![f] = Len(log)]
  /\ UNCHANGED <<queueVars, workerVars, producerVars, stopVars>>

FlushReturn(f, result) ==
  /\ flusher[f] = "waiting"
  /\ flusher' = [flusher EXCEPT ![f] = result]
  /\ UNCHANGED <<queueVars, workerVars, producerVars, stopVars, mark>>

\* Mutant: wait for an empty queue, not for the items to be accounted for.
FlushEmpty(f) == queue = <<>> /\ FlushReturn(f, "true")

FlushDrained(f) == unfinished = 0 /\ FlushReturn(f, "true")

\* Mutant: the liveness of the worker is not looked at.
FlushWorkerIgnored(f) == FALSE /\ FlushReturn(f, "false")

FlushWorkerDead(f) == unfinished > 0 /\ worker \in Ended /\ FlushReturn(f, "false")

FlushTimeout(f) ==
  /\ f \in TimedFlushers
  /\ unfinished > 0 /\ worker \notin Ended
  /\ FlushReturn(f, "false")

(***************************************************************************)
(* shutdown(wait): the stop event is read, then set, then the sentinel is  *)
(* put, then the thread is joined if wait is true.                         *)
(***************************************************************************)
ShutdownCheck(s) ==
  /\ shutdowner[s] = "idle"
  /\ shutdowner' = [shutdowner EXCEPT ![s] = IF stopEvent THEN "returned" ELSE "set"]
  /\ mark' = [mark EXCEPT ![s] = Len(log)]
  /\ UNCHANGED <<queueVars, workerVars, producerVars, stopEvent, flusher>>

ShutdownSet(s) ==
  /\ shutdowner[s] = "set"
  /\ stopEvent' = TRUE
  /\ shutdowner' = [shutdowner EXCEPT ![s] = "put"]
  /\ UNCHANGED <<queueVars, workerVars, producerVars, flusher, mark>>

ShutdownPut(s) ==
  /\ shutdowner[s] = "put"
  /\ Put(None)
  /\ \E wait \in BOOLEAN :
       shutdowner' = [shutdowner EXCEPT ![s] = IF wait THEN "join" ELSE "returned"]
  /\ UNCHANGED <<workerVars, producerVars, stopEvent, flusher, mark>>

ShutdownJoin(s) ==
  /\ shutdowner[s] = "join" /\ worker \in Ended
  /\ shutdowner' = [shutdowner EXCEPT ![s] = "joined"]
  /\ UNCHANGED <<queueVars, workerVars, producerVars, stopEvent, flusher, mark>>

(***************************************************************************)
(* Threads                                                                 *)
(***************************************************************************)
Call(p) == CallRejected(p) \/ CallChecked(p) \/ CallPut(p)

Worker ==
  \/ WorkerGet \/ WorkerEmpty \/ WorkerCheckStop
  \/ WorkerCall \/ WorkerTaskDone \/ WorkerSentinel

FlushEnd(f) == FlushDrained(f) \/ FlushWorkerDead(f) \/ FlushTimeout(f)
Flush(f) == FlushBegin(f) \/ FlushEnd(f)

Shutdown(s) ==
  ShutdownCheck(s) \/ ShutdownSet(s) \/ ShutdownPut(s) \/ ShutdownJoin(s)

Next ==
  \/ \E p \in Producers : Call(p)
  \/ Worker
  \/ \E f \in Flushers : Flush(f)
  \/ \E s \in Shutdowners : Shutdown(s)

Spec == Init /\ [][Next]_vars

\* The scheduler runs every thread that can run; nobody has to call anything.
\* A timeout may be arbitrarily long, so FlushTimeout is not fair.
Fairness ==
  /\ WF_vars(Worker)
  /\ \A p \in Producers : WF_vars(CallPut(p))
  /\ \A f \in Flushers : WF_vars(FlushDrained(f) \/ FlushWorkerDead(f))
  /\ \A s \in Shutdowners : WF_vars(ShutdownSet(s) \/ ShutdownPut(s) \/ ShutdownJoin(s))

FairSpec == Spec /\ Fairness

-----------------------------------------------------------------------------
(***************************************************************************)
(* Properties                                                              *)
(***************************************************************************)

\* Types, and the queue never holds more than maxsize items.
TypeOK ==
  /\ queue \in Seq(Items) /\ Len(queue) <= QueueSize
  /\ unfinished \in Nat
  /\ stopEvent \in BOOLEAN
  /\ worker \in {"get", "got", "called", "empty"} \cup Ended
  /\ item \in Items
  /\ producer \in [Producers -> {"idle", "put"}]
  /\ offered \in [Producers -> 0..NumDocs]
  /\ \A p \in Producers : producer[p] = "put" => offered[p] > 0
  /\ flusher \in [Flushers -> {"idle", "waiting", "true", "false"}]
  /\ shutdowner \in [Shutdowners -> {"idle", "set", "put", "join", "joined", "returned"}]
  /\ log \in Seq(Items)
  /\ calls \in Seq(Documents)
  /\ mark \in [Flushers \cup Shutdowners -> Nat]

\* The wrapper implements the abstract pipe: whatever the threads do, the
\* wrapped callback gets a prefix of what was put, in order, each item once.
Pipe == INSTANCE DocumentPipe WITH accepted <- log, delivered <- calls
PipeSafety == Pipe!SafeSpec

\* While nobody shuts it down, it keeps nothing back.
PipeLiveness == <>stopEvent \/ Pipe!Liveness

\* flush() trusts unfinished_tasks: the counter is what is in the queue plus
\* what the worker has taken and not yet accounted for with task_done().
InFlight == IF worker \in {"got", "called"} THEN 1 ELSE 0
UnfinishedIsOutstanding == unfinished = Len(queue) + InFlight

\* Every document among the first n items put has been given to the callback.
Processed(n) ==
  \A i \in 1..n : log[i] # None => (i <= Len(calls) /\ calls[i] = log[i])

\* flush() is a barrier (docstring, lines 108-117): once it has returned True,
\* every document put before it began has been through the wrapped callback,
\* whichever threads put, flushed and shut down in between.
FlushBarrier == \A f \in Flushers : flusher[f] = "true" => Processed(mark[f])

\* A worker that ended on a sentinel left behind no document that was put
\* before the first sentinel (shutdown() lets the queue drain, lines 94-95).
SentinelDrains ==
  worker = "sentinel" =>
    \A n \in 1..Len(log) : (\A i \in 1..n : log[i] # None) => Processed(n)

\* Once shutdown(wait=True) has returned, every document put before it was
\* called has been processed (test_flush_after_shutdown: "After a clean
\* shutdown everything has been processed").  The code does not give this.
ShutdownDrains ==
  \A s \in Shutdowners : shutdowner[s] = "joined" => Processed(mark[s])

\* A caller of the wrapper gets an answer, also when the queue is full: the
\* document is put or the call raises (lines 70-80).  After shutdown() the code
\* does not give this: nobody empties the queue of a worker that has ended.
CallReturns == \A p \in Producers : producer[p] = "put" ~> (producer[p] = "idle" \/ stopEvent)

\* flush() without a timeout returns, whether or not the worker has ended.
FlushReturns == \A f \in Flushers : flusher[f] = "waiting" ~> flusher[f] # "waiting"
=============================================================================
