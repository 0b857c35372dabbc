----------------------- MODULE BufferingWrapperProofs -----------------------
(***************************************************************************)
(* Proofs about BufferingWrapper, for any number of producers, flushers    *)
(* and callers of shutdown(), any queue size and any number of documents.  *)
(***************************************************************************)
EXTENDS BufferingWrapper, TLAPS

(***************************************************************************)
(* The inductive invariant.  What the worker has taken is the part of log  *)
(* that is no longer in the queue; what it has called lags behind that by  *)
(* the item in its hands.                                                  *)
(***************************************************************************)
Taken == Len(log) - Len(queue)

\* The queue is the end of log.
Fifo ==
  /\ Len(queue) <= Len(log)
  /\ \A i \in 1..Len(queue) : queue[i] = log[Taken + i]

\* The calls are the beginning of log; the item in hand comes next.
Called ==
  /\ worker \in {"get", "empty", "called", "timeout"} => Len(calls) = Taken
  /\ worker = "got" => (Len(calls) + 1 = Taken /\ item = log[Taken])
  /\ worker = "sentinel" => (Len(calls) + 1 = Taken /\ log[Taken] = None)
  /\ \A i \in 1..Len(calls) : calls[i] = log[i]

Marks == \A t \in Flushers \cup Shutdowners : mark[t] <= Len(log)

IInv ==
  /\ TypeOK
  /\ UnfinishedIsOutstanding
  /\ Fifo
  /\ Called
  /\ Marks
  /\ FlushBarrier

-----------------------------------------------------------------------------
(***************************************************************************)
(* Facts about sequences                                                   *)
(***************************************************************************)

\* Append keeps what was there and adds one element at the end.
LEMMA AppendFacts ==
  ASSUME NEW S, NEW s \in Seq(S), NEW e \in S
  PROVE  /\ Append(s, e) \in Seq(S)
         /\ Len(Append(s, e)) = Len(s) + 1
         /\ \A i \in 1..Len(s) : Append(s, e)[i] = s[i]
         /\ Append(s, e)[Len(s) + 1] = e
  OBVIOUS

\* Tail drops the first element and moves the others up by one.
LEMMA TailFacts ==
  ASSUME NEW S, NEW s \in Seq(S), s # <<>>
  PROVE  /\ Len(s) \in Nat \ {0}
         /\ Head(s) \in S /\ Head(s) = s[1]
         /\ Tail(s) \in Seq(S)
         /\ Len(Tail(s)) = Len(s) - 1
         /\ \A i \in 1..Len(Tail(s)) : Tail(s)[i] = s[i + 1]
  OBVIOUS

\* A sequence without elements has length zero, and only that one.
LEMMA LenFacts ==
  ASSUME NEW S, NEW s \in Seq(S)
  PROVE  Len(s) \in Nat /\ (Len(s) = 0 <=> s = <<>>)
  OBVIOUS

-----------------------------------------------------------------------------
(***************************************************************************)
(* What the queue operations preserve                                      *)
(***************************************************************************)

\* put(): log and queue grow by the same item, so nothing else is taken.
LEMMA PutKeeps ==
  ASSUME TypeOK, Fifo, NEW i \in Items, Put(i)
  PROVE  /\ queue' \in Seq(Items) /\ Len(queue') <= QueueSize
         /\ log' \in Seq(Items) /\ Len(log') = Len(log) + 1
         /\ Len(queue') = Len(queue) + 1
         /\ unfinished' = unfinished + 1 /\ unfinished' \in Nat
         /\ \A n \in 1..Len(log) : log'[n] = log[n]
         /\ Taken' = Taken
         /\ Fifo'
<1>1. /\ queue' \in Seq(Items) /\ Len(queue') = Len(queue) + 1
      /\ \A n \in 1..Len(queue) : queue'[n] = queue[n]
      /\ queue'[Len(queue) + 1] = i
  BY AppendFacts DEF TypeOK, Put
<1>2. /\ log' \in Seq(Items) /\ Len(log') = Len(log) + 1
      /\ \A n \in 1..Len(log) : log'[n] = log[n]
      /\ log'[Len(log) + 1] = i
  BY AppendFacts DEF TypeOK, Put
<1>3. Len(queue) \in Nat /\ Len(log) \in Nat
  BY LenFacts DEF TypeOK
<1>4. Taken' = Taken
  BY <1>1, <1>2, <1>3 DEF Taken
<1>5. ASSUME NEW n \in 1..Len(queue') PROVE queue'[n] = log'[Taken' + n]
  <2>1. CASE n \in 1..Len(queue)
    BY <1>1, <1>2, <1>3, <1>4, <2>1 DEF Fifo, Taken
  <2>2. CASE n = Len(queue) + 1
    BY <1>1, <1>2, <1>3, <1>4, <2>2 DEF Taken
  <2> QED  BY <1>1, <1>3, <2>1, <2>2
<1>6. Fifo'
  BY <1>1, <1>2, <1>3, <1>5 DEF Fifo
<1> QED  BY <1>1, <1>2, <1>3, <1>4, <1>6, QueueSizeAssumption DEF TypeOK, Put

\* get(): the item taken is the next one of log.
LEMMA GetKeeps ==
  ASSUME TypeOK, Fifo, WorkerGet
  PROVE  /\ queue' \in Seq(Items) /\ Len(queue') <= QueueSize
         /\ Len(queue') = Len(queue) - 1
         /\ Taken' = Taken + 1
         /\ Taken' \in 1..Len(log)
         /\ item' \in Items /\ item' = log[Taken']
         /\ Fifo'
<1>1. /\ Len(queue) \in Nat \ {0}
      /\ item' = queue[1] /\ item' \in Items
      /\ queue' \in Seq(Items) /\ Len(queue') = Len(queue) - 1
      /\ \A n \in 1..Len(queue') : queue'[n] = queue[n + 1]
  BY TailFacts DEF TypeOK, WorkerGet
<1>2. Len(log) \in Nat
  BY LenFacts DEF TypeOK
<1>3. Taken' = Taken + 1 /\ Taken' \in 1..Len(log)
  BY <1>1, <1>2 DEF Taken, Fifo, WorkerGet
<1>4. item' = log[Taken']
  BY <1>1, <1>2, <1>3 DEF Fifo, Taken, WorkerGet
<1>5. ASSUME NEW n \in 1..Len(queue') PROVE queue'[n] = log'[Taken' + n]
  BY <1>1, <1>2, <1>3 DEF Fifo, Taken, WorkerGet
<1>6. Fifo'
  BY <1>1, <1>2, <1>5 DEF Fifo, WorkerGet
<1> QED  BY <1>1, <1>3, <1>4, <1>6, QueueSizeAssumption DEF TypeOK, WorkerGet

\* What was processed stays processed when log and calls only grow.
LEMMA ProcessedStable ==
  ASSUME TypeOK, NEW n \in Nat, n <= Len(log), Processed(n),
         Len(calls') \in Nat, Len(calls') >= Len(calls),
         \A i \in 1..Len(calls) : calls'[i] = calls[i],
         \A i \in 1..Len(log) : log'[i] = log[i]
  PROVE  Processed(n)'
<1>1. Len(log) \in Nat /\ Len(calls) \in Nat
  BY LenFacts DEF TypeOK
<1>2. ASSUME NEW i \in 1..n, log'[i] # None
      PROVE  i <= Len(calls') /\ calls'[i] = log'[i]
  BY <1>1, <1>2 DEF Processed
<1> QED  BY <1>2 DEF Processed

\* With nothing unfinished, everything put has been processed.
LEMMA NothingUnfinished ==
  ASSUME TypeOK, UnfinishedIsOutstanding, Fifo, Called, unfinished = 0
  PROVE  Processed(Len(log))
<1>1. Len(log) \in Nat /\ Len(calls) \in Nat /\ Len(queue) \in Nat
  BY LenFacts DEF TypeOK
<1>2. Len(queue) = 0 /\ worker \notin {"got", "called"}
  BY <1>1 DEF UnfinishedIsOutstanding, InFlight
<1>3. Taken = Len(log)
  BY <1>1, <1>2 DEF Taken
<1>4. \/ Len(calls) = Len(log)
      \/ Len(calls) + 1 = Len(log) /\ log[Len(log)] = None
  BY <1>2, <1>3 DEF Called, TypeOK, Ended
<1> QED  BY <1>1, <1>4 DEF Processed, Called

\* The part of the invariant about the queue and the worker depends on no
\* other variable.
Pipeline == UnfinishedIsOutstanding /\ Fifo /\ Called

LEMMA PipelineUntouched ==
  ASSUME Pipeline, UNCHANGED <<queueVars, workerVars>>
  PROVE  Pipeline'
BY DEF Pipeline, UnfinishedIsOutstanding, InFlight, Fifo, Called, Taken, queueVars, workerVars

\* The flushes that have returned stay correct while log and calls grow.
LEMMA BarrierKept ==
  ASSUME TypeOK, Marks, FlushBarrier,
         flusher' = flusher, \A f \in Flushers : mark'[f] = mark[f],
         Len(calls') \in Nat, Len(calls') >= Len(calls),
         \A i \in 1..Len(calls) : calls'[i] = calls[i],
         \A i \in 1..Len(log) : log'[i] = log[i]
  PROVE  FlushBarrier'
<1>1. ASSUME NEW f \in Flushers, flusher'[f] = "true"
      PROVE  Processed(mark[f])'
  <2>1. Processed(mark[f]) /\ mark[f] \in Nat /\ mark[f] <= Len(log)
    BY <1>1 DEF FlushBarrier, Marks, TypeOK
  <2>2. ASSUME NEW n \in Nat, n <= Len(log), Processed(n) PROVE Processed(n)'
    BY <2>2, ProcessedStable
  <2>3. \A i \in 1..mark[f] : log'[i] # None => (i <= Len(calls') /\ calls'[i] = log'[i])
    BY <2>1, <2>2 DEF Processed
  <2> QED  BY <2>3 DEF Processed
<1> QED  BY <1>1 DEF FlushBarrier

-----------------------------------------------------------------------------
(***************************************************************************)
(* The steps that put something                                            *)
(***************************************************************************)

\* Putting an item keeps the part of the invariant that does not depend on
\* who put it.
LEMMA PutInvariant ==
  ASSUME IInv, NEW i \in Items, Put(i), UNCHANGED <<workerVars, flusher, mark>>
  PROVE  Pipeline' /\ Marks' /\ FlushBarrier'
<1>1. Len(log) \in Nat /\ Len(calls) \in Nat /\ Len(queue) \in Nat
  BY LenFacts DEF IInv, TypeOK
<1>2. /\ Taken' = Taken /\ Fifo'
      /\ Len(log') = Len(log) + 1 /\ Len(queue') = Len(queue) + 1
      /\ unfinished' = unfinished + 1
      /\ \A n \in 1..Len(log) : log'[n] = log[n]
  BY PutKeeps DEF IInv
<1>3. UnfinishedIsOutstanding'
  BY <1>1, <1>2 DEF IInv, UnfinishedIsOutstanding, InFlight, workerVars
<1>4. Taken \in Nat /\ Taken <= Len(log)
  BY <1>1 DEF Taken, IInv, Fifo
<1>5. Called'
  <2>1. worker = "got" \/ worker = "sentinel" => Taken \in 1..Len(log)
    BY <1>1, <1>4 DEF IInv, Called
  <2>2. \A n \in 1..Len(calls) : n \in 1..Len(log)
    BY <1>1, <1>4 DEF IInv, Called, TypeOK, Ended
  <2> QED  BY <1>2, <2>1, <2>2 DEF IInv, Called, workerVars
<1>6. Marks'
  BY <1>1, <1>2 DEF IInv, Marks, TypeOK
<1>7. FlushBarrier'
  BY <1>1, <1>2, BarrierKept DEF IInv, workerVars
<1> QED  BY <1>2, <1>3, <1>5, <1>6, <1>7 DEF Pipeline

LEMMA CallPutInvariant ==
  ASSUME IInv, NEW p \in Producers, CallPut(p) PROVE IInv'
<1>1. <<p, offered[p]>> \in Items
  BY NumDocsAssumption DEF IInv, TypeOK, CallPut, Items, Documents
<1>2. Pipeline' /\ Marks' /\ FlushBarrier'
  BY <1>1, PutInvariant DEF CallPut
<1>3. /\ queue' \in Seq(Items) /\ Len(queue') <= QueueSize
      /\ log' \in Seq(Items) /\ unfinished' \in Nat
  BY <1>1, PutKeeps DEF IInv, CallPut
<1>4. TypeOK'
  BY <1>3 DEF IInv, TypeOK, CallPut, workerVars, stopVars
<1> QED  BY <1>2, <1>4 DEF IInv, Pipeline

LEMMA ShutdownPutInvariant ==
  ASSUME IInv, NEW s \in Shutdowners, ShutdownPut(s) PROVE IInv'
<1>1. None \in Items
  BY DEF Items
<1>2. Pipeline' /\ Marks' /\ FlushBarrier'
  BY <1>1, PutInvariant DEF ShutdownPut
<1>3. /\ queue' \in Seq(Items) /\ Len(queue') <= QueueSize
      /\ log' \in Seq(Items) /\ unfinished' \in Nat
  BY <1>1, PutKeeps DEF IInv, ShutdownPut
<1>4. TypeOK'
  BY <1>3 DEF IInv, TypeOK, ShutdownPut, workerVars, producerVars
<1> QED  BY <1>2, <1>4 DEF IInv, Pipeline

-----------------------------------------------------------------------------
(***************************************************************************)
(* The steps of the worker                                                 *)
(***************************************************************************)

\* Steps that leave log, calls and the callers alone keep what was promised
\* to the callers.
LEMMA CallersUntouched ==
  ASSUME IInv, UNCHANGED <<log, calls, flusher, mark>>
  PROVE  Marks' /\ FlushBarrier'
BY DEF IInv, Marks, FlushBarrier, Processed

LEMMA WorkerGetInvariant ==
  ASSUME IInv, WorkerGet PROVE IInv'
<1>1. Len(log) \in Nat /\ Len(calls) \in Nat /\ Len(queue) \in Nat
  BY LenFacts DEF IInv, TypeOK
<1>2. /\ queue' \in Seq(Items) /\ Len(queue') <= QueueSize
      /\ Len(queue') = Len(queue) - 1
      /\ Taken' = Taken + 1
      /\ item' \in Items /\ item' = log[Taken']
      /\ Fifo'
  BY GetKeeps DEF IInv
<1>3. TypeOK'
  BY <1>2 DEF IInv, TypeOK, WorkerGet, producerVars, stopVars
<1>4. UnfinishedIsOutstanding'
  BY <1>1, <1>2 DEF IInv, UnfinishedIsOutstanding, InFlight, WorkerGet
<1>5. Called'
  BY <1>1, <1>2 DEF IInv, Called, WorkerGet
<1>6. Marks' /\ FlushBarrier'
  BY CallersUntouched DEF WorkerGet
<1> QED  BY <1>2, <1>3, <1>4, <1>5, <1>6 DEF IInv

LEMMA WorkerCallInvariant ==
  ASSUME IInv, WorkerCall PROVE IInv'
<1>1. Len(log) \in Nat /\ Len(calls) \in Nat /\ Len(queue) \in Nat
  BY LenFacts DEF IInv, TypeOK
<1>2. item \in Documents
  BY DEF IInv, TypeOK, WorkerCall, Items
<1>3. /\ calls' \in Seq(Documents) /\ Len(calls') = Len(calls) + 1
      /\ \A i \in 1..Len(calls) : calls'[i] = calls[i]
      /\ calls'[Len(calls) + 1] = item
  BY <1>2, AppendFacts DEF IInv, TypeOK, WorkerCall
<1>4. TypeOK'
  BY <1>3 DEF IInv, TypeOK, WorkerCall, queueVars, producerVars, stopVars
<1>5. UnfinishedIsOutstanding' /\ Fifo' /\ Taken' = Taken
  BY DEF IInv, UnfinishedIsOutstanding, InFlight, Fifo, Taken, WorkerCall, queueVars
<1>6. Called'
  <2>1. Len(calls) + 1 = Taken /\ item = log[Taken]
    BY DEF IInv, Called, WorkerCall
  <2>2. \A i \in 1..Len(calls') : calls'[i] = log'[i]
    BY <1>1, <1>3, <2>1 DEF IInv, Called, WorkerCall, queueVars
  <2> QED  BY <1>3, <1>5, <2>1, <2>2 DEF Called, WorkerCall
<1>7. Marks'
  BY DEF IInv, Marks, WorkerCall, queueVars
<1>8. FlushBarrier'
  BY <1>1, <1>3, BarrierKept DEF IInv, WorkerCall, queueVars
<1> QED  BY <1>4, <1>5, <1>6, <1>7, <1>8 DEF IInv

LEMMA WorkerTaskDoneInvariant ==
  ASSUME IInv, WorkerTaskDone \/ WorkerSentinel PROVE IInv'
<1>1. Len(log) \in Nat /\ Len(calls) \in Nat /\ Len(queue) \in Nat
  BY LenFacts DEF IInv, TypeOK
<1>2. UnfinishedIsOutstanding' /\ unfinished' \in Nat
  BY <1>1 DEF IInv, UnfinishedIsOutstanding, InFlight, WorkerTaskDone, WorkerSentinel, TaskDone
<1>3. TypeOK'
  BY <1>2 DEF IInv, TypeOK, Ended, WorkerTaskDone, WorkerSentinel, TaskDone, producerVars, stopVars
<1>4. Fifo' /\ Taken' = Taken
  BY DEF IInv, Fifo, Taken, WorkerTaskDone, WorkerSentinel, TaskDone
<1>5. Called'
  BY <1>4 DEF IInv, Called, WorkerTaskDone, WorkerSentinel, TaskDone
<1>6. Marks' /\ FlushBarrier'
  BY CallersUntouched DEF WorkerTaskDone, WorkerSentinel, TaskDone
<1> QED  BY <1>2, <1>3, <1>4, <1>5, <1>6 DEF IInv

LEMMA WorkerEmptyInvariant ==
  ASSUME IInv, WorkerEmpty \/ WorkerCheckStop PROVE IInv'
<1>1. TypeOK'
  BY DEF IInv, TypeOK, Ended, WorkerEmpty, WorkerCheckStop, queueVars, producerVars, stopVars
<1>2. UnfinishedIsOutstanding'
  BY DEF IInv, UnfinishedIsOutstanding, InFlight, WorkerEmpty, WorkerCheckStop, queueVars
<1>3. Fifo' /\ Taken' = Taken
  BY DEF IInv, Fifo, Taken, WorkerEmpty, WorkerCheckStop, queueVars
<1>4. Called'
  BY <1>3 DEF IInv, Called, WorkerEmpty, WorkerCheckStop, queueVars
<1>5. Marks' /\ FlushBarrier'
  BY CallersUntouched DEF WorkerEmpty, WorkerCheckStop, queueVars
<1> QED  BY <1>1, <1>2, <1>3, <1>4, <1>5 DEF IInv

-----------------------------------------------------------------------------
(***************************************************************************)
(* The steps of the callers                                                *)
(***************************************************************************)
LEMMA CallInvariant ==
  ASSUME IInv, NEW p \in Producers, CallRejected(p) \/ CallChecked(p) PROVE IInv'
<1>1. TypeOK'
  <2>1. offered[p] \in 0..NumDocs /\ offered[p] < NumDocs
    BY DEF IInv, TypeOK, CallRejected, CallChecked
  <2>2. offered' \in [Producers -> 0..NumDocs]
    BY <2>1, NumDocsAssumption DEF IInv, TypeOK, CallRejected, CallChecked
  <2>3. /\ producer' \in [Producers -> {"idle", "put"}]
        /\ \A q \in Producers : producer'[q] = "put" => offered'[q] > 0
    <3>1. CASE CallRejected(p)
      <4>1. producer' = producer /\ producer[p] = "idle"
        BY <3>1 DEF CallRejected
      <4>2. \A q \in Producers \ {p} : offered'[q] = offered[q]
        BY <3>1 DEF IInv, TypeOK, CallRejected
      <4> QED  BY <4>1, <4>2 DEF IInv, TypeOK
    <3>2. CASE CallChecked(p)
      <4>1. producer' \in [Producers -> {"idle", "put"}]
        BY <3>2 DEF IInv, TypeOK, CallChecked
      <4>2. \A q \in Producers \ {p} : offered'[q] = offered[q] /\ producer'[q] = producer[q]
        BY <3>2 DEF IInv, TypeOK, CallChecked
      <4>3. offered'[p] > 0
        BY <2>1, <3>2, NumDocsAssumption DEF IInv, TypeOK, CallChecked
      <4> QED  BY <4>1, <4>2, <4>3 DEF IInv, TypeOK
    <3> QED  BY <3>1, <3>2
  <2> QED
    BY <2>2, <2>3 DEF IInv, TypeOK, CallRejected, CallChecked, queueVars, workerVars, stopVars
<1>2. Pipeline'
  BY PipelineUntouched DEF IInv, Pipeline, CallRejected, CallChecked
<1>3. Marks' /\ FlushBarrier'
  BY CallersUntouched DEF CallRejected, CallChecked, queueVars, workerVars
<1> QED  BY <1>1, <1>2, <1>3 DEF IInv, Pipeline

LEMMA FlushBeginInvariant ==
  ASSUME IInv, NEW f \in Flushers, FlushBegin(f) PROVE IInv'
<1>1. Len(log) \in Nat
  BY LenFacts DEF IInv, TypeOK
<1>2. TypeOK'
  BY <1>1 DEF IInv, TypeOK, FlushBegin, queueVars, workerVars, producerVars, stopVars
<1>3. Pipeline'
  BY PipelineUntouched DEF IInv, Pipeline, FlushBegin
<1>4. Marks'
  BY <1>1 DEF IInv, Marks, TypeOK, FlushBegin, queueVars
<1>5. FlushBarrier'
  BY DEF IInv, FlushBarrier, Processed, TypeOK, FlushBegin, queueVars, workerVars
<1> QED  BY <1>2, <1>3, <1>4, <1>5 DEF IInv, Pipeline

LEMMA FlushEndInvariant ==
  ASSUME IInv, NEW f \in Flushers, FlushEnd(f) PROVE IInv'
<1>1. PICK result \in {"true", "false"} :
        FlushReturn(f, result) /\ (result = "true" => unfinished = 0)
  BY DEF FlushEnd, FlushDrained, FlushWorkerDead, FlushTimeout
<1>2. TypeOK'
  BY <1>1 DEF IInv, TypeOK, FlushReturn, queueVars, workerVars, producerVars, stopVars
<1>3. Pipeline'
  BY <1>1, PipelineUntouched DEF IInv, Pipeline, FlushReturn
<1>4. Marks'
  BY <1>1 DEF IInv, Marks, FlushReturn, queueVars
<1>5. FlushBarrier'
  <2>1. ASSUME NEW g \in Flushers, flusher'[g] = "true" PROVE Processed(mark[g])
    <3>1. CASE g = f
      <4>1. unfinished = 0
        BY <1>1, <2>1, <3>1 DEF FlushReturn, IInv, TypeOK
      <4>2. Processed(Len(log))
        BY <4>1, NothingUnfinished DEF IInv
      <4>3. mark[g] \in Nat /\ mark[g] <= Len(log) /\ Len(log) \in Nat
        BY LenFacts DEF IInv, TypeOK, Marks
      <4> QED  BY <4>2, <4>3 DEF Processed
    <3>2. CASE g # f
      BY <1>1, <2>1, <3>2 DEF IInv, FlushBarrier, FlushReturn, TypeOK
    <3> QED  BY <3>1, <3>2
  <2> QED  BY <1>1, <2>1 DEF FlushBarrier, Processed, FlushReturn, queueVars, workerVars
<1> QED  BY <1>2, <1>3, <1>4, <1>5 DEF IInv, Pipeline

LEMMA ShutdownInvariant ==
  ASSUME IInv, NEW s \in Shutdowners,
         ShutdownCheck(s) \/ ShutdownSet(s) \/ ShutdownJoin(s)
  PROVE  IInv'
<1>1. Len(log) \in Nat
  BY LenFacts DEF IInv, TypeOK
<1>2. TypeOK'
  BY <1>1 DEF IInv, TypeOK, ShutdownCheck, ShutdownSet, ShutdownJoin, queueVars, workerVars, producerVars
<1>3. Pipeline'
  BY PipelineUntouched DEF IInv, Pipeline, ShutdownCheck, ShutdownSet, ShutdownJoin
<1>4. Marks'
  <2>1. \A t \in Flushers \cup Shutdowners : mark'[t] \in {mark[t], Len(log)}
    BY DEF IInv, TypeOK, ShutdownCheck, ShutdownSet, ShutdownJoin
  <2>2. log' = log
    BY DEF ShutdownCheck, ShutdownSet, ShutdownJoin, queueVars
  <2> QED  BY <1>1, <2>1, <2>2 DEF IInv, Marks
<1>5. FlushBarrier'
  <2>1. \A f \in Flushers : mark'[f] = mark[f]
    BY FlushersAssumption DEF IInv, TypeOK, ShutdownCheck, ShutdownSet, ShutdownJoin
  <2> QED
    BY <2>1 DEF IInv, FlushBarrier, Processed, ShutdownCheck, ShutdownSet, ShutdownJoin, queueVars, workerVars
<1> QED  BY <1>2, <1>3, <1>4, <1>5 DEF IInv, Pipeline

-----------------------------------------------------------------------------
(***************************************************************************)
(* The theorems                                                            *)
(***************************************************************************)

\* The invariant holds in every reachable state.
THEOREM Invariance == Spec => []IInv
<1>1. Init => IInv
  <2> SUFFICES ASSUME Init PROVE IInv
    OBVIOUS
  <2>1. <<>> \in Seq(Items) /\ <<>> \in Seq(Documents) /\ Len(<<>>) = 0
    OBVIOUS
  <2>2. TypeOK
    <3>1. offered \in [Producers -> 0..NumDocs]
      BY NumDocsAssumption DEF Init
    <3>2. /\ producer \in [Producers -> {"idle", "put"}]
          /\ \A p \in Producers : producer[p] # "put"
      BY DEF Init
    <3>3. queue \in Seq(Items) /\ Len(queue) <= QueueSize /\ item \in Items
      BY <2>1, QueueSizeAssumption DEF Init, Items
    <3>4. /\ flusher \in [Flushers -> {"idle", "waiting", "true", "false"}]
          /\ mark \in [Flushers \cup Shutdowners -> Nat]
      BY DEF Init
    <3> QED  BY <2>1, <3>1, <3>2, <3>3, <3>4 DEF Init, TypeOK
  <2>3. UnfinishedIsOutstanding /\ Fifo /\ Called
    BY <2>1 DEF Init, UnfinishedIsOutstanding, InFlight, Fifo, Called, Taken
  <2>4. Marks /\ FlushBarrier
    BY <2>1 DEF Init, Marks, FlushBarrier
  <2> QED  BY <2>2, <2>3, <2>4 DEF IInv
<1>2. IInv /\ [Next]_vars => IInv'
  <2> SUFFICES ASSUME IInv, [Next]_vars PROVE IInv'
    OBVIOUS
  <2>1. ASSUME NEW p \in Producers, Call(p) PROVE IInv'
    BY <2>1, CallInvariant, CallPutInvariant DEF Call
  <2>2. ASSUME Worker PROVE IInv'
    BY <2>2, WorkerGetInvariant, WorkerCallInvariant, WorkerTaskDoneInvariant,
       WorkerEmptyInvariant DEF Worker
  <2>3. ASSUME NEW f \in Flushers, Flush(f) PROVE IInv'
    BY <2>3, FlushBeginInvariant, FlushEndInvariant DEF Flush
  <2>4. ASSUME NEW s \in Shutdowners, Shutdown(s) PROVE IInv'
    BY <2>4, ShutdownInvariant, ShutdownPutInvariant DEF Shutdown
  <2>5. ASSUME UNCHANGED vars PROVE IInv'
    <3>1. Pipeline'
      BY <2>5, PipelineUntouched DEF IInv, Pipeline, vars
    <3>2. Marks' /\ FlushBarrier'
      BY <2>5, CallersUntouched DEF vars, queueVars, workerVars
    <3>3. TypeOK'
      BY <2>5 DEF IInv, TypeOK, vars, queueVars, workerVars, producerVars, stopVars
    <3> QED  BY <3>1, <3>2, <3>3 DEF IInv, Pipeline
  <2> QED  BY <2>1, <2>2, <2>3, <2>4, <2>5 DEF Next
<1> QED  BY <1>1, <1>2, PTL DEF Spec

\* The types, and the bound on the queue.
THEOREM TypeCorrect == Spec => []TypeOK
<1>1. IInv => TypeOK
  BY DEF IInv
<1> QED  BY <1>1, Invariance, PTL

\* The counter flush() waits for is the number of items not yet accounted for.
THEOREM UnfinishedCorrect == Spec => []UnfinishedIsOutstanding
<1>1. IInv => UnfinishedIsOutstanding
  BY DEF IInv
<1> QED  BY <1>1, Invariance, PTL

\* flush() returning True is a read-after-write barrier.
THEOREM FlushIsBarrier == Spec => []FlushBarrier
<1>1. IInv => FlushBarrier
  BY DEF IInv
<1> QED  BY <1>1, Invariance, PTL

\* A worker ended by the sentinel has processed everything put before it.
THEOREM SentinelIsDrain == Spec => []SentinelDrains
<1>1. IInv => SentinelDrains
  <2> SUFFICES ASSUME IInv, worker = "sentinel", NEW n \in 1..Len(log),
                      \A i \in 1..n : log[i] # None
               PROVE  Processed(n)
    BY DEF SentinelDrains
  <2>1. Len(log) \in Nat /\ Len(calls) \in Nat
    BY LenFacts DEF IInv, TypeOK
  <2>2. Len(calls) + 1 = Taken /\ log[Taken] = None
    BY DEF IInv, Called
  <2>3. n <= Len(calls)
    BY <2>1, <2>2
  <2> QED  BY <2>1, <2>3 DEF IInv, Called, Processed
<1> QED  BY <1>1, Invariance, PTL

\* The wrapper implements the abstract pipe: a put is an Accept, a call of the
\* wrapped callback is a Deliver, every other step is a stutter.
THEOREM RefinesPipe == Spec => PipeSafety
<1>1. Init => Pipe!Init
  BY DEF Init, Pipe!Init
<1>2. IInv /\ [Next]_vars => [Pipe!Next]_(Pipe!vars)
  <2> SUFFICES ASSUME IInv, [Next]_vars
               PROVE  Pipe!Next \/ UNCHANGED <<log, calls>>
    BY DEF Pipe!vars
  <2>1. ASSUME NEW p \in Producers, CallPut(p) PROVE Pipe!Next
    <3>1. <<p, offered[p]>> \in Items
      BY <2>1, NumDocsAssumption DEF IInv, TypeOK, CallPut, Items, Documents
    <3> QED  BY <2>1, <3>1 DEF CallPut, Put, workerVars, Pipe!Next, Pipe!Accept
  <2>2. ASSUME NEW s \in Shutdowners, ShutdownPut(s) PROVE Pipe!Next
    BY <2>2 DEF ShutdownPut, Put, workerVars, Pipe!Next, Pipe!Accept, Items
  <2>3. ASSUME WorkerCall PROVE Pipe!Next
    <3>1. Len(calls) + 1 = Taken /\ item = log[Taken]
      BY <2>3 DEF WorkerCall, IInv, Called
    <3>2. Len(log) \in Nat /\ Len(calls) \in Nat /\ Len(queue) \in Nat
      BY LenFacts DEF IInv, TypeOK
    <3>3. Len(calls) < Len(log)
      BY <3>1, <3>2 DEF Taken
    <3> QED  BY <2>3, <3>1, <3>3 DEF WorkerCall, queueVars, Pipe!Next, Pipe!Deliver
  <2>4. ASSUME \/ \E p \in Producers : CallRejected(p) \/ CallChecked(p)
               \/ WorkerGet \/ WorkerEmpty \/ WorkerCheckStop
               \/ WorkerTaskDone \/ WorkerSentinel
               \/ \E f \in Flushers : Flush(f)
               \/ \E s \in Shutdowners : ShutdownCheck(s) \/ ShutdownSet(s) \/ ShutdownJoin(s)
               \/ UNCHANGED vars
        PROVE  UNCHANGED <<log, calls>>
    BY <2>4 DEF CallRejected, CallChecked, WorkerGet, WorkerEmpty, WorkerCheckStop,
       WorkerTaskDone, WorkerSentinel, TaskDone, Flush, FlushBegin, FlushEnd, FlushDrained,
       FlushWorkerDead, FlushTimeout, FlushReturn, ShutdownCheck, ShutdownSet, ShutdownJoin,
       vars, queueVars, workerVars
  <2> QED  BY <2>1, <2>2, <2>3, <2>4 DEF Next, Call, Worker, Shutdown
<1> QED  BY <1>1, <1>2, Invariance, PTL DEF Spec, PipeSafety, Pipe!SafeSpec
=============================================================================
