------------------------- MODULE StreamSubscription -------------------------
(***************************************************************************)
(* streaming.py, BlueskyStreamSubscription: a manager of Tiled             *)
(* subscriptions.  Each container node it subscribes to announces its      *)
(* children, on threads of that subscription, and the manager subscribes   *)
(* to those that are selected: from the catalog to runs, from a run to its *)
(* streams, from a stream to its arrays and tables, whose updates it       *)
(* passes to the user's callback.  disconnect() ends all of it.            *)
(*                                                                         *)
(* A tiled Subscription is external.  It may run several callbacks at the  *)
(* same time, its disconnect() waits for those that run, and it closes     *)
(* when its producer has closed the node and its callbacks have ended.     *)
(***************************************************************************)
EXTENDS Naturals, Sequences, SequencesExt

CONSTANTS
  Nodes,          \* nodes of the catalog, each announced once
  Root,           \* the container that is subscribed to
  Parent,         \* the parent of every other node
  Data,           \* arrays and tables
  Selected,       \* nodes that streams and run_filter select
  Callers,        \* threads that call disconnect()
  None,
  MaxUpdates,     \* bound: updates of a data node
  MaxFaults       \* bound: requests that fail

ASSUME TreeAssumption ==
  /\ Root \in Nodes /\ None \notin Nodes
  /\ Parent \in [Nodes \ {Root} -> Nodes \ Data]
  /\ Data \subseteq Nodes \ {Root} /\ Root \in Selected /\ Selected \subseteq Nodes
ASSUME CallersAssumption == None \notin Callers
ASSUME BoundsAssumption == MaxUpdates \in Nat /\ MaxFaults \in Nat

VARIABLES
  lock,           \* _lock: the node whose handler holds it across a request
  closed,         \* _closed
  subscriptions,  \* _subscriptions, its keys
  ordered,        \* _ordered_subscription_uris
  handler,        \* the handler that subscribes to a node, on its parent's threads
  update,         \* the handler of a data node's update
  closing,        \* the handler of a node's stream_closed
  sub,            \* tiled: the Subscription of each node
  caller,         \* what each thread that calls disconnect() does
  teardown,       \* what it has still to disconnect
  owner,          \* history: the caller that found the manager open
  failed,         \* history: nodes whose Subscription.disconnect() raised
  updates,        \* updates of each data node, for the bound
  faults          \* requests that failed, for the bound

manager == <<closed, subscriptions, ordered>>
threads == <<handler, update, closing>>
users == <<caller, teardown, owner>>
vars == <<lock, manager, threads, sub, users, failed, updates, faults>>

Init ==
  /\ lock = None /\ closed = FALSE /\ subscriptions = {} /\ ordered = <<>>
  \* the constructor subscribes to the root
  /\ handler = [n \in Nodes |-> IF n = Root THEN "called" ELSE "none"]
  /\ update = [n \in Data |-> "idle"] /\ closing = [n \in Nodes |-> "none"]
  /\ sub = [n \in Nodes |-> "none"]
  /\ caller = [c \in Callers |-> "none"] /\ teardown = [c \in Callers |-> <<>>]
  /\ owner = None /\ failed = {}
  /\ updates = [n \in Data |-> 0] /\ faults = 0

Free == lock = None
Fault == faults < MaxFaults /\ faults' = faults + 1

Children(n) == {m \in Nodes \ {Root} : Parent[m] = n}

\* The nodes on the path from n to the root: every set that has the parent of n
\* and the parents of its own members has them.
Upwards == {S \in SUBSET Nodes : \A m \in S \ {Root} : Parent[m] \in S}
Above ==
  [n \in Nodes |->
     {m \in Nodes : \A S \in Upwards : (n # Root => Parent[n] \in S) => m \in S}]

\* No callback of the Subscription of n is running.
Quiet(n) ==
  /\ \A m \in Children(n) : handler[m] \in {"none", "done"}
  /\ n \in Data => update[n] = "idle"
  /\ closing[n] # "called"

(***************************************************************************)
(* _handle_container_child, _handle_run_child, _handle_stream_child: the   *)
(* Subscription of the parent announces a node.                            *)
(***************************************************************************)
Announced(n) ==
  /\ n # Root /\ handler[n] = "none" /\ sub[Parent[n]] = "running"
  /\ handler' = [handler EXCEPT ![n] = IF n \in Selected THEN "called" ELSE "done"]
  /\ UNCHANGED <<lock, manager, update, closing, sub, users, failed, updates, faults>>

(***************************************************************************)
(* _subscribe(): under the lock, unless the manager is closed, register    *)
(* the Subscription and start it, which takes a request.                   *)
(***************************************************************************)
\* Mutant: whether the manager is closed is not looked at again.
SubscribeUnchecked(n) ==
  /\ handler[n] = "called" /\ Free
  /\ lock' = n /\ handler' = [handler EXCEPT ![n] = "starting"]
  /\ sub' = [sub EXCEPT ![n] = "attached"]
  /\ subscriptions' = subscriptions \cup {n} /\ ordered' = Append(ordered, n)
  /\ UNCHANGED <<closed, update, closing, users, failed, updates, faults>>

\* Mutant: the list is not in the order of creation.
SubscribeInFront(n) ==
  /\ handler[n] = "called" /\ Free
  /\ IF closed \/ n \in subscriptions
     THEN handler' = [handler EXCEPT ![n] = "done"] /\ UNCHANGED <<lock, sub, manager>>
     ELSE /\ lock' = n /\ handler' = [handler EXCEPT ![n] = "starting"]
          /\ sub' = [sub EXCEPT ![n] = "attached"]
          /\ subscriptions' = subscriptions \cup {n} /\ ordered' = <<n>> \o ordered
          /\ UNCHANGED closed
  /\ UNCHANGED <<update, closing, users, failed, updates, faults>>

Subscribe(n) ==
  /\ handler[n] = "called" /\ Free
  /\ IF closed \/ n \in subscriptions
     THEN handler' = [handler EXCEPT ![n] = "done"] /\ UNCHANGED <<lock, sub, manager>>
     ELSE /\ lock' = n /\ handler' = [handler EXCEPT ![n] = "starting"]
          /\ sub' = [sub EXCEPT ![n] = "attached"]
          /\ subscriptions' = subscriptions \cup {n} /\ ordered' = Append(ordered, n)
          /\ UNCHANGED closed
  /\ UNCHANGED <<update, closing, users, failed, updates, faults>>

\* node.subscribe() or adding the callbacks raises: nothing was registered.
SubscribeFails(n) ==
  /\ handler[n] = "called" /\ Free /\ ~closed
  /\ Fault
  /\ handler' = [handler EXCEPT ![n] = "done"]
  /\ UNCHANGED <<lock, manager, update, closing, sub, users, failed, updates>>

Start(n) ==
  /\ handler[n] = "starting"
  /\ handler' = [handler EXCEPT ![n] = "done"]
  /\ sub' = [sub EXCEPT ![n] = "running"]
  /\ lock' = None
  /\ UNCHANGED <<manager, update, closing, users, failed, updates, faults>>

\* The lock is released before it is taken again to remove the Subscription.
StartFails(n) ==
  /\ handler[n] = "starting"
  /\ Fault
  /\ handler' = [handler EXCEPT ![n] = "cleanup"]
  /\ lock' = None
  /\ UNCHANGED <<manager, update, closing, sub, users, failed, updates>>

\* Remove n from the dictionary and the list, if it is still there.
Forget(n) ==
  /\ subscriptions' = subscriptions \ {n}
  /\ ordered' = RemoveFirst(ordered, n)
  /\ UNCHANGED closed

Cleanup(n) ==
  /\ handler[n] = "cleanup" /\ Free
  /\ handler' = [handler EXCEPT ![n] = "disconnect"]
  /\ Forget(n)
  /\ UNCHANGED <<lock, update, closing, sub, users, failed, updates, faults>>

CleanupDisconnect(n) ==
  /\ handler[n] = "disconnect"
  /\ handler' = [handler EXCEPT ![n] = "done"]
  /\ sub' = [sub EXCEPT ![n] = "disconnected"]
  /\ UNCHANGED <<lock, manager, update, closing, users, failed, updates, faults>>

\* It raises, which is only logged.
CleanupDisconnectFails(n) ==
  /\ handler[n] = "disconnect" /\ Fault
  /\ handler' = [handler EXCEPT ![n] = "done"]
  /\ failed' = failed \cup {n}
  /\ UNCHANGED <<lock, manager, update, closing, sub, users, updates>>

(***************************************************************************)
(* _handle_subscription_closed(): the producer closed the node.            *)
(***************************************************************************)
ProducerCloses(n) ==
  /\ n # Root /\ sub[n] = "running" /\ Quiet(n)
  /\ sub' = [sub EXCEPT ![n] = "closed"]
  /\ closing' = [closing EXCEPT ![n] = "called"]
  /\ UNCHANGED <<lock, manager, handler, update, users, failed, updates, faults>>

SubscriptionClosed(n) ==
  /\ closing[n] = "called" /\ Free
  /\ closing' = [closing EXCEPT ![n] = "done"]
  /\ Forget(n)
  /\ UNCHANGED <<lock, handler, update, sub, users, failed, updates, faults>>

(***************************************************************************)
(* _handle_data_update(): the lock guards the test, not the callback.      *)
(***************************************************************************)
DataUpdate(n) ==
  /\ sub[n] = "running" /\ update[n] = "idle" /\ updates[n] < MaxUpdates
  /\ updates' = [updates EXCEPT ![n] = @ + 1]
  /\ update' = [update EXCEPT ![n] = "called"]
  /\ UNCHANGED <<lock, manager, handler, closing, sub, users, failed, faults>>

CheckClosed(n) ==
  /\ update[n] = "called" /\ Free
  /\ update' = [update EXCEPT ![n] = IF closed THEN "idle" ELSE "callback"]
  /\ UNCHANGED <<lock, manager, handler, closing, sub, users, failed, updates, faults>>

CallbackReturns(n) ==
  /\ update[n] = "callback"
  /\ update' = [update EXCEPT ![n] = "idle"]
  /\ UNCHANGED <<lock, manager, handler, closing, sub, users, failed, updates, faults>>

(***************************************************************************)
(* disconnect(), by the user once the constructor has returned or by the   *)
(* constructor when it fails: take all Subscriptions over under the lock,  *)
(* then disconnect them, the last one registered first.                    *)
(***************************************************************************)
\* Mutant: the lock is kept while the Subscriptions are disconnected.
DisconnectLocked(c) ==
  /\ caller[c] = "none" /\ handler[Root] = "done" /\ Free
  /\ IF closed
     THEN caller' = [caller EXCEPT ![c] = "returned"] /\ UNCHANGED <<lock, manager, teardown, owner>>
     ELSE /\ closed' = TRUE /\ subscriptions' = {} /\ ordered' = <<>>
          /\ teardown' = [teardown EXCEPT ![c] = Reverse(ordered)]
          /\ caller' = [caller EXCEPT ![c] = "teardown"]
          /\ owner' = c /\ lock' = Root
  /\ UNCHANGED <<threads, sub, failed, updates, faults>>

Disconnect(c) ==
  /\ caller[c] = "none" /\ handler[Root] = "done" /\ Free
  /\ IF closed
     THEN caller' = [caller EXCEPT ![c] = "returned"] /\ UNCHANGED <<manager, teardown, owner>>
     ELSE /\ closed' = TRUE /\ subscriptions' = {} /\ ordered' = <<>>
          /\ teardown' = [teardown EXCEPT ![c] = Reverse(ordered)]
          /\ caller' = [caller EXCEPT ![c] = "teardown"]
          /\ owner' = c
  /\ UNCHANGED <<lock, threads, sub, failed, updates, faults>>

\* Subscription.disconnect(): no callback starts any more.
TeardownNext(c) ==
  /\ caller[c] = "teardown" /\ teardown[c] # <<>>
  /\ sub' = [sub EXCEPT ![Head(teardown[c])] =
               IF @ \in {"attached", "running"} THEN "ending" ELSE @]
  /\ caller' = [caller EXCEPT ![c] = "wait"]
  /\ UNCHANGED <<lock, manager, threads, teardown, owner, failed, updates, faults>>

\* Mutant: it does not wait for the callbacks that run.
TeardownHasty(c) ==
  /\ caller[c] = "wait"
  /\ sub' = [sub EXCEPT ![Head(teardown[c])] = IF @ = "ending" THEN "disconnected" ELSE @]
  /\ teardown' = [teardown EXCEPT ![c] = Tail(@)]
  /\ caller' = [caller EXCEPT ![c] = "teardown"]
  /\ UNCHANGED <<lock, manager, threads, owner, failed, updates, faults>>

\* It returns when those that run have ended.
TeardownDrained(c) ==
  /\ caller[c] = "wait" /\ Quiet(Head(teardown[c]))
  /\ sub' = [sub EXCEPT ![Head(teardown[c])] = IF @ = "ending" THEN "disconnected" ELSE @]
  /\ teardown' = [teardown EXCEPT ![c] = Tail(@)]
  /\ caller' = [caller EXCEPT ![c] = "teardown"]
  /\ UNCHANGED <<lock, manager, threads, owner, failed, updates, faults>>

\* Mutant: the first error ends the loop.
TeardownFailsAll(c) ==
  /\ caller[c] = "wait" /\ Fault
  /\ failed' = failed \cup {Head(teardown[c])}
  /\ teardown' = [teardown EXCEPT ![c] = <<>>]
  /\ caller' = [caller EXCEPT ![c] = "teardown"]
  /\ UNCHANGED <<lock, manager, threads, sub, owner, updates>>

\* It raises; the others are disconnected all the same.
TeardownFails(c) ==
  /\ caller[c] = "wait" /\ Fault
  /\ failed' = failed \cup {Head(teardown[c])}
  /\ teardown' = [teardown EXCEPT ![c] = Tail(@)]
  /\ caller' = [caller EXCEPT ![c] = "teardown"]
  /\ UNCHANGED <<lock, manager, threads, sub, owner, updates>>

DisconnectReturn(c) ==
  /\ caller[c] = "teardown" /\ teardown[c] = <<>>
  /\ caller' = [caller EXCEPT ![c] = "returned"]
  /\ UNCHANGED <<lock, manager, threads, sub, teardown, owner, failed, updates, faults>>

-----------------------------------------------------------------------------
Handle(n) ==
  \/ Subscribe(n) \/ SubscribeFails(n) \/ Start(n) \/ StartFails(n)
  \/ Cleanup(n) \/ CleanupDisconnect(n) \/ CleanupDisconnectFails(n)

Deliver(n) == CheckClosed(n) \/ CallbackReturns(n)

Teardown(c) ==
  TeardownNext(c) \/ TeardownDrained(c) \/ TeardownFails(c) \/ DisconnectReturn(c)

Next ==
  \/ \E n \in Nodes : Announced(n) \/ Handle(n) \/ ProducerCloses(n) \/ SubscriptionClosed(n)
  \/ \E n \in Data : DataUpdate(n) \/ Deliver(n)
  \/ \E c \in Callers : Disconnect(c) \/ Teardown(c)

Spec == Init /\ [][Next]_vars

\* The steps of threads that are inside the manager: requests end, the user's
\* callback returns, and whoever waits for the lock is not kept out for ever.
\* That some thread goes on as long as one can is all that is assumed: within
\* the bounds each has few steps, so it is as much as fairness to each.
Running ==
  \/ \E n \in Nodes : Handle(n) \/ SubscriptionClosed(n)
  \/ \E n \in Data : Deliver(n)
  \/ \E c \in Callers : Teardown(c)

Fairness == WF_vars(Running)

FairSpec == Spec /\ Fairness

-----------------------------------------------------------------------------
(***************************************************************************)
(* Properties                                                              *)
(***************************************************************************)
\* The Subscriptions whose events could still reach the manager.
Live == {n \in Nodes : sub[n] \in {"attached", "running", "ending"}}

\* An error of Subscription.disconnect() leaves its own threads to themselves.
Excused(n) == n \in failed \/ (n # Root /\ Parent[n] \in failed)

\* When disconnect() returns, no Subscription is left behind: not one that was
\* being registered meanwhile, nor one whose start failed, nor those after one
\* that could not be disconnected (lines 194-196: "after teardown is attempted
\* for every owned subscription"); and the list of URIs, which is what teardown
\* walks, never misses one of the dictionary.
NoneLeftBehind ==
  /\ ToSet(ordered) = subscriptions /\ IsInjective(ordered)
  /\ (owner # None /\ caller[owner] = "returned") => \A n \in Live : Excused(n)

\* From then on the user's callback is not running and is not called again
\* ("blocks while Tiled closes sockets and waits for its subscription threads",
\* lines 187-188), although the lock is not held during the callback.  A second
\* disconnect() gives no such guarantee: it returns at once.
SilentAfterDisconnect ==
  (owner # None /\ caller[owner] = "returned") =>
    \A n \in Data : update[n] = "callback" => Excused(n)

\* Leaves are torn down before their parents (lines 153-154): none below a node
\* that is being disconnected is left but one that its own handler disconnects.
LeavesFirst ==
  [][\A n \in Nodes : (sub[n] # "ending" /\ sub'[n] = "ending") =>
       \A m \in Live : n \in Above[m] =>
         m \in failed \/ handler[m] \in {"cleanup", "disconnect"}]_vars

\* disconnect() returns, with callbacks that wait for the lock and with
\* Subscriptions that are being started.
DisconnectReturns ==
  \A c \in Callers : [](caller[c] \in {"teardown", "wait"} => <>(caller[c] = "returned"))
=============================================================================
