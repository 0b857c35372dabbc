----------------------------- MODULE Dispatcher -----------------------------
(***************************************************************************)
(* writing/_dispatcher.py: the Dispatcher through which a RunNormalizer    *)
(* emits, and its CallbackRegistry.  Callbacks are compared by equality,   *)
(* bound methods are held weakly, and callbacks may subscribe and          *)
(* unsubscribe while a document is being processed.                        *)
(***************************************************************************)
EXTENDS Integers, Sequences, FiniteSets, Functions

CONSTANTS
  NumSigs,    \* kinds of documents, numbered in the order of DocumentNames
  Funcs,      \* callbacks; equal callbacks are one element
  Weak,       \* those that are methods of an object that may be garbage
  MaxTokens,  \* bound on calls of subscribe()
  MaxDocs,    \* bound on calls of process()
  None

ASSUME NumSigsAssumption == NumSigs \in Nat \ {0}
ASSUME WeakAssumption == Weak \subseteq Funcs
ASSUME NoneAssumption == None \notin Funcs

Sigs == 1..NumSigs
\* A name is one kind of documents, or "all".
Names == {{s} : s \in Sigs} \cup {Sigs}

VARIABLES
  ignore_exceptions, \* of the registry
  callbacks,         \* proxies by kind of document, with their ids
  func_cid_map,      \* the weak dictionaries that find the id of a callback
  cid,               \* the last id
  tokens,            \* _token_mapping: what was subscribed, and its ids
  alive,             \* callbacks whose object exists
  held,              \* proxies that tracebacks of earlier documents keep alive
  walk,              \* the call of process() in progress, or the last one
  docs,              \* history: number of documents
  due,               \* history: who has to get documents, and since which token
  excused            \* history: who has raised a ReferenceError

registry == <<callbacks, func_cid_map>>
dispatcherVars == <<ignore_exceptions, callbacks, func_cid_map, cid, tokens, alive, held, walk, docs, due, excused>>

DispatcherInit ==
  /\ ignore_exceptions \in BOOLEAN
  /\ callbacks = [s \in Sigs |-> {}] /\ func_cid_map = [s \in Sigs |-> {}]
  /\ cid = 0 /\ tokens = <<>>
  /\ alive = Funcs /\ held = {}
  /\ walk = [phase |-> "idle", sig |-> 1, snapshot |-> {}, todo |-> {}, func |-> None,
             exceptions |-> FALSE, got |-> <<>>, owed |-> {}, entitled |-> {}]
  /\ docs = 0 /\ due = [s \in Sigs |-> {}] /\ excused = {}

-----------------------------------------------------------------------------
(***************************************************************************)
(* subscribe() and unsubscribe(), from outside or from a running callback  *)
(***************************************************************************)
Callable == walk.phase \in {"idle", "callback", "returned", "raised"}

Known(s, f) == \E e \in func_cid_map[s] : e.func = f
Fresh(f, names) == {s \in names : ~Known(s, f)}

\* The entry that connect() makes for one kind of document.
Entry(f, names, s) ==
  [cid |-> cid + Cardinality({r \in Fresh(f, names) : r <= s}), func |-> f]

\* Mutant: the callback is not looked for.
EnteredAgain(registered, f, names) ==
  [s \in Sigs |-> registered[s] \cup
                    (IF s \in names THEN {[cid |-> cid + s, func |-> f]} ELSE {})]

Entered(registered, f, names) ==
  [s \in Sigs |-> registered[s] \cup
                    (IF s \in Fresh(f, names) THEN {Entry(f, names, s)} ELSE {})]

\* The ids of the callback after connect(): the new one, or the one found.
Cids(f, names) ==
  {e.cid : e \in {d \in UNION {func_cid_map'[s] : s \in names} : d.func = f}}

Dues(s) == {d.func : d \in due[s]}

Subscribe(f, names) ==
  /\ Callable /\ f \in alive /\ Len(tokens) < MaxTokens
  /\ callbacks' = Entered(callbacks, f, names)
  /\ func_cid_map' = Entered(func_cid_map, f, names)
  /\ cid' = cid + Cardinality(Fresh(f, names))
  /\ tokens' = Append(tokens, [func |-> f, names |-> names, cids |-> Cids(f, names)])
  /\ due' = [s \in Sigs |-> IF s \in names /\ f \notin Dues(s) \cup excused
                            THEN due[s] \cup {[func |-> f, since |-> Len(tokens) + 1]}
                            ELSE due[s]]
  /\ UNCHANGED <<ignore_exceptions, alive, held, walk, docs, excused>>

\* The callback has no more claim that goes back to a token up to t.
Without(claims, f, t) == {d \in claims : d.func # f \/ d.since > t}

Waived(f, names, t) ==
  [s \in Sigs |-> IF s \in names THEN Without(due[s], f, t) ELSE due[s]]

Owing(f, names, t) ==
  IF walk.sig \in names THEN [walk EXCEPT !.owed = Without(@, f, t)] ELSE walk

\* Mutant: of the ids of the token only one is disconnected.
DisconnectedOne(registered, cids) ==
  [s \in Sigs |-> {e \in registered[s] : e.cid \notin cids \/ \E c \in cids : c < e.cid}]

\* disconnect() of every id of the token: where the id is found, it is taken
\* out of the callbacks and out of the map.
Disconnected(registered, cids) ==
  [s \in Sigs |-> {e \in registered[s] : e.cid \notin cids}]

\* Mutant: "it may still be there" is forgotten.
UnmappedNot(cids) == func_cid_map

Unmapped(cids) ==
  Disconnected(func_cid_map, {e.cid : e \in {d \in UNION {callbacks[s] : s \in Sigs} : d.cid \in cids}})

Unsubscribe(t) ==
  /\ Callable /\ t \in DOMAIN tokens /\ tokens[t].cids # {}
  /\ callbacks' = Disconnected(callbacks, tokens[t].cids)
  /\ func_cid_map' = Unmapped(tokens[t].cids)
  /\ tokens' = [tokens EXCEPT ![t].cids = {}]
  /\ due' = Waived(tokens[t].func, tokens[t].names, t)
  /\ walk' = Owing(tokens[t].func, tokens[t].names, t)
  /\ UNCHANGED <<ignore_exceptions, cid, alive, held, docs, excused>>

UnsubscribeAll ==
  /\ Callable /\ \E t \in DOMAIN tokens : tokens[t].cids # {}
  /\ LET cids == UNION {tokens[t].cids : t \in DOMAIN tokens}
     IN callbacks' = Disconnected(callbacks, cids) /\ func_cid_map' = Unmapped(cids)
  /\ tokens' = [t \in DOMAIN tokens |-> [tokens[t] EXCEPT !.cids = {}]]
  /\ due' = [s \in Sigs |-> {}]
  /\ walk' = [walk EXCEPT !.owed = {}]
  /\ UNCHANGED <<ignore_exceptions, cid, alive, held, docs, excused>>

-----------------------------------------------------------------------------
(***************************************************************************)
(* Proxies                                                                 *)
(***************************************************************************)
Pinned == held \cup walk.snapshot

\* An entry of a weak dictionary goes with the last reference to its proxy.
Collected(map, cbs, keep) ==
  [s \in Sigs |-> {e \in map[s] : e \in cbs[s] \/ e \in keep}]

\* _remove_proxy(): out of the callbacks of every kind; a kind without
\* callbacks loses its dictionary.
RemoveProxy(f) ==
  /\ callbacks' = [s \in Sigs |-> callbacks[s] \ {e \in func_cid_map[s] : e.func = f}]
  /\ func_cid_map' = [s \in Sigs |-> IF callbacks'[s] = {} THEN {}
                                     ELSE Collected(func_cid_map, callbacks', Pinned)[s]]

Proxied(f) ==
  \E e \in UNION {func_cid_map[s] : s \in Sigs} \cup Pinned : e.func = f

\* The object of a bound method dies, and its proxies call _remove_proxy().
Die(f) ==
  /\ Callable /\ f \in Weak \cap alive /\ walk.func # f
  /\ alive' = alive \ {f}
  /\ IF Proxied(f) THEN RemoveProxy(f) ELSE UNCHANGED registry
  /\ due' = Waived(f, Sigs, Len(tokens))
  /\ walk' = Owing(f, Sigs, Len(tokens))
  /\ UNCHANGED <<ignore_exceptions, cid, tokens, held, docs, excused>>

\* The cycle of an exception, its traceback and the frame of process() with
\* its snapshot is collected.
Collect ==
  /\ held # {}
  /\ held' = {}
  /\ func_cid_map' = Collected(func_cid_map, callbacks, walk.snapshot)
  /\ UNCHANGED <<ignore_exceptions, callbacks, cid, tokens, alive, walk, docs, due, excused>>

-----------------------------------------------------------------------------
(***************************************************************************)
(* process()                                                               *)
(***************************************************************************)
\* Those that are subscribed to this kind of documents at all.
Entitled(s) == {tokens[t].func : t \in {u \in DOMAIN tokens : s \in tokens[u].names /\ tokens[u].cids # {}}}

Process(s) ==
  /\ walk.phase \in {"idle", "returned", "raised"} /\ docs < MaxDocs
  /\ docs' = docs + 1
  /\ walk' = [phase |-> "next", sig |-> s, snapshot |-> callbacks[s], todo |-> callbacks[s],
              func |-> None, exceptions |-> FALSE,
              got |-> <<>>, owed |-> due[s], entitled |-> Entitled(s)]
  /\ UNCHANGED <<ignore_exceptions, callbacks, func_cid_map, cid, tokens, alive, held, due, excused>>

\* A dict is in the order of insertion.
NextEntry == CHOOSE e \in walk.todo : \A d \in walk.todo : e.cid <= d.cid

CallNext ==
  /\ walk.phase = "next" /\ walk.todo # {} /\ NextEntry.func \in alive
  /\ walk' = [walk EXCEPT !.phase = "callback", !.todo = @ \ {NextEntry},
                        !.func = NextEntry.func, !.got = Append(@, NextEntry.func)]
  /\ UNCHANGED <<ignore_exceptions, callbacks, func_cid_map, cid, tokens, alive, held, docs, due, excused>>

\* The proxy raises ReferenceError itself.
CallDead ==
  /\ walk.phase = "next" /\ walk.todo # {} /\ NextEntry.func \notin alive
  /\ RemoveProxy(NextEntry.func)
  /\ walk' = [walk EXCEPT !.todo = @ \ {NextEntry}]
  /\ UNCHANGED <<ignore_exceptions, cid, tokens, alive, held, docs, due, excused>>

CallbackReturns ==
  /\ walk.phase = "callback"
  /\ walk' = [walk EXCEPT !.phase = "next", !.func = None]
  /\ UNCHANGED <<ignore_exceptions, callbacks, func_cid_map, cid, tokens, alive, held, docs, due, excused>>

\* A ReferenceError of the callback's own is taken for the death of its object.
CallbackReferenceError ==
  /\ walk.phase = "callback"
  /\ RemoveProxy(walk.func)
  /\ walk' = [Owing(walk.func, Sigs, Len(tokens)) EXCEPT !.phase = "next", !.func = None]
  /\ due' = Waived(walk.func, Sigs, Len(tokens))
  /\ excused' = excused \cup {walk.func}
  /\ UNCHANGED <<ignore_exceptions, cid, tokens, alive, held, docs>>

CallbackIgnored ==
  /\ walk.phase = "callback" /\ ignore_exceptions
  /\ walk' = [walk EXCEPT !.phase = "next", !.func = None, !.exceptions = TRUE]
  /\ UNCHANGED <<ignore_exceptions, callbacks, func_cid_map, cid, tokens, alive, held, docs, due, excused>>

\* The call of process() is over; its snapshot goes, unless a traceback has it.
Over(phase, keep) ==
  /\ held' = held \cup keep
  /\ func_cid_map' = Collected(func_cid_map, callbacks, held')
  /\ walk' = [walk EXCEPT !.phase = phase, !.func = None, !.snapshot = {}, !.todo = {}]
  /\ UNCHANGED <<ignore_exceptions, callbacks, cid, tokens, alive, docs, due, excused>>

CallbackRaises ==
  /\ walk.phase = "callback" /\ ~ignore_exceptions
  /\ Over("raised", walk.snapshot)

ProcessReturns ==
  /\ walk.phase = "next" /\ walk.todo = {}
  /\ Over("returned", IF walk.exceptions THEN walk.snapshot ELSE {})

-----------------------------------------------------------------------------
DispatcherNext ==
  \/ \E f \in Funcs, names \in Names : Subscribe(f, names)
  \/ \E t \in 1..MaxTokens : Unsubscribe(t)
  \/ UnsubscribeAll
  \/ \E f \in Weak : Die(f)
  \/ Collect
  \/ \E s \in Sigs : Process(s)
  \/ CallNext \/ CallDead \/ ProcessReturns
  \/ CallbackReturns \/ CallbackReferenceError \/ CallbackIgnored \/ CallbackRaises

DispatcherSpec == DispatcherInit /\ [][DispatcherNext]_dispatcherVars
-----------------------------------------------------------------------------
(***************************************************************************)
(* Properties                                                              *)
(***************************************************************************)
\* Whoever is subscribed when a document comes gets it, in the order of the
\* subscriptions, unless he is unsubscribed or dies before his turn: although
\* equal callbacks share an id, tokens outlive it, and others come and go during
\* the document.  Unsubscribing one of two tokens of equal callbacks takes both
\* ("Unregister a callback function using its integer ID", line 118).
EveryoneServed ==
  walk.phase = "returned" =>
    \E turn \in [walk.owed -> DOMAIN walk.got] :
      /\ \A d \in walk.owed : walk.got[turn[d]] = d.func
      /\ \A d, e \in walk.owed : d.since < e.since => turn[d] < turn[e]

\* Nobody gets a document twice, however often he subscribed, and nobody gets it
\* all of whose tokens were given back before it came.
OnlySubscribersOnce == IsInjective(walk.got) /\ Range(walk.got) \subseteq walk.entitled
=============================================================================
