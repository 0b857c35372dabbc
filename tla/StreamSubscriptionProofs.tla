---------------------- MODULE StreamSubscriptionProofs ----------------------
(***************************************************************************)
(* Proofs about StreamSubscription, for any tree of nodes, any selection   *)
(* of them, any number of threads that disconnect, of updates and faults.  *)
(***************************************************************************)
EXTENDS StreamSubscription, SequenceTheorems, WellFoundedInduction, TLAPS

Handlers == {"none", "called", "starting", "cleanup", "disconnect", "done"}
Subs == {"none", "attached", "running", "ending", "closed", "disconnected"}

TypeOK ==
  /\ lock \in Nodes \cup {None} /\ closed \in BOOLEAN
  /\ subscriptions \subseteq Nodes /\ ordered \in Seq(Nodes)
  /\ handler \in [Nodes -> Handlers] /\ sub \in [Nodes -> Subs]
  /\ update \in [Data -> {"idle", "called", "callback"}]
  /\ closing \in [Nodes -> {"none", "called", "done"}]
  /\ caller \in [Callers -> {"none", "teardown", "wait", "returned"}]
  /\ teardown \in [Callers -> Seq(Nodes)]
  /\ owner \in Callers \cup {None} /\ failed \subseteq Nodes
  /\ updates \in [Data -> Nat] /\ faults \in Nat

(***************************************************************************)
(* The inductive invariant.  First each node by itself: how far its        *)
(* handler is tells what its Subscription can be.                          *)
(***************************************************************************)
Abandoned == {"cleanup", "disconnect"}     \* the start failed

Phases ==
  \A n \in Nodes :
    /\ sub[n] = "none" => handler[n] \in {"none", "called", "done"}
    /\ sub[n] = "attached" => \/ handler[n] \in {"starting"} \cup Abandoned
                              \/ (n \in failed /\ handler[n] = "done")
    /\ sub[n] \in {"running", "closed"} => handler[n] = "done"
    /\ sub[n] \in {"ending", "disconnected"} => handler[n] \in Abandoned \cup {"done"}
    /\ handler[n] = "starting" => n \in subscriptions /\ ~closed
    /\ closing[n] # "none" => sub[n] = "closed"
    /\ n \in Data /\ update[n] # "idle" => sub[n] \in {"running", "ending"} /\ handler[n] = "done"

\* The handler of a node holds the lock while it starts the Subscription.
Locked == \A n \in Nodes : handler[n] = "starting" <=> lock = n

\* A handler runs on the threads of the parent's Subscription.
Announces ==
  \A n \in Nodes \ {Root} :
    /\ handler[n] # "none" => sub[Parent[n]] # "none"
    /\ handler[n] \notin {"none", "done"} => sub[Parent[n]] \in {"running", "ending"}
                                             /\ handler[Parent[n]] = "done"

\* The list of the manager and those that were taken from it have a node before
\* the nodes above it in the order of teardown.
Listed ==
  /\ ToSet(ordered) = subscriptions /\ IsInjective(ordered)
  /\ \A n \in subscriptions : sub[n] # "none"
  /\ \A i, j \in 1..Len(ordered) : i <= j => ordered[j] \notin Above[ordered[i]]
TakenOver ==
  \A c \in Callers :
    /\ \A i \in 1..Len(teardown[c]) : sub[teardown[c][i]] # "none"
    /\ \A i, j \in 1..Len(teardown[c]) : i <= j => teardown[c][i] \notin Above[teardown[c][j]]

\* One caller has found the manager open; it alone tears down.
OneOwner ==
  /\ closed <=> owner # None
  /\ closed => subscriptions = {} /\ handler[Root] = "done"
  /\ \A c \in Callers : c # owner => teardown[c] = <<>> /\ caller[c] \in {"none", "returned"}
  /\ owner # None =>
       /\ caller[owner] # "none"
       /\ caller[owner] = "returned" => teardown[owner] = <<>>
       /\ caller[owner] = "wait" =>
            teardown[owner] # <<>> /\ sub[Head(teardown[owner])] \notin {"none", "attached", "running"}

\* Every Subscription that may have events is somebody's to disconnect.
Owned ==
  \A n \in Live :
    \/ n \in subscriptions \/ n \in failed \/ handler[n] \in Abandoned
    \/ owner # None /\ n \in ToSet(teardown[owner])

IInv ==
  /\ TypeOK /\ Phases /\ Locked /\ Announces /\ Listed /\ TakenOver /\ OneOwner /\ Owned
-----------------------------------------------------------------------------
(***************************************************************************)
(* Facts about sequences                                                   *)
(***************************************************************************)

\* Every set of naturals has a least element.
LEMMA LeastIndex ==
  ASSUME NEW S \in SUBSET Nat, S # {}
  PROVE  \E x \in S : \A y \in S : x <= y
<1> DEFINE Less == {ss \in Nat \X Nat : ss[1] < ss[2]}
<1>1. Less = OpToRel(<, Nat)
  BY Zenon DEF OpToRel
<1>2. IsWellFoundedOn(OpToRel(<, Nat), Nat)
  BY NatLessThanWellFounded
<1>3. IsWellFoundedOn(Less, Nat)
  BY ONLY <1>1, <1>2, Zenon
<1>4. \A x, y \in Nat : <<y, x>> \notin Less => x <= y
  OBVIOUS
<1> HIDE DEF Less
<1>5. \E x \in S : \A y \in S : <<y, x>> \notin Less
  BY <1>3, WFMin
<1> QED  BY <1>4, <1>5

\* ToSet by indices.
LEMMA ToSetFacts ==
  ASSUME NEW S, NEW s \in Seq(S)
  PROVE  /\ \A x : x \in ToSet(s) <=> \E i \in 1..Len(s) : s[i] = x
         /\ ToSet(s) \subseteq S
         /\ IsInjective(s) <=> \A i, j \in 1..Len(s) : s[i] = s[j] => i = j
<1>1. DOMAIN s = 1..Len(s) /\ \A i \in 1..Len(s) : s[i] \in S
  OBVIOUS
<1> QED  BY <1>1 DEF ToSet, IsInjective

\* Taking out the element at k.
LEMMA RemoveAtFacts ==
  ASSUME NEW S, NEW s \in Seq(S), NEW k \in 1..Len(s)
  PROVE  /\ RemoveAt(s, k) \in Seq(S) /\ Len(RemoveAt(s, k)) = Len(s) - 1
         /\ \A i \in 1..(Len(s) - 1) : RemoveAt(s, k)[i] = s[IF i < k THEN i ELSE i + 1]
<1> DEFINE a == SubSeq(s, 1, k - 1)
           b == SubSeq(s, k + 1, Len(s))
<1>1. Len(s) \in Nat /\ k \in Nat /\ k >= 1 /\ k <= Len(s)
  OBVIOUS
<1>2. a \in Seq(S) /\ Len(a) = k - 1 /\ \A i \in 1..(k - 1) : a[i] = s[i]
  BY <1>1, SubSeqProperties
<1>3. b \in Seq(S) /\ Len(b) = Len(s) - k /\ \A i \in 1..(Len(s) - k) : b[i] = s[k + i]
  BY <1>1, SubSeqProperties
<1>4. RemoveAt(s, k) = a \o b
  BY DEF RemoveAt
<1> HIDE DEF a, b
<1>5. /\ a \o b \in Seq(S) /\ Len(a \o b) = Len(a) + Len(b)
      /\ \A i \in 1..(Len(a) + Len(b)) : (a \o b)[i] = IF i <= Len(a) THEN a[i] ELSE b[i - Len(a)]
  BY ONLY <1>2, <1>3, ConcatProperties
<1>6. ASSUME NEW i \in 1..(Len(s) - 1)
      PROVE  (a \o b)[i] = s[IF i < k THEN i ELSE i + 1]
  <2>0. i \in 1..(Len(a) + Len(b))
    BY <1>1, <1>2, <1>3
  <2>1. CASE i < k
    <3>1. i \in 1..(k - 1) /\ i <= Len(a)
      BY <1>1, <1>2, <2>1
    <3>2. (a \o b)[i] = a[i]
      BY ONLY <1>5, <2>0, <3>1
    <3>3. a[i] = s[i]
      BY <1>2, <3>1
    <3> QED  BY <2>1, <3>2, <3>3
  <2>2. CASE ~(i < k)
    <3>1. i - (k - 1) \in 1..(Len(s) - k) /\ k + (i - (k - 1)) = i + 1 /\ ~(i <= k - 1)
      BY <1>1, <2>2
    <3>2. b[i - (k - 1)] = s[i + 1]
      BY <1>3, <3>1
    <3>3. (a \o b)[i] = b[i - Len(a)]
      BY ONLY <1>2, <1>5, <2>0, <3>1
    <3> QED  BY <1>2, <2>2, <3>2, <3>3
  <2> QED  BY <1>1, <2>1, <2>2
<1> QED  BY <1>1, <1>2, <1>3, <1>4, <1>5, <1>6

\* list.remove() takes the element out and leaves the order of the others.
LEMMA RemoveFirstFacts ==
  ASSUME NEW S, NEW s \in Seq(S), NEW e, IsInjective(s)
  PROVE  /\ RemoveFirst(s, e) \in Seq(S) /\ IsInjective(RemoveFirst(s, e))
         /\ ToSet(RemoveFirst(s, e)) = ToSet(s) \ {e}
         /\ \A i, j \in 1..Len(RemoveFirst(s, e)) : i <= j =>
              \E k, l \in 1..Len(s) : k <= l /\ RemoveFirst(s, e)[i] = s[k] /\ RemoveFirst(s, e)[j] = s[l]
<1>0. Len(s) \in Nat
  OBVIOUS
<1>1. CASE \A i \in 1..Len(s) : s[i] # e
  <2>1. RemoveFirst(s, e) = s
    BY <1>1 DEF RemoveFirst
  <2>2. e \notin ToSet(s)
    BY <1>1, ToSetFacts
  <2> QED  BY <2>1, <2>2
<1>2. CASE \E i \in 1..Len(s) : s[i] = e
  <2> DEFINE I == {i \in 1..Len(s) : s[i] = e}
  <2>1. SelectInSeq(s, LAMBDA v : v = e) = Min(I)
    BY <1>2 DEF SelectInSeq
  <2>2. Min(I) \in I
    <3>1. I \in SUBSET Nat /\ I # {}
      BY <1>0, <1>2
    <3> HIDE DEF I
    <3>2. \E x \in I : \A y \in I : x <= y
      BY <3>1, LeastIndex
    <3> QED  BY <3>2 DEF Min
  <2>3. PICK k \in 1..Len(s) : s[k] = e /\ RemoveFirst(s, e) = RemoveAt(s, k)
    BY <1>2, <2>1, <2>2 DEF RemoveFirst
  <2> DEFINE r == RemoveAt(s, k)
  <2>4. /\ r \in Seq(S) /\ Len(r) = Len(s) - 1
        /\ \A i \in 1..(Len(s) - 1) : r[i] = s[IF i < k THEN i ELSE i + 1]
    BY RemoveAtFacts
  <2> HIDE DEF r
  <2>5. \A i, j \in 1..Len(s) : s[i] = s[j] => i = j
    BY ToSetFacts
  <2>6. IsInjective(r)
    <3>1. ASSUME NEW i \in 1..Len(r), NEW j \in 1..Len(r), r[i] = r[j]
          PROVE  i = j
      <4> DEFINE u == IF i < k THEN i ELSE i + 1
                 v == IF j < k THEN j ELSE j + 1
      <4>1. u \in 1..Len(s) /\ v \in 1..Len(s) /\ r[i] = s[u] /\ r[j] = s[v]
        BY <1>0, <2>4
      <4>2. u = v
        <5> HIDE DEF u, v
        <5> QED  BY <2>5, <3>1, <4>1
      <4> QED  BY <1>0, <2>4, <4>2
    <3> QED  BY <2>4, <3>1, ToSetFacts
  <2>7. ToSet(r) = ToSet(s) \ {e}
    <3>1. ASSUME NEW x \in ToSet(r)
          PROVE  x \in ToSet(s) \ {e}
      <4>1. PICK i \in 1..Len(r) : r[i] = x
        BY <2>4, ToSetFacts
      <4>2. PICK u \in 1..Len(s) : u # k /\ r[i] = s[u]
        BY <1>0, <2>4
      <4>3. x # e /\ x \in ToSet(s)
        BY <2>3, <2>5, <4>1, <4>2, ToSetFacts
      <4> QED  BY <4>3
    <3>2. ASSUME NEW x \in ToSet(s) \ {e}
          PROVE  x \in ToSet(r)
      <4>1. PICK u \in 1..Len(s) : s[u] = x
        BY ToSetFacts
      <4>2. u # k
        BY <2>3, <4>1
      <4>3. PICK i \in 1..Len(r) : r[i] = s[u]
        <5>1. CASE u < k
          <6>1. u \in 1..Len(r) /\ r[u] = s[u]
            BY <1>0, <2>4, <5>1
          <6> QED  BY <6>1
        <5>2. CASE u > k
          <6>1. u - 1 \in 1..Len(r) /\ ~(u - 1 < k) /\ (u - 1) + 1 = u
            BY <1>0, <2>4, <5>2
          <6>2. r[u - 1] = s[u]
            BY <2>4, <6>1
          <6> QED  BY <6>1, <6>2
        <5> QED  BY <1>0, <4>2, <5>1, <5>2
      <4> QED  BY <2>4, <4>1, <4>3, ToSetFacts
    <3> QED  BY <3>1, <3>2
  <2>8. ASSUME NEW i \in 1..Len(r), NEW j \in 1..Len(r), i <= j
        PROVE  \E u, v \in 1..Len(s) : u <= v /\ r[i] = s[u] /\ r[j] = s[v]
    <3> DEFINE u == IF i < k THEN i ELSE i + 1
               v == IF j < k THEN j ELSE j + 1
    <3>1. u \in 1..Len(s) /\ v \in 1..Len(s) /\ u <= v /\ r[i] = s[u] /\ r[j] = s[v]
      BY <1>0, <2>4, <2>8
    <3> QED  BY <3>1
  <2> QED  BY <2>3, <2>4, <2>6, <2>7, <2>8 DEF r
<1> QED  BY <1>1, <1>2

\* A new element goes to the end.
LEMMA AppendFacts ==
  ASSUME NEW S, NEW s \in Seq(S), NEW e \in S
  PROVE  /\ Append(s, e) \in Seq(S) /\ Len(Append(s, e)) = Len(s) + 1
         /\ ToSet(Append(s, e)) = ToSet(s) \cup {e}
         /\ IsInjective(s) /\ e \notin ToSet(s) => IsInjective(Append(s, e))
         /\ \A i \in 1..Len(s) : Append(s, e)[i] = s[i]
         /\ Append(s, e)[Len(s) + 1] = e
<1> DEFINE r == Append(s, e)
<1>0. Len(s) \in Nat
  OBVIOUS
<1>1. /\ r \in Seq(S) /\ Len(r) = Len(s) + 1
      /\ \A i \in 1..Len(s) : r[i] = s[i]
      /\ r[Len(s) + 1] = e
  BY AppendProperties
<1> HIDE DEF r
<1>2. \A i \in 1..Len(r) : i \in 1..Len(s) \/ i = Len(s) + 1
  BY <1>0, <1>1
<1>3. \A i : i \in 1..Len(s) \/ i = Len(s) + 1 => i \in 1..Len(r)
  BY <1>0, <1>1
<1>4. \A x : x \in ToSet(r) <=> x \in ToSet(s) \/ x = e
  <2>1. \A x : x \in ToSet(r) <=> \E i \in 1..Len(r) : r[i] = x
    BY <1>1, ToSetFacts
  <2>2. \A x : x \in ToSet(s) <=> \E i \in 1..Len(s) : s[i] = x
    BY ToSetFacts
  <2> QED  BY <1>1, <1>2, <1>3, <2>1, <2>2
<1>5. ASSUME IsInjective(s), e \notin ToSet(s)
      PROVE  IsInjective(r)
  <2>1. \A i, j \in 1..Len(s) : s[i] = s[j] => i = j
    BY <1>5, ToSetFacts
  <2>2. \A i \in 1..Len(s) : s[i] # e
    BY <1>5, ToSetFacts
  <2>3. \A i, j \in 1..Len(r) : r[i] = r[j] => i = j
    BY <1>1, <1>2, <2>1, <2>2
  <2> QED  BY <1>1, <2>3, ToSetFacts
<1> QED  BY <1>1, <1>4, <1>5 DEF r

\* The other way round.
LEMMA ReverseFacts ==
  ASSUME NEW S, NEW s \in Seq(S)
  PROVE  /\ Reverse(s) \in Seq(S) /\ Len(Reverse(s)) = Len(s)
         /\ \A i \in 1..Len(s) : Reverse(s)[i] = s[Len(s) - i + 1]
         /\ ToSet(Reverse(s)) = ToSet(s)
<1> DEFINE r == Reverse(s)
<1>0. Len(s) \in Nat
  OBVIOUS
<1>1. r = [i \in 1..Len(s) |-> s[(Len(s) - i) + 1]]
  BY DEF Reverse
<1>2. \A i \in 1..Len(s) : (Len(s) - i) + 1 \in 1..Len(s) /\ s[(Len(s) - i) + 1] \in S
  BY <1>0
<1> HIDE DEF r
<1>3. r \in Seq(S) /\ Len(r) = Len(s) /\ \A i \in 1..Len(s) : r[i] = s[Len(s) - i + 1]
  BY <1>0, <1>1, <1>2
<1>4. \A x : x \in ToSet(r) <=> x \in ToSet(s)
  <2>1. \A x : x \in ToSet(r) <=> \E i \in 1..Len(s) : r[i] = x
    BY <1>3, ToSetFacts
  <2>2. \A x : x \in ToSet(s) <=> \E i \in 1..Len(s) : s[i] = x
    BY ToSetFacts
  <2>3. ASSUME NEW i \in 1..Len(s)
        PROVE  r[Len(s) - i + 1] = s[i] /\ Len(s) - i + 1 \in 1..Len(s)
    <3>1. Len(s) - i + 1 \in 1..Len(s) /\ Len(s) - (Len(s) - i + 1) + 1 = i
      BY <1>0
    <3>2. r[Len(s) - i + 1] = s[Len(s) - (Len(s) - i + 1) + 1]
      BY <1>3, <3>1
    <3> QED  BY <3>1, <3>2
  <2> QED  BY <1>2, <1>3, <2>1, <2>2, <2>3
<1> QED  BY <1>3, <1>4 DEF r

\* What follows the first element.
LEMMA TailFacts ==
  ASSUME NEW S, NEW s \in Seq(S), s # <<>>
  PROVE  /\ Head(s) = s[1] /\ 1 \in 1..Len(s) /\ Head(s) \in S
         /\ Tail(s) \in Seq(S) /\ Len(Tail(s)) = Len(s) - 1
         /\ \A i \in 1..(Len(s) - 1) : Tail(s)[i] = s[i + 1] /\ i + 1 \in 1..Len(s)
         /\ \A x \in ToSet(s) : x = Head(s) \/ x \in ToSet(Tail(s))
<1>0. Len(s) \in Nat /\ Len(s) # 0
  OBVIOUS
<1>1. /\ Head(s) = s[1] /\ 1 \in 1..Len(s) /\ Head(s) \in S
      /\ Tail(s) \in Seq(S) /\ Len(Tail(s)) = Len(s) - 1
      /\ \A i \in 1..(Len(s) - 1) : Tail(s)[i] = s[i + 1] /\ i + 1 \in 1..Len(s)
  BY <1>0, HeadTailProperties
<1>2. ASSUME NEW x \in ToSet(s), x # Head(s)
      PROVE  x \in ToSet(Tail(s))
  <2>1. PICK i \in 1..Len(s) : s[i] = x
    BY ToSetFacts
  <2>2. i - 1 \in 1..(Len(s) - 1) /\ (i - 1) + 1 = i
    BY <1>0, <1>1, <1>2, <2>1
  <2>3. Tail(s)[i - 1] = x
    BY <1>1, <2>1, <2>2
  <2> DEFINE t == Tail(s)
  <2>4. t \in Seq(S) /\ \E j \in 1..Len(t) : t[j] = x
    BY <1>1, <2>2, <2>3
  <2> HIDE DEF t
  <2>5. x \in ToSet(t)
    BY ONLY <2>4, ToSetFacts
  <2> QED  BY <2>5 DEF t
<1> QED  BY <1>1, <1>2
-----------------------------------------------------------------------------
(***************************************************************************)
(* The tree                                                                *)
(***************************************************************************)

\* A set that has the parents of its members and the parent of n has all nodes
\* above n.
LEMMA AboveIn ==
  ASSUME NEW S \in Upwards, NEW n \in Nodes, n # Root => Parent[n] \in S
  PROVE  Above[n] \subseteq S
BY DEF Above

\* _subscribe() is called for a node that has no Subscription yet, so it is not
\* above itself, nor above one that has a Subscription.
LEMMA CalledIsBelow ==
  ASSUME TypeOK, Phases, Announces, NEW n \in Nodes, handler[n] = "called"
  PROVE  /\ sub[n] = "none" /\ n \notin Above[n]
         /\ \A m \in Nodes : sub[m] # "none" => n \notin Above[m]
<1> DEFINE S == {m \in Nodes : sub[m] # "none"}
<1>0. sub \in [Nodes -> Subs] /\ handler \in [Nodes -> Handlers]
  BY DEF TypeOK
<1>1. sub[n] = "none"
  <2>1. sub[n] \in Subs
    BY <1>0
  <2> QED  BY <2>1 DEF Phases, Subs, Abandoned
<1>2. \A m \in Nodes : sub[m] # "none" => handler[m] # "none"
  <2>1. \A m \in Nodes : sub[m] \in Subs
    BY <1>0
  <2> QED  BY <2>1 DEF Phases, Subs, Abandoned
<1>3. \A m \in Nodes \ {Root} : Parent[m] \in Nodes
  BY TreeAssumption
<1>4. \A m \in S \ {Root} : Parent[m] \in S
  BY <1>2, <1>3 DEF Announces
<1>5. S \in Upwards
  BY <1>4 DEF Upwards
<1>6. n # Root => Parent[n] \in S
  BY <1>3 DEF Announces
<1>7. n \notin S
  BY <1>1
<1> HIDE DEF S
<1>8. Above[n] \subseteq S
  BY <1>5, <1>6, AboveIn
<1>9. \A m \in S : m \in Nodes /\ (m # Root => Parent[m] \in S)
  BY <1>4 DEF S
<1>10. \A m \in S : Above[m] \subseteq S
  BY <1>5, <1>9, AboveIn
<1> QED  BY <1>1, <1>7, <1>8, <1>10 DEF S

\* Registering a node keeps the list in order.
LEMMA RegisteredLast ==
  ASSUME TypeOK, Phases, Announces, Listed, NEW n \in Nodes, handler[n] = "called",
         subscriptions' = subscriptions \cup {n}, ordered' = Append(ordered, n),
         sub' = [sub EXCEPT ![n] = "attached"]
  PROVE  ordered' \in Seq(Nodes) /\ Listed'
<1> DEFINE r == Append(ordered, n)
<1>0. ordered \in Seq(Nodes) /\ Len(ordered) \in Nat
  BY DEF TypeOK
<1>1. sub[n] = "none" /\ n \notin Above[n] /\ \A m \in Nodes : sub[m] # "none" => n \notin Above[m]
  BY CalledIsBelow
<1>2. n \notin ToSet(ordered)
  BY <1>1 DEF Listed
<1>3. /\ r \in Seq(Nodes) /\ Len(r) = Len(ordered) + 1
      /\ ToSet(r) = ToSet(ordered) \cup {n}
      /\ IsInjective(r)
      /\ \A i \in 1..Len(ordered) : r[i] = ordered[i]
      /\ r[Len(ordered) + 1] = n
  BY <1>0, <1>2, AppendFacts DEF Listed
<1> HIDE DEF r
<1>4. \A i \in 1..Len(ordered) : ordered[i] \in Nodes /\ sub[ordered[i]] # "none"
  <2>1. \A i \in 1..Len(ordered) : ordered[i] \in ToSet(ordered)
    BY <1>0, ToSetFacts
  <2>2. \A x \in ToSet(ordered) : x \in Nodes /\ sub[x] # "none"
    BY DEF Listed, TypeOK
  <2> QED  BY <2>1, <2>2
<1>5. ASSUME NEW i \in 1..Len(r), NEW j \in 1..Len(r), i <= j
      PROVE  r[j] \notin Above[r[i]]
  <2>1. CASE j \in 1..Len(ordered)
    <3>1. i \in 1..Len(ordered)
      BY <1>0, <1>3, <1>5, <2>1
    <3> QED  BY <1>3, <1>5, <2>1, <3>1 DEF Listed
  <2>2. CASE j = Len(ordered) + 1 /\ i \in 1..Len(ordered)
    BY <1>1, <1>3, <1>4, <2>2
  <2>3. CASE j = Len(ordered) + 1 /\ i = Len(ordered) + 1
    BY <1>1, <1>3, <2>3
  <2> QED  BY <1>0, <1>3, <1>5, <2>1, <2>2, <2>3
<1>6. \A m \in subscriptions \cup {n} : sub'[m] # "none"
  BY DEF Listed, TypeOK
<1>7. ordered' = r
  BY DEF r
<1> QED  BY <1>3, <1>5, <1>6, <1>7 DEF Listed

\* Removing one, too.
LEMMA Forgotten ==
  ASSUME TypeOK, Listed, NEW n \in Nodes, Forget(n),
         \A m \in Nodes : sub[m] # "none" => sub'[m] # "none"
  PROVE  /\ subscriptions' \subseteq Nodes /\ ordered' \in Seq(Nodes) /\ Listed'
<1> DEFINE r == RemoveFirst(ordered, n)
<1>0. ordered \in Seq(Nodes) /\ Len(ordered) \in Nat
  BY DEF TypeOK
<1>1. /\ r \in Seq(Nodes) /\ IsInjective(r) /\ ToSet(r) = ToSet(ordered) \ {n}
      /\ \A i, j \in 1..Len(r) : i <= j =>
           \E k, l \in 1..Len(ordered) : k <= l /\ r[i] = ordered[k] /\ r[j] = ordered[l]
  BY <1>0, RemoveFirstFacts DEF Listed
<1> HIDE DEF r
<1>2. \A i, j \in 1..Len(r) : i <= j => r[j] \notin Above[r[i]]
  <2>1. ASSUME NEW i \in 1..Len(r), NEW j \in 1..Len(r), i <= j
        PROVE  r[j] \notin Above[r[i]]
    <3>1. PICK k, l \in 1..Len(ordered) : k <= l /\ r[i] = ordered[k] /\ r[j] = ordered[l]
      BY <1>1, <2>1
    <3>2. ordered[l] \notin Above[ordered[k]]
      BY <3>1 DEF Listed
    <3> QED  BY <3>1, <3>2
  <2> QED  BY <2>1
<1>3. subscriptions' = subscriptions \ {n} /\ ordered' = r
  BY DEF Forget, r
<1>4. \A m \in subscriptions : m \in Nodes /\ sub'[m] # "none"
  BY DEF Listed, TypeOK
<1>5. subscriptions \subseteq Nodes
  BY DEF TypeOK
<1> QED  BY <1>1, <1>2, <1>3, <1>4, <1>5 DEF Listed

\* A Subscription keeps its place while it stays one.
LEMMA OrderKept ==
  ASSUME TypeOK, Listed, UNCHANGED <<subscriptions, ordered>>,
         \A m \in Nodes : sub[m] # "none" => sub'[m] # "none"
  PROVE  Listed'
<1>1. \A m \in subscriptions : m \in Nodes
  BY DEF TypeOK
<1> QED  BY <1>1 DEF Listed

\* So does the work of those who disconnect.
LEMMA TakenKept ==
  ASSUME TypeOK, TakenOver, UNCHANGED teardown,
         \A m \in Nodes : sub[m] # "none" => sub'[m] # "none"
  PROVE  TakenOver'
<1>1. \A c \in Callers : \A i \in 1..Len(teardown[c]) : teardown[c][i] \in Nodes
  BY DEF TypeOK
<1> QED  BY <1>1 DEF TakenOver

\* A child is announced.
LEMMA AnnouncedKept ==
  ASSUME IInv, NEW n \in Nodes, Announced(n)
  PROVE  IInv'
<1>0. TypeOK /\ Phases /\ Locked /\ Announces /\ Listed /\ TakenOver /\ OneOwner /\ Owned
  BY DEF IInv
<1>1. TypeOK'
  BY <1>0, TreeAssumption DEF TypeOK, Handlers, Subs, Announced, manager, threads, users
<1>2. Phases'
  BY <1>0 DEF TypeOK, Phases, Abandoned, Handlers, Subs, Free, Locked, Announced, manager, threads, users
<1>3. Locked'
  BY <1>0, TreeAssumption DEF TypeOK, Locked, Free, Announced, manager, threads, users
<1>4. Announces'
  BY <1>0, TreeAssumption DEF TypeOK, Announces, Phases, Abandoned, Announced, manager, threads, users
<1>5. OneOwner'
  BY <1>0, CallersAssumption DEF TypeOK, OneOwner, Announced, manager, threads, users
<1>6. Owned'
  BY <1>0 DEF TypeOK, Owned, Live, Abandoned, Announced, manager, threads, users
<1>7. Listed' /\ TakenOver'
  BY <1>0 DEF Listed, TakenOver, Announced, manager, threads, users
<1> QED  BY <1>1, <1>2, <1>3, <1>4, <1>5, <1>6, <1>7 DEF IInv

\* The handler ends at once when the manager is closed or has the node.
LEMMA SubscribeSkipsKept ==
  ASSUME IInv, NEW n \in Nodes, Subscribe(n), closed \/ n \in subscriptions
  PROVE  IInv'
<1>0. TypeOK /\ Phases /\ Locked /\ Announces /\ Listed /\ TakenOver /\ OneOwner /\ Owned
  BY DEF IInv
<1>u. /\ handler[n] = "called" /\ handler' = [handler EXCEPT ![n] = "done"]
      /\ UNCHANGED <<lock, closed, subscriptions, ordered, update, closing, sub>>
      /\ UNCHANGED <<caller, teardown, owner, failed, updates, faults>>
  BY DEF Subscribe, manager, users
<1>1. TypeOK'
  BY <1>0, <1>u DEF TypeOK, Handlers
<1>2. Phases'
  BY <1>0, <1>u DEF TypeOK, Phases, Abandoned
<1>3. Locked'
  BY <1>0, <1>u DEF TypeOK, Locked
<1>4. Announces'
  BY <1>0, <1>u, TreeAssumption DEF TypeOK, Announces
<1>5. OneOwner'
  BY <1>0, <1>u DEF TypeOK, OneOwner
<1>6. Owned'
  BY <1>0, <1>u DEF TypeOK, Owned, Live, Abandoned
<1>7. Listed' /\ TakenOver'
  BY <1>0, <1>u DEF Listed, TakenOver
<1> QED  BY <1>1, <1>2, <1>3, <1>4, <1>5, <1>6, <1>7 DEF IInv

\* Otherwise it registers the Subscription, and holds the lock to start it.
LEMMA SubscribeKept ==
  ASSUME IInv, NEW n \in Nodes, Subscribe(n), ~closed, n \notin subscriptions
  PROVE  IInv'
<1>0. TypeOK /\ Phases /\ Locked /\ Announces /\ Listed /\ TakenOver /\ OneOwner /\ Owned
  BY DEF IInv
<1>u. /\ handler[n] = "called" /\ lock = None /\ lock' = n
      /\ handler' = [handler EXCEPT ![n] = "starting"] /\ sub' = [sub EXCEPT ![n] = "attached"]
      /\ subscriptions' = subscriptions \cup {n} /\ ordered' = Append(ordered, n)
      /\ UNCHANGED <<closed, update, closing, caller, teardown, owner, failed, updates, faults>>
  BY DEF Subscribe, Free, users
<1>n. sub[n] = "none"
  BY <1>0, <1>u, CalledIsBelow
<1>o. ordered' \in Seq(Nodes) /\ Listed'
  BY <1>0, <1>u, RegisteredLast
<1>s. \A m \in Nodes : sub[m] # "none" => sub'[m] # "none"
  BY <1>0, <1>u DEF TypeOK
<1>1. TypeOK'
  BY <1>0, <1>u, <1>o DEF TypeOK, Handlers, Subs
<1>2. Phases'
  <2>1. ASSUME NEW m \in Nodes, m # n
        PROVE  sub'[m] = sub[m] /\ handler'[m] = handler[m] /\ (m \in subscriptions' <=> m \in subscriptions)
    BY <1>0, <1>u, <2>1 DEF TypeOK
  <2>2. sub'[n] = "attached" /\ handler'[n] = "starting" /\ n \in subscriptions' /\ ~closed'
    BY <1>0, <1>u DEF TypeOK
  <2>3. closing'[n] = "none" /\ (n \in Data => update'[n] = "idle")
    BY <1>0, <1>u, <1>n DEF TypeOK, Phases
  <2> QED  BY <1>0, <1>u, <2>1, <2>2, <2>3 DEF Phases, Abandoned
<1>3. Locked'
  BY <1>0, <1>u, TreeAssumption DEF TypeOK, Locked
<1>4. Announces'
  BY <1>0, <1>u, <1>n, TreeAssumption DEF TypeOK, Announces
<1>5. Listed'
  BY <1>o
<1>6. TakenOver'
  BY <1>0, <1>u, <1>s, TakenKept
<1>7. OneOwner'
  BY <1>0, <1>u, CallersAssumption DEF TypeOK, OneOwner
<1>8. Owned'
  BY <1>0, <1>u DEF TypeOK, Owned, Live, Abandoned
<1> QED  BY <1>1, <1>2, <1>3, <1>4, <1>5, <1>6, <1>7, <1>8 DEF IInv

\* The request for a Subscription failed.
LEMMA SubscribeFailsKept ==
  ASSUME IInv, NEW n \in Nodes, SubscribeFails(n)
  PROVE  IInv'
<1>0. TypeOK /\ Phases /\ Locked /\ Announces /\ Listed /\ TakenOver /\ OneOwner /\ Owned
  BY DEF IInv
<1>1. TypeOK'
  BY <1>0, TreeAssumption DEF TypeOK, Handlers, Subs, SubscribeFails, manager, threads, users, Fault
<1>2. Phases'
  BY <1>0 DEF TypeOK, Phases, Abandoned, Handlers, Subs, Free, Locked, SubscribeFails, manager, threads, users
<1>3. Locked'
  BY <1>0, TreeAssumption DEF TypeOK, Locked, Free, SubscribeFails, manager, threads, users
<1>4. Announces'
  BY <1>0, TreeAssumption DEF TypeOK, Announces, Phases, Abandoned, SubscribeFails, manager, threads, users
<1>5. OneOwner'
  BY <1>0, CallersAssumption DEF TypeOK, OneOwner, SubscribeFails, manager, threads, users
<1>6. Owned'
  BY <1>0 DEF TypeOK, Owned, Live, Abandoned, SubscribeFails, manager, threads, users
<1>7. Listed' /\ TakenOver'
  BY <1>0 DEF Listed, TakenOver, SubscribeFails, manager, threads, users
<1> QED  BY <1>1, <1>2, <1>3, <1>4, <1>5, <1>6, <1>7 DEF IInv

\* The Subscription runs and its handler has ended; the manager is open until then.
LEMMA StartKept ==
  ASSUME IInv, NEW n \in Nodes, Start(n)
  PROVE  IInv'
<1>0. TypeOK /\ Phases /\ Locked /\ Announces /\ Listed /\ TakenOver /\ OneOwner /\ Owned
  BY DEF IInv
<1>s. \A m \in Nodes : sub[m] # "none" => sub'[m] # "none"
  BY <1>0 DEF TypeOK, Start
<1>1. TypeOK'
  BY <1>0, TreeAssumption DEF TypeOK, Handlers, Subs, Start, manager, threads, users
<1>2. Phases'
  BY <1>0 DEF TypeOK, Phases, Abandoned, Handlers, Subs, Free, Locked, Start, manager, threads, users
<1>3. Locked'
  BY <1>0, TreeAssumption DEF TypeOK, Locked, Free, Start, manager, threads, users
<1>4. Announces'
  BY <1>0, TreeAssumption DEF TypeOK, Announces, Phases, Abandoned, Start, manager, threads, users
<1>5. Listed'
  BY <1>0, <1>s, OrderKept DEF Start, manager, threads, users
<1>6. TakenOver'
  BY <1>0, <1>s, TakenKept DEF Start, manager, threads, users
<1>7. OneOwner'
  <2>1. ~closed
    BY <1>0 DEF Phases, Start
  <2> QED  BY <1>0, <2>1, CallersAssumption DEF TypeOK, OneOwner, Start, manager, threads, users
<1>8. Owned'
  <2>1. n \in subscriptions
    BY <1>0 DEF Phases, Start
  <2> QED  BY <1>0, <2>1 DEF TypeOK, Owned, Live, Abandoned, Start, manager, threads, users
<1> QED  BY <1>1, <1>2, <1>3, <1>4, <1>5, <1>6, <1>7, <1>8 DEF IInv

\* The start failed: the handler will disconnect the Subscription.
LEMMA StartFailsKept ==
  ASSUME IInv, NEW n \in Nodes, StartFails(n)
  PROVE  IInv'
<1>0. TypeOK /\ Phases /\ Locked /\ Announces /\ Listed /\ TakenOver /\ OneOwner /\ Owned
  BY DEF IInv
<1>1. TypeOK'
  BY <1>0, TreeAssumption DEF TypeOK, Handlers, Subs, StartFails, manager, threads, users, Fault
<1>2. Phases'
  BY <1>0 DEF TypeOK, Phases, Abandoned, Handlers, Subs, Free, Locked, StartFails, manager, threads, users
<1>3. Locked'
  BY <1>0, TreeAssumption DEF TypeOK, Locked, Free, StartFails, manager, threads, users
<1>4. Announces'
  BY <1>0, TreeAssumption DEF TypeOK, Announces, Phases, Abandoned, StartFails, manager, threads, users
<1>5. OneOwner'
  BY <1>0, CallersAssumption DEF TypeOK, OneOwner, StartFails, manager, threads, users
<1>6. Owned'
  BY <1>0 DEF TypeOK, Owned, Live, Abandoned, StartFails, manager, threads, users
<1>7. Listed' /\ TakenOver'
  BY <1>0 DEF Listed, TakenOver, StartFails, manager, threads, users
<1> QED  BY <1>1, <1>2, <1>3, <1>4, <1>5, <1>6, <1>7 DEF IInv

\* And does so.
LEMMA CleanupDisconnectKept ==
  ASSUME IInv, NEW n \in Nodes, CleanupDisconnect(n)
  PROVE  IInv'
<1>0. TypeOK /\ Phases /\ Locked /\ Announces /\ Listed /\ TakenOver /\ OneOwner /\ Owned
  BY DEF IInv
<1>s. \A m \in Nodes : sub[m] # "none" => sub'[m] # "none"
  BY <1>0 DEF TypeOK, CleanupDisconnect
<1>1. TypeOK'
  BY <1>0, TreeAssumption DEF TypeOK, Handlers, Subs, CleanupDisconnect, manager, threads, users
<1>2. Phases'
  BY <1>0 DEF TypeOK, Phases, Abandoned, Handlers, Subs, Free, Locked, CleanupDisconnect, manager, threads, users
<1>3. Locked'
  BY <1>0, TreeAssumption DEF TypeOK, Locked, Free, CleanupDisconnect, manager, threads, users
<1>4. Announces'
  BY <1>0, TreeAssumption DEF TypeOK, Announces, Phases, Abandoned, CleanupDisconnect, manager, threads, users
<1>5. Listed'
  BY <1>0, <1>s, OrderKept DEF CleanupDisconnect, manager, threads, users
<1>6. TakenOver'
  BY <1>0, <1>s, TakenKept DEF CleanupDisconnect, manager, threads, users
<1>7. OneOwner'
  BY <1>0, CallersAssumption DEF TypeOK, OneOwner, CleanupDisconnect, manager, threads, users
<1>8. Owned'
  BY <1>0 DEF TypeOK, Owned, Live, Abandoned, CleanupDisconnect, manager, threads, users
<1> QED  BY <1>1, <1>2, <1>3, <1>4, <1>5, <1>6, <1>7, <1>8 DEF IInv

\* Or could not.
LEMMA CleanupDisconnectFailsKept ==
  ASSUME IInv, NEW n \in Nodes, CleanupDisconnectFails(n)
  PROVE  IInv'
<1>0. TypeOK /\ Phases /\ Locked /\ Announces /\ Listed /\ TakenOver /\ OneOwner /\ Owned
  BY DEF IInv
<1>s. \A m \in Nodes : sub[m] # "none" => sub'[m] # "none"
  BY <1>0 DEF TypeOK, CleanupDisconnectFails
<1>1. TypeOK'
  BY <1>0, TreeAssumption DEF TypeOK, Handlers, Subs, CleanupDisconnectFails, manager, threads, users, Fault
<1>2. Phases'
  BY <1>0 DEF TypeOK, Phases, Abandoned, Handlers, Subs, Free, Locked, CleanupDisconnectFails, manager, threads, users, Fault
<1>3. Locked'
  BY <1>0, TreeAssumption DEF TypeOK, Locked, Free, CleanupDisconnectFails, manager, threads, users, Fault
<1>4. Announces'
  BY <1>0, TreeAssumption DEF TypeOK, Announces, Phases, Abandoned, CleanupDisconnectFails, manager, threads, users, Fault
<1>5. Listed'
  BY <1>0, <1>s, OrderKept DEF CleanupDisconnectFails, manager, threads, users, Fault
<1>6. TakenOver'
  BY <1>0, <1>s, TakenKept DEF CleanupDisconnectFails, manager, threads, users, Fault
<1>7. OneOwner'
  BY <1>0, CallersAssumption DEF TypeOK, OneOwner, CleanupDisconnectFails, manager, threads, users, Fault
<1>8. Owned'
  BY <1>0 DEF TypeOK, Owned, Live, Abandoned, CleanupDisconnectFails, manager, threads, users, Fault
<1> QED  BY <1>1, <1>2, <1>3, <1>4, <1>5, <1>6, <1>7, <1>8 DEF IInv

\* The producer closes a node, whose callbacks have ended.
LEMMA ProducerClosesKept ==
  ASSUME IInv, NEW n \in Nodes, ProducerCloses(n)
  PROVE  IInv'
<1>0. TypeOK /\ Phases /\ Locked /\ Announces /\ Listed /\ TakenOver /\ OneOwner /\ Owned
  BY DEF IInv
<1>s. \A m \in Nodes : sub[m] # "none" => sub'[m] # "none"
  BY <1>0 DEF TypeOK, ProducerCloses
<1>1. TypeOK'
  BY <1>0, TreeAssumption DEF TypeOK, Handlers, Subs, ProducerCloses, manager, threads, users
<1>2. Phases'
  BY <1>0 DEF TypeOK, Phases, Abandoned, Quiet, ProducerCloses, manager, threads, users
<1>3. Announces'
  <2>1. \A m \in Nodes \ {Root} : Parent[m] = n => handler[m] \in {"none", "done"}
    BY DEF ProducerCloses, Quiet, Children
  <2> QED  BY <1>0, <2>1, TreeAssumption DEF TypeOK, Announces, ProducerCloses, manager, threads, users
<1>4. Listed'
  BY <1>0, <1>s, OrderKept DEF ProducerCloses, manager, threads, users
<1>5. TakenOver'
  BY <1>0, <1>s, TakenKept DEF ProducerCloses, manager, threads, users
<1>6. OneOwner'
  BY <1>0, CallersAssumption DEF TypeOK, OneOwner, ProducerCloses, manager, threads, users
<1>7. Owned'
  BY <1>0 DEF TypeOK, Owned, Live, Abandoned, ProducerCloses, manager, threads, users
<1>8. Locked'
  BY <1>0 DEF Locked, ProducerCloses, manager, threads, users
<1> QED  BY <1>1, <1>2, <1>3, <1>4, <1>5, <1>6, <1>7, <1>8 DEF IInv

\* The handler forgets a Subscription whose start failed.
LEMMA CleanupKept ==
  ASSUME IInv, NEW n \in Nodes, Cleanup(n)
  PROVE  IInv'
<1>0. TypeOK /\ Phases /\ Locked /\ Announces /\ Listed /\ TakenOver /\ OneOwner /\ Owned
  BY DEF IInv
<1>f. subscriptions' \subseteq Nodes /\ ordered' \in Seq(Nodes) /\ Listed'
  BY <1>0, Forgotten DEF Cleanup
<1>1. TypeOK'
  BY <1>0, <1>f, TreeAssumption DEF TypeOK, Handlers, Forget, Cleanup, manager, threads, users
<1>2. Phases'
  BY <1>0 DEF TypeOK, Phases, Abandoned, Handlers, Subs, Free, Locked, Forget, Cleanup, manager, threads, users
<1>3. Locked'
  BY <1>0, TreeAssumption DEF TypeOK, Locked, Free, Cleanup, manager, threads, users
<1>4. Announces'
  BY <1>0, TreeAssumption DEF TypeOK, Announces, Phases, Abandoned, Cleanup, manager, threads, users
<1>5. Listed'
  BY <1>f
<1>6. OneOwner'
  BY <1>0, CallersAssumption DEF TypeOK, OneOwner, Forget, Cleanup, manager, threads, users
<1>7. Owned'
  BY <1>0 DEF TypeOK, Owned, Live, Abandoned, Forget, Cleanup, manager, threads, users
<1>8. TakenOver'
  BY <1>0 DEF TakenOver, Cleanup, manager, threads, users
<1> QED  BY <1>1, <1>2, <1>3, <1>4, <1>5, <1>6, <1>7, <1>8 DEF IInv

\* The manager forgets one that has closed.
LEMMA SubscriptionClosedKept ==
  ASSUME IInv, NEW n \in Nodes, SubscriptionClosed(n)
  PROVE  IInv'
<1>0. TypeOK /\ Phases /\ Locked /\ Announces /\ Listed /\ TakenOver /\ OneOwner /\ Owned
  BY DEF IInv
<1>f. subscriptions' \subseteq Nodes /\ ordered' \in Seq(Nodes) /\ Listed'
  BY <1>0, Forgotten DEF SubscriptionClosed
<1>1. TypeOK'
  BY <1>0, <1>f, TreeAssumption DEF TypeOK, Handlers, Forget, SubscriptionClosed, manager, threads, users
<1>2. Phases'
  BY <1>0 DEF TypeOK, Phases, Abandoned, Handlers, Subs, Free, Locked, Forget, SubscriptionClosed, manager, threads, users
<1>3. Listed'
  BY <1>f
<1>4. OneOwner'
  BY <1>0, CallersAssumption DEF TypeOK, OneOwner, Forget, SubscriptionClosed, manager, threads, users
<1>5. Owned'
  <2>1. n \notin Live
    BY <1>0 DEF TypeOK, Phases, Live, SubscriptionClosed
  <2> QED  BY <1>0, <2>1 DEF TypeOK, Owned, Live, Forget, SubscriptionClosed, manager, threads, users
<1>6. Locked' /\ Announces' /\ TakenOver'
  BY <1>0 DEF Locked, Announces, TakenOver, SubscriptionClosed, manager, threads, users
<1> QED  BY <1>1, <1>2, <1>3, <1>4, <1>5, <1>6 DEF IInv

\* The handler of an update begins.
LEMMA DataUpdateKept ==
  ASSUME IInv, NEW n \in Data, DataUpdate(n)
  PROVE  IInv'
<1>0. TypeOK /\ Phases /\ Locked /\ Announces /\ Listed /\ TakenOver /\ OneOwner /\ Owned
  BY DEF IInv
<1>1. TypeOK'
  BY <1>0, TreeAssumption DEF TypeOK, Handlers, Subs, DataUpdate, manager, threads, users
<1>2. Phases'
  BY <1>0 DEF TypeOK, Phases, Abandoned, Handlers, Subs, Free, Locked, DataUpdate, manager, threads, users
<1>3. Locked' /\ Announces' /\ Listed' /\ TakenOver' /\ OneOwner' /\ Owned'
  BY <1>0 DEF Locked, Announces, Listed, TakenOver, OneOwner, Owned, Live, DataUpdate, manager, threads, users
<1> QED  BY <1>1, <1>2, <1>3 DEF IInv

\* It finds the manager open or closed.
LEMMA CheckClosedKept ==
  ASSUME IInv, NEW n \in Data, CheckClosed(n)
  PROVE  IInv'
<1>0. TypeOK /\ Phases /\ Locked /\ Announces /\ Listed /\ TakenOver /\ OneOwner /\ Owned
  BY DEF IInv
<1>1. TypeOK'
  BY <1>0, TreeAssumption DEF TypeOK, Handlers, Subs, CheckClosed, manager, threads, users
<1>2. Phases'
  BY <1>0 DEF TypeOK, Phases, Abandoned, Handlers, Subs, Free, Locked, CheckClosed, manager, threads, users
<1>3. Locked' /\ Announces' /\ Listed' /\ TakenOver' /\ OneOwner' /\ Owned'
  BY <1>0 DEF Locked, Announces, Listed, TakenOver, OneOwner, Owned, Live, CheckClosed, manager, threads, users
<1> QED  BY <1>1, <1>2, <1>3 DEF IInv

\* The callback of the user ends.
LEMMA CallbackReturnsKept ==
  ASSUME IInv, NEW n \in Data, CallbackReturns(n)
  PROVE  IInv'
<1>0. TypeOK /\ Phases /\ Locked /\ Announces /\ Listed /\ TakenOver /\ OneOwner /\ Owned
  BY DEF IInv
<1>1. TypeOK'
  BY <1>0, TreeAssumption DEF TypeOK, Handlers, Subs, CallbackReturns, manager, threads, users
<1>2. Phases'
  BY <1>0 DEF TypeOK, Phases, Abandoned, Handlers, Subs, Free, Locked, CallbackReturns, manager, threads, users
<1>3. Locked' /\ Announces' /\ Listed' /\ TakenOver' /\ OneOwner' /\ Owned'
  BY <1>0 DEF Locked, Announces, Listed, TakenOver, OneOwner, Owned, Live, CallbackReturns, manager, threads, users
<1> QED  BY <1>1, <1>2, <1>3 DEF IInv

\* disconnect() returns.
LEMMA DisconnectReturnKept ==
  ASSUME IInv, NEW c \in Callers, DisconnectReturn(c)
  PROVE  IInv'
<1>0. TypeOK /\ Phases /\ Locked /\ Announces /\ Listed /\ TakenOver /\ OneOwner /\ Owned
  BY DEF IInv
<1>1. TypeOK'
  BY <1>0, TreeAssumption DEF TypeOK, Handlers, Subs, DisconnectReturn, manager, threads, users
<1>2. OneOwner'
  BY <1>0, CallersAssumption DEF TypeOK, OneOwner, DisconnectReturn, manager, threads, users
<1>3. Phases' /\ Locked' /\ Announces' /\ Listed' /\ TakenOver' /\ Owned'
  BY <1>0 DEF Phases, Locked, Announces, Listed, TakenOver, Owned, Live, DisconnectReturn, manager, threads, users
<1> QED  BY <1>1, <1>2, <1>3 DEF IInv

\* The Subscription whose turn it is takes no new events.
LEMMA TeardownNextKept ==
  ASSUME IInv, NEW c \in Callers, TeardownNext(c)
  PROVE  IInv'
<1>0. TypeOK /\ Phases /\ Locked /\ Announces /\ Listed /\ TakenOver /\ OneOwner /\ Owned
  BY DEF IInv
<1> DEFINE h == Head(teardown[c])
<1>o. c = owner /\ closed
  BY <1>0, CallersAssumption DEF TypeOK, OneOwner, TeardownNext
<1>h. h \in Nodes /\ sub[h] # "none" /\ sub' = [sub EXCEPT ![h] = IF @ \in {"attached", "running"} THEN "ending" ELSE @]
  <2>1. teardown[c] \in Seq(Nodes) /\ teardown[c] # <<>>
    BY <1>0 DEF TypeOK, TeardownNext
  <2>2. h = teardown[c][1] /\ 1 \in 1..Len(teardown[c]) /\ h \in Nodes
    BY ONLY <2>1, TailFacts
  <2> QED  BY <1>0, <2>2 DEF TakenOver, TeardownNext
<1> HIDE DEF h
<1>s. \A m \in Nodes : sub[m] # "none" => sub'[m] # "none"
  BY <1>0 DEF TypeOK, TeardownNext
<1>1. TypeOK'
  BY <1>0, <1>h DEF TypeOK, Subs, TeardownNext, manager, threads, users
<1>2. Phases'
  BY <1>0, <1>h, <1>o DEF TypeOK, Phases, Abandoned, TeardownNext, manager, threads, users
<1>3. Announces'
  BY <1>0, <1>h, TreeAssumption DEF TypeOK, Announces, TeardownNext, manager, threads, users
<1>4. Listed'
  BY <1>0, <1>s, OrderKept DEF TeardownNext, manager, threads, users
<1>5. TakenOver'
  BY <1>0, <1>s, TakenKept DEF TeardownNext, manager, threads, users
<1>6. OneOwner'
  <2>1. sub'[h] \notin {"none", "attached", "running"}
    BY <1>0, <1>h DEF TypeOK, Subs
  <2>2. h = Head(teardown[c]) /\ teardown[c] # <<>>
    BY DEF h, TeardownNext
  <2>3. /\ caller' = [caller EXCEPT ![c] = "wait"]
        /\ UNCHANGED <<closed, subscriptions, handler, teardown, owner>>
    BY DEF TeardownNext, manager, threads, users
  <2> HIDE DEF TeardownNext
  <2> QED  BY <1>0, <1>o, <2>1, <2>2, <2>3 DEF TypeOK, OneOwner
<1>7. Owned'
  BY <1>0, <1>h DEF TypeOK, Owned, Live, Abandoned, TeardownNext, manager, threads, users
<1>8. Locked'
  BY <1>0 DEF Locked, TeardownNext, manager, threads, users
<1> QED  BY <1>1, <1>2, <1>3, <1>4, <1>5, <1>6, <1>7, <1>8 DEF IInv

\* Its callbacks have ended: the Subscription is gone.
LEMMA TeardownDrainedKept ==
  ASSUME IInv, NEW c \in Callers, TeardownDrained(c)
  PROVE  IInv'
<1>0. TypeOK /\ Phases /\ Locked /\ Announces /\ Listed /\ TakenOver /\ OneOwner /\ Owned
  BY DEF IInv
<1> DEFINE h == Head(teardown[c])
           t == Tail(teardown[c])
<1>o. c = owner /\ closed
  BY <1>0, CallersAssumption DEF TypeOK, OneOwner, TeardownDrained
<1>w. teardown[c] \in Seq(Nodes) /\ teardown[c] # <<>> /\ sub[h] \notin {"none", "attached", "running"}
  BY <1>0, <1>o, CallersAssumption DEF TypeOK, OneOwner, TeardownDrained
<1>h. /\ h \in Nodes /\ t \in Seq(Nodes) /\ Len(t) = Len(teardown[c]) - 1
      /\ \A i \in 1..(Len(teardown[c]) - 1) : t[i] = teardown[c][i + 1] /\ i + 1 \in 1..Len(teardown[c])
      /\ \A x \in ToSet(teardown[c]) : x = h \/ x \in ToSet(t)
  BY ONLY <1>w, TailFacts
<1>t. teardown' = [teardown EXCEPT ![c] = t]
  BY DEF TeardownDrained
<1>u. sub' = [sub EXCEPT ![h] = IF @ = "ending" THEN "disconnected" ELSE @]
  BY DEF TeardownDrained
<1> HIDE DEF h, t
<1>s. \A m \in Nodes : sub[m] # "none" => sub'[m] # "none"
  BY <1>0 DEF TypeOK, TeardownDrained
<1>1. TypeOK'
  BY <1>0, <1>h, <1>u DEF TypeOK, Subs, TeardownDrained, manager, threads, users
<1>2. Phases'
  <2>1. h \in Data => update[h] = "idle"
    BY DEF TeardownDrained, Quiet, h
  <2> QED  BY <1>0, <1>h, <1>u, <2>1 DEF TypeOK, Phases, Abandoned, TeardownDrained, manager, threads, users
<1>3. Announces'
  <2>1. \A m \in Nodes \ {Root} : Parent[m] = h => handler[m] \in {"none", "done"}
    BY DEF TeardownDrained, Quiet, Children, h
  <2> QED  BY <1>0, <1>h, <1>u, <2>1, TreeAssumption DEF TypeOK, Announces, TeardownDrained, manager, threads, users
<1>4. Listed'
  BY <1>0, <1>s, OrderKept DEF TeardownDrained, manager, threads, users
<1>5. TakenOver'
  <2>1. ASSUME NEW b \in Callers
        PROVE  /\ \A i \in 1..Len(teardown'[b]) : sub'[teardown'[b][i]] # "none"
               /\ \A i, j \in 1..Len(teardown'[b]) : i <= j => teardown'[b][i] \notin Above[teardown'[b][j]]
    <3>1. CASE b # c
      <4>1. teardown'[b] = teardown[b] /\ \A i \in 1..Len(teardown[b]) : teardown[b][i] \in Nodes
        BY <1>0, <1>t, <3>1 DEF TypeOK
      <4> QED  BY <1>0, <1>s, <4>1 DEF TakenOver
    <3>2. CASE b = c
      <4>1. teardown'[b] = t
        BY <1>0, <1>t, <3>2 DEF TypeOK
      <4>2. \A i \in 1..Len(t) : t[i] \in Nodes /\ sub[t[i]] # "none"
        BY <1>0, <1>h DEF TakenOver
      <4>3. ASSUME NEW i \in 1..Len(t), NEW j \in 1..Len(t), i <= j
            PROVE  t[i] \notin Above[t[j]]
        <5>1. /\ i + 1 \in 1..Len(teardown[c]) /\ j + 1 \in 1..Len(teardown[c]) /\ i + 1 <= j + 1
              /\ t[i] = teardown[c][i + 1] /\ t[j] = teardown[c][j + 1]
          BY <1>h, <4>3
        <5> QED  BY <1>0, <5>1 DEF TakenOver
      <4> QED  BY <1>s, <4>1, <4>2, <4>3
    <3> QED  BY <3>1, <3>2
  <2> QED  BY <2>1 DEF TakenOver
<1>6. OneOwner'
  BY <1>0, <1>o, <1>t, CallersAssumption DEF TypeOK, OneOwner, TeardownDrained, manager, threads, users
<1>7. Owned'
  <2>1. h \notin Live' /\ \A n \in Live' : n \in Live
    BY <1>0, <1>h, <1>u, <1>w DEF TypeOK, Live, Subs
  <2>2. owner' = c /\ teardown'[c] = t
    BY <1>0, <1>o, <1>t DEF TypeOK, TeardownDrained, users
  <2> QED  BY <1>0, <1>o, <1>h, <2>1, <2>2, CallersAssumption DEF Owned, TeardownDrained, manager, threads, users
<1>8. Locked'
  BY <1>0 DEF Locked, TeardownDrained, manager, threads, users
<1> QED  BY <1>1, <1>2, <1>3, <1>4, <1>5, <1>6, <1>7, <1>8 DEF IInv

\* It could not be disconnected; the others have their turn.
LEMMA TeardownFailsKept ==
  ASSUME IInv, NEW c \in Callers, TeardownFails(c)
  PROVE  IInv'
<1>0. TypeOK /\ Phases /\ Locked /\ Announces /\ Listed /\ TakenOver /\ OneOwner /\ Owned
  BY DEF IInv
<1> DEFINE h == Head(teardown[c])
           t == Tail(teardown[c])
<1>o. c = owner /\ closed
  BY <1>0, CallersAssumption DEF TypeOK, OneOwner, TeardownFails
<1>w. teardown[c] \in Seq(Nodes) /\ teardown[c] # <<>> /\ sub[h] \notin {"none", "attached", "running"}
  BY <1>0, <1>o, CallersAssumption DEF TypeOK, OneOwner, TeardownFails
<1>h. /\ h \in Nodes /\ t \in Seq(Nodes) /\ Len(t) = Len(teardown[c]) - 1
      /\ \A i \in 1..(Len(teardown[c]) - 1) : t[i] = teardown[c][i + 1] /\ i + 1 \in 1..Len(teardown[c])
      /\ \A x \in ToSet(teardown[c]) : x = h \/ x \in ToSet(t)
  BY ONLY <1>w, TailFacts
<1>t. teardown' = [teardown EXCEPT ![c] = t]
  BY DEF TeardownFails
<1>u. failed' = failed \cup {h} /\ sub' = sub
  BY DEF TeardownFails
<1> HIDE DEF h, t
<1>1. TypeOK'
  BY <1>0, <1>h, <1>u DEF TypeOK, Fault, TeardownFails, manager, threads, users
<1>2. TakenOver'
  <2>1. ASSUME NEW b \in Callers
        PROVE  /\ \A i \in 1..Len(teardown'[b]) : sub'[teardown'[b][i]] # "none"
               /\ \A i, j \in 1..Len(teardown'[b]) : i <= j => teardown'[b][i] \notin Above[teardown'[b][j]]
    <3>1. CASE b # c
      <4>1. teardown'[b] = teardown[b] /\ \A i \in 1..Len(teardown[b]) : teardown[b][i] \in Nodes
        BY <1>0, <1>t, <3>1 DEF TypeOK
      <4> QED  BY <1>0, <1>u, <4>1 DEF TakenOver
    <3>2. CASE b = c
      <4>1. teardown'[b] = t
        BY <1>0, <1>t, <3>2 DEF TypeOK
      <4>2. \A i \in 1..Len(t) : t[i] \in Nodes /\ sub[t[i]] # "none"
        BY <1>0, <1>h DEF TakenOver
      <4>3. ASSUME NEW i \in 1..Len(t), NEW j \in 1..Len(t), i <= j
            PROVE  t[i] \notin Above[t[j]]
        <5>1. /\ i + 1 \in 1..Len(teardown[c]) /\ j + 1 \in 1..Len(teardown[c]) /\ i + 1 <= j + 1
              /\ t[i] = teardown[c][i + 1] /\ t[j] = teardown[c][j + 1]
          BY <1>h, <4>3
        <5> QED  BY <1>0, <5>1 DEF TakenOver
      <4> QED  BY <1>u, <4>1, <4>2, <4>3
    <3> QED  BY <3>1, <3>2
  <2> QED  BY <2>1 DEF TakenOver
<1>3. OneOwner'
  BY <1>0, <1>o, <1>t, CallersAssumption DEF TypeOK, OneOwner, TeardownFails, manager, threads, users
<1>4. Owned'
  <2>1. owner' = c /\ teardown'[c] = t
    BY <1>0, <1>o, <1>t DEF TypeOK, TeardownFails, users
  <2> QED  BY <1>0, <1>o, <1>h, <1>u, <2>1, CallersAssumption DEF Owned, Live, TeardownFails, manager, threads, users
<1>5. Phases' /\ Locked' /\ Announces' /\ Listed'
  BY <1>0 DEF Phases, Locked, Announces, Listed, TeardownFails, manager, threads, users
<1> QED  BY <1>1, <1>2, <1>3, <1>4, <1>5 DEF IInv

\* The first caller of disconnect() takes all Subscriptions over, last one first.
LEMMA TakesOver ==
  ASSUME IInv, NEW c \in Callers, Disconnect(c), ~closed
  PROVE  IInv'
<1>0. TypeOK /\ Phases /\ Locked /\ Announces /\ Listed /\ TakenOver /\ OneOwner /\ Owned
  BY DEF IInv
<1> DEFINE r == Reverse(ordered)
<1>u. /\ handler[Root] = "done" /\ lock = None
      /\ closed' = TRUE /\ subscriptions' = {} /\ ordered' = <<>> /\ owner' = c
      /\ teardown' = [teardown EXCEPT ![c] = r] /\ caller' = [caller EXCEPT ![c] = "teardown"]
      /\ UNCHANGED <<lock, handler, update, closing, sub, failed, updates, faults>>
  BY DEF Disconnect, Free, threads
<1>r. /\ r \in Seq(Nodes) /\ Len(r) = Len(ordered) /\ ToSet(r) = ToSet(ordered)
      /\ \A i \in 1..Len(ordered) : r[i] = ordered[Len(ordered) - i + 1]
  <2>1. ordered \in Seq(Nodes)
    BY <1>0 DEF TypeOK
  <2> QED  BY ONLY <2>1, ReverseFacts
<1> HIDE DEF r
<1>1. TypeOK'
  <2>1. <<>> \in Seq(Nodes)
    OBVIOUS
  <2> QED  BY <1>0, <1>u, <1>r, <2>1 DEF TypeOK
<1>2. Phases'
  <2>1. \A n \in Nodes : handler[n] # "starting"
    BY <1>0, <1>u, TreeAssumption DEF Locked
  <2> QED  BY <1>0, <1>u, <2>1 DEF Phases
<1>3. Locked' /\ Announces'
  BY <1>0, <1>u DEF Locked, Announces
<1>4. Listed'
  <2>1. ToSet(<<>>) = {} /\ IsInjective(<<>>)
    BY DEF ToSet, IsInjective
  <2> QED  BY <1>u, <2>1 DEF Listed
<1>5. TakenOver'
  <2>1. ASSUME NEW b \in Callers
        PROVE  /\ \A i \in 1..Len(teardown'[b]) : sub'[teardown'[b][i]] # "none"
               /\ \A i, j \in 1..Len(teardown'[b]) : i <= j => teardown'[b][i] \notin Above[teardown'[b][j]]
    <3>1. CASE b # c
      <4>1. teardown'[b] = teardown[b]
        BY <1>0, <1>u, <3>1 DEF TypeOK
      <4> QED  BY <1>0, <1>u, <4>1 DEF TakenOver
    <3>2. CASE b = c
      <4>1. teardown'[b] = r
        BY <1>0, <1>u, <3>2 DEF TypeOK
      <4>2. \A i \in 1..Len(r) : r[i] \in ToSet(r)
        BY <1>r, ToSetFacts
      <4>3. ASSUME NEW i \in 1..Len(r), NEW j \in 1..Len(r), i <= j
            PROVE  r[i] \notin Above[r[j]]
        <5> DEFINE k == Len(ordered) - i + 1
                   l == Len(ordered) - j + 1
        <5>1. Len(ordered) \in Nat
          BY <1>0 DEF TypeOK
        <5>2. k \in 1..Len(ordered) /\ l \in 1..Len(ordered) /\ l <= k
          BY <1>r, <4>3, <5>1
        <5>3. r[i] = ordered[k] /\ r[j] = ordered[l]
          BY <1>r, <4>3
        <5> HIDE DEF k, l
        <5> QED  BY <1>0, <5>2, <5>3 DEF Listed
      <4> QED  BY <1>0, <1>u, <1>r, <4>1, <4>2, <4>3 DEF Listed
    <3> QED  BY <3>1, <3>2
  <2> QED  BY <2>1 DEF TakenOver
<1>6. OneOwner'
  BY <1>0, <1>u, CallersAssumption DEF TypeOK, OneOwner
<1>7. Owned'
  <2>1. owner = None /\ subscriptions = ToSet(r) /\ owner' # None /\ teardown'[owner'] = r
    BY <1>0, <1>u, <1>r, CallersAssumption DEF TypeOK, OneOwner, Listed
  <2> QED  BY <1>0, <1>u, <2>1 DEF Owned, Live
<1> QED  BY <1>1, <1>2, <1>3, <1>4, <1>5, <1>6, <1>7 DEF IInv

\* Any other caller returns at once.
LEMMA ReturnsAtOnce ==
  ASSUME IInv, NEW c \in Callers, Disconnect(c), closed
  PROVE  IInv'
<1>0. TypeOK /\ Phases /\ Locked /\ Announces /\ Listed /\ TakenOver /\ OneOwner /\ Owned
  BY DEF IInv
<1>u. /\ caller[c] = "none" /\ caller' = [caller EXCEPT ![c] = "returned"]
      /\ UNCHANGED <<lock, closed, subscriptions, ordered, handler, update, closing, sub>>
      /\ UNCHANGED <<teardown, owner, failed, updates, faults>>
  BY DEF Disconnect, manager, threads
<1>1. TypeOK'
  BY <1>0, <1>u DEF TypeOK
<1>2. OneOwner'
  BY <1>0, <1>u, CallersAssumption DEF TypeOK, OneOwner
<1>3. (Phases /\ Locked /\ Announces /\ Listed /\ TakenOver /\ Owned)'
  BY <1>0, <1>u DEF Phases, Locked, Announces, Listed, TakenOver, Owned, Live
<1> QED  BY <1>1, <1>2, <1>3 DEF IInv
-----------------------------------------------------------------------------
(***************************************************************************)
(* The invariant, and what follows from it                                 *)
(***************************************************************************)

\* It holds when the constructor begins.
LEMMA InitIInv == Init => IInv
<1> SUFFICES ASSUME Init PROVE IInv
  OBVIOUS
<1>1. TypeOK
  <2>1. <<>> \in Seq(Nodes)
    OBVIOUS
  <2> QED  BY <2>1, TreeAssumption DEF Init, TypeOK, Handlers, Subs
<1>2. Phases /\ Locked /\ Owned
  BY TreeAssumption DEF Init, Phases, Locked, Owned, Live
<1>3. Announces
  BY DEF Init, Announces
<1>4. Listed /\ TakenOver
  <2>1. ToSet(<<>>) = {} /\ IsInjective(<<>>)
    BY DEF ToSet, IsInjective
  <2> QED  BY <2>1 DEF Init, Listed, TakenOver
<1>5. OneOwner
  BY CallersAssumption DEF Init, OneOwner
<1> QED  BY <1>1, <1>2, <1>3, <1>4, <1>5 DEF IInv

\* Every step keeps it.
LEMMA NextIInv == IInv /\ [Next]_vars => IInv'
<1> SUFFICES ASSUME IInv, [Next]_vars PROVE IInv'
  OBVIOUS
<1>1. ASSUME NEW n \in Nodes, Handle(n)
      PROVE  IInv'
  <2>1. CASE Subscribe(n)
    BY <2>1, SubscribeSkipsKept, SubscribeKept
  <2> QED  BY <1>1, <2>1, SubscribeFailsKept, StartKept, StartFailsKept, CleanupKept,
             CleanupDisconnectKept, CleanupDisconnectFailsKept DEF Handle
<1>2. ASSUME NEW n \in Nodes, Announced(n) \/ ProducerCloses(n) \/ SubscriptionClosed(n)
      PROVE  IInv'
  BY <1>2, AnnouncedKept, ProducerClosesKept, SubscriptionClosedKept
<1>3. ASSUME NEW n \in Data, DataUpdate(n) \/ Deliver(n)
      PROVE  IInv'
  BY <1>3, DataUpdateKept, CheckClosedKept, CallbackReturnsKept DEF Deliver
<1>4. ASSUME NEW c \in Callers, Disconnect(c) \/ Teardown(c)
      PROVE  IInv'
  <2>1. CASE Disconnect(c)
    BY <2>1, TakesOver, ReturnsAtOnce
  <2> QED  BY <1>4, <2>1, TeardownNextKept, TeardownDrainedKept, TeardownFailsKept,
             DisconnectReturnKept DEF Teardown
<1>5. CASE UNCHANGED vars
  <2>1. /\ UNCHANGED <<lock, closed, subscriptions, ordered, handler, update, closing, sub>>
        /\ UNCHANGED <<caller, teardown, owner, failed, updates, faults>>
    BY <1>5 DEF vars, manager, threads, users
  <2> QED  BY <2>1 DEF IInv, TypeOK, Phases, Locked, Announces, Listed, TakenOver, OneOwner, Owned, Live
<1> QED  BY <1>1, <1>2, <1>3, <1>4, <1>5 DEF Next

\* The manager, its handlers and the Subscriptions of the tree fit together in
\* every reachable state, whatever the threads of _subscribe(), of the callbacks
\* and of disconnect() do and whichever requests fail.
THEOREM Invariance == Spec => []IInv
<1>1. IInv /\ [Next]_vars => IInv'
  BY NextIInv
<1> QED  BY <1>1, InitIInv, PTL DEF Spec

\* The owner of the teardown has returned: its work is done.
LEMMA OwnerReturned ==
  ASSUME IInv, owner # None, caller[owner] = "returned"
  PROVE  closed /\ subscriptions = {} /\ ToSet(teardown[owner]) = {}
BY DEF IInv, OneOwner, ToSet

\* Once disconnect() has returned, every Subscription that could still bring
\* events is one that could not be disconnected, or is below one: none is left
\* behind by _subscribe(), which may run at the same time, or by a failure.
THEOREM NoneLeftBehindThm == Spec => []NoneLeftBehind
<1>1. IInv => NoneLeftBehind
  <2> SUFFICES ASSUME IInv PROVE NoneLeftBehind
    OBVIOUS
  <2>1. TypeOK /\ Phases /\ Announces /\ Listed /\ OneOwner /\ Owned
    BY DEF IInv
  <2>2. ASSUME owner # None, caller[owner] = "returned", NEW n \in Live
        PROVE  Excused(n)
    <3>1. closed /\ subscriptions = {} /\ ToSet(teardown[owner]) = {}
      BY <2>2, OwnerReturned
    <3>2. n \in failed \/ handler[n] \in Abandoned
      BY <2>1, <2>2, <3>1 DEF Owned
    <3>3. CASE handler[n] \in Abandoned
      <4>1. n \in Nodes \ {Root}
        BY <2>1, <3>1, <3>3 DEF OneOwner, Live, Abandoned
      <4>2. Parent[n] \in Nodes /\ sub[Parent[n]] \in {"running", "ending"} /\ handler[Parent[n]] = "done"
        BY <2>1, <3>3, <4>1, TreeAssumption DEF Announces, Abandoned
      <4>3. Parent[n] \in failed
        BY <2>1, <2>2, <3>1, <4>2 DEF Owned, Live, Abandoned
      <4> QED  BY <4>1, <4>3 DEF Excused
    <3> QED  BY <3>2, <3>3 DEF Excused
  <2> QED  BY <2>1, <2>2 DEF NoneLeftBehind, Listed
<1> QED  BY <1>1, Invariance, PTL

\* From then on no callback of the user runs, but those of a Subscription that
\* could not be disconnected.
THEOREM SilentAfterDisconnectThm == Spec => []SilentAfterDisconnect
<1>1. IInv => SilentAfterDisconnect
  <2> SUFFICES ASSUME IInv, owner # None, caller[owner] = "returned",
                      NEW n \in Data, update[n] = "callback"
               PROVE  Excused(n)
    BY DEF SilentAfterDisconnect
  <2>1. n \in Nodes /\ n \in Live /\ handler[n] = "done"
    BY TreeAssumption DEF IInv, Phases, Live
  <2>2. n \in failed
    BY <2>1, OwnerReturned DEF IInv, Owned, Abandoned
  <2> QED  BY <2>2 DEF Excused
<1> QED  BY <1>1, Invariance, PTL

\* disconnect() ends a Subscription only when those of the nodes below it have
\* ended, could not be disconnected, or are ended by the handler that started
\* them.
THEOREM LeavesFirstThm == Spec => LeavesFirst
<1> DEFINE First == \A n \in Nodes : (sub[n] # "ending" /\ sub'[n] = "ending") =>
                      \A m \in Live : n \in Above[m] =>
                        m \in failed \/ handler[m] \in {"cleanup", "disconnect"}
<1>1. ASSUME IInv, NEW n \in Nodes, sub[n] # "ending", sub'[n] = "ending",
             NEW c \in Callers, TeardownNext(c), NEW m \in Live, n \in Above[m]
      PROVE  m \in failed \/ handler[m] \in {"cleanup", "disconnect"}
  <2>1. TypeOK /\ TakenOver /\ OneOwner /\ Owned
    BY <1>1 DEF IInv
  <2>2. c = owner /\ owner # None /\ closed /\ subscriptions = {}
    BY <1>1, <2>1, CallersAssumption DEF TypeOK, OneOwner, TeardownNext
  <2>3. n = Head(teardown[c]) /\ teardown[c] \in Seq(Nodes) /\ teardown[c] # <<>>
    BY <1>1, <2>1 DEF TypeOK, TeardownNext
  <2>4. n = teardown[c][1] /\ 1 \in 1..Len(teardown[c]) /\ \A i \in 1..Len(teardown[c]) : 1 <= i
    BY ONLY <2>3, TailFacts
  <2>5. m \notin ToSet(teardown[c])
    <3>1. \A i \in 1..Len(teardown[c]) : n \notin Above[teardown[c][i]]
      BY <2>1, <2>4 DEF TakenOver
    <3> QED  BY <1>1, <2>3, <3>1, ToSetFacts
  <2> QED  BY <2>1, <2>2, <2>5 DEF Owned, Abandoned
<1>2. ASSUME IInv, [Next]_vars, NEW n \in Nodes, sub[n] # "ending", sub'[n] = "ending"
      PROVE  \E c \in Callers : TeardownNext(c)
  <2>1. sub \in [Nodes -> Subs]
    BY <1>2 DEF IInv, TypeOK
  <2>2. ASSUME NEW k \in Nodes, Announced(k) \/ Handle(k) \/ ProducerCloses(k) \/ SubscriptionClosed(k)
        PROVE  FALSE
    BY <1>2, <2>1, <2>2 DEF Announced, Handle, Subscribe, SubscribeFails, Start, StartFails, Cleanup,
       CleanupDisconnect, CleanupDisconnectFails, ProducerCloses, SubscriptionClosed
  <2>3. ASSUME NEW k \in Data, DataUpdate(k) \/ Deliver(k)
        PROVE  FALSE
    BY <1>2, <2>3 DEF DataUpdate, Deliver, CheckClosed, CallbackReturns
  <2>4. ASSUME NEW c \in Callers, Disconnect(c) \/ TeardownDrained(c) \/ TeardownFails(c) \/ DisconnectReturn(c)
        PROVE  FALSE
    BY <1>2, <2>1, <2>4 DEF Disconnect, TeardownDrained, TeardownFails, DisconnectReturn
  <2>5. sub' # sub
    BY <1>2
  <2> QED  BY <1>2, <2>2, <2>3, <2>4, <2>5 DEF Next, Teardown, vars
<1>3. IInv /\ [Next]_vars => [First]_vars
  BY <1>1, <1>2
<1> QED  BY <1>3, Invariance, PTL DEF Spec, LeavesFirst
=============================================================================
