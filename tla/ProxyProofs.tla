----------------------------- MODULE ProxyProofs -----------------------------
(***************************************************************************)
(* Proofs about Proxy, for every finite set of requests and every set of   *)
(* models, with and without evictions and faults.                          *)
(*                                                                         *)
(* Why the slot is served by one request although a cancelled waiter may   *)
(* leave the lock's queue from the middle: a request is in the queue at    *)
(* most once (WaitersInv), so that its place is free when it is gone, and  *)
(* only the first in the queue is ever at the router.  Why the counters    *)
(* are right although they stop at zero: whoever takes one down is still   *)
(* counted by it.                                                          *)
(***************************************************************************)
EXTENDS Proxy, SequenceLemmas

\* The lock's queue has everybody who waits for the slot, and nobody twice.
WaitersInv ==
  /\ IsInjective(slot)
  /\ \A r \in Requests : at[r] = "slot" => \E i \in 1..Len(slot) : slot[i] = r

\* A request under way has asked for a model of the slot.
WantsInv == \A r \in Requests : at[r] # "idle" => wants[r] \in Models

IInv == SlotInv /\ WaitersInv /\ WantsInv /\ CountsAreRight

-----------------------------------------------------------------------------
(* Counts.                                                                 *)

\* The number of requests in one of the places of P.
Number(f, P) == Cardinality({q \in Requests : f[q] \in P})

\* The number of f, and how it changes to that of g when r, of all, goes to v.
NumberFollows(f, g, r, v, P) ==
  /\ Number(f, P) \in Nat /\ Number(g, P) \in Nat
  /\ f[r] \in P => Number(f, P) > 0
  /\ (f[r] \in P <=> v \in P) => Number(g, P) = Number(f, P)
  /\ f[r] \in P /\ v \notin P => Number(g, P) = Number(f, P) - 1
  /\ f[r] \notin P /\ v \in P => Number(g, P) = Number(f, P) + 1

\* A request that moves changes the number at most by itself.
LEMMA NumberMoves ==
  ASSUME NEW f, DOMAIN f = Requests, NEW r \in Requests, NEW v, NEW P
  PROVE  NumberFollows(f, [f EXCEPT ![r] = v], r, v, P)
<1> DEFINE g == [f EXCEPT ![r] = v]
           F == {q \in Requests : f[q] \in P}
           G == {q \in Requests : g[q] \in P}
<1>1. IsFiniteSet(F) /\ IsFiniteSet(G)
  <2>1. F \subseteq Requests /\ G \subseteq Requests
    OBVIOUS
  <2>. QED  BY <2>1, FS_Subset, ProxyAssumption
<1>2. Cardinality(F) \in Nat /\ Cardinality(G) \in Nat
  BY <1>1, FS_CardinalityType
<1>3. \A q \in Requests : q # r => (q \in F <=> q \in G)
  OBVIOUS
<1>4. g[r] = v
  OBVIOUS
<1>5. f[r] \in P => Cardinality(F) > 0
  <2>1. f[r] \in P => F # {}
    OBVIOUS
  <2>2. Cardinality(F) = 0 <=> F = {}
    BY <1>1, FS_EmptySet
  <2>. QED  BY <1>2, <2>1, <2>2
<1>6. CASE f[r] \in P <=> v \in P
  <2>1. F = G
    BY <1>3, <1>4, <1>6
  <2>. QED  BY <2>1, <1>2, <1>5, <1>6 DEF Number, NumberFollows
<1>7. CASE f[r] \in P /\ v \notin P
  <2>1. G = F \ {r} /\ r \in F
    BY <1>3, <1>4, <1>7
  <2>2. Cardinality(F \ {r}) = Cardinality(F) - 1
    BY <1>1, <2>1, FS_RemoveElement
  <2>. QED  BY <2>1, <2>2, <1>2, <1>5, <1>7 DEF Number, NumberFollows
<1>8. CASE f[r] \notin P /\ v \in P
  <2>1. G = F \cup {r} /\ r \notin F
    BY <1>3, <1>4, <1>8
  <2>2. Cardinality(F \cup {r}) = Cardinality(F) + 1
    BY <1>1, <2>1, FS_AddElement
  <2>. QED  BY <2>1, <2>2, <1>2, <1>5, <1>8 DEF Number, NumberFollows
<1>. QED  BY <1>6, <1>7, <1>8

-----------------------------------------------------------------------------
(* The state stays well formed.                                            *)

Waiting == AtRouter \cup {"slot"}

USE DEF Goes, Over, AtRouter, Queued, Waiting

Aside == ReleaseArrives \/ LateGrant \/ JobStep \/ TimePasses

\* The steps of Next, the evictor's and the arbiter's own among them.
LEMMA StepCases ==
  ASSUME [Next]_vars, NEW ACTION G,
         UNCHANGED vars => G,
         Aside /\ UNCHANGED faults => G,
         EvictorStep /\ UNCHANGED faults => G,
         \A r \in Requests : UNCHANGED faults =>
           /\ \A m \in Models : Arrive(r, m) => G
           /\ AcquireAnswered(r) \/ AcquireUnreachable(r) => G
           /\ HandleGrant(r) \/ TakeSlot(r) \/ RouterAnswers(r) => G
           /\ HandleRefusal(r) \/ AcquireRaises(r) => G
           /\ SlotWaitRaises(r) \/ ForwardEnds(r) => G
  PROVE  G
BY DEF Next, Aside, RequestStep, Raises

\* Every step keeps the state well formed.
LEMMA TypeStep ==
  ASSUME IInv, [Next]_vars
  PROVE  TypeOK' /\ WantsInv'
<1> USE ProxyAssumption
    DEF SlotInv, IInv, TypeOK, WantsInv, arbiterVars, stateVars, evictorVars
<1> DEFINE G == TypeOK' /\ WantsInv'
<1>1. UNCHANGED vars => G
  BY DEF vars
<1>2. Aside /\ UNCHANGED faults => G
  BY DEF Aside, ReleaseArrives, LateGrant, JobStep, TimePasses, Granted, TheLease!Grant,
         TheLease!GiveUp
<1>3. EvictorStep /\ UNCHANGED faults => G
  BY DEF EvictorStep, EvictorWakes, EvictorLists, EvictorUnloads, EvictorVerifies,
         EvictorGivesUp, EvictorReleases, Evictor
<1>4. ASSUME NEW r \in Requests, UNCHANGED faults
      PROVE  /\ \A m \in Models : Arrive(r, m) => G
             /\ AcquireAnswered(r) \/ AcquireUnreachable(r) => G
             /\ HandleGrant(r) \/ TakeSlot(r) \/ RouterAnswers(r) => G
             /\ HandleRefusal(r) \/ AcquireRaises(r) => G
             /\ SlotWaitRaises(r) \/ ForwardEnds(r) => G
  <2>1. ASSUME NEW m \in Models, Arrive(r, m)
        PROVE  G
    BY <1>4, <2>1 DEF Arrive
  <2>2. ASSUME AcquireAnswered(r) \/ AcquireUnreachable(r)
        PROVE  G
    BY <1>4, <2>2 DEF AcquireAnswered, AcquireUnreachable, Granted, TheLease!Grant
  <2>3. ASSUME HandleGrant(r)
        PROVE  G
    <3>1. slot' \in Seq(Requests)
      BY <2>3 DEF HandleGrant
    <3>. QED  BY <1>4, <2>3, <3>1 DEF HandleGrant, EnterSlot, Less
  <2>4. ASSUME TakeSlot(r) \/ RouterAnswers(r)
        PROVE  G
    BY <1>4, <2>4 DEF TakeSlot, RouterAnswers, EnterSlot, Less
  <2>5. ASSUME HandleRefusal(r) \/ AcquireRaises(r)
        PROVE  G
    BY <1>4, <2>5 DEF HandleRefusal, AcquireRaises, Finish, Less
  <2>6. ASSUME SlotWaitRaises(r)
        PROVE  G
    <3>1. slot' \in Seq(Requests)
      BY <2>6, RemoveAtProperties DEF SlotWaitRaises, WaitersInv
    <3>. QED  BY <1>4, <2>6, <3>1 DEF SlotWaitRaises, Finish, Less
  <2>7. ASSUME ForwardEnds(r)
        PROVE  G
    <3>1. slot' \in Seq(Requests)
      BY <2>7, HeadTailProperties DEF ForwardEnds, SlotIsServed
    <3>. QED  BY <1>4, <2>7, <3>1 DEF ForwardEnds, Finish, Less
  <2>. QED  BY <2>1, <2>2, <2>3, <2>4, <2>5, <2>6, <2>7
<1>. HIDE DEF G
<1>5. G
  BY <1>1, <1>2, <1>3, <1>4, StepCases
<1>. QED  BY <1>5 DEF G

-----------------------------------------------------------------------------
(* The slot.                                                               *)

SlotFacts == SlotIsServed /\ CurrentIsServed /\ WaitersInv

\* A request that neither waits for the slot nor has it is no concern of the slot's.
LEMMA OutsideMoves ==
  ASSUME TypeOK, SlotFacts, NEW r \in Requests, NEW v,
         at[r] \notin Waiting, v \notin Waiting, Goes(r, v),
         \A q \in Requests \ {r} : wants'[q] = wants[q],
         UNCHANGED <<current, slot>>
  PROVE  SlotFacts'
<1> USE DEF SlotFacts, TypeOK
<1>1. \A q \in Requests : at'[q] = IF q = r THEN v ELSE at[q]
  OBVIOUS
<1>2. \A i \in 1..Len(slot) : slot[i] \in Requests /\ slot[i] # r
  BY DEF SlotIsServed
<1>3. SlotIsServed'
  BY <1>1, <1>2 DEF SlotIsServed
<1>4. CurrentIsServed'
  BY <1>1 DEF CurrentIsServed
<1>5. WaitersInv'
  BY <1>1 DEF WaitersInv
<1>. QED  BY <1>3, <1>4, <1>5

\* Whoever enters the slot is first in the lock's queue, and alone at the router.
LEMMA EnterSlotStep ==
  ASSUME TypeOK, SlotFacts, NEW r \in Requests, EnterSlot(r),
         UNCHANGED wants,
         \/ slot = <<>> /\ slot' = Append(slot, r)
         \/ at[r] = "slot" /\ Head(slot) = r /\ slot' = slot
  PROVE  SlotFacts'
<1> USE DEF SlotFacts, TypeOK, EnterSlot
<1>1. \A q \in Requests : at'[q] = IF q = r THEN "sent" ELSE at[q]
  OBVIOUS
<1>2. slot' \in Seq(Requests) /\ slot' # <<>> /\ Head(slot') = r /\ IsInjective(slot')
  <2>1. CASE slot = <<>> /\ slot' = Append(slot, r)
    <3>1. slot' = <<r>>
      BY <2>1
    <3>. QED  BY <3>1 DEF IsInjective
  <2>2. CASE at[r] = "slot" /\ Head(slot) = r /\ slot' = slot
    BY <2>2 DEF WaitersInv
  <2>. QED  BY <2>1, <2>2
<1>3. \A q \in Requests : at'[q] \in AtRouter => q = r
  BY <1>1 DEF SlotIsServed
<1>4. \A i \in 1..Len(slot') : at'[slot'[i]] \in Waiting
  <2>1. CASE slot = <<>> /\ slot' = Append(slot, r)
    BY <1>1, <2>1
  <2>2. CASE at[r] = "slot" /\ Head(slot) = r /\ slot' = slot
    BY <1>1, <2>2 DEF SlotIsServed
  <2>. QED  BY <2>1, <2>2
<1>5. SlotIsServed'
  BY <1>2, <1>3, <1>4 DEF SlotIsServed
<1>6. CurrentIsServed'
  BY <1>3 DEF CurrentIsServed
<1>7. ASSUME NEW q \in Requests, at'[q] = "slot"
      PROVE  \E i \in 1..Len(slot') : slot'[i] = q
  <2>1. q # r /\ at[q] = "slot"
    BY <1>1, <1>7
  <2>2. \E i \in 1..Len(slot) : slot[i] = q
    BY <2>1 DEF WaitersInv
  <2>. QED  BY <2>2
<1>. QED  BY <1>2, <1>5, <1>6, <1>7 DEF WaitersInv

\* A request that joins a lock somebody has waits behind the others.
LEMMA JoinQueueStep ==
  ASSUME TypeOK, SlotFacts, NEW r \in Requests, at[r] = "granted", slot # <<>>,
         slot' = Append(slot, r), Goes(r, "slot"), UNCHANGED <<current, wants>>
  PROVE  SlotFacts'
<1> USE DEF SlotFacts, TypeOK
<1>1. \A q \in Requests : at'[q] = IF q = r THEN "slot" ELSE at[q]
  OBVIOUS
<1>2. \A i \in 1..Len(slot) : slot[i] \in Requests /\ slot[i] # r
  BY DEF SlotIsServed
<1>3. /\ slot' \in Seq(Requests) /\ slot' # <<>> /\ Head(slot') = Head(slot)
      /\ Len(slot') = Len(slot) + 1
      /\ \A i \in 1..Len(slot) : slot'[i] = slot[i]
      /\ slot'[Len(slot) + 1] = r
  OBVIOUS
<1>4. SlotIsServed'
  BY <1>1, <1>2, <1>3 DEF SlotIsServed
<1>5. CurrentIsServed'
  BY <1>1 DEF CurrentIsServed
<1>6. \A i, j \in 1..Len(slot) : slot[i] = slot[j] => i = j
  BY DEF WaitersInv, IsInjective
<1>7. \A i, j \in 1..Len(slot') : slot'[i] = slot'[j] => i = j
  BY <1>2, <1>3, <1>6
<1>8. IsInjective(slot')
  BY <1>3, <1>7 DEF IsInjective
<1>9. ASSUME NEW q \in Requests, at'[q] = "slot"
      PROVE  \E i \in 1..Len(slot') : slot'[i] = q
  <2>1. CASE q = r
    BY <1>3, <2>1
  <2>2. CASE q # r
    BY <1>1, <1>3, <1>9, <2>2 DEF WaitersInv
  <2>. QED  BY <2>1, <2>2
<1>. QED  BY <1>4, <1>5, <1>8, <1>9 DEF WaitersInv

\* Whoever leaves the lock's queue, from the head or from the middle, leaves the
\* place to the one behind, and nobody is at the router in its stead.
LEMMA LeaveQueueStep ==
  ASSUME TypeOK, SlotFacts, NEW r \in Requests, NEW i \in 1..Len(slot), slot[i] = r,
         at[r] = "slot" \/ i = 1, Over(r), slot' = RemoveAt(slot, i), UNCHANGED current
  PROVE  SlotFacts'
<1> USE DEF SlotFacts, TypeOK
<1>1. \A q \in Requests : at'[q] = IF q = r THEN "idle" ELSE at[q]
  OBVIOUS
<1>2. /\ slot' \in Seq(Requests) /\ Len(slot') = Len(slot) - 1
      /\ \A j \in 1..Len(slot') : slot'[j] = IF j < i THEN slot[j] ELSE slot[j + 1]
      /\ IsInjective(slot')
      /\ \A j \in 1..Len(slot') : slot'[j] # slot[i]
      /\ \A k \in 1..Len(slot) : k # i => \E j \in 1..Len(slot') : slot'[j] = slot[k]
  <2>1. slot \in Seq(Requests) /\ IsInjective(slot) /\ slot' = RemoveAt(slot, i)
    BY DEF WaitersInv
  <2>. QED  BY <2>1, RemoveAtProperties, ZenonT(40)
<1>3. ASSUME NEW q \in Requests, at'[q] \in AtRouter
      PROVE  slot' # <<>> /\ Head(slot') = q
  <2>1. q # r /\ at[q] \in AtRouter
    BY <1>1, <1>3
  <2>2. slot # <<>> /\ slot[1] = q
    BY <2>1 DEF SlotIsServed
  <2>3. i # 1
    BY <2>1, <2>2
  <2>4. Len(slot') >= 1 /\ slot'[1] = q
    BY <1>2, <2>2, <2>3
  <2>. QED  BY <1>2, <2>4
<1>4. \A j \in 1..Len(slot') : at'[slot'[j]] \in Waiting
  <2>. TAKE j \in 1..Len(slot')
  <2>1. PICK k \in 1..Len(slot) : slot'[j] = slot[k]
    BY <1>2
  <2>2. at[slot[k]] \in Waiting /\ slot[k] # r /\ slot[k] \in Requests
    BY <1>2, <2>1 DEF SlotIsServed
  <2>. QED  BY <1>1, <2>1, <2>2
<1>5. SlotIsServed'
  BY <1>3, <1>4 DEF SlotIsServed
<1>6. CurrentIsServed'
  <2>1. \A q \in Requests \ {r} : wants'[q] = wants[q]
    OBVIOUS
  <2>. QED  BY <1>1, <2>1 DEF CurrentIsServed
<1>7. ASSUME NEW q \in Requests, at'[q] = "slot"
      PROVE  \E j \in 1..Len(slot') : slot'[j] = q
  <2>1. q # r /\ at[q] = "slot"
    BY <1>1, <1>7
  <2>2. PICK k \in 1..Len(slot) : slot[k] = q
    BY <2>1 DEF WaitersInv
  <2>3. k # i
    BY <2>1, <2>2
  <2>. QED  BY <1>2, <2>2, <2>3
<1>. QED  BY <1>2, <1>5, <1>6, <1>7 DEF WaitersInv

\* Every step keeps the slot, its queue and the model recorded in agreement.
LEMMA SlotStep ==
  ASSUME IInv, [Next]_vars
  PROVE  SlotFacts'
<1> USE DEF SlotInv, IInv, arbiterVars, stateVars, evictorVars
<1> DEFINE G == SlotFacts'
<1>0. TypeOK /\ SlotFacts
  BY DEF SlotFacts
<1>1. UNCHANGED <<at, wants, current, slot>> => G
  BY DEF SlotFacts, SlotIsServed, CurrentIsServed, WaitersInv
<1>2. UNCHANGED vars => G
  BY <1>1 DEF vars
<1>3. Aside /\ UNCHANGED faults => G
  BY <1>1 DEF Aside, ReleaseArrives, LateGrant, JobStep, TimePasses
<1>4. EvictorStep /\ UNCHANGED faults => G
  <2>1. EvictorVerifies => G
    BY DEF EvictorVerifies, SlotFacts, SlotIsServed, CurrentIsServed, WaitersInv
  <2>. QED  BY <1>1, <2>1 DEF EvictorStep, EvictorWakes, EvictorLists, EvictorUnloads,
                             EvictorGivesUp, EvictorReleases
<1>5. ASSUME NEW r \in Requests, UNCHANGED faults
      PROVE  /\ \A m \in Models : Arrive(r, m) => G
             /\ AcquireAnswered(r) \/ AcquireUnreachable(r) => G
             /\ HandleGrant(r) \/ TakeSlot(r) \/ RouterAnswers(r) => G
             /\ HandleRefusal(r) \/ AcquireRaises(r) => G
             /\ SlotWaitRaises(r) \/ ForwardEnds(r) => G
  <2>1. ASSUME NEW m \in Models, Arrive(r, m)
        PROVE  G
    <3>1. Goes(r, "asking") /\ UNCHANGED <<current, slot>> /\ at[r] \notin Waiting
      BY <2>1 DEF Arrive
    <3>2. \A q \in Requests \ {r} : wants'[q] = wants[q]
      BY <2>1 DEF Arrive, TypeOK
    <3>. QED  BY <1>0, <3>1, <3>2, OutsideMoves
  <2>2. ASSUME AcquireAnswered(r) \/ AcquireUnreachable(r)
        PROVE  G
    <3>1. /\ at[r] \notin Waiting /\ UNCHANGED <<current, slot, wants>>
          /\ \E v \in {"granted", "refused"} : Goes(r, v)
      BY <2>2 DEF AcquireAnswered, AcquireUnreachable
    <3>. QED  BY <1>0, <3>1, OutsideMoves
  <2>3. ASSUME HandleRefusal(r) \/ AcquireRaises(r)
        PROVE  G
    <3>1. Over(r) /\ UNCHANGED <<current, slot>> /\ at[r] \notin Waiting
      BY <2>3 DEF HandleRefusal, AcquireRaises
    <3>2. \A q \in Requests \ {r} : wants'[q] = wants[q]
      BY <3>1 DEF TypeOK
    <3>. QED  BY <1>0, <3>1, <3>2, OutsideMoves
  <2>4. ASSUME HandleGrant(r)
        PROVE  G
    BY <1>0, <2>4, EnterSlotStep, JoinQueueStep DEF HandleGrant
  <2>5. ASSUME TakeSlot(r)
        PROVE  G
    BY <1>0, <2>5, EnterSlotStep DEF TakeSlot
  <2>6. ASSUME RouterAnswers(r)
        PROVE  G
    BY <1>0, <2>6
    DEF RouterAnswers, SlotFacts, SlotIsServed, CurrentIsServed, WaitersInv, TypeOK
  <2>7. ASSUME SlotWaitRaises(r)
        PROVE  G
    <3>1. PICK i \in 1..Len(slot) : slot[i] = r /\ slot' = RemoveAt(slot, i)
      BY <2>7 DEF SlotWaitRaises
    <3>. QED  BY <1>0, <2>7, <3>1, LeaveQueueStep DEF SlotWaitRaises
  <2>8. ASSUME ForwardEnds(r)
        PROVE  G
    <3>1. slot \in Seq(Requests) /\ slot # <<>> /\ slot[1] = r
      BY <2>8 DEF ForwardEnds, SlotIsServed, TypeOK
    <3>2. 1 \in 1..Len(slot) /\ slot' = RemoveAt(slot, 1)
      BY <2>8, <3>1 DEF ForwardEnds, RemoveAt
    <3>. QED  BY <1>0, <2>8, <3>1, <3>2, LeaveQueueStep DEF ForwardEnds
  <2>. QED  BY <2>1, <2>2, <2>3, <2>4, <2>5, <2>6, <2>7, <2>8
<1>. HIDE DEF G
<1>6. G
  BY <1>2, <1>3, <1>4, <1>5, StepCases
<1>. QED  BY <1>6 DEF G

-----------------------------------------------------------------------------
(* The counters.                                                           *)

Everywhere == Queued \cup AtRouter

\* CountsAreRight, of any values of the variables it reads, with the surplus k that
\* exceptions have left behind.
CountsFor(f, n, d, k) ==
  /\ n = Number(f, Everywhere)
  /\ d = Number(f, Queued) + k

\* Being under way is being queued or at the router.
LEMMA CountsAsNumbers ==
  ASSUME NEW f \in [Requests -> Everywhere \cup {"idle"}]
  PROVE  /\ Cardinality({r \in Requests : f[r] # "idle"}) = Number(f, Everywhere)
         /\ Cardinality({r \in Requests : f[r] \in Queued}) = Number(f, Queued)
<1>1. {r \in Requests : f[r] # "idle"} = {r \in Requests : f[r] \in Everywhere}
  BY DEF Everywhere
<1>. QED  BY <1>1 DEF Number

\* What becomes of the counters when r moves to v.
CountsFollow(f, g, r, v, n, d, k) ==
  /\ f[r] = "idle" /\ v \in Queued => CountsFor(g, n + 1, d + 1, k)
  /\ f[r] \in Queued /\ v \in Queued => CountsFor(g, n, d, k)
  /\ f[r] \in Queued /\ v \in AtRouter => CountsFor(g, n, Less(d), k)
  /\ f[r] \in AtRouter /\ v \in AtRouter => CountsFor(g, n, d, k)
  /\ f[r] \in AtRouter /\ v = "idle" => CountsFor(g, Less(n), d, k)
  /\ f[r] \in Queued /\ v = "idle" => CountsFor(g, Less(n), Less(d), k)
  /\ f[r] \in Queued /\ v = "idle" => CountsFor(g, Less(n), d, k + 1)

\* A request moves and the counters move with it, by as much as the places differ.
LEMMA CountsMove ==
  ASSUME NEW f \in [Requests -> Everywhere \cup {"idle"}], NEW r \in Requests, NEW v,
         NEW g, g = [f EXCEPT ![r] = v],
         NEW n \in Nat, NEW d \in Nat, NEW k \in Nat, CountsFor(f, n, d, k)
  PROVE  CountsFollow(f, g, r, v, n, d, k)
<1>0. DOMAIN f = Requests
  OBVIOUS
<1>1. NumberFollows(f, g, r, v, Queued) /\ NumberFollows(f, g, r, v, Everywhere)
  BY <1>0, NumberMoves
<1>2. \A w : /\ w \in Queued => w \in Everywhere /\ w \notin AtRouter /\ w # "idle"
             /\ w \in AtRouter => w \in Everywhere /\ w \notin Queued /\ w # "idle"
             /\ w = "idle" => w \notin Everywhere /\ w \notin Queued
  BY DEF Everywhere
<1>3. n = Number(f, Everywhere) /\ d = Number(f, Queued) + k
  BY DEF CountsFor
<1> DEFINE a == Number(f, Everywhere)
           b == Number(f, Queued)
           x == Number(g, Everywhere)
           y == Number(g, Queued)
<1>4. /\ a \in Nat /\ b \in Nat /\ x \in Nat /\ y \in Nat
      /\ f[r] = "idle" /\ v \in Queued => x = a + 1 /\ y = b + 1
      /\ f[r] \in Queued /\ v \in Queued => x = a /\ y = b
      /\ f[r] \in Queued /\ v \in AtRouter => x = a /\ y = b - 1 /\ b > 0
      /\ f[r] \in AtRouter /\ v \in AtRouter => x = a /\ y = b
      /\ f[r] \in AtRouter /\ v = "idle" => x = a - 1 /\ y = b /\ a > 0
      /\ f[r] \in Queued /\ v = "idle" => x = a - 1 /\ y = b - 1 /\ a > 0 /\ b > 0
  <2> HIDE DEF Queued, AtRouter
  <2>. QED  BY <1>1, <1>2 DEF NumberFollows
<1> HIDE DEF a, b, x, y, Queued, AtRouter
<1>5. n = a /\ d = b + k
  BY <1>3 DEF a, b
<1>. QED  BY <1>4, <1>5 DEF CountsFollow, CountsFor, Less, x, y

\* CountsAreRight says that there is such a surplus, and none without an exception.
LEMMA SurplusIsCounted ==
  ASSUME NEW f \in [Requests -> Everywhere \cup {"idle"}], NEW n, NEW d \in Nat, NEW F
  PROVE  (\E k \in Nat : CountsFor(f, n, d, k) /\ ("raise" \notin F => k = 0)) <=>
           /\ n = Cardinality({r \in Requests : f[r] # "idle"})
           /\ d >= Cardinality({r \in Requests : f[r] \in Queued})
           /\ "raise" \notin F => d = Cardinality({r \in Requests : f[r] \in Queued})
<1>1. /\ Cardinality({r \in Requests : f[r] # "idle"}) = Number(f, Everywhere)
      /\ Cardinality({r \in Requests : f[r] \in Queued}) = Number(f, Queued)
  BY CountsAsNumbers
<1>2. Number(f, Queued) \in Nat
  <2>1. IsFiniteSet({r \in Requests : f[r] \in Queued})
    <3>1. {r \in Requests : f[r] \in Queued} \subseteq Requests
      OBVIOUS
    <3>. QED  BY <3>1, FS_Subset, ProxyAssumption
  <2>. QED  BY <2>1, FS_CardinalityType DEF Number
<1>3. \A k \in Nat : d = Number(f, Queued) + k <=> k = d - Number(f, Queued)
  BY <1>2
<1>4. d >= Number(f, Queued) <=> d - Number(f, Queued) \in Nat
  BY <1>2
<1>5. d = Number(f, Queued) <=> d - Number(f, Queued) = 0
  BY <1>2
<1> HIDE DEF Queued
<1>. QED  BY <1>1, <1>3, <1>4, <1>5 DEF CountsFor

\* Every step keeps the counters right.
LEMMA CountStep ==
  ASSUME IInv, [Next]_vars
  PROVE  CountsAreRight'
<1> USE DEF SlotInv, IInv, arbiterVars, stateVars, evictorVars
<1>0. PICK k \in Nat : /\ CountsFor(at, inflight, depth, k)
                       /\ "raise" \notin faults => k = 0
  <2>1. at \in [Requests -> Everywhere \cup {"idle"}] /\ depth \in Nat
    BY DEF TypeOK, Everywhere
  <2>. QED  BY <2>1, SurplusIsCounted DEF CountsAreRight
<1> DEFINE Same == CountsFor(at', inflight', depth', k)
           More == CountsFor(at', inflight', depth', k + 1) /\ "raise" \in faults
           G == UNCHANGED faults /\ (Same \/ More)
<1>1. UNCHANGED <<at, inflight, depth>> => Same
  BY <1>0
<1>2. UNCHANGED vars => G
  BY <1>1 DEF vars
<1>3. Aside /\ UNCHANGED faults => G
  BY <1>1 DEF Aside, ReleaseArrives, LateGrant, JobStep, TimePasses
<1>4. EvictorStep /\ UNCHANGED faults => G
  BY <1>1 DEF EvictorStep, EvictorWakes, EvictorLists, EvictorUnloads, EvictorVerifies,
              EvictorGivesUp, EvictorReleases
<1>5. ASSUME NEW r \in Requests, UNCHANGED faults
      PROVE  /\ \A m \in Models : Arrive(r, m) => G
             /\ AcquireAnswered(r) \/ AcquireUnreachable(r) => G
             /\ HandleGrant(r) \/ TakeSlot(r) \/ RouterAnswers(r) => G
             /\ HandleRefusal(r) \/ AcquireRaises(r) => G
             /\ SlotWaitRaises(r) \/ ForwardEnds(r) => G
  <2>0. \A v : Goes(r, v) => CountsFollow(at, at', r, v, inflight, depth, k)
    <3>1. /\ at \in [Requests -> Everywhere \cup {"idle"}]
          /\ inflight \in Nat /\ depth \in Nat
      BY DEF TypeOK, Everywhere
    <3>. QED  BY <1>0, <3>1, CountsMove
  <2> USE DEF CountsFollow
  <2>1. ASSUME NEW m \in Models, Arrive(r, m)
        PROVE  Same
    BY <2>0, <2>1 DEF Arrive
  <2>2. ASSUME AcquireAnswered(r) \/ AcquireUnreachable(r)
        PROVE  Same
    BY <2>0, <2>2 DEF AcquireAnswered, AcquireUnreachable
  <2>3. ASSUME HandleGrant(r)
        PROVE  Same
    BY <2>0, <2>3 DEF HandleGrant, EnterSlot
  <2>4. ASSUME TakeSlot(r) \/ RouterAnswers(r)
        PROVE  Same
    BY <2>0, <2>4 DEF TakeSlot, RouterAnswers, EnterSlot
  <2>5. ASSUME HandleRefusal(r) \/ SlotWaitRaises(r)
        PROVE  Same
    BY <2>0, <2>5 DEF HandleRefusal, SlotWaitRaises, Finish
  <2>6. ASSUME AcquireRaises(r)
        PROVE  More
    BY <2>0, <2>6 DEF AcquireRaises, Finish
  <2>7. ASSUME ForwardEnds(r)
        PROVE  Same
    BY <2>0, <2>7 DEF ForwardEnds, Finish
  <2>. HIDE DEF Same, More
  <2>. QED  BY <1>5, <2>1, <2>2, <2>3, <2>4, <2>5, <2>6, <2>7
<1>. HIDE DEF G
<1>6. G
  BY <1>2, <1>3, <1>4, <1>5, StepCases
<1>7. \E j \in Nat : /\ CountsFor(at', inflight', depth', j)
                     /\ "raise" \notin faults' => j = 0
  <2>1. k + 1 \in Nat
    OBVIOUS
  <2>2. CASE Same
    BY <1>0, <1>6, <2>2 DEF G
  <2>3. CASE More
    BY <1>6, <2>1, <2>3 DEF G
  <2>. QED  BY <1>6, <2>2, <2>3 DEF G
<1>8. at' \in [Requests -> Everywhere \cup {"idle"}] /\ depth' \in Nat
  BY TypeStep DEF TypeOK, Everywhere
<1>. QED  BY <1>7, <1>8, SurplusIsCounted DEF CountsAreRight

-----------------------------------------------------------------------------
(* The theorems.                                                           *)

\* The proxy starts with no request, an empty slot and both counters at zero.
LEMMA InitIInv == Init => IInv
<1> SUFFICES ASSUME Init PROVE IInv
  OBVIOUS
<1>1. TypeOK
  BY ProxyAssumption DEF Init, TypeOK
<1>2. SlotFacts
  BY DEF Init, SlotFacts, SlotIsServed, CurrentIsServed, WaitersInv, IsInjective
<1>3. WantsInv
  BY DEF Init, WantsInv
<1>4. /\ {r \in Requests : at[r] # "idle"} = {}
      /\ {r \in Requests : at[r] \in Queued} = {}
  BY DEF Init
<1>5. CountsAreRight
  <2>1. Cardinality({}) = 0
    BY FS_EmptySet
  <2>2. /\ Cardinality({r \in Requests : at[r] # "idle"}) = 0
        /\ Cardinality({r \in Requests : at[r] \in Queued}) = 0
    BY <1>4, <2>1
  <2>3. depth = 0 /\ inflight = 0
    BY DEF Init
  <2> HIDE DEF Queued
  <2>. QED  BY <2>2, <2>3 DEF CountsAreRight
<1>. QED  BY <1>1, <1>2, <1>3, <1>5 DEF IInv, SlotInv, SlotFacts

\* Every step of the proxy, the arbiter and the router keeps the invariant.
LEMMA StepIInv == IInv /\ [Next]_vars => IInv'
BY TypeStep, SlotStep, CountStep DEF IInv, SlotInv, SlotFacts

\* For any number of requests: the slot's lock is never leaked or shared, and the
\* model recorded as current is the one being served or none (main.py, proxy and
\* _forward).
THEOREM SlotIsOwned == Spec => []SlotInv
<1>1. IInv => SlotInv
  BY DEF IInv
<1>. QED  BY InitIInv, StepIInv, <1>1, PTL DEF Spec

\* For any number of requests: the counters that decide when the card goes back
\* count the requests under way and, unless an acquire raised, exactly those
\* still queued (main.py, proxy and _finish; state.py).
THEOREM CountsAreExact == Spec => []CountsAreRight
<1>1. IInv => CountsAreRight
  BY DEF IInv
<1>. QED  BY InitIInv, StepIInv, <1>1, PTL DEF Spec
=============================================================================
