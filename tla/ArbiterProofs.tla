--------------------------- MODULE ArbiterProofs ---------------------------
(***************************************************************************)
(* Proofs about Arbiter, for every set of jobs, of kinds, of priorities    *)
(* and of concurrent calls, and about Trainer, which composes it with the  *)
(* training supervisor.                                                    *)
(*                                                                         *)
(* Why one lease at a time holds although release takes no lock: only the  *)
(* task at the head of the lock's queue is inside acquire or reap          *)
(* (LockInv), every lease its loop has passed is gone (WalkInv), and while *)
(* it is suspended the other calls can only take leases away.  A name that *)
(* registers meanwhile is appended, unleased, behind the loop (NameInv).   *)
(***************************************************************************)
EXTENDS Trainer, TLAPS

Walks == [at : Nat, size : Nat, stopped : BOOLEAN]

Critical == {"own", "probe", "kill", "letgo", "settle", "sweep", "census"}

PlaceInv ==
  /\ pc[Reaper] \in {"idle", "lock", "sweep", "census"}
  /\ \A t \in Tasks : pc[t] \notin {"sweep", "census"}

LockInv == \A a \in Actors : pc[a] \in Critical => queue # <<>> /\ Head(queue) = a

NameInv ==
  /\ \A n \in Names : leased[n] => n \in Known
  /\ \A t \in Tasks : pc[t] # "idle" => name[t] \in Known

\* Of the first i - 1 jobs only n may still have a lease in the table `held'.
Cleared(n, i, held) ==
  \A m \in 1..(i - 1) :
    held[order[m]] /\ Kind[order[m]] # "container" => order[m] = n

OnlyFor(n, held) ==
  \A k \in Names : held[k] /\ Kind[k] # "container" => k = n

WalkInv ==
  \A t \in Tasks :
    /\ pc[t] \in {"probe", "kill", "letgo"} =>
         /\ walk.at \in 1..walk.size
         /\ walk.size <= Len(order)
         /\ Visited # name[t]
         /\ Cleared(name[t], walk.at, leased)
    /\ pc[t] \in {"probe", "kill"} => Kind[Visited] = "container"
    /\ pc[t] \in {"kill", "letgo"} => Outranks(name[t], Visited)
    /\ pc[t] = "letgo" => Cooperative(Visited)
    /\ pc[t] = "settle" => OnlyFor(name[t], leased)

WantedInv == WantedIsHeard /\ \A k \in Names : wanted[k] => Cooperative(k)

IInv ==
  /\ TypeOK /\ PlaceInv /\ LockInv /\ NameInv /\ WalkInv
  /\ ExclusiveLease /\ LetGoMeansGone /\ WantedInv

-----------------------------------------------------------------------------
(* What the loop of acquire does between two suspensions: some leases of   *)
(* kind none that the caller outranks are dropped, leaving `rest', and the *)
(* task ends up in one of six ways.                                        *)

Kept(n, held, rest) ==
  /\ \A k \in Names : rest[k] => held[k]
  /\ \A k \in Names : held[k] /\ ~rest[k] => Kind[k] = "none" /\ Outranks(n, k)

Pauses(t, j, w, rest, place) ==
  /\ j \in w.at..Len(order)
  /\ Cleared(name[t], j, rest)
  /\ order[j] # name[t]
  /\ leased' = rest
  /\ walk' \in Walks /\ walk'.at = j /\ walk'.size = w.size
  /\ UNCHANGED <<letGo, stale, holder, queue, name, answer>>
  /\ \/ /\ place = "probe" /\ Kind[order[j]] = "container"
        /\ pc' = [pc EXCEPT ![t] = "probe"]
        /\ UNCHANGED wanted
     \/ /\ place = "letgo" /\ Cooperative(order[j]) /\ Outranks(name[t], order[j])
        /\ rest[order[j]]
        /\ wanted' = [wanted EXCEPT ![order[j]] = TRUE]
        /\ pc' = [a \in Actors |->
                    IF a = t THEN "letgo" ELSE
                    IF pc[a] = "notice" /\ name[a] = order[j] THEN "woken" ELSE pc[a]]

Refuses(t, rest) ==
  /\ leased' = rest
  /\ Reply(t, "refused") /\ Unlock
  /\ UNCHANGED <<wanted, letGo, stale, holder>>

StartsSettling(t, rest) ==
  /\ OnlyFor(name[t], rest)
  /\ leased' = rest
  /\ pc' = [pc EXCEPT ![t] = "settle"]
  /\ walk' \in Walks
  /\ UNCHANGED <<wanted, letGo, stale, holder, queue, name, answer>>

Grants(t, rest) ==
  /\ OnlyFor(name[t], rest)
  /\ Grant(name[t], rest) /\ Reply(t, "granted") /\ Unlock

Outcome(t, w, held, rest) ==
  \/ \E j \in w.at..Len(order), place \in {"probe", "letgo"} : Pauses(t, j, w, rest, place)
  \/ Refuses(t, rest)
  \/ StartsSettling(t, rest)
  \/ Grants(t, rest) /\ rest = held

LEMMA WalkFromOutcome ==
  ASSUME TypeOK, NEW t \in Tasks, name[t] \in Names,
         NEW w \in Walks, w.at \in 1..(Len(order) + 1),
         NEW held \in [Names -> BOOLEAN], Cleared(name[t], w.at, held),
         \A n \in Names : held[n] => n \in Known,
         WalkFrom(t, w, held)
  PROVE  \E rest \in [Names -> BOOLEAN] :
           Kept(name[t], held, rest) /\ Outcome(t, w, held, rest)
<1> DEFINE gone(j) == Dropped(name[t], w.at, j, held)
           rest(j) == [k \in Names |-> held[k] /\ k \notin gone(j)]
           some(j) == w.stopped \/ gone(j) # {}
<1>1. PICK j \in w.at..(Len(order) + 1) :
        /\ \A m \in w.at..(j - 1) : ~Stops(name[t], order[m], held)
        /\ \/ /\ j <= Len(order) /\ Stops(name[t], order[j], held)
              /\ StopAt(t, j, [w EXCEPT !.stopped = some(j)], rest(j))
           \/ /\ j = Len(order) + 1 /\ some(j)
              /\ leased' = rest(j)
              /\ pc' = [pc EXCEPT ![t] = "settle"]
              /\ walk' = [w EXCEPT !.at = j, !.stopped = TRUE]
              /\ UNCHANGED <<wanted, letGo, stale, holder, queue, name, answer>>
           \/ /\ j = Len(order) + 1 /\ ~some(j)
              /\ Admit(t, rest(j))
  BY DEF WalkFrom
<1>2. /\ order \in Seq(Names) /\ w.at \in Nat /\ j \in Nat /\ Len(order) \in Nat
      /\ \A m \in 1..Len(order) : order[m] \in Names
  BY DEF TypeOK, Walks
<1>3. rest(j) \in [Names -> BOOLEAN]
  OBVIOUS
<1>4. Kept(name[t], held, rest(j))
  BY <1>1, <1>2 DEF Kept, Dropped, Stops
<1>5. Cleared(name[t], j, rest(j))
  <2> SUFFICES ASSUME NEW m \in 1..(j - 1), rest(j)[order[m]],
                      Kind[order[m]] # "container"
               PROVE  order[m] = name[t]
    BY DEF Cleared
  <2>0. m \in Nat /\ m <= Len(order) /\ 1 <= m /\ order[m] \in Names
    BY <1>2, <1>1
  <2>1. order[m] \in Names /\ held[order[m]] /\ order[m] \notin gone(j)
    BY <2>0
  <2>2. CASE m < w.at
    BY <2>1, <2>2, <1>2 DEF Cleared
  <2>3. CASE m >= w.at
    BY <2>1, <2>3, <1>2 DEF Dropped
  <2> QED BY <2>2, <2>3, <1>2
<1>6. j = Len(order) + 1 => OnlyFor(name[t], rest(j))
  <2> SUFFICES ASSUME j = Len(order) + 1, NEW k \in Names, rest(j)[k],
                      Kind[k] # "container"
               PROVE  k = name[t]
    BY DEF OnlyFor
  <2>1. PICK m \in 1..Len(order) : order[m] = k
    BY DEF Known
  <2>2. m \in 1..(j - 1)
    BY <1>2
  <2> HIDE DEF rest
  <2> QED BY <2>1, <2>2, <1>5 DEF Cleared
<1>7. Outcome(t, w, held, rest(j))
  <2> DEFINE v == [w EXCEPT !.stopped = some(j)]
  <2>0. v \in Walks /\ v.at = w.at /\ v.size = w.size
    BY DEF Walks
  <2>1. CASE j <= Len(order) /\ Stops(name[t], order[j], held) /\ StopAt(t, j, v, rest(j))
    <3>0. [v EXCEPT !.at = j] \in Walks /\ [v EXCEPT !.at = j].at = j
          /\ [v EXCEPT !.at = j].size = w.size
      BY <2>0, <1>2 DEF Walks
    <3>1. j \in w.at..Len(order) /\ order[j] # name[t] /\ order[j] \in Names
      BY <2>1, <1>1, <1>2 DEF Stops
    <3>2. rest(j)[order[j]] \/ Kind[order[j]] = "container" \/ ~Cooperative(order[j])
      BY <2>1, <3>1, <1>1, <1>2 DEF Stops, Dropped, Cooperative
    <3> HIDE DEF v, rest
    <3>3. \/ \E place \in {"probe", "letgo"} : Pauses(t, j, w, rest(j), place)
          \/ Refuses(t, rest(j))
      BY <2>1, <3>0, <3>1, <3>2, <1>5 DEF StopAt, Pauses, Refuses, Cooperative
    <3> QED BY <3>1, <3>3 DEF Outcome
  <2>2. CASE /\ j = Len(order) + 1 /\ some(j)
             /\ leased' = rest(j)
             /\ pc' = [pc EXCEPT ![t] = "settle"]
             /\ walk' = [w EXCEPT !.at = j, !.stopped = TRUE]
             /\ UNCHANGED <<wanted, letGo, stale, holder, queue, name, answer>>
    <3>1. walk' \in Walks
      BY <2>2, <1>2 DEF Walks
    <3> QED BY <2>2, <3>1, <1>6 DEF Outcome, StartsSettling
  <2>3. CASE j = Len(order) + 1 /\ ~some(j) /\ Admit(t, rest(j))
    <3>1. rest(j) = held
      BY <2>3
    <3> HIDE DEF rest
    <3> QED BY <2>3, <3>1, <1>6 DEF Admit, Outcome, Grants, Refuses
  <2> QED BY <1>1, <2>1, <2>2, <2>3
<1> QED BY <1>3, <1>4, <1>7

-----------------------------------------------------------------------------
(* The task that owns the lock is the only one inside acquire or reap.     *)
LEMMA OwnerAlone ==
  ASSUME IInv, NEW a \in Actors, queue # <<>>, Head(queue) = a
  PROVE  \A b \in Actors \ {a} : pc[b] \notin Critical
BY DEF IInv, LockInv

\* Answering under the lock keeps the tables typed and frees the lock.
LEMMA ReplyTyped ==
  ASSUME TypeOK, NEW t \in Tasks, NEW x \in Answers, Reply(t, x)
  PROVE  /\ pc' \in [Actors -> Places] /\ name' \in [Tasks -> Names \cup {NoOne}]
         /\ answer' \in [Tasks -> Answers]
         /\ pc'[t] = "idle"
         /\ \A a \in Actors \ {t} : pc'[a] = pc[a]
         /\ \A u \in Tasks \ {t} : name'[u] = name[u]
BY DEF TypeOK, Reply, Actors, Places

LEMMA UnlockTyped ==
  ASSUME TypeOK, queue # <<>>, Unlock
  PROVE  queue' \in Seq(Actors) /\ walk' \in Walks
BY DEF TypeOK, Unlock, Walks, NoWalk

\* A task that answers and gives the lock back keeps the invariant, provided
\* that the lease table it leaves does.
LEMMA LeaveKeepsInv ==
  ASSUME IInv, NEW t \in Tasks, queue # <<>>, Head(queue) = t,
         Unlock, NEW x \in Answers, Reply(t, x),
         leased' \in [Names -> BOOLEAN], wanted' \in [Names -> BOOLEAN],
         letGo' \in [Names -> BOOLEAN], stale' \in [Names -> BOOLEAN],
         holder' \in Names \cup {NoOne},
         \A n \in Names : leased'[n] => n \in Known,
         ExclusiveLease', LetGoMeansGone',
         \A n \in Names : wanted'[n] => wanted[n] /\ leased'[n],
         UNCHANGED <<up, order, todo>>
  PROVE  IInv'
<1>1. t \in Actors /\ t # Reaper
  BY ArbiterAssumption DEF Actors
<1>2. \A b \in Actors \ {t} : pc[b] \notin Critical
  BY <1>1, OwnerAlone
<1>3. TypeOK /\ PlaceInv /\ NameInv /\ WantedInv
  BY DEF IInv
<1>4. /\ pc' \in [Actors -> Places] /\ name' \in [Tasks -> Names \cup {NoOne}]
      /\ answer' \in [Tasks -> Answers]
      /\ pc'[t] = "idle"
      /\ \A a \in Actors \ {t} : pc'[a] = pc[a]
      /\ \A u \in Tasks \ {t} : name'[u] = name[u]
  BY <1>3, ReplyTyped
<1>5. queue' \in Seq(Actors) /\ walk' \in Walks
  BY <1>3, UnlockTyped
<1>6. TypeOK'
  BY <1>3, <1>4, <1>5 DEF TypeOK, Walks
<1>7. \A a \in Actors : pc'[a] \notin Critical
  BY <1>4, <1>2 DEF Critical
<1>8. PlaceInv' /\ LockInv' /\ WalkInv'
  BY <1>4, <1>7, <1>1, <1>3 DEF PlaceInv, LockInv, WalkInv, Actors, Critical
<1>9. NameInv'
  BY <1>4, <1>3 DEF NameInv, Known, Actors
<1>10. WantedInv'
  BY <1>4, <1>3 DEF WantedInv, WantedIsHeard, Actors, Cooperative
<1> QED BY <1>6, <1>8, <1>9, <1>10 DEF IInv

\* Whatever the loop does next, the invariant survives it.
LEMMA OutcomeKeepsInv ==
  ASSUME IInv, NEW t \in Tasks, queue # <<>>, Head(queue) = t, name[t] \in Names,
         pc[t] # "idle",
         NEW w \in Walks, w.at >= 1, w.size = Len(order),
         NEW held, NEW rest \in [Names -> BOOLEAN],
         \A n \in Names : rest[n] => leased[n],
         \A n \in Names : leased[n] /\ ~rest[n] => ~wanted[n],
         Outcome(t, w, held, rest),
         UNCHANGED <<up, order, todo>>
  PROVE  IInv'
<1>1. t \in Actors /\ t # Reaper
  BY ArbiterAssumption DEF Actors
<1>2. \A b \in Actors \ {t} : pc[b] \notin Critical
  BY <1>1, OwnerAlone
<1>3. /\ TypeOK /\ PlaceInv /\ NameInv /\ ExclusiveLease /\ LetGoMeansGone /\ WantedInv
      /\ order \in Seq(Names) /\ Len(order) \in Nat
      /\ \A m \in 1..Len(order) : order[m] \in Names
  BY DEF IInv, TypeOK
<1>4. ASSUME NEW j \in w.at..Len(order), NEW place \in {"probe", "letgo"},
             Pauses(t, j, w, rest, place)
      PROVE  IInv'
  <2>0. /\ leased' = rest /\ walk' \in Walks /\ walk'.at = j /\ walk'.size = w.size
        /\ UNCHANGED <<letGo, stale, holder, queue, name, answer>>
        /\ Cleared(name[t], j, rest) /\ order[j] # name[t]
        /\ j \in 1..Len(order) /\ order[j] \in Names
    BY <1>4, <1>3 DEF Pauses, Walks
  <2>1. /\ pc' \in [Actors -> Places] /\ pc'[t] = place
        /\ \A b \in Actors \ {t} :
             \/ pc'[b] = pc[b]
             \/ pc[b] = "notice" /\ pc'[b] = "woken"
        /\ wanted' \in [Names -> BOOLEAN]
    <3>1. CASE place = "probe"
      BY <3>1, <1>4, <1>3, <1>1 DEF Pauses, TypeOK, Places
    <3>2. CASE place = "letgo"
      <4>1. /\ wanted' = [wanted EXCEPT ![order[j]] = TRUE]
            /\ pc' = [a \in Actors |->
                        IF a = t THEN "letgo" ELSE
                        IF pc[a] = "notice" /\ name[a] = order[j] THEN "woken" ELSE pc[a]]
        BY <3>2, <1>4 DEF Pauses
      <4>2. \A a \in Actors : pc[a] \in Places
        BY <1>3 DEF TypeOK
      <4>3. wanted' \in [Names -> BOOLEAN]
        BY <4>1, <1>3 DEF TypeOK
      <4> QED BY <4>1, <4>2, <4>3, <3>2, <1>1 DEF Places
    <3> QED BY <3>1, <3>2
  <2>2. TypeOK'
    BY <2>0, <2>1, <1>3 DEF TypeOK, Walks
  <2>3. PlaceInv'
    BY <2>1, <1>1, <1>3 DEF PlaceInv, Actors
  <2>4. LockInv'
    BY <2>0, <2>1, <1>2 DEF LockInv, Critical
  <2>5. NameInv'
    BY <2>0, <2>1, <1>3, ZenonT(40) DEF NameInv, Known, Actors
  <2>6. WalkInv'
    <3> SUFFICES ASSUME NEW u \in Tasks
                 PROVE  /\ pc'[u] \in {"probe", "kill", "letgo"} =>
                             /\ walk'.at \in 1..walk'.size
                             /\ walk'.size <= Len(order')
                             /\ Visited' # name'[u]
                             /\ Cleared(name[u], walk.at, leased)'
                        /\ pc'[u] \in {"probe", "kill"} => Kind[Visited'] = "container"
                        /\ pc'[u] \in {"kill", "letgo"} => Outranks(name'[u], Visited')
                        /\ pc'[u] = "letgo" => Cooperative(Visited')
                        /\ pc'[u] = "settle" => OnlyFor(name[u], leased)'
      BY DEF WalkInv, Outranks, Cooperative
    <3>1. CASE u # t
      BY <3>1, <2>1, <1>2 DEF Critical, Actors
    <3>2. CASE u = t
      <4>1. Visited' = order[j]
        BY <2>0 DEF Visited
      <4>2. Cleared(name[u], walk.at, leased)'
        BY <2>0, <3>2 DEF Cleared
      <4>3. place = "probe" => Kind[order[j]] = "container"
        BY <1>4 DEF Pauses
      <4>4. place = "letgo" => Cooperative(order[j]) /\ Outranks(name[t], order[j])
        BY <1>4 DEF Pauses
      <4> QED BY <3>2, <4>1, <4>2, <4>3, <4>4, <2>0, <2>1
    <3> QED BY <3>1, <3>2
  <2>7. ExclusiveLease' /\ LetGoMeansGone'
    BY <2>0, <1>3 DEF ExclusiveLease, LetGoMeansGone
  <2>8. WantedInv'
    <3>1. CASE place = "probe"
      <4>1. wanted' = wanted
        BY <3>1, <1>4 DEF Pauses
      <4> QED BY <4>1, <2>0, <2>1, <1>3, <3>1 DEF WantedInv, WantedIsHeard, Actors, Cooperative
    <3>2. CASE place = "letgo"
      <4>1. /\ wanted' = [wanted EXCEPT ![order[j]] = TRUE]
            /\ Cooperative(order[j]) /\ rest[order[j]]
            /\ \A u \in Tasks : pc'[u] = "notice" => pc[u] = "notice" /\ name[u] # order[j]
        BY <3>2, <1>4 DEF Pauses, Actors
      <4> QED BY <4>1, <2>0, <1>3 DEF WantedInv, WantedIsHeard, TypeOK, Cooperative
    <3> QED BY <3>1, <3>2
  <2> QED BY <2>2, <2>3, <2>4, <2>5, <2>6, <2>7, <2>8 DEF IInv
<1>5. CASE StartsSettling(t, rest)
  <2>0. /\ leased' = rest /\ walk' \in Walks /\ pc' = [pc EXCEPT ![t] = "settle"]
        /\ UNCHANGED <<wanted, letGo, stale, holder, queue, name, answer>>
        /\ OnlyFor(name[t], rest)
    BY <1>5 DEF StartsSettling
  <2>1. pc' \in [Actors -> Places] /\ pc'[t] = "settle"
        /\ \A b \in Actors \ {t} : pc'[b] = pc[b]
    BY <2>0, <1>3, <1>1 DEF TypeOK, Places
  <2>2. TypeOK'
    BY <2>0, <2>1, <1>3 DEF TypeOK, Walks
  <2>3. PlaceInv' /\ LockInv' /\ NameInv'
    BY <2>0, <2>1, <1>1, <1>2, <1>3 DEF PlaceInv, LockInv, NameInv, Known, Actors, Critical
  <2>4. WalkInv'
    BY <2>0, <2>1, <1>2 DEF WalkInv, OnlyFor, Actors, Critical
  <2>5. ExclusiveLease' /\ LetGoMeansGone'
    BY <2>0, <1>3 DEF ExclusiveLease, LetGoMeansGone
  <2>6. WantedInv'
    BY <2>0, <2>1, <1>3 DEF WantedInv, WantedIsHeard, Actors, Cooperative
  <2> QED BY <2>2, <2>3, <2>4, <2>5, <2>6 DEF IInv
<1>7. CASE Refuses(t, rest)
  <2>1. ExclusiveLease' /\ LetGoMeansGone'
    BY <1>7, <1>3 DEF Refuses, ExclusiveLease, LetGoMeansGone
  <2>2. /\ Unlock /\ Reply(t, "refused") /\ leased' = rest
        /\ UNCHANGED <<wanted, letGo, stale, holder>>
    BY <1>7 DEF Refuses
  <2>3. \A n \in Names : leased'[n] => n \in Known
    BY <2>2, <1>3 DEF NameInv
  <2>4. \A n \in Names : wanted'[n] => wanted[n] /\ leased'[n]
    BY <2>2, <1>3 DEF WantedInv, WantedIsHeard
  <2> QED BY LeaveKeepsInv, <2>1, <2>2, <2>3, <2>4, <1>3 DEF TypeOK, Answers
<1>8. CASE Grants(t, rest)
  <2>1. /\ Unlock /\ Reply(t, "granted") /\ OnlyFor(name[t], rest)
        /\ leased' = [rest EXCEPT ![name[t]] = TRUE]
        /\ wanted' = [wanted EXCEPT ![name[t]] = FALSE]
        /\ letGo' = [letGo EXCEPT ![name[t]] = FALSE]
        /\ stale' = [stale EXCEPT ![name[t]] = FALSE]
        /\ holder' = name[t]
    BY <1>8 DEF Grants, Grant
  <2>2. ExclusiveLease'
    BY <2>1 DEF ExclusiveLease, OnlyFor
  <2>3. LetGoMeansGone'
    BY <2>1, <1>3 DEF LetGoMeansGone, TypeOK
  <2>4. name[t] \in Known
    BY <1>3 DEF NameInv
  <2>5. \A n \in Names : leased'[n] => n \in Known
    BY <2>1, <2>4, <1>3 DEF NameInv
  <2>6. \A n \in Names : wanted'[n] => wanted[n] /\ leased'[n]
    BY <2>1, <1>3 DEF WantedInv, WantedIsHeard, TypeOK
  <2> QED BY LeaveKeepsInv, <2>1, <2>2, <2>3, <2>5, <2>6, <1>3 DEF TypeOK, Answers
<1> QED BY <1>4, <1>5, <1>7, <1>8 DEF Outcome

-----------------------------------------------------------------------------
(* The steps of the task that owns the lock.                               *)

LEMMA GiveUpKeepsInv ==
  ASSUME IInv, NEW t \in Tasks, queue # <<>>, Head(queue) = t,
         NEW x \in Answers, GiveUp(t, x), UNCHANGED <<up, order, todo>>
  PROVE  IInv'
<1>1. Unlock /\ Reply(t, x) /\ UNCHANGED <<leased, wanted, letGo, stale, holder>>
  BY DEF GiveUp, leaseVars
<1>2. /\ TypeOK /\ ExclusiveLease /\ LetGoMeansGone
      /\ \A n \in Names : leased[n] => n \in Known
      /\ \A n \in Names : wanted[n] => leased[n]
  BY DEF IInv, NameInv, WantedInv, WantedIsHeard
<1>3. ExclusiveLease' /\ LetGoMeansGone'
  BY <1>1, <1>2 DEF ExclusiveLease, LetGoMeansGone
<1> QED BY <1>1, <1>2, <1>3, LeaveKeepsInv DEF TypeOK

LEMMA WalkKeepsInv ==
  ASSUME IInv, NEW t \in Tasks, queue # <<>>, Head(queue) = t, pc[t] # "idle",
         NEW w \in Walks, w.at \in 1..(Len(order) + 1), w.size = Len(order),
         NEW held \in [Names -> BOOLEAN], Cleared(name[t], w.at, held),
         \A n \in Names : held[n] => leased[n],
         \A n \in Names : leased[n] /\ ~held[n] => ~wanted[n],
         WalkFrom(t, w, held), UNCHANGED <<up, order, todo>>
  PROVE  IInv'
<1>1. TypeOK /\ name[t] \in Names /\ \A n \in Names : held[n] => n \in Known
  BY DEF IInv, NameInv, Known, TypeOK
<1>2. PICK rest \in [Names -> BOOLEAN] :
        Kept(name[t], held, rest) /\ Outcome(t, w, held, rest)
  BY <1>1, WalkFromOutcome
<1>3. \A n \in Names : rest[n] => leased[n]
  BY <1>2 DEF Kept
<1>4. \A n \in Names : leased[n] /\ ~rest[n] => ~wanted[n]
  BY <1>2 DEF Kept, IInv, WantedInv, Cooperative
<1> QED BY <1>1, <1>2, <1>3, <1>4, OutcomeKeepsInv

LEMMA ResumeKeepsInv ==
  ASSUME IInv, NEW t \in Tasks, queue # <<>>, Head(queue) = t,
         pc[t] \in {"probe", "kill", "letgo"},
         NEW w \in Walks, w.at = walk.at, w.size = walk.size,
         NEW held \in [Names -> BOOLEAN],
         \A n \in Names : held[n] => leased[n],
         \A n \in Names : leased[n] /\ ~held[n] => ~wanted[n],
         Kind[Visited] = "container" \/ ~held[Visited],
         Resume(t, w, held), UNCHANGED <<up, order, todo>>
  PROVE  IInv'
<1>1. /\ walk.at \in 1..walk.size /\ walk.size <= Len(order)
      /\ Cleared(name[t], walk.at, leased)
      /\ TypeOK /\ order \in Seq(Names) /\ walk.at \in Nat /\ walk.size \in Nat
      /\ \A m \in 1..Len(order) : order[m] \in Names
  BY DEF IInv, WalkInv, TypeOK
<1>2. CASE Len(order) # w.size
  <2>1. /\ leased' = held /\ Reply(t, "error") /\ Unlock
        /\ UNCHANGED <<wanted, letGo, stale, holder>>
    BY <1>2 DEF Resume
  <2>2. /\ \A n \in Names : leased[n] => n \in Known
        /\ \A n \in Names : wanted[n] => leased[n]
        /\ ExclusiveLease /\ LetGoMeansGone
    BY DEF IInv, NameInv, WantedInv, WantedIsHeard
  <2>3. ExclusiveLease' /\ LetGoMeansGone'
    BY <2>1, <2>2 DEF ExclusiveLease, LetGoMeansGone
  <2> QED BY <2>1, <2>2, <2>3, <1>1, LeaveKeepsInv DEF TypeOK, Answers
<1>3. CASE Len(order) = w.size
  <2> DEFINE v == [w EXCEPT !.at = @ + 1]
  <2>1. /\ v \in Walks /\ v.at = walk.at + 1 /\ v.size = Len(order)
        /\ v.at \in 1..(Len(order) + 1)
    BY <1>1, <1>3 DEF Walks
  <2>2. WalkFrom(t, v, held)
    BY <1>3 DEF Resume
  <2>3. Cleared(name[t], v.at, held)
    <3> SUFFICES ASSUME NEW m \in 1..walk.at, held[order[m]],
                        Kind[order[m]] # "container"
                 PROVE  order[m] = name[t]
      BY <2>1, <1>1 DEF Cleared
    <3>1. order[m] \in Names /\ m # walk.at
      BY <1>1 DEF Visited
    <3> QED BY <3>1, <1>1 DEF Cleared
  <2> HIDE DEF v
  <2> QED BY <2>1, <2>2, <2>3, <1>3, WalkKeepsInv
<1> QED BY <1>2, <1>3

LEMMA OwnerStepKeepsInv ==
  ASSUME IInv, NEW t \in Tasks,
         \/ AcquireEntered(t) \/ OwnProbed(t) \/ Probed(t) \/ KillEnded(t)
         \/ HolderLetGo(t) \/ HolderTimedOut(t) \/ Settled(t)
  PROVE  IInv'
<1>1. /\ queue # <<>> /\ Head(queue) = t /\ pc[t] # "idle"
      /\ UNCHANGED <<up, order, todo>>
  BY DEF AcquireEntered, OwnProbed, Probed, KillEnded, HolderLetGo, HolderTimedOut,
         Settled, Owns
<1>2. /\ TypeOK /\ name[t] \in Known /\ name[t] \in Names /\ Len(order) \in Nat
      /\ leased \in [Names -> BOOLEAN] /\ walk \in Walks
      /\ \A m \in 1..Len(order) : order[m] \in Names
  <2>1. TypeOK /\ order \in Seq(Names) /\ leased \in [Names -> BOOLEAN] /\ walk \in Walks
    BY DEF IInv, TypeOK, Walks
  <2>2. Len(order) \in Nat /\ \A m \in 1..Len(order) : order[m] \in Names
    BY <2>1
  <2>3. name[t] \in Known
    BY <1>1 DEF IInv, NameInv
  <2>4. name[t] \in Names
    BY <2>2, <2>3 DEF Known
  <2> QED BY <2>1, <2>2, <2>3, <2>4
<1>3. ASSUME NEW x \in Answers, GiveUp(t, x) PROVE IInv'
  BY <1>1, <1>3, GiveUpKeepsInv
<1>4. ASSUME WalkFrom(t, FirstStep, leased) PROVE IInv'
  <2>1. /\ FirstStep \in Walks /\ FirstStep.at = 1 /\ FirstStep.size = Len(order)
        /\ Cleared(name[t], FirstStep.at, leased)
    BY <1>2 DEF FirstStep, Walks, Cleared
  <2> HIDE DEF FirstStep
  <2> QED BY <1>1, <1>2, <1>4, <2>1, WalkKeepsInv
<1>5. ASSUME NEW p \in {"own", "kill"}, Owns(t, IF p = "own" THEN "lock" ELSE "probe"),
             p = "kill" => Outranks(name[t], Visited),
             pc' = [pc EXCEPT ![t] = p],
             UNCHANGED <<leaseVars, holder, queue, walk, name, answer>>
      PROVE  IInv'
  <2>1. /\ t \in Actors /\ t # Reaper
        /\ \A b \in Actors \ {t} : pc[b] \notin Critical
    BY <1>1, OwnerAlone, ArbiterAssumption DEF Actors
  <2>2. /\ pc' \in [Actors -> Places] /\ pc'[t] = p
        /\ \A b \in Actors \ {t} : pc'[b] = pc[b]
    BY <1>5, <1>2, <2>1 DEF TypeOK, Places
  <2>3. UNCHANGED <<leased, wanted, letGo, stale, holder, queue, walk, name, answer>>
    BY <1>5 DEF leaseVars
  <2>4. TypeOK' /\ PlaceInv' /\ LockInv' /\ NameInv'
    BY <1>1, <2>1, <2>2, <2>3 DEF IInv, TypeOK, PlaceInv, LockInv, NameInv, Known, Actors, Critical
  <2>5. WalkInv'
    <3>1. p = "kill" => pc[t] = "probe"
      BY <1>5 DEF Owns
    <3>2. WalkInv /\ UNCHANGED <<order, leased, walk, name>>
      BY <1>1, <2>3 DEF IInv
    <3>3. \A u \in Tasks \ {t} : pc'[u] \notin Critical
      BY <2>1, <2>2 DEF Actors
    <3>4. UNCHANGED Visited
      BY <3>2 DEF Visited
    <3>5. ASSUME NEW u \in Tasks \ {t}
          PROVE  pc'[u] \notin {"probe", "kill", "letgo", "settle"}
      BY <3>3 DEF Critical
    <3>6. pc'[t] \notin {"probe", "letgo", "settle"}
      BY <2>2
    <3>7. pc'[t] = "kill" =>
            /\ pc[t] = "probe" /\ Outranks(name[t], Visited)
            /\ walk.at \in 1..walk.size /\ walk.size <= Len(order)
            /\ Visited # name[t] /\ Cleared(name[t], walk.at, leased)
            /\ Kind[Visited] = "container"
      BY <1>5, <2>2, <3>1, <3>2 DEF WalkInv
    <3>8. pc'[t] = "kill" => Outranks(name'[t], Visited') /\ Cleared(name[t], walk.at, leased)'
      BY <3>2, <3>4, <3>7 DEF Outranks, Cleared
    <3> QED BY <3>2, <3>4, <3>5, <3>6, <3>7, <3>8 DEF WalkInv
  <2>6. ExclusiveLease' /\ LetGoMeansGone' /\ WantedInv'
    BY <2>2, <2>3 DEF IInv, ExclusiveLease, LetGoMeansGone, WantedInv, WantedIsHeard,
                      Cooperative, Actors
  <2> QED BY <2>4, <2>5, <2>6 DEF IInv
<1>6. CASE AcquireEntered(t)
  BY <1>6, <1>3, <1>4, <1>5 DEF AcquireEntered, Answers
<1>7. CASE OwnProbed(t)
  BY <1>7, <1>3, <1>4 DEF OwnProbed, Answers
<1>8. ASSUME NEW place \in {"probe", "kill", "letgo"}, pc[t] = place
      PROVE  /\ Visited \in Names /\ WalkInv
             /\ place # "letgo" => Kind[Visited] = "container"
             /\ place = "kill" => Outranks(name[t], Visited)
  <2>1. WalkInv /\ walk.at \in Nat /\ walk.size \in Nat
    BY <1>2 DEF IInv, Walks
  <2>2. walk.at \in 1..walk.size /\ walk.size <= Len(order)
    BY <1>8, <2>1 DEF WalkInv
  <2>3. Visited \in Names
    BY <2>1, <2>2, <1>2 DEF Visited
  <2> QED BY <1>8, <2>1, <2>3 DEF WalkInv
<1>9. CASE Probed(t)
  <2>1. pc[t] = "probe" /\ Kind[Visited] = "container"
    BY <1>8, <1>9 DEF Probed, Owns
  <2>2. ASSUME Resume(t, walk, leased) PROVE IInv'
    BY <1>1, <1>2, <2>1, <2>2, ResumeKeepsInv
  <2> QED BY <1>9, <1>3, <1>5, <2>2 DEF Probed, Answers
<1>10. ASSUME NEW place \in {"kill", "letgo"}, pc[t] = place, ~wanted[Visited],
              Resume(t, [walk EXCEPT !.stopped = TRUE], [leased EXCEPT ![Visited] = FALSE])
       PROVE  IInv'
  <2> DEFINE v == [walk EXCEPT !.stopped = TRUE]
             h == [leased EXCEPT ![Visited] = FALSE]
  <2>1. v \in Walks /\ v.at = walk.at /\ v.size = walk.size
    BY <1>2 DEF Walks
  <2>2. /\ h \in [Names -> BOOLEAN] /\ ~h[Visited]
        /\ \A n \in Names : h[n] => leased[n]
        /\ \A n \in Names : leased[n] /\ ~h[n] => ~wanted[n]
    BY <1>2, <1>8, <1>10
  <2>3. Resume(t, v, h)
    BY <1>10
  <2> HIDE DEF v, h
  <2> QED BY <1>1, <1>10, <2>1, <2>2, <2>3, ResumeKeepsInv
<1>11. CASE KillEnded(t)
  <2>1. pc[t] = "kill" /\ ~wanted[Visited]
    BY <1>8, <1>11 DEF KillEnded, Owns, IInv, WantedInv, Cooperative
  <2> QED BY <1>11, <1>3, <1>10, <2>1 DEF KillEnded, Answers
<1>12. CASE HolderLetGo(t)
  <2>1. pc[t] = "letgo" /\ ~wanted[Visited]
    BY <1>8, <1>12 DEF HolderLetGo, Owns, IInv, WantedInv, WantedIsHeard, LetGoMeansGone
  <2> QED BY <1>12, <1>10, <2>1 DEF HolderLetGo
<1>13. CASE HolderTimedOut(t)
  BY <1>13, <1>3 DEF HolderTimedOut, Answers
<1>14. CASE Settled(t)
  <2>1. OnlyFor(name[t], leased)
    BY <1>14 DEF Settled, Owns, IInv, WalkInv
  <2>2. ASSUME Admit(t, leased) PROVE IInv'
    <3> DEFINE v == [at |-> 1, size |-> Len(order), stopped |-> TRUE]
    <3>1. v \in Walks /\ v.at >= 1 /\ v.size = Len(order)
      BY <1>2 DEF Walks
    <3>2. Outcome(t, v, leased, leased)
      BY <2>1, <2>2 DEF Admit, Outcome, Grants, Refuses
    <3> HIDE DEF v
    <3> QED BY <1>1, <1>2, <3>1, <3>2, OutcomeKeepsInv
  <2> QED BY <1>14, <1>3, <2>2 DEF Settled, Answers
<1> QED BY <1>6, <1>7, <1>9, <1>11, <1>12, <1>13, <1>14

-----------------------------------------------------------------------------
(* Every other step: leases may go, names may be registered at the end,    *)
(* and no task enters or leaves the part of acquire that runs under the    *)
(* lock, or nobody is in it any more.                                      *)
LEMMA QuietKeepsInv ==
  ASSUME IInv, TypeOK', LockInv',
         pc'[Reaper] \in {"idle", "lock", "sweep", "census"},
         \A u \in Tasks :
           \/ pc'[u] = pc[u] /\ name'[u] = name[u]
           \/ pc'[u] = "idle"
           \/ /\ pc'[u] \in {"lock", "unlease", "notice"}
              /\ name'[u] \in Known'
              /\ pc'[u] = "notice" => ~wanted'[name'[u]],
         \A n \in Names : leased'[n] => leased[n],
         \A n \in Names : wanted'[n] => wanted[n] /\ leased'[n],
         LetGoMeansGone',
         Len(order) <= Len(order'),
         \A i \in 1..Len(order) : order'[i] = order[i],
         walk' = walk \/ \A u \in Tasks : pc'[u] \notin Critical
  PROVE  IInv'
<1>1. /\ TypeOK /\ PlaceInv /\ NameInv /\ WalkInv /\ ExclusiveLease /\ WantedInv
      /\ Len(order) \in Nat /\ Len(order') \in Nat
      /\ \A m \in 1..Len(order) : order[m] \in Names
  BY DEF IInv, TypeOK
<1>2. \A n : n \in Known => n \in Known'
  BY <1>1 DEF Known
<1>3. PlaceInv' /\ ExclusiveLease'
  BY <1>1 DEF PlaceInv, ExclusiveLease
<1>4. NameInv'
  BY <1>1, <1>2 DEF NameInv
<1>5. WantedInv'
  <2>1. \A k \in Names : wanted'[k] => Cooperative(k)
    BY <1>1 DEF WantedInv
  <2>2. WantedIsHeard'
    <3> SUFFICES ASSUME NEW k \in Names, wanted'[k], NEW u \in Tasks,
                        pc'[u] = "notice", name'[u] = k
                 PROVE  FALSE
      BY DEF WantedIsHeard
    <3>1. pc[u] = "notice" /\ name[u] = k /\ wanted[k]
      OBVIOUS
    <3> QED BY <3>1, <1>1 DEF WantedInv, WantedIsHeard
  <2> QED BY <2>1, <2>2 DEF WantedInv, Cooperative
<1>6. WalkInv'
  <2> SUFFICES ASSUME NEW u \in Tasks, pc'[u] \in Critical
               PROVE  /\ pc'[u] \in {"probe", "kill", "letgo"} =>
                           /\ walk'.at \in 1..walk'.size
                           /\ walk'.size <= Len(order')
                           /\ Visited' # name'[u]
                           /\ Cleared(name[u], walk.at, leased)'
                      /\ pc'[u] \in {"probe", "kill"} => Kind[Visited'] = "container"
                      /\ pc'[u] \in {"kill", "letgo"} => Outranks(name'[u], Visited')
                      /\ pc'[u] = "letgo" => Cooperative(Visited')
                      /\ pc'[u] = "settle" => OnlyFor(name[u], leased)'
    BY DEF WalkInv, Outranks, Cooperative, Critical
  <2>1. pc'[u] = pc[u] /\ name'[u] = name[u] /\ walk' = walk
    BY DEF Critical
  <2>2. walk.at \in Nat /\ walk.size \in Nat
    BY <1>1 DEF TypeOK
  <2>3. CASE pc[u] \in {"probe", "kill", "letgo"}
    <3>1. /\ walk.at \in 1..walk.size /\ walk.size <= Len(order)
          /\ Visited # name[u] /\ Cleared(name[u], walk.at, leased)
      BY <2>3, <1>1 DEF WalkInv
    <3>2. Visited' = Visited
      BY <2>1, <2>2, <3>1, <1>1 DEF Visited
    <3>3. Cleared(name[u], walk.at, leased)'
      <4> SUFFICES ASSUME NEW m \in 1..(walk.at - 1), leased'[order'[m]],
                          Kind[order'[m]] # "container"
                   PROVE  order'[m] = name[u]
        BY <2>1 DEF Cleared
      <4>1. m \in 1..Len(order)
        BY <2>2, <3>1, <1>1
      <4>2. order'[m] = order[m] /\ order[m] \in Names
        BY <4>1, <1>1
      <4>3. leased[order[m]]
        BY <4>2
      <4> QED BY <3>1, <4>2, <4>3 DEF Cleared
    <3>4. walk.size <= Len(order')
      BY <2>2, <3>1, <1>1
    <3>5. /\ pc[u] \in {"probe", "kill"} => Kind[Visited] = "container"
          /\ pc[u] \in {"kill", "letgo"} => Outranks(name[u], Visited)
          /\ pc[u] = "letgo" => Cooperative(Visited)
      BY <1>1 DEF WalkInv
    <3> QED BY <2>1, <2>3, <3>1, <3>2, <3>3, <3>4, <3>5
  <2>4. CASE pc[u] = "settle"
    <3>1. OnlyFor(name[u], leased)
      BY <2>4, <1>1 DEF WalkInv
    <3>2. OnlyFor(name[u], leased)'
      BY <2>1, <3>1 DEF OnlyFor
    <3> QED BY <2>1, <2>4, <3>2
  <2> QED BY <2>1, <2>3, <2>4
<1> QED BY <1>3, <1>4, <1>5, <1>6 DEF IInv

\* Who waits at the end of a queue does not change who is at its head.
LEMMA AppendKeepsHead ==
  ASSUME NEW S, NEW q \in Seq(S), NEW x \in S
  PROVE  /\ Append(q, x) \in Seq(S) /\ Append(q, x) # <<>>
         /\ q # <<>> => Head(Append(q, x)) = Head(q)
<1>1. Append(q, x) \in Seq(S) /\ Len(Append(q, x)) = Len(q) + 1 /\ Len(q) \in Nat
  OBVIOUS
<1>2. Append(q, x) # <<>>
  BY <1>1
<1>3. ASSUME q # <<>> PROVE Head(Append(q, x)) = Head(q)
  <2>1. 1 \in 1..Len(q)
    BY <1>1, <1>3
  <2>2. Append(q, x)[1] = q[1]
    BY <2>1
  <2> QED BY <2>2, <1>1, <1>2, <1>3
<1> QED BY <1>1, <1>2, <1>3

\* Registering a name appends it, or finds it in the table.
LEMMA RegisteredFacts ==
  ASSUME TypeOK, NEW n \in Names, order' = Registered(n)
  PROVE  /\ order' \in Seq(Names) /\ Len(order) <= Len(order')
         /\ \A i \in 1..Len(order) : order'[i] = order[i]
         /\ n \in Known'
<1>1. order \in Seq(Names) /\ Len(order) \in Nat
  BY DEF TypeOK
<1>2. CASE n \in Known
  BY <1>1, <1>2 DEF Registered, Known
<1>3. CASE n \notin Known
  <2>1. order' = Append(order, n)
    BY <1>3 DEF Registered
  <2>2. order' \in Seq(Names) /\ Len(order') = Len(order) + 1 /\ order'[Len(order')] = n
    BY <2>1, <1>1
  <2> QED BY <1>1, <2>1, <2>2 DEF Known
<1> QED BY <1>2, <1>3

\* A task outside the lock that answers stays outside it.
LEMMA ReplyKeepsLock ==
  ASSUME IInv, NEW t \in Tasks, NEW x \in Answers, Reply(t, x),
         UNCHANGED queue
  PROVE  LockInv' /\ pc'[Reaper] \in {"idle", "lock", "sweep", "census"}
<1>1. TypeOK /\ LockInv /\ PlaceInv /\ t # Reaper
  BY ArbiterAssumption DEF IInv
<1>2. pc'[t] = "idle" /\ \A a \in Actors \ {t} : pc'[a] = pc[a]
  BY <1>1, ReplyTyped
<1> QED BY <1>1, <1>2 DEF LockInv, PlaceInv, Critical, Actors

\* The same for a task that only moves to another place outside the lock.
LEMMA MoveKeepsLock ==
  ASSUME IInv, NEW t \in Tasks, NEW p \in {"lock", "unlease", "notice"},
         pc' = [pc EXCEPT ![t] = p],
         queue' = queue \/ queue' = Append(queue, t)
  PROVE  /\ LockInv' /\ pc'[Reaper] \in {"idle", "lock", "sweep", "census"}
         /\ pc' \in [Actors -> Places] /\ queue' \in Seq(Actors)
         /\ pc'[t] = p /\ \A a \in Actors \ {t} : pc'[a] = pc[a]
<1>1. TypeOK /\ LockInv /\ PlaceInv /\ t # Reaper /\ t \in Actors /\ Reaper \in Actors
  BY ArbiterAssumption DEF IInv, Actors
<1>2. /\ pc' \in [Actors -> Places] /\ pc'[t] = p
      /\ \A a \in Actors \ {t} : pc'[a] = pc[a]
  BY <1>1 DEF TypeOK, Places
<1>3. queue' \in Seq(Actors) /\ (queue # <<>> => queue' # <<>> /\ Head(queue') = Head(queue))
  <2>1. queue \in Seq(Actors)
    BY <1>1 DEF TypeOK
  <2>2. CASE queue' = queue
    BY <2>1, <2>2
  <2>3. CASE queue' = Append(queue, t)
    BY <1>1, <2>1, <2>3, AppendKeepsHead
  <2> QED BY <2>2, <2>3
<1> QED BY <1>1, <1>2, <1>3 DEF LockInv, PlaceInv, Critical

\* Dropping a lease keeps the lease table in order.
LEMMA ForgetFacts ==
  ASSUME IInv, NEW k \in Names, Forget(k)
  PROVE  /\ leased' \in [Names -> BOOLEAN] /\ wanted' \in [Names -> BOOLEAN]
         /\ letGo' \in [Names -> BOOLEAN]
         /\ \A n \in Names : leased'[n] => leased[n]
         /\ \A n \in Names : wanted'[n] => wanted[n] /\ leased'[n]
         /\ LetGoMeansGone'
BY DEF IInv, TypeOK, Forget, Cooperative, LetGoMeansGone, WantedInv, WantedIsHeard

-----------------------------------------------------------------------------
(* The calls that take no lock, and the wait for it.                       *)

LEMMA CallKeepsInv ==
  ASSUME IInv, NEW t \in Tasks, NEW n \in Names,
         \/ AcquireCalled(t, n) \/ ReleaseCalled(t, n) \/ ReleaseProbed(t)
         \/ NoticeCalled(t, n) \/ NoticeEnded(t)
  PROVE  IInv'
<1>1. /\ TypeOK /\ LetGoMeansGone
      /\ \A m \in Names : wanted[m] => leased[m]
      /\ \A u \in Tasks : pc[u] # "idle" => name[u] \in Known
      /\ \A m \in Known : m \in Names
      /\ Len(order) \in Nat /\ t \in Actors /\ Tasks \subseteq Actors
  BY DEF IInv, WantedInv, WantedIsHeard, NameInv, Known, TypeOK, Actors
<1>2. ASSUME order' = order
      PROVE  /\ Len(order) <= Len(order') /\ \A i \in 1..Len(order) : order'[i] = order[i]
             /\ Known' = Known
  BY <1>1, <1>2 DEF Known
<1>3. ASSUME NEW x \in Answers, Reply(t, x), UNCHANGED queue
      PROVE  /\ LockInv' /\ pc'[Reaper] \in {"idle", "lock", "sweep", "census"}
             /\ pc' \in [Actors -> Places] /\ name' \in [Tasks -> Names \cup {NoOne}]
             /\ answer' \in [Tasks -> Answers]
             /\ \A u \in Tasks : pc'[u] = "idle" \/ (pc'[u] = pc[u] /\ name'[u] = name[u])
  BY <1>1, <1>3, ReplyTyped, ReplyKeepsLock
<1>4. ASSUME NEW p \in {"lock", "unlease", "notice"}, pc' = [pc EXCEPT ![t] = p],
             queue' = queue \/ queue' = Append(queue, t),
             name' = [name EXCEPT ![t] = n], answer' = [answer EXCEPT ![t] = "none"]
      PROVE  /\ LockInv' /\ pc'[Reaper] \in {"idle", "lock", "sweep", "census"}
             /\ pc' \in [Actors -> Places] /\ queue' \in Seq(Actors)
             /\ name' \in [Tasks -> Names \cup {NoOne}] /\ answer' \in [Tasks -> Answers]
             /\ \A u \in Tasks : \/ pc'[u] = pc[u] /\ name'[u] = name[u]
                                 \/ pc'[u] = p /\ name'[u] = n
  <2>1. /\ LockInv' /\ pc'[Reaper] \in {"idle", "lock", "sweep", "census"}
        /\ pc' \in [Actors -> Places] /\ queue' \in Seq(Actors)
        /\ pc'[t] = p /\ \A a \in Actors \ {t} : pc'[a] = pc[a]
    BY <1>4, MoveKeepsLock
  <2>2. /\ name' \in [Tasks -> Names \cup {NoOne}] /\ answer' \in [Tasks -> Answers]
        /\ name'[t] = n /\ \A u \in Tasks \ {t} : name'[u] = name[u]
    BY <1>1, <1>4 DEF TypeOK, Answers
  <2> QED BY <1>1, <2>1, <2>2
<1>5. CASE AcquireCalled(t, n)
  <2>1. /\ pc' = [pc EXCEPT ![t] = "lock"] /\ queue' = Append(queue, t)
        /\ name' = [name EXCEPT ![t] = n] /\ answer' = [answer EXCEPT ![t] = "none"]
        /\ order' = Registered(n)
        /\ UNCHANGED <<leased, wanted, letGo, stale, up, holder, walk, todo>>
    BY <1>5 DEF AcquireCalled, leaseVars
  <2>2. /\ order' \in Seq(Names) /\ Len(order) <= Len(order')
        /\ \A i \in 1..Len(order) : order'[i] = order[i]
        /\ n \in Known'
    BY <1>1, <2>1, RegisteredFacts
  <2>3. /\ LockInv' /\ pc'[Reaper] \in {"idle", "lock", "sweep", "census"}
        /\ pc' \in [Actors -> Places] /\ queue' \in Seq(Actors)
        /\ name' \in [Tasks -> Names \cup {NoOne}] /\ answer' \in [Tasks -> Answers]
        /\ \A u \in Tasks : \/ pc'[u] = pc[u] /\ name'[u] = name[u]
                            \/ pc'[u] = "lock" /\ name'[u] = n
    BY <1>4, <2>1
  <2>4. TypeOK' /\ LetGoMeansGone'
    BY <1>1, <2>1, <2>2, <2>3 DEF TypeOK, LetGoMeansGone
  <2> QED BY <1>1, <2>1, <2>2, <2>3, <2>4, QuietKeepsInv
<1>6. ASSUME NEW k \in Names, Forget(k), Reply(t, "released"),
             holder' = IF holder = k THEN NoOne ELSE holder,
             order' \in Seq(Names), Len(order) <= Len(order'),
             \A i \in 1..Len(order) : order'[i] = order[i],
             UNCHANGED <<stale, up, queue, walk, todo>>
      PROVE  IInv'
  <2>1. /\ leased' \in [Names -> BOOLEAN] /\ wanted' \in [Names -> BOOLEAN]
        /\ letGo' \in [Names -> BOOLEAN]
        /\ \A m \in Names : leased'[m] => leased[m]
        /\ \A m \in Names : wanted'[m] => wanted[m] /\ leased'[m]
        /\ LetGoMeansGone'
    BY <1>6, ForgetFacts
  <2>2. /\ LockInv' /\ pc'[Reaper] \in {"idle", "lock", "sweep", "census"}
        /\ pc' \in [Actors -> Places] /\ name' \in [Tasks -> Names \cup {NoOne}]
        /\ answer' \in [Tasks -> Answers]
        /\ \A u \in Tasks : pc'[u] = "idle" \/ (pc'[u] = pc[u] /\ name'[u] = name[u])
    BY <1>3, <1>6 DEF Answers
  <2>3. TypeOK'
    BY <1>1, <1>6, <2>1, <2>2 DEF TypeOK
  <2> QED BY <1>6, <2>1, <2>2, <2>3, QuietKeepsInv
<1>7. ASSUME NEW x \in Answers, Reply(t, x),
             stale' \in [Names -> BOOLEAN],
             order' \in Seq(Names), Len(order) <= Len(order'),
             \A i \in 1..Len(order) : order'[i] = order[i],
             UNCHANGED <<leased, wanted, letGo, up, holder, queue, walk, todo>>
      PROVE  IInv'
  <2>2. /\ LockInv' /\ pc'[Reaper] \in {"idle", "lock", "sweep", "census"}
        /\ pc' \in [Actors -> Places] /\ name' \in [Tasks -> Names \cup {NoOne}]
        /\ answer' \in [Tasks -> Answers]
        /\ \A u \in Tasks : pc'[u] = "idle" \/ (pc'[u] = pc[u] /\ name'[u] = name[u])
    BY <1>3, <1>7
  <2>3. TypeOK' /\ LetGoMeansGone'
    BY <1>1, <1>7, <2>2 DEF TypeOK, LetGoMeansGone
  <2> QED BY <1>1, <1>7, <2>2, <2>3, QuietKeepsInv
<1>8. ASSUME NEW p \in {"unlease", "notice"}, pc' = [pc EXCEPT ![t] = p],
             name' = [name EXCEPT ![t] = n], answer' = [answer EXCEPT ![t] = "none"],
             p = "notice" => ~wanted[n], n \in Known',
             stale' \in [Names -> BOOLEAN],
             order' \in Seq(Names), Len(order) <= Len(order'),
             \A i \in 1..Len(order) : order'[i] = order[i],
             UNCHANGED <<leased, wanted, letGo, up, holder, queue, walk, todo>>
      PROVE  IInv'
  <2>2. /\ LockInv' /\ pc'[Reaper] \in {"idle", "lock", "sweep", "census"}
        /\ pc' \in [Actors -> Places] /\ queue' \in Seq(Actors)
        /\ name' \in [Tasks -> Names \cup {NoOne}] /\ answer' \in [Tasks -> Answers]
        /\ \A u \in Tasks : \/ pc'[u] = pc[u] /\ name'[u] = name[u]
                            \/ pc'[u] = p /\ name'[u] = n
    BY <1>4, <1>8
  <2>3. TypeOK' /\ LetGoMeansGone'
    BY <1>1, <1>8, <2>2 DEF TypeOK, LetGoMeansGone
  <2> QED BY <1>1, <1>8, <2>2, <2>3, QuietKeepsInv
<1>9. CASE ReleaseCalled(t, n)
  <2>1. /\ order' \in Seq(Names) /\ Len(order) <= Len(order')
        /\ \A i \in 1..Len(order) : order'[i] = order[i]
        /\ n \in Known'
    BY <1>1, <1>9, RegisteredFacts DEF ReleaseCalled
  <2>2. UNCHANGED <<up, queue, walk, todo>> /\ stale \in [Names -> BOOLEAN]
    BY <1>1, <1>9 DEF ReleaseCalled, lockVars, TypeOK
  <2>3. CASE Reply(t, "released") /\ UNCHANGED <<leaseVars, holder>>
    BY <1>7, <2>1, <2>2, <2>3 DEF leaseVars, Answers
  <2>4. CASE Forget(n) /\ Reply(t, "released") /\ UNCHANGED stale
             /\ holder' = IF holder = n THEN NoOne ELSE holder
    BY <1>6, <2>1, <2>2, <2>4
  <2>5. CASE /\ pc' = [pc EXCEPT ![t] = "unlease"] /\ name' = [name EXCEPT ![t] = n]
             /\ answer' = [answer EXCEPT ![t] = "none"] /\ UNCHANGED <<leaseVars, holder>>
    BY <1>8, <2>1, <2>2, <2>5 DEF leaseVars
  <2> QED BY <1>9, <2>3, <2>4, <2>5 DEF ReleaseCalled
<1>10. CASE ReleaseProbed(t)
  <2>1. /\ UNCHANGED <<up, order, queue, walk, todo>> /\ stale \in [Names -> BOOLEAN]
        /\ order' \in Seq(Names) /\ name[t] \in Names
    BY <1>1, <1>10 DEF ReleaseProbed, lockVars, TypeOK
  <2>2. Len(order) <= Len(order') /\ \A i \in 1..Len(order) : order'[i] = order[i]
    BY <1>2, <2>1
  <2>3. ASSUME NEW x \in Answers, Reply(t, x), UNCHANGED <<leaseVars, holder>> PROVE IInv'
    BY <1>7, <2>1, <2>2, <2>3 DEF leaseVars
  <2>4. CASE Forget(name[t]) /\ Reply(t, "released") /\ UNCHANGED stale
             /\ holder' = IF holder = name[t] THEN NoOne ELSE holder
    BY <1>6, <2>1, <2>2, <2>4
  <2> QED BY <1>10, <2>3, <2>4 DEF ReleaseProbed, Answers
<1>11. CASE NoticeCalled(t, n)
  <2>1. /\ UNCHANGED <<leased, wanted, letGo, up, order, holder, queue, walk, todo>>
        /\ stale' \in [Names -> BOOLEAN] /\ order' \in Seq(Names)
    BY <1>1, <1>11 DEF NoticeCalled, lockVars, TypeOK
  <2>2. /\ Len(order) <= Len(order') /\ \A i \in 1..Len(order) : order'[i] = order[i]
        /\ Known' = Known
    BY <1>2, <2>1
  <2>3. ASSUME NEW x \in Answers, Reply(t, x) PROVE IInv'
    BY <1>7, <2>1, <2>2, <2>3
  <2>4. CASE /\ n \in Known /\ ~wanted[n] /\ pc' = [pc EXCEPT ![t] = "notice"]
             /\ name' = [name EXCEPT ![t] = n] /\ answer' = [answer EXCEPT ![t] = "none"]
    BY <1>8, <2>1, <2>2, <2>4
  <2> QED BY <1>11, <2>3, <2>4 DEF NoticeCalled, Answers
<1>12. CASE NoticeEnded(t)
  <2>1. /\ UNCHANGED <<leased, wanted, letGo, up, order, holder, queue, walk, todo>>
        /\ stale' \in [Names -> BOOLEAN] /\ order' \in Seq(Names)
    BY <1>1, <1>12 DEF NoticeEnded, lockVars, TypeOK
  <2>2. Len(order) <= Len(order') /\ \A i \in 1..Len(order) : order'[i] = order[i]
    BY <1>2, <2>1
  <2> QED BY <1>7, <1>12, <2>1, <2>2 DEF NoticeEnded, Answers
<1> QED BY <1>5, <1>9, <1>10, <1>11, <1>12

-----------------------------------------------------------------------------
(* The reaper.                                                             *)

LEMMA ReaperKeepsInv ==
  ASSUME IInv, ReaperStep
  PROVE  IInv'
<1>1. /\ TypeOK /\ LockInv /\ PlaceInv /\ LetGoMeansGone
      /\ \A m \in Names : wanted[m] => leased[m]
      /\ Known \in SUBSET Names /\ todo \in SUBSET Names
      /\ Len(order) \in Nat /\ order \in Seq(Names)
      /\ Reaper \in Actors /\ Tasks = Actors \ {Reaper}
  BY ArbiterAssumption DEF IInv, WantedInv, WantedIsHeard, Known, TypeOK, Actors
<1>2. UNCHANGED <<up, order, name, answer>>
  BY DEF ReaperStep, ReapDue, ReapEntered, Sweep, Census
<1>3. Len(order) <= Len(order') /\ \A i \in 1..Len(order) : order'[i] = order[i]
  BY <1>1, <1>2
<1>4. ASSUME NEW p \in {"idle", "lock", "sweep", "census"}, pc' = [pc EXCEPT ![Reaper] = p]
      PROVE  /\ pc' \in [Actors -> Places] /\ pc'[Reaper] = p
             /\ \A u \in Tasks : pc'[u] = pc[u]
  BY <1>1, <1>4 DEF TypeOK, Places
<1>5. ASSUME queue # <<>>, Head(queue) = Reaper
      PROVE  \A u \in Tasks : pc[u] \notin Critical
  BY <1>1, <1>5, OwnerAlone
<1>6. CASE ReapDue
  <2>1. /\ pc[Reaper] = "idle" /\ pc' = [pc EXCEPT ![Reaper] = "lock"]
        /\ queue' = Append(queue, Reaper)
        /\ UNCHANGED <<leased, wanted, letGo, stale, holder, walk, todo>>
    BY <1>6 DEF ReapDue, leaseVars
  <2>2. /\ pc' \in [Actors -> Places] /\ pc'[Reaper] = "lock"
        /\ \A u \in Tasks : pc'[u] = pc[u]
    BY <1>4, <2>1
  <2>3. /\ queue' \in Seq(Actors) /\ queue' # <<>>
        /\ queue # <<>> => Head(queue') = Head(queue)
    <3>1. queue \in Seq(Actors)
      BY <1>1 DEF TypeOK
    <3> QED BY <1>1, <2>1, <3>1, AppendKeepsHead
  <2>4. TypeOK' /\ LetGoMeansGone'
    BY <1>1, <1>2, <2>1, <2>2, <2>3 DEF TypeOK, LetGoMeansGone
  <2>5. LockInv'
    BY <1>1, <2>2, <2>3 DEF LockInv, Critical
  <2> QED BY <1>1, <1>2, <1>3, <2>1, <2>2, <2>4, <2>5, QuietKeepsInv
<1>7. ASSUME queue # <<>>, Head(queue) = Reaper,
             pc' \in [Actors -> Places], pc'[Reaper] \in {"sweep", "census"},
             \A u \in Tasks : pc'[u] = pc[u],
             leased' \in [Names -> BOOLEAN], wanted' \in [Names -> BOOLEAN],
             letGo' \in [Names -> BOOLEAN],
             \A n \in Names : leased'[n] => leased[n],
             \A n \in Names : wanted'[n] => wanted[n] /\ leased'[n],
             LetGoMeansGone', todo' \in SUBSET Names,
             UNCHANGED <<stale, holder, queue, walk>>
      PROVE  IInv'
  <2>1. TypeOK'
    BY <1>1, <1>2, <1>7 DEF TypeOK
  <2>2. LockInv'
    BY <1>1, <1>7 DEF LockInv
  <2> QED BY <1>2, <1>3, <1>7, <2>1, <2>2, QuietKeepsInv
<1>8. ASSUME queue # <<>>, Head(queue) = Reaper, ReapEnds,
             holder' \in Names \cup {NoOne}, UNCHANGED leaseVars
      PROVE  IInv'
  <2>1. /\ pc' = [pc EXCEPT ![Reaper] = "idle"] /\ Unlock /\ todo' = {}
        /\ UNCHANGED <<leased, wanted, letGo, stale>>
    BY <1>8 DEF ReapEnds, leaseVars
  <2>2. /\ pc' \in [Actors -> Places] /\ pc'[Reaper] = "idle"
        /\ \A u \in Tasks : pc'[u] = pc[u]
    BY <1>4, <2>1
  <2>3. queue' \in Seq(Actors) /\ walk' \in Walks
    BY <1>1, <1>8, <2>1, UnlockTyped
  <2>4. TypeOK' /\ LetGoMeansGone'
    BY <1>1, <1>2, <1>8, <2>1, <2>2, <2>3 DEF TypeOK, LetGoMeansGone, Walks
  <2>5. \A u \in Tasks : pc'[u] \notin Critical
    BY <1>5, <1>8, <2>2
  <2>6. LockInv'
    BY <1>1, <2>2, <2>5 DEF LockInv, Critical
  <2> QED BY <1>1, <1>2, <1>3, <2>1, <2>2, <2>4, <2>5, <2>6, QuietKeepsInv
<1>9. CASE ReapEntered
  <2>1. /\ queue # <<>> /\ Head(queue) = Reaper /\ pc' = [pc EXCEPT ![Reaper] = "sweep"]
        /\ todo' = Known /\ UNCHANGED <<leased, wanted, letGo, stale, holder, queue, walk>>
    BY <1>9 DEF ReapEntered, Owns, leaseVars
  <2>2. LetGoMeansGone' /\ leased \in [Names -> BOOLEAN] /\ wanted \in [Names -> BOOLEAN]
        /\ letGo \in [Names -> BOOLEAN]
    BY <1>1, <2>1 DEF TypeOK, LetGoMeansGone
  <2>3. /\ pc' \in [Actors -> Places] /\ pc'[Reaper] = "sweep"
        /\ \A u \in Tasks : pc'[u] = pc[u]
    BY <1>4, <2>1
  <2> QED BY <1>1, <1>7, <2>1, <2>2, <2>3
<1>10. ASSUME NEW k, k \in todo PROVE After(k) \in SUBSET Names
  BY <1>1 DEF After
<1>11. CASE Sweep
  <2> DEFINE Suspects == {k \in todo : leased[k] /\ (Kind[k] = "container" \/ SilentTooLong(k))}
  <2>1. /\ queue # <<>> /\ Head(queue) = Reaper /\ pc[Reaper] = "sweep"
        /\ pc \in [Actors -> Places] /\ UNCHANGED holder
    BY <1>1, <1>11 DEF Sweep, Owns, TypeOK
  <2>2. ASSUME UNCHANGED leaseVars
        PROVE  /\ leased' \in [Names -> BOOLEAN] /\ wanted' \in [Names -> BOOLEAN]
               /\ letGo' \in [Names -> BOOLEAN]
               /\ UNCHANGED <<leased, wanted, letGo, stale>> /\ LetGoMeansGone'
    BY <1>1, <2>2 DEF leaseVars, TypeOK, LetGoMeansGone
  <2>3. CASE /\ pc' = [pc EXCEPT ![Reaper] = "census"] /\ todo' = Known
             /\ UNCHANGED <<leaseVars, queue, walk>>
    <3>1. /\ pc' \in [Actors -> Places] /\ pc'[Reaper] = "census"
          /\ \A u \in Tasks : pc'[u] = pc[u]
      BY <1>4, <2>3
    <3> QED BY <1>1, <1>7, <2>1, <2>2, <2>3, <3>1
  <2>4. ASSUME NEW k \in Suspects, Forget(k), todo' = After(k),
               UNCHANGED <<stale, pc, queue, walk>>
        PROVE  IInv'
    <3>1. k \in Names /\ todo' \in SUBSET Names
      BY <1>1, <1>10, <2>4
    <3>2. /\ leased' \in [Names -> BOOLEAN] /\ wanted' \in [Names -> BOOLEAN]
          /\ letGo' \in [Names -> BOOLEAN]
          /\ \A n \in Names : leased'[n] => leased[n]
          /\ \A n \in Names : wanted'[n] => wanted[n] /\ leased'[n]
          /\ LetGoMeansGone'
      BY <2>4, <3>1, ForgetFacts
    <3> QED BY <1>7, <2>1, <2>4, <3>1, <3>2
  <2>5. ASSUME NEW k \in Suspects, todo' = After(k), UNCHANGED <<leaseVars, pc, queue, walk>>
        PROVE  IInv'
    BY <1>1, <1>7, <1>10, <2>1, <2>2, <2>5
  <2>6. CASE ReapEnds /\ UNCHANGED leaseVars
    BY <1>1, <1>8, <2>1, <2>6 DEF TypeOK
  <2> QED BY <1>11, <2>3, <2>4, <2>5, <2>6 DEF Sweep
<1>12. CASE Census
  <2> DEFINE Holding == {k \in todo : leased[k]}
  <2>1. /\ queue # <<>> /\ Head(queue) = Reaper /\ pc[Reaper] = "census"
        /\ pc \in [Actors -> Places]
        /\ UNCHANGED leaseVars /\ UNCHANGED <<leased, wanted, letGo, stale>>
    BY <1>1, <1>12 DEF Census, Owns, leaseVars, TypeOK
  <2>2. CASE ReapEnds /\ holder' \in Names \cup {NoOne}
    BY <1>8, <2>1, <2>2
  <2>3. ASSUME NEW k \in Holding, todo' = After(k), UNCHANGED <<holder, pc, queue, walk>>
        PROVE  IInv'
    <3>1. /\ LetGoMeansGone' /\ leased \in [Names -> BOOLEAN]
          /\ wanted \in [Names -> BOOLEAN] /\ letGo \in [Names -> BOOLEAN]
      BY <1>1, <2>1 DEF TypeOK, LetGoMeansGone
    <3> QED BY <1>1, <1>7, <1>10, <2>1, <2>3, <3>1
  <2>4. holder \in Names \cup {NoOne} /\ \A k \in Holding : k \in Names
    BY <1>1 DEF TypeOK
  <2> QED BY <1>12, <2>2, <2>3, <2>4 DEF Census
<1> QED BY <1>6, <1>9, <1>11, <1>12 DEF ReaperStep

LEMMA WorldKeepsInv ==
  ASSUME IInv, World
  PROVE  IInv'
<1>1. /\ TypeOK /\ LockInv /\ PlaceInv /\ LetGoMeansGone
      /\ \A m \in Names : wanted[m] => leased[m]
      /\ Len(order) \in Nat /\ Reaper \in Actors
  BY ArbiterAssumption DEF IInv, WantedInv, WantedIsHeard, TypeOK, Actors
<1>2. CASE Restart
  <2>1. TypeOK'
    BY <1>1, <1>2, ArbiterAssumption DEF Restart, TypeOK, Places, Answers, NoWalk
  <2>2. \A a \in Actors : pc'[a] = "idle"
    BY <1>2 DEF Restart
  <2>3. \A n \in Names : ~leased'[n] /\ ~wanted'[n] /\ ~letGo'[n]
    BY <1>2 DEF Restart
  <2> QED BY <1>1, <2>1, <2>2, <2>3
          DEF IInv, PlaceInv, LockInv, NameInv, WalkInv, WantedInv, WantedIsHeard,
              ExclusiveLease, LetGoMeansGone, Critical, Actors
<1>3. CASE \E k \in Names : PollAges(k) \/ ContainerTurns(k)
  <2>1. UNCHANGED <<leased, wanted, letGo, order, holder, pc, name, answer, queue, walk, todo>>
    BY <1>3 DEF PollAges, ContainerTurns, leaseVars, taskVars, lockVars
  <2>2. stale' \in [Names -> BOOLEAN] /\ up' \in [Names -> BOOLEAN]
    BY <1>1, <1>3 DEF PollAges, ContainerTurns, leaseVars, TypeOK
  <2>3. TypeOK' /\ LetGoMeansGone' /\ LockInv'
    BY <1>1, <2>1, <2>2 DEF TypeOK, LetGoMeansGone, LockInv
  <2> QED BY <1>1, <2>1, <2>3, QuietKeepsInv DEF PlaceInv
<1> QED BY <1>2, <1>3 DEF World

-----------------------------------------------------------------------------
(* What the steps do to the leases.                                        *)

\* The task that owns the lock leases the card to its own name only, when
\* nobody else has it, and takes a lease only from a job that it outranks and
\* that cannot refuse.
OwnerLeases(t) ==
  /\ \A n \in Names : ~leased[n] /\ leased'[n] => OnlyFor(n, leased)
  /\ \A k \in Names : leased[k] /\ ~leased'[k] => Defenceless(k) /\ Outranks(name[t], k)

LEMMA WalkLeases ==
  ASSUME IInv, NEW t \in Tasks, pc[t] # "idle",
         NEW w \in Walks, w.at \in 1..(Len(order) + 1),
         NEW held \in [Names -> BOOLEAN], Cleared(name[t], w.at, held),
         \A n \in Names : held[n] => leased[n],
         \A n \in Names : leased[n] /\ ~held[n] =>
                            Kind[n] = "container" /\ ~up[n] /\ Outranks(name[t], n),
         WalkFrom(t, w, held)
  PROVE  OwnerLeases(t)
<1>1. TypeOK /\ name[t] \in Names /\ \A n \in Names : held[n] => n \in Known
  BY DEF IInv, NameInv, Known, TypeOK
<1>2. PICK rest \in [Names -> BOOLEAN] :
        Kept(name[t], held, rest) /\ Outcome(t, w, held, rest)
  BY <1>1, WalkFromOutcome
<1>3. \A k \in Names : rest[k] => leased[k]
  BY <1>2 DEF Kept
<1>4. \A k \in Names : leased[k] /\ ~rest[k] => Defenceless(k) /\ Outranks(name[t], k)
  BY <1>2 DEF Kept, Defenceless
<1>5. CASE leased' = rest
  BY <1>3, <1>4, <1>5 DEF OwnerLeases
<1>6. CASE Grants(t, rest) /\ rest = held
  <2>1. OnlyFor(name[t], leased) /\ leased' = [rest EXCEPT ![name[t]] = TRUE]
    BY <1>6 DEF Grants, Grant, OnlyFor
  <2> QED BY <1>1, <1>3, <1>4, <2>1 DEF OwnerLeases
<1> QED BY <1>2, <1>5, <1>6 DEF Outcome, Pauses, Refuses, StartsSettling

LEMMA OwnerStepLeases ==
  ASSUME IInv, NEW t \in Tasks,
         \/ AcquireEntered(t) \/ OwnProbed(t) \/ Probed(t) \/ KillEnded(t)
         \/ HolderLetGo(t) \/ HolderTimedOut(t) \/ Settled(t)
  PROVE  OwnerLeases(t) /\ queue # <<>> /\ Head(queue) = t
<1>1. queue # <<>> /\ Head(queue) = t /\ pc[t] # "idle"
  BY DEF AcquireEntered, OwnProbed, Probed, KillEnded, HolderLetGo, HolderTimedOut,
         Settled, Owns
<1> SUFFICES OwnerLeases(t)
  BY <1>1
<1>2. /\ TypeOK /\ order \in Seq(Names) /\ Len(order) \in Nat
      /\ leased \in [Names -> BOOLEAN] /\ walk \in Walks
      /\ WalkInv /\ LetGoMeansGone /\ NameInv
  BY DEF IInv, TypeOK, Walks
<1>3. ASSUME UNCHANGED leased PROVE OwnerLeases(t)
  BY <1>3 DEF OwnerLeases
<1>4. ASSUME NEW x \in Answers, GiveUp(t, x) PROVE OwnerLeases(t)
  BY <1>3, <1>4 DEF GiveUp, leaseVars
<1>5. ASSUME WalkFrom(t, FirstStep, leased) PROVE OwnerLeases(t)
  <2>1. /\ FirstStep \in Walks /\ FirstStep.at \in 1..(Len(order) + 1)
        /\ Cleared(name[t], FirstStep.at, leased)
    BY <1>2 DEF FirstStep, Walks, Cleared
  <2> HIDE DEF FirstStep
  <2> QED BY <1>1, <1>2, <1>5, <2>1, WalkLeases
<1>6. ASSUME pc[t] \in {"probe", "kill", "letgo"},
             NEW w \in Walks, w.at = walk.at, w.size = walk.size,
             NEW held \in [Names -> BOOLEAN],
             \A n \in Names : held[n] => leased[n],
             \A n \in Names : leased[n] /\ ~held[n] =>
                                Kind[n] = "container" /\ ~up[n] /\ Outranks(name[t], n),
             Kind[Visited] = "container" \/ ~held[Visited],
             Resume(t, w, held)
      PROVE  OwnerLeases(t)
  <2>1. /\ walk.at \in 1..walk.size /\ walk.size <= Len(order)
        /\ Cleared(name[t], walk.at, leased) /\ walk.at \in Nat /\ walk.size \in Nat
        /\ \A m \in 1..Len(order) : order[m] \in Names
    BY <1>2, <1>6 DEF WalkInv, Walks
  <2>2. CASE leased' = held
    BY <1>6, <2>2 DEF OwnerLeases, Defenceless
  <2>3. CASE WalkFrom(t, [w EXCEPT !.at = @ + 1], held)
    <3> DEFINE v == [w EXCEPT !.at = @ + 1]
    <3>1. v \in Walks /\ v.at = walk.at + 1 /\ v.at \in 1..(Len(order) + 1)
      BY <1>2, <1>6, <2>1 DEF Walks
    <3>2. Cleared(name[t], v.at, held)
      <4> SUFFICES ASSUME NEW m \in 1..walk.at, held[order[m]],
                          Kind[order[m]] # "container"
                   PROVE  order[m] = name[t]
        BY <3>1, <2>1 DEF Cleared
      <4>1. order[m] \in Names /\ m # walk.at
        BY <1>2, <1>6, <2>1 DEF Visited
      <4> QED BY <4>1, <1>6, <2>1 DEF Cleared
    <3> HIDE DEF v
    <3>3. WalkFrom(t, v, held)
      BY <2>3 DEF v
    <3> QED BY <1>1, <1>6, <3>1, <3>2, <3>3, WalkLeases
  <2> QED BY <1>6, <2>2, <2>3 DEF Resume
<1>7. CASE AcquireEntered(t)
  BY <1>3, <1>4, <1>5, <1>7 DEF AcquireEntered, Answers, leaseVars
<1>8. CASE OwnProbed(t)
  BY <1>4, <1>5, <1>8 DEF OwnProbed, Answers
<1>9. ASSUME pc[t] \in {"probe", "kill", "letgo"}
      PROVE  Visited \in Names
  <2>1. /\ walk.at \in 1..walk.size /\ walk.size <= Len(order)
        /\ walk.at \in Nat /\ walk.size \in Nat
    BY <1>2, <1>9 DEF WalkInv, Walks
  <2> QED BY <1>2, <2>1 DEF Visited
<1>10. CASE Probed(t)
  <2>1. pc[t] = "probe" /\ Kind[Visited] = "container"
    BY <1>2, <1>10 DEF Probed, Owns, WalkInv
  <2>2. ASSUME Resume(t, walk, leased) PROVE OwnerLeases(t)
    BY <1>2, <1>6, <2>1, <2>2
  <2> QED BY <1>3, <1>4, <1>10, <2>2 DEF Probed, Answers, leaseVars
<1>11. ASSUME pc[t] \in {"kill", "letgo"},
              pc[t] = "kill" =>
                Kind[Visited] = "container" /\ ~up[Visited] /\ Outranks(name[t], Visited),
              pc[t] = "letgo" => ~leased[Visited],
              Resume(t, [walk EXCEPT !.stopped = TRUE], [leased EXCEPT ![Visited] = FALSE])
       PROVE  OwnerLeases(t)
  <2> DEFINE v == [walk EXCEPT !.stopped = TRUE]
             h == [leased EXCEPT ![Visited] = FALSE]
  <2>1. v \in Walks /\ v.at = walk.at /\ v.size = walk.size
    BY <1>2 DEF Walks
  <2>2. /\ h \in [Names -> BOOLEAN] /\ ~h[Visited]
        /\ \A n \in Names : h[n] => leased[n]
        /\ \A n \in Names : leased[n] /\ ~h[n] =>
                              Kind[n] = "container" /\ ~up[n] /\ Outranks(name[t], n)
    BY <1>2, <1>9, <1>11
  <2>3. Resume(t, v, h)
    BY <1>11
  <2> HIDE DEF v, h
  <2> QED BY <1>6, <1>11, <2>1, <2>2, <2>3
<1>12. CASE KillEnded(t)
  <2>1. pc[t] = "kill" /\ Kind[Visited] = "container" /\ Outranks(name[t], Visited)
    BY <1>2, <1>12 DEF KillEnded, Owns, WalkInv
  <2> QED BY <1>4, <1>11, <1>12, <2>1 DEF KillEnded, Answers
<1>13. CASE HolderLetGo(t)
  <2>1. pc[t] = "letgo" /\ ~leased[Visited]
    BY <1>2, <1>9, <1>13 DEF HolderLetGo, Owns, LetGoMeansGone
  <2> QED BY <1>11, <1>13, <2>1 DEF HolderLetGo
<1>14. CASE HolderTimedOut(t)
  BY <1>4, <1>14 DEF HolderTimedOut, Answers
<1>15. CASE Settled(t)
  <2>1. OnlyFor(name[t], leased) /\ name[t] \in Names
    BY <1>1, <1>2, <1>15 DEF Settled, Owns, WalkInv, NameInv, Known
  <2>2. ASSUME Admit(t, leased) PROVE OwnerLeases(t)
    BY <1>2, <2>1, <2>2 DEF Admit, Grant, OwnerLeases
  <2> QED BY <1>4, <1>15, <2>2 DEF Settled, Answers
<1> QED BY <1>7, <1>8, <1>10, <1>12, <1>13, <1>14, <1>15

\* A lease ends as LeaseEndsProperly says, and begins when nobody has the card.
LeaseStep ==
  /\ \A n \in Names : ~leased[n] /\ leased'[n] => OnlyFor(n, leased)
  /\ \A k \in Names : leased[k] /\ ~leased'[k] =>
       \/ \E t \in Tasks : ReleaseCalled(t, k) \/ (ReleaseProbed(t) /\ name[t] = k)
       \/ Sweep /\ (SilentTooLong(k) \/ (Kind[k] = "container" /\ ~up[k]))
       \/ Restart
       \/ /\ Defenceless(k)
          /\ queue # <<>> /\ Head(queue) \in Tasks
          /\ Outranks(name[Head(queue)], k)

LEMMA StepLeases ==
  ASSUME IInv, Next
  PROVE  LeaseStep
<1>0. TypeOK /\ todo \in SUBSET Names
  BY DEF IInv, TypeOK
<1>1. CASE UNCHANGED leased
  BY <1>1 DEF LeaseStep
<1>2. ASSUME NEW t \in Tasks,
             \/ AcquireEntered(t) \/ OwnProbed(t) \/ Probed(t) \/ KillEnded(t)
             \/ HolderLetGo(t) \/ HolderTimedOut(t) \/ Settled(t)
      PROVE  LeaseStep
  <2>1. OwnerLeases(t) /\ queue # <<>> /\ Head(queue) = t
    BY <1>2, OwnerStepLeases
  <2> QED BY <2>1 DEF OwnerLeases, LeaseStep
<1>3. ASSUME NEW t \in Tasks, NEW n \in Names, ReleaseCalled(t, n)
      PROVE  LeaseStep
  <2>1. UNCHANGED leased \/ leased' = [leased EXCEPT ![n] = FALSE]
    BY <1>3 DEF ReleaseCalled, Forget, leaseVars
  <2>2. \A k \in Names : leased[k] /\ ~leased'[k] => k = n
    BY <1>0, <2>1 DEF TypeOK
  <2>3. \A k \in Names : leased'[k] => leased[k]
    BY <1>0, <2>1 DEF TypeOK
  <2> QED BY <1>3, <2>2, <2>3 DEF LeaseStep
<1>4. ASSUME NEW t \in Tasks, ReleaseProbed(t)
      PROVE  LeaseStep
  <2>1. UNCHANGED leased \/ leased' = [leased EXCEPT ![name[t]] = FALSE]
    BY <1>4 DEF ReleaseProbed, Forget, leaseVars
  <2>2. \A k \in Names : leased[k] /\ ~leased'[k] => k = name[t]
    BY <1>0, <2>1 DEF TypeOK
  <2>3. \A k \in Names : leased'[k] => leased[k]
    BY <1>0, <2>1 DEF TypeOK
  <2> QED BY <1>4, <2>2, <2>3 DEF LeaseStep
<1>5. CASE Sweep
  <2>1. CASE UNCHANGED leased
    BY <1>1, <2>1
  <2>2. ASSUME NEW k \in Names, SilentTooLong(k) \/ (Kind[k] = "container" /\ ~up[k]),
               Forget(k)
        PROVE  LeaseStep
    <3>1. leased' = [leased EXCEPT ![k] = FALSE]
      BY <2>2 DEF Forget
    <3>2. \A n \in Names : (leased[n] /\ ~leased'[n] => n = k) /\ (leased'[n] => leased[n])
      BY <1>0, <3>1 DEF TypeOK
    <3> QED BY <1>5, <2>2, <3>2 DEF LeaseStep
  <2>3. \/ UNCHANGED leased
        \/ \E k \in Names : /\ SilentTooLong(k) \/ (Kind[k] = "container" /\ ~up[k])
                            /\ Forget(k)
    BY <1>0, <1>5 DEF Sweep, leaseVars
  <2> QED BY <2>1, <2>2, <2>3
<1>6. CASE Restart
  BY <1>6 DEF Restart, LeaseStep
<1>7. CASE ReapDue \/ ReapEntered \/ Census
  BY <1>1, <1>7 DEF ReapDue, ReapEntered, Census, leaseVars
<1>8. CASE \E t \in Tasks, n \in Names : AcquireCalled(t, n) \/ NoticeCalled(t, n)
  BY <1>1, <1>8 DEF AcquireCalled, NoticeCalled, leaseVars
<1>9. CASE \E t \in Tasks : NoticeEnded(t)
  BY <1>1, <1>9 DEF NoticeEnded
<1>10. CASE \E k \in Names : PollAges(k) \/ ContainerTurns(k)
  BY <1>1, <1>10 DEF PollAges, ContainerTurns, leaseVars
<1> QED BY <1>2, <1>3, <1>4, <1>5, <1>6, <1>7, <1>8, <1>9, <1>10
        DEF Next, CallArrives, TaskStep, ReaperStep, World

-----------------------------------------------------------------------------
(* The inductive invariant.                                                *)

LEMMA InitInv == Init => IInv
<1> SUFFICES ASSUME Init PROVE IInv
  OBVIOUS
<1>1. TypeOK
  BY ArbiterAssumption DEF Init, TypeOK, Places, Answers, NoWalk
<1>2. \A a \in Actors : pc[a] = "idle"
  BY DEF Init
<1>3. \A n \in Names : ~leased[n] /\ ~wanted[n] /\ ~letGo[n]
  BY DEF Init
<1> QED BY <1>1, <1>2, <1>3
        DEF IInv, PlaceInv, LockInv, NameInv, WalkInv, WantedInv, WantedIsHeard,
            ExclusiveLease, LetGoMeansGone, Critical, Actors

LEMMA StepKeepsInv == IInv /\ [Next]_vars => IInv'
<1> SUFFICES ASSUME IInv, [Next]_vars PROVE IInv'
  OBVIOUS
<1>1. CASE UNCHANGED vars
  BY <1>1 DEF vars, leaseVars, taskVars, lockVars, IInv, TypeOK, PlaceInv, LockInv, NameInv,
     WalkInv, WantedInv, WantedIsHeard, ExclusiveLease, LetGoMeansGone, Known, Visited,
     Cleared, OnlyFor, Outranks, Cooperative
<1>2. CASE \E t \in Tasks, n \in Names : CallArrives(t, n)
  BY <1>2, CallKeepsInv DEF CallArrives
<1>3. ASSUME NEW t \in Tasks, TaskStep(t) \/ HolderTimedOut(t) PROVE IInv'
  <2>1. CASE ReleaseProbed(t) \/ NoticeEnded(t)
    <3>1. name[t] \in Names
      <4>1. /\ order \in Seq(Names) /\ Len(order) \in Nat
            /\ \A m \in 1..Len(order) : order[m] \in Names
        BY DEF IInv, TypeOK
      <4>2. name[t] \in Known
        BY <2>1 DEF IInv, NameInv, ReleaseProbed, NoticeEnded
      <4> QED BY <4>1, <4>2 DEF Known
    <3> QED BY <2>1, <3>1, CallKeepsInv
  <2> QED BY <1>3, <2>1, OwnerStepKeepsInv DEF TaskStep
<1>4. CASE ReaperStep
  BY <1>4, ReaperKeepsInv
<1>5. CASE World
  BY <1>5, WorldKeepsInv
<1> QED BY <1>1, <1>2, <1>3, <1>4, <1>5 DEF Next

LEMMA Invariance == Spec => []IInv
BY InitInv, StepKeepsInv, PTL DEF Spec

\* Every variable of the arbiter keeps its type, whatever calls arrive and
\* however they interleave with the reaper (scheduler.py, Scheduler).
THEOREM TypeCorrect == Spec => []TypeOK
<1>1. IInv => TypeOK
  BY DEF IInv
<1> QED BY <1>1, Invariance, PTL

\* One lease at a time: acquire excludes every other job that is not a
\* container although release does not take the lock (scheduler.py, acquire).
THEOREM OneLease == Spec => []ExclusiveLease
<1>1. IInv => ExclusiveLease
  BY DEF IInv
<1> QED BY <1>1, Invariance, PTL

\* No reclaim can be satisfied by the release of an earlier lease
\* (reclaimers.py, CooperativeReclaimer.grant and forget).
THEOREM NoStaleRelease == Spec => []LetGoMeansGone
<1>1. IInv => LetGoMeansGone
  BY DEF IInv
<1> QED BY <1>1, Invariance, PTL

\* No wake-up is lost: a notice call never sleeps through a reclaim
\* (reclaimers.py, CooperativeReclaimer.wait_until_wanted and reclaim).
THEOREM NoLostWakeup == Spec => []WantedIsHeard
<1>1. IInv => WantedIsHeard
  BY DEF IInv, WantedInv
<1> QED BY <1>1, Invariance, PTL

\* A cooperative lease ends only by its own release, by the reaper once it is
\* stale, or with the process; a senior acquire never strips it
\* (scheduler.py, acquire, release and _drop_dead_leases).
THEOREM LeasesEndProperly == Spec => LeaseEndsProperly
<1>1. IInv /\ [Next]_vars =>
        [\A k \in Names : leased[k] /\ ~leased'[k] =>
           \/ \E t \in Tasks : ReleaseCalled(t, k) \/ (ReleaseProbed(t) /\ name[t] = k)
           \/ Sweep /\ (SilentTooLong(k) \/ (Kind[k] = "container" /\ ~up[k]))
           \/ Restart
           \/ /\ Defenceless(k)
              /\ queue # <<>> /\ Head(queue) \in Tasks
              /\ Outranks(name[Head(queue)], k)]_vars
  BY StepLeases DEF LeaseStep
<1> QED BY <1>1, Invariance, PTL DEF Spec, LeaseEndsProperly

\* The lease table implements the abstract lease of Lease.tla: a grant happens
\* only in a state in which nobody has the card (scheduler.py, acquire).
THEOREM LeaseRefinement == Spec => ImplementsLease
<1>1. Init => TheLease!Init
  BY DEF Init, TheLease!Init, Owners
<1>2. IInv /\ IInv' /\ [Next]_vars => [TheLease!Next]_Owners
  <2> SUFFICES ASSUME IInv, IInv', Next, Owners' # Owners
               PROVE  TheLease!Next
    BY DEF vars, leaseVars, Owners
  <2>1. LeaseStep
    BY StepLeases
  <2>2. /\ \A a, b \in Owners : a = b
        /\ \A a, b \in Owners' : a = b
    BY DEF IInv, ExclusiveLease, Owners
  <2>3. CASE \E n \in Owners' : n \notin Owners
    <3>1. PICK n \in Owners' : n \notin Owners
      BY <2>3
    <3>2. n \in Names /\ ~leased[n] /\ leased'[n]
      BY <3>1 DEF Owners
    <3>3. Owners = {}
      BY <2>1, <3>1, <3>2 DEF LeaseStep, OnlyFor, Owners
    <3>4. Owners' = {n}
      BY <2>2, <3>1
    <3> QED BY <3>2, <3>3, <3>4 DEF TheLease!Next, TheLease!Grant
  <2>4. CASE \A n \in Owners' : n \in Owners
    <3>1. PICK n \in Owners : n \notin Owners'
      BY <2>4
    <3>2. n \in Names /\ Owners = {n} /\ Owners' = {}
      BY <2>2, <2>4, <3>1 DEF Owners
    <3> QED BY <3>2 DEF TheLease!Next, TheLease!GiveUp
  <2> QED BY <2>3, <2>4
<1> QED BY <1>1, <1>2, Invariance, PTL DEF Spec, ImplementsLease, TheLease!Spec

-----------------------------------------------------------------------------
(***************************************************************************)
(* Proofs about Trainer, for every set of jobs, calls and faults.          *)
(*                                                                         *)
(* The supervisor and the arbiter together are still the arbiter: whatever *)
(* the supervisor does is a call that the arbiter's specification admits,  *)
(* so every theorem above holds of the composition                         *)
(* (ImplementsArbiter).                                                    *)
(*                                                                         *)
(* A watched worker keeps its lease because of four facts that hold        *)
(* together (HoldInv): nobody but the supervisor's own call can acquire in *)
(* its name; it has the lease from the moment that call is granted until   *)
(* it releases; it never asks again while it has it, so that a grant is    *)
(* always a new one, which is not stale; and it stays so, because a lease  *)
(* that is attended does not age.  It is attended because the notice       *)
(* thread of a worker that is not yet killed listens or has heard          *)
(* (EarInv), unless the worker was started after the shutdown signal.      *)
(***************************************************************************)

InAcquire == {"lock", "own", "probe", "kill", "letgo", "settle"}

Granted == sup = "acquiring" /\ pc[call] = "idle" /\ answer[call] = "granted"

CallInv ==
  /\ sup = "acquiring" => call \in Tasks \ Callers
  /\ worker = "alive" => sup \in {"watching", "killing"}
  /\ \A t \in Tasks : pc[t] = "unlease" => Kind[name[t]] = "container"

\* The notice thread of a worker that nobody has killed.
EarInv ==
  worker = "alive" /\ ~doomed =>
    IF stopping THEN ear # "waiting" /\ ~heard ELSE ear # "off" \/ heard

\* The lease has an owner who will renew it or give it back.
Holds == (sup \in {"watching", "killing"} /\ (stopping => doomed)) \/ Granted

\* What holds as long as no lease can be lost and no answer can.
HoldInv ==
  /\ \A t \in Tasks : pc[t] \in InAcquire /\ name[t] = trainer => sup = "acquiring" /\ t = call
  /\ sup = "acquiring" => /\ pc[call] \in {"idle"} \cup (InAcquire \ {"own"})
                          /\ pc[call] # "idle" => name[call] = trainer
  /\ leased[trainer] => sup \in {"watching", "killing", "releasing"} \/ Granted
  /\ Holds => leased[trainer] /\ ~stale[trainer]

Reliable == faults \cap Unreliable = {}

SupTypeOK ==
  /\ sup \in {"asking", "acquiring", "watching", "killing", "releasing", "leaving", "gone"}
  /\ call \in Tasks \cup {NoOne}
  /\ worker \in {"none", "alive", "finished", "failed", "ours", "kernel"}
  /\ ear \in {"off", "free", "waiting"}
  /\ earCall \in Tasks \cup {NoOne}
  /\ doomed \in BOOLEAN /\ heard \in BOOLEAN /\ stopping \in BOOLEAN
  /\ faults \in Scenarios

TrainerIInv == IInv /\ SupTypeOK /\ CallInv /\ EarInv /\ (Reliable => HoldInv)

-----------------------------------------------------------------------------
(* The arbiter inside.                                                     *)

OwnerStep(t) ==
  \/ AcquireEntered(t) \/ OwnProbed(t) \/ Probed(t) \/ KillEnded(t)
  \/ HolderLetGo(t) \/ HolderTimedOut(t) \/ Settled(t)

\* A step of the supervisor or of its surroundings is a step of the arbiter, or none.
LEMMA StepIsArbiters ==
  ASSUME [TrainerNext]_allVars
  PROVE  [Next]_vars
<1>0. trainer \in Names /\ Kind[trainer] # "container" /\ Callers \subseteq Tasks
  BY TrainerAssumption
<1>1. ASSUME NEW t \in Tasks,
             AcquireCalled(t, trainer) \/ ReleaseCalled(t, trainer) \/ NoticeCalled(t, trainer)
      PROVE  Next
  BY <1>0, <1>1 DEF Next, CallArrives
<1>2. CASE MainStep
  <2>1. \/ UNCHANGED vars
        \/ \E t \in Tasks : AcquireCalled(t, trainer) \/ ReleaseCalled(t, trainer)
    BY <1>2 DEF MainStep, Ask, AcquireReturned, AcquireLost, WatchWorker, Release, Leave, Released
  <2>. QED  BY <1>1, <2>1
<1>3. CASE EarStep
  <2>1. UNCHANGED vars \/ \E t \in Tasks : NoticeCalled(t, trainer)
    BY <1>3 DEF EarStep, EarCalls, EarReturned, EarLost
  <2>. QED  BY <1>1, <2>1
<1>4. CASE RequestShutdown \/ WorkerEnds \/ WorkerDies \/ Crash \/ Submit
  BY <1>4 DEF RequestShutdown, WorkerEnds, WorkerDies, Crash, Submit
<1>5. CASE ArbiterStep
  BY <1>5 DEF ArbiterStep, Next
<1>6. CASE OtherCalls
  BY <1>0, <1>6 DEF OtherCalls, Next
<1>7. CASE TrainerWorld
  BY <1>7 DEF TrainerWorld, Next, World
<1>8. CASE UNCHANGED allVars
  BY <1>8 DEF allVars
<1>. QED  BY <1>2, <1>3, <1>4, <1>5, <1>6, <1>7, <1>8 DEF TrainerNext

\* What the task t that owns the lock may do to calls and leases.
Shape(t) ==
  /\ \A u \in Tasks \ {t} : /\ name'[u] = name[u] /\ answer'[u] = answer[u]
                            /\ pc'[u] = pc[u] \/ (pc[u] = "notice" /\ pc'[u] = "woken")
  /\ pc'[t] \in {"idle"} \cup (InAcquire \ {"lock"})
  /\ pc'[t] = "own" => Kind[name[t]] = "container"
  /\ pc'[t] # "idle" => name'[t] = name[t]
  /\ \A k \in Names : stale'[k] => stale[k]
  /\ \A k \in Names : leased'[k] /\ ~leased[k] =>
       k = name[t] /\ pc'[t] = "idle" /\ answer'[t] = "granted"
  /\ pc'[t] = "idle" /\ answer'[t] = "granted" =>
       (leased'[name[t]] /\ ~stale'[name[t]]) \/ leased[name[t]] \/ pc[t] = "own"

LEMMA ReplyShape ==
  ASSUME TypeOK, NEW t \in Tasks, NEW x, Reply(t, x)
  PROVE  /\ \A u \in Tasks \ {t} : name'[u] = name[u] /\ answer'[u] = answer[u] /\ pc'[u] = pc[u]
         /\ pc'[t] = "idle" /\ answer'[t] = x
BY DEF TypeOK, Reply, Actors

LEMMA GiveUpShape ==
  ASSUME TypeOK, NEW t \in Tasks, NEW x, GiveUp(t, x),
         x = "granted" => leased[name[t]] \/ pc[t] = "own"
  PROVE  Shape(t)
BY ReplyShape DEF GiveUp, leaseVars, Shape

LEMMA AdmitShape ==
  ASSUME TypeOK, NEW t \in Tasks, name[t] \in Names, NEW held \in [Names -> BOOLEAN],
         \A k \in Names : held[k] => leased[k], Admit(t, held)
  PROVE  Shape(t)
<1>1. CASE Grant(name[t], held) /\ Reply(t, "granted")
  <2>1. /\ \A k \in Names : leased'[k] = (k = name[t] \/ held[k])
        /\ \A k \in Names : stale'[k] = (k # name[t] /\ stale[k])
    BY <1>1 DEF Grant, TypeOK
  <2>. QED  BY <1>1, <2>1, ReplyShape, ZenonT(40) DEF Shape
<1>2. CASE leased' = held /\ Reply(t, "refused") /\ UNCHANGED stale
  BY <1>2, ReplyShape DEF Shape
<1>. QED  BY <1>1, <1>2 DEF Admit

LEMMA WalkShape ==
  ASSUME TypeOK, NEW t \in Tasks, name[t] \in Names, NEW w,
         NEW held \in [Names -> BOOLEAN], \A k \in Names : held[k] => leased[k],
         WalkFrom(t, w, held)
  PROVE  Shape(t)
<1>1. PICK rest, j, v :
        /\ rest \in [Names -> BOOLEAN] /\ j \in Int
        /\ \A k \in Names : rest[k] => leased[k]
        /\ \/ StopAt(t, j, v, rest)
           \/ /\ leased' = rest
              /\ pc' = [pc EXCEPT ![t] = "settle"]
              /\ UNCHANGED <<stale, name, answer>>
           \/ Admit(t, rest)
  <2>1. PICK j \in w.at..(Len(order) + 1) :
          LET gone == Dropped(name[t], w.at, j, held)
              rest == [k \in Names |-> held[k] /\ k \notin gone]
              some == w.stopped \/ gone # {}
          IN  \/ StopAt(t, j, [w EXCEPT !.stopped = some], rest)
              \/ /\ leased' = rest
                 /\ pc' = [pc EXCEPT ![t] = "settle"]
                 /\ UNCHANGED <<stale, name, answer>>
              \/ Admit(t, rest)
    BY DEF WalkFrom
  <2> DEFINE gone == Dropped(name[t], w.at, j, held)
             rest == [k \in Names |-> held[k] /\ k \notin gone]
             some == w.stopped \/ gone # {}
             v    == [w EXCEPT !.stopped = some]
  <2>2. rest \in [Names -> BOOLEAN] /\ \A k \in Names : rest[k] => leased[k]
    OBVIOUS
  <2>3. \/ StopAt(t, j, v, rest)
        \/ /\ leased' = rest
           /\ pc' = [pc EXCEPT ![t] = "settle"]
           /\ UNCHANGED <<stale, name, answer>>
        \/ Admit(t, rest)
    BY <2>1
  <2>4. j \in Int
    OBVIOUS
  <2> HIDE DEF rest, v
  <2>. QED  BY <2>2, <2>3, <2>4
<1>2. CASE StopAt(t, j, v, rest)
  <2>1. leased' = rest /\ UNCHANGED stale
    BY <1>2 DEF StopAt
  <2>2. CASE pc' = [pc EXCEPT ![t] = "probe"] /\ UNCHANGED <<name, answer>>
    BY <1>1, <2>1, <2>2 DEF Shape, InAcquire, TypeOK, Actors
  <2>3. CASE Reply(t, "refused")
    BY <1>1, <2>1, <2>3, ReplyShape DEF Shape
  <2>4. CASE /\ pc' = [a \in Actors |->
                         IF a = t THEN "letgo" ELSE
                         IF pc[a] = "notice" /\ name[a] = order[j] THEN "woken" ELSE pc[a]]
             /\ UNCHANGED <<name, answer>>
    BY <1>1, <2>1, <2>4 DEF Shape, InAcquire, TypeOK, Actors
  <2>. QED  BY <1>2, <2>2, <2>3, <2>4 DEF StopAt
<1>3. CASE leased' = rest /\ pc' = [pc EXCEPT ![t] = "settle"] /\ UNCHANGED <<stale, name, answer>>
  BY <1>1, <1>3 DEF Shape, InAcquire, TypeOK, Actors
<1>4. CASE Admit(t, rest)
  BY <1>1, <1>4, AdmitShape
<1>. QED  BY <1>1, <1>2, <1>3, <1>4

LEMMA OwnerShape ==
  ASSUME IInv, NEW t \in Tasks, OwnerStep(t)
  PROVE  Shape(t) /\ pc[t] \in InAcquire
<1>0. pc[t] \in InAcquire /\ pc[t] # "idle"
  BY DEF OwnerStep, InAcquire, Owns, AcquireEntered, OwnProbed, Probed, KillEnded, HolderLetGo,
         HolderTimedOut, Settled
<1> SUFFICES Shape(t)
  BY <1>0
<1>1. TypeOK /\ name[t] \in Names /\ leased \in [Names -> BOOLEAN]
  BY <1>0 DEF IInv, TypeOK, NameInv, Known
<1>2. ASSUME NEW x \in Answers, GiveUp(t, x), x = "granted" => leased[name[t]] \/ pc[t] = "own"
      PROVE  Shape(t)
  BY <1>1, <1>2, GiveUpShape
<1>3. ASSUME WalkFrom(t, FirstStep, leased)
      PROVE  Shape(t)
  BY <1>1, <1>3, WalkShape
<1>4. ASSUME NEW w, NEW held \in [Names -> BOOLEAN], \A k \in Names : held[k] => leased[k],
             Resume(t, w, held)
      PROVE  Shape(t)
  <2>1. CASE leased' = held /\ Reply(t, "error") /\ UNCHANGED stale
    BY <1>1, <1>4, <2>1, ReplyShape DEF Shape
  <2>2. CASE WalkFrom(t, [w EXCEPT !.at = @ + 1], held)
    BY <1>1, <1>4, <2>2, WalkShape
  <2>. QED  BY <1>4, <2>1, <2>2 DEF Resume
<1>5. ASSUME Resume(t, [walk EXCEPT !.stopped = TRUE], [leased EXCEPT ![Visited] = FALSE])
      PROVE  Shape(t)
  <2> DEFINE held == [leased EXCEPT ![Visited] = FALSE]
  <2>1. held \in [Names -> BOOLEAN] /\ \A k \in Names : held[k] => leased[k]
    BY <1>1
  <2> HIDE DEF held
  <2> DEFINE w == [walk EXCEPT !.stopped = TRUE]
  <2>2. Resume(t, w, held)
    BY <1>5 DEF held
  <2> HIDE DEF w
  <2>. QED  BY <1>4, <2>1, <2>2
<1>6. ASSUME NEW q \in InAcquire \ {"lock"}, pc' = [pc EXCEPT ![t] = q],
             UNCHANGED <<leaseVars, name, answer>>, q = "own" => Kind[name[t]] = "container"
      PROVE  Shape(t)
  BY <1>1, <1>6 DEF Shape, InAcquire, TypeOK, Actors, leaseVars
<1>7. CASE AcquireEntered(t)
  BY <1>2, <1>3, <1>6, <1>7 DEF AcquireEntered, InAcquire, Answers
<1>8. CASE OwnProbed(t)
  BY <1>2, <1>3, <1>8 DEF OwnProbed, Owns, Answers
<1>9. CASE Probed(t)
  <2>1. ASSUME Resume(t, walk, leased)
        PROVE  Shape(t)
    BY <1>1, <1>4, <2>1
  <2>2. ASSUME pc' = [pc EXCEPT ![t] = "kill"], UNCHANGED <<leaseVars, name, answer>>
        PROVE  Shape(t)
    BY <1>6, <2>2 DEF InAcquire
  <2>. QED  BY <1>2, <1>9, <2>1, <2>2 DEF Probed, Answers
<1>10. CASE KillEnded(t)
  BY <1>2, <1>5, <1>10 DEF KillEnded, Answers
<1>11. CASE HolderLetGo(t)
  BY <1>5, <1>11 DEF HolderLetGo
<1>12. CASE HolderTimedOut(t)
  BY <1>2, <1>12 DEF HolderTimedOut, Answers
<1>13. CASE Settled(t)
  BY <1>1, <1>2, <1>13, AdmitShape DEF Settled, Answers
<1>. QED  BY <1>7, <1>8, <1>9, <1>10, <1>11, <1>12, <1>13 DEF OwnerStep

-----------------------------------------------------------------------------
(* The lease is kept.                                                      *)

\* What the proofs below read off the invariant.
LEMMA TrainerFacts ==
  ASSUME TrainerIInv
  PROVE  /\ TypeOK /\ SupTypeOK /\ CallInv /\ trainer \in Names
         /\ trainer \notin {NoOne} /\ Kind[trainer] = "cooperative"
         /\ leased \in [Names -> BOOLEAN] /\ stale \in [Names -> BOOLEAN]
         /\ pc \in [Actors -> Places] /\ name \in [Tasks -> Names \cup {NoOne}]
         /\ Callers \subseteq Tasks /\ NoOne \notin Tasks /\ Reaper \notin Tasks
         /\ Tasks \subseteq Actors
BY TrainerAssumption, ArbiterAssumption DEF TrainerIInv, IInv, TypeOK, Actors

\* The loop of an acquire, whoever called it.
LEMMA OwnerHolds ==
  ASSUME TrainerIInv, NEW t \in Tasks, OwnerStep(t), UNCHANGED supVars, UNCHANGED faults
  PROVE  CallInv' /\ (Reliable' => HoldInv')
<1>0. /\ TypeOK /\ SupTypeOK /\ CallInv /\ trainer \in Names /\ Kind[trainer] = "cooperative"
      /\ Shape(t) /\ pc[t] \in InAcquire
      /\ UNCHANGED <<sup, call, worker, doomed, stopping, faults>>
  BY TrainerFacts, OwnerShape DEF TrainerIInv, supVars
<1>1. CallInv'
  <2>1. \A u \in Tasks : pc'[u] = "unlease" => pc[u] = "unlease" /\ name'[u] = name[u]
    BY <1>0 DEF Shape, InAcquire
  <2>. QED  BY <1>0, <2>1 DEF CallInv
<1>2. ASSUME Reliable
      PROVE  HoldInv'
  <2>0. HoldInv
    BY <1>2 DEF TrainerIInv
  <2>1. leased[trainer] => leased'[trainer]
    <3>1. \A k \in Names : leased[k] /\ ~leased'[k] => Defenceless(k)
      BY OwnerStepLeases DEF TrainerIInv, OwnerStep, OwnerLeases
    <3>. QED  BY <1>0, <3>1 DEF Defenceless
  <2>2. \A u \in Tasks : pc'[u] \in InAcquire /\ name'[u] = trainer =>
          pc[u] \in InAcquire /\ name[u] = trainer
    BY <1>0 DEF Shape, InAcquire
  <2>3. \A u \in Tasks : pc'[u] \in InAcquire /\ name'[u] = trainer => sup' = "acquiring" /\ u = call'
    BY <1>0, <2>0, <2>2 DEF HoldInv
  <2>4. sup' = "acquiring" => /\ pc'[call'] \in {"idle"} \cup (InAcquire \ {"own"})
                              /\ pc'[call'] # "idle" => name'[call'] = trainer
    BY <1>0, <2>0 DEF HoldInv, CallInv, Shape, InAcquire
  <2>5. ASSUME leased'[trainer], ~leased[trainer]
        PROVE  Granted'
    <3>1. name[t] = trainer /\ pc'[t] = "idle" /\ answer'[t] = "granted"
      BY <1>0, <2>5 DEF Shape
    <3>2. sup = "acquiring" /\ t = call
      BY <1>0, <2>0, <3>1 DEF HoldInv
    <3>. QED  BY <1>0, <3>1, <3>2 DEF Granted
  <2>6. Granted => Granted'
    <3>1. ASSUME Granted
          PROVE  Granted'
      <4>1. call \in Tasks /\ call # t
        BY <1>0, <3>1 DEF Granted, CallInv, InAcquire
      <4>. QED  BY <1>0, <3>1, <4>1 DEF Granted, Shape
    <3>. QED  BY <3>1
  <2>7. ASSUME Granted', ~Granted
        PROVE  leased'[trainer] /\ ~stale'[trainer]
    <3>1. sup = "acquiring" /\ call \in Tasks /\ pc'[call] = "idle" /\ answer'[call] = "granted"
      BY <1>0, <2>7 DEF Granted, CallInv
    <3>2. call = t
      BY <1>0, <2>7, <3>1 DEF Granted, Shape
    <3>3. name[t] = trainer /\ pc[t] # "own" /\ ~leased[trainer]
      BY <1>0, <2>0, <2>7, <3>1, <3>2 DEF HoldInv, Granted, InAcquire
    <3>. QED  BY <1>0, <3>1, <3>2, <3>3 DEF Shape
  <2>8. stale'[trainer] => stale[trainer]
    BY <1>0 DEF Shape
  <2>9. Holds' => leased'[trainer] /\ ~stale'[trainer]
    BY <1>0, <2>0, <2>1, <2>7, <2>8 DEF HoldInv, Holds
  <2>10. leased'[trainer] => sup' \in {"watching", "killing", "releasing"} \/ Granted'
    BY <1>0, <2>0, <2>5, <2>6 DEF HoldInv
  <2>. QED  BY <2>3, <2>4, <2>9, <2>10 DEF HoldInv
<1>. QED  BY <1>0, <1>1, <1>2 DEF Reliable

\* A step that is none of the supervisor's, and of no call of its but an old one.
LEMMA QuietHolds ==
  ASSUME TrainerIInv, UNCHANGED supVars, UNCHANGED faults,
         \A u \in Tasks :
           \/ pc'[u] = pc[u] /\ name'[u] = name[u] /\ answer'[u] = answer[u]
           \/ /\ pc'[u] = "unlease" => Kind[name'[u]] = "container"
              /\ pc'[u] \in InAcquire => name'[u] # trainer
              /\ Reliable /\ sup = "acquiring" => u # call,
         Reliable => /\ leased'[trainer] => leased[trainer]
                     /\ Holds /\ leased[trainer] /\ ~stale[trainer] =>
                          leased'[trainer] /\ ~stale'[trainer]
  PROVE  CallInv' /\ (Reliable' => HoldInv')
<1>0. CallInv /\ UNCHANGED <<sup, call, worker, doomed, stopping, faults>>
  BY TrainerFacts DEF supVars
<1>1. CallInv'
  BY <1>0 DEF CallInv
<1>2. ASSUME Reliable
      PROVE  HoldInv'
  <2>0. HoldInv
    BY <1>2 DEF TrainerIInv
  <2>1. sup = "acquiring" =>
          call \in Tasks /\ pc'[call] = pc[call] /\ name'[call] = name[call] /\ answer'[call] = answer[call]
    BY <1>0, <1>2 DEF CallInv
  <2>2. Granted' <=> Granted
    BY <1>0, <2>1 DEF Granted
  <2>3. \A u \in Tasks : pc'[u] \in InAcquire /\ name'[u] = trainer => sup' = "acquiring" /\ u = call'
    BY <1>0, <2>0 DEF HoldInv
  <2>4. sup' = "acquiring" => /\ pc'[call'] \in {"idle"} \cup (InAcquire \ {"own"})
                              /\ pc'[call'] # "idle" => name'[call'] = trainer
    BY <1>0, <2>0, <2>1 DEF HoldInv
  <2>5. /\ leased'[trainer] => sup' \in {"watching", "killing", "releasing"} \/ Granted'
        /\ Holds' => leased'[trainer] /\ ~stale'[trainer]
    BY <1>0, <1>2, <2>0, <2>2 DEF HoldInv, Holds
  <2>. QED  BY <2>3, <2>4, <2>5 DEF HoldInv
<1>. QED  BY <1>0, <1>1, <1>2 DEF Reliable

\* The rest of what the event loop does.
LEMMA LoopHolds ==
  ASSUME TrainerIInv, ArbiterStep, UNCHANGED faults
  PROVE  CallInv' /\ (Reliable' => HoldInv')
<1>0. /\ TypeOK /\ CallInv /\ trainer \in Names /\ Kind[trainer] = "cooperative"
      /\ leased \in [Names -> BOOLEAN] /\ stale \in [Names -> BOOLEAN]
      /\ pc \in [Actors -> Places] /\ name \in [Tasks -> Names \cup {NoOne}]
      /\ Reaper \notin Tasks /\ Tasks \subseteq Actors /\ UNCHANGED supVars
  BY TrainerFacts DEF ArbiterStep
<1>1. CASE \E t \in Tasks : OwnerStep(t)
  BY <1>0, <1>1, OwnerHolds
<1>2. ASSUME NEW t \in Tasks, ReleaseProbed(t)
      PROVE  CallInv' /\ (Reliable' => HoldInv')
  <2>1. PICK x : Reply(t, x)
    BY <1>2 DEF ReleaseProbed
  <2>2. /\ \A u \in Tasks \ {t} : name'[u] = name[u] /\ answer'[u] = answer[u] /\ pc'[u] = pc[u]
        /\ pc'[t] = "idle"
    BY <1>0, <2>1, ReplyShape
  <2>3. pc[t] = "unlease" /\ name[t] # trainer
    BY <1>0, <1>2 DEF ReleaseProbed, CallInv
  <2>4. leased'[trainer] = leased[trainer] /\ stale'[trainer] = stale[trainer]
    BY <1>0, <1>2, <2>3 DEF ReleaseProbed, Forget, leaseVars
  <2>5. Reliable /\ sup = "acquiring" => t # call
    BY <2>3 DEF TrainerIInv, HoldInv, InAcquire
  <2>. QED  BY <1>0, <2>2, <2>4, <2>5, QuietHolds DEF InAcquire
<1>3. ASSUME NEW t \in Tasks, NoticeEnded(t)
      PROVE  CallInv' /\ (Reliable' => HoldInv')
  <2>1. PICK x : Reply(t, x)
    BY <1>3 DEF NoticeEnded
  <2>2. /\ \A u \in Tasks \ {t} : name'[u] = name[u] /\ answer'[u] = answer[u] /\ pc'[u] = pc[u]
        /\ pc'[t] = "idle"
    BY <1>0, <2>1, ReplyShape
  <2>3. pc[t] \in {"notice", "woken"} /\ leased' = leased /\ (stale'[trainer] => stale[trainer])
    BY <1>0, <1>3 DEF NoticeEnded
  <2>5. Reliable /\ sup = "acquiring" => t # call
    BY <2>3 DEF TrainerIInv, HoldInv, InAcquire
  <2>. QED  BY <1>0, <2>2, <2>3, <2>5, QuietHolds DEF InAcquire
<1>4. CASE ReaperStep
  <2>1. \A u \in Tasks : pc'[u] = pc[u] /\ name'[u] = name[u] /\ answer'[u] = answer[u]
    BY <1>0, <1>4 DEF ReaperStep, ReapDue, ReapEntered, Sweep, Census, ReapEnds
  <2>2. /\ leased'[trainer] => leased[trainer]
        /\ stale' = stale
        /\ leased[trainer] /\ ~leased'[trainer] => stale[trainer]
    <3>1. CASE Sweep
      <4>1. \/ UNCHANGED leased
            \/ \E k \in Names : Forget(k) /\ (Kind[k] = "container" \/ SilentTooLong(k))
        BY <1>0, <3>1 DEF Sweep, leaseVars, TypeOK
      <4>2. UNCHANGED stale
        BY <3>1 DEF Sweep, leaseVars
      <4>3. ASSUME NEW k \in Names, Forget(k), Kind[k] = "container" \/ SilentTooLong(k)
            PROVE  /\ leased'[trainer] => leased[trainer]
                   /\ leased[trainer] /\ ~leased'[trainer] => stale[trainer]
        BY <1>0, <4>3 DEF Forget, SilentTooLong
      <4>. QED  BY <4>1, <4>2, <4>3
    <3>2. CASE ReapDue \/ ReapEntered \/ Census
      BY <3>2 DEF ReapDue, ReapEntered, Census, leaseVars
    <3>. QED  BY <1>4, <3>1, <3>2 DEF ReaperStep
  <2>. QED  BY <1>0, <2>1, <2>2, QuietHolds
<1>. QED  BY <1>1, <1>2, <1>3, <1>4 DEF ArbiterStep, TaskStep, OwnerStep

\* Calls of the other jobs, and what happens to the machine.
LEMMA OutsideHolds ==
  ASSUME TrainerIInv, OtherCalls \/ TrainerWorld, UNCHANGED faults
  PROVE  CallInv' /\ (Reliable' => HoldInv')
<1>0. /\ TypeOK /\ CallInv /\ trainer \in Names /\ Kind[trainer] = "cooperative"
      /\ leased \in [Names -> BOOLEAN] /\ stale \in [Names -> BOOLEAN]
      /\ pc \in [Actors -> Places] /\ name \in [Tasks -> Names \cup {NoOne}]
      /\ answer \in [Tasks -> Answers] /\ EarInv /\ doomed \in BOOLEAN
      /\ Callers \subseteq Tasks /\ Tasks \subseteq Actors /\ UNCHANGED supVars
  BY TrainerFacts DEF OtherCalls, TrainerWorld, TypeOK, TrainerIInv, SupTypeOK
<1>1. ASSUME NEW t \in Callers, NEW n \in Names \ {trainer}, CallArrives(t, n)
      PROVE  CallInv' /\ (Reliable' => HoldInv')
  <2>1. /\ \A u \in Tasks \ {t} : name'[u] = name[u] /\ answer'[u] = answer[u] /\ pc'[u] = pc[u]
        /\ pc'[t] = "unlease" => Kind[name'[t]] = "container"
        /\ pc'[t] \in InAcquire => name'[t] # trainer
    <3>1. CASE AcquireCalled(t, n)
      BY <1>0, <1>1, <3>1 DEF AcquireCalled, InAcquire
    <3>2. CASE ReleaseCalled(t, n)
      BY <1>0, <1>1, <3>2, ReplyShape DEF ReleaseCalled, InAcquire
    <3>3. CASE NoticeCalled(t, n)
      BY <1>0, <1>1, <3>3, ReplyShape DEF NoticeCalled, InAcquire
    <3>. QED  BY <1>1, <3>1, <3>2, <3>3 DEF CallArrives
  <2>2. leased'[trainer] = leased[trainer] /\ stale'[trainer] = stale[trainer]
    BY <1>0, <1>1 DEF CallArrives, AcquireCalled, ReleaseCalled, NoticeCalled, Forget, leaseVars
  <2>3. sup = "acquiring" => t # call
    BY <1>0 DEF CallInv
  <2>. QED  BY <1>0, <2>1, <2>2, <2>3, QuietHolds
<1>2. CASE TrainerWorld
  <2>1. CASE "restart" \in faults /\ Restart
    <3>1. ~Reliable
      BY <2>1 DEF Reliable, Unreliable
    <3>2. \A u \in Tasks : pc'[u] = "idle"
      BY <1>0, <2>1 DEF Restart
    <3>. QED  BY <1>0, <3>1, <3>2, QuietHolds DEF InAcquire
  <2>2. ASSUME NEW k \in Names, ContainerTurns(k)
        PROVE  CallInv' /\ (Reliable' => HoldInv')
    BY <1>0, <2>2, QuietHolds DEF ContainerTurns, leaseVars, taskVars
  <2>3. ASSUME NEW k \in Names, k = trainer => ~Attended, PollAges(k)
        PROVE  CallInv' /\ (Reliable' => HoldInv')
    <3>1. Reliable /\ Holds => Attended
      BY <1>0 DEF Reliable, Unreliable, Holds, Granted, Attended, EarInv
    <3>2. Reliable /\ Holds => stale'[trainer] = stale[trainer]
      BY <1>0, <2>3, <3>1 DEF PollAges
    <3>3. UNCHANGED <<leased, pc, name, answer>>
      BY <2>3 DEF PollAges, taskVars
    <3>. QED  BY <1>0, <3>2, <3>3, QuietHolds
  <2>. QED  BY <1>2, <2>1, <2>2, <2>3 DEF TrainerWorld
<1>. QED  BY <1>1, <1>2 DEF OtherCalls

\* The main thread, the ear and the container leave the arbiter alone, or call it.
LEMMA MainHolds ==
  ASSUME TrainerIInv, MainStep, UNCHANGED faults
  PROVE  SupTypeOK' /\ CallInv' /\ (Reliable' => HoldInv')
<1>0. /\ TypeOK /\ CallInv /\ trainer \in Names /\ Kind[trainer] = "cooperative" /\ SupTypeOK
      /\ leased \in [Names -> BOOLEAN] /\ stale \in [Names -> BOOLEAN]
      /\ pc \in [Actors -> Places] /\ name \in [Tasks -> Names \cup {NoOne}]
      /\ answer \in [Tasks -> Answers] /\ Callers \subseteq Tasks /\ Tasks \subseteq Actors
      /\ NoOne \notin Tasks /\ EarInv
      /\ Reliable' <=> Reliable
      /\ Reliable => HoldInv
  BY TrainerFacts DEF TypeOK, Reliable, TrainerIInv
<1>1. CASE Ask
  <2>1. CASE UNCHANGED vars /\ sup' = "leaving"
    <3>1. UNCHANGED <<pc, name, answer, leased, stale, call, worker>>
      BY <1>1, <2>1 DEF Ask, vars, leaseVars, taskVars
    <3>2. SupTypeOK' /\ CallInv'
      BY <1>0, <1>1, <2>1, <3>1 DEF Ask, SupTypeOK, CallInv
    <3>3. Reliable => HoldInv'
      BY <1>0, <1>1, <2>1, <3>1 DEF Ask, HoldInv, Holds, Granted
    <3>. QED  BY <1>0, <3>2, <3>3
  <2>2. ASSUME NEW t \in Tasks, Free(t), AcquireCalled(t, trainer), call' = t, sup' = "acquiring"
        PROVE  SupTypeOK' /\ CallInv' /\ (Reliable' => HoldInv')
    <3>1. /\ \A u \in Tasks \ {t} : name'[u] = name[u] /\ pc'[u] = pc[u]
          /\ pc'[t] = "lock" /\ name'[t] = trainer /\ UNCHANGED <<leased, stale>>
          /\ sup = "asking" /\ UNCHANGED <<worker, faults>>
      BY <1>0, <1>1, <2>2 DEF Ask, AcquireCalled, leaseVars
    <3>2. SupTypeOK'
      BY <1>0, <1>1, <2>2 DEF Ask, SupTypeOK
    <3>3. CallInv'
      BY <1>0, <2>2, <3>1 DEF Free, CallInv
    <3>4. Reliable => HoldInv'
      BY <1>0, <2>2, <3>1 DEF HoldInv, Holds, Granted, InAcquire
    <3>. QED  BY <1>0, <3>2, <3>3, <3>4
  <2>. QED  BY <1>1, <2>1, <2>2 DEF Ask
<1>2. CASE AcquireReturned
  <2>1. /\ UNCHANGED <<pc, name, answer, leased, stale, faults>> /\ pc[call] = "idle"
        /\ sup = "acquiring"
        /\ \/ answer[call] = "granted" /\ sup' = "watching"
           \/ answer[call] # "granted" /\ sup' = "asking" /\ UNCHANGED worker
    BY <1>2 DEF AcquireReturned, vars, leaseVars, taskVars
  <2>2. SupTypeOK'
    BY <1>0, <1>2 DEF AcquireReturned, SupTypeOK
  <2>3. CallInv'
    BY <1>0, <2>1 DEF CallInv
  <2>4. Reliable => HoldInv'
    BY <1>0, <2>1 DEF HoldInv, Holds, Granted, InAcquire, CallInv
  <2>. QED  BY <1>0, <2>2, <2>3, <2>4
<1>3. CASE AcquireLost
  <2>1. ~Reliable /\ UNCHANGED <<pc, name, worker, faults>> /\ sup = "acquiring" /\ sup' = "asking"
    BY <1>3 DEF AcquireLost, Reliable, Unreliable, vars, taskVars
  <2>2. SupTypeOK' /\ CallInv'
    BY <1>0, <1>3, <2>1 DEF AcquireLost, SupTypeOK, CallInv
  <2>. QED  BY <1>0, <2>1, <2>2
<1>4. CASE WatchWorker
  <2>1. /\ UNCHANGED <<pc, name, answer, leased, stale, faults, worker, call, stopping>>
        /\ sup \in {"watching", "killing"}
        /\ \/ sup' = "killing" /\ worker = "alive" /\ heard
           \/ sup' = "releasing" /\ worker # "alive"
    BY <1>4 DEF WatchWorker, Reaped, vars, leaseVars, taskVars
  <2>2. SupTypeOK'
    BY <1>0, <1>4 DEF WatchWorker, Reaped, SupTypeOK
  <2>3. CallInv'
    BY <1>0, <2>1 DEF CallInv
  <2>4. Reliable => HoldInv'
    BY <1>0, <2>1 DEF HoldInv, Holds, Granted, EarInv
  <2>. QED  BY <1>0, <2>2, <2>3, <2>4
<1>5. CASE Release \/ Leave
  <2>1. /\ sup \in {"releasing", "leaving"} /\ sup' \in {"asking", "leaving", "gone"} /\ Released
        /\ worker' \in {"none", worker} /\ UNCHANGED <<faults, call>>
    BY <1>5 DEF Release, Leave
  <2>2. SupTypeOK'
    BY <1>0, <1>5 DEF Release, Leave, SupTypeOK
  <2>3. ASSUME NEW t \in Tasks, Free(t), ReleaseCalled(t, trainer)
        PROVE  CallInv' /\ (Reliable => HoldInv')
    <3>1. Reply(t, "released") /\ ~leased'[trainer]
      BY <1>0, <2>3 DEF ReleaseCalled, Forget, leaseVars
    <3>2. \A u \in Tasks : pc'[u] # "idle" => pc'[u] = pc[u] /\ name'[u] = name[u]
      BY <1>0, <3>1, ReplyShape
    <3>3. CallInv'
      BY <1>0, <2>1, <3>2 DEF CallInv
    <3>4. Reliable => HoldInv'
      BY <1>0, <2>1, <3>1, <3>2 DEF HoldInv, Holds, Granted, InAcquire
    <3>. QED  BY <3>3, <3>4
  <2>4. ASSUME "lose" \in faults, UNCHANGED vars
        PROVE  CallInv' /\ (Reliable => HoldInv')
    <3>1. ~Reliable /\ UNCHANGED <<pc, name>>
      BY <2>4 DEF Reliable, Unreliable, vars, taskVars
    <3>2. CallInv'
      BY <1>0, <2>1, <3>1 DEF CallInv
    <3>. QED  BY <3>1, <3>2
  <2>. QED  BY <1>0, <2>1, <2>2, <2>3, <2>4 DEF Released
<1>. QED  BY <1>1, <1>2, <1>3, <1>4, <1>5 DEF MainStep

LEMMA EarHolds ==
  ASSUME TrainerIInv, EarStep, UNCHANGED faults
  PROVE  SupTypeOK' /\ CallInv' /\ (Reliable' => HoldInv')
<1>0. /\ TypeOK /\ CallInv /\ trainer \in Names /\ SupTypeOK
      /\ pc \in [Actors -> Places] /\ name \in [Tasks -> Names \cup {NoOne}]
      /\ leased \in [Names -> BOOLEAN] /\ stale \in [Names -> BOOLEAN]
      /\ answer \in [Tasks -> Answers] /\ Tasks \subseteq Actors
      /\ Reliable' <=> Reliable
      /\ Reliable => HoldInv
  BY TrainerFacts DEF TypeOK, Reliable, TrainerIInv
<1>1. UNCHANGED <<sup, call, worker, doomed, stopping, faults>>
  BY DEF EarStep, EarCalls, EarReturned, EarLost
<1>2. SupTypeOK'
  <2>1. CASE EarCalls
    BY <1>0, <2>1 DEF EarCalls, SupTypeOK
  <2>2. CASE EarReturned
    BY <1>0, <2>2 DEF EarReturned, SupTypeOK
  <2>3. CASE EarLost
    BY <1>0, <2>3 DEF EarLost, SupTypeOK
  <2>. QED  BY <2>1, <2>2, <2>3 DEF EarStep
<1>3. CASE UNCHANGED vars
  <2>1. UNCHANGED <<pc, name, answer, leased, stale>>
    BY <1>3 DEF vars, leaseVars, taskVars
  <2>. QED  BY <1>0, <1>1, <1>2, <2>1 DEF CallInv, HoldInv, Holds, Granted
<1>4. ASSUME NEW t \in Tasks, Free(t), NoticeCalled(t, trainer)
      PROVE  CallInv' /\ (Reliable => HoldInv')
  <2>1. /\ \A u \in Tasks \ {t} : name'[u] = name[u] /\ answer'[u] = answer[u] /\ pc'[u] = pc[u]
        /\ pc'[t] \in {"idle", "notice"}
        /\ leased' = leased /\ (stale'[trainer] => stale[trainer]) /\ t # call
    BY <1>0, <1>4, ReplyShape DEF NoticeCalled, Free
  <2>2. CallInv'
    BY <1>0, <1>1, <2>1 DEF CallInv
  <2>3. sup = "acquiring" => call \in Tasks \ {t}
    BY <1>0, <2>1 DEF CallInv
  <2>4. Granted' <=> Granted
    BY <1>1, <2>1, <2>3 DEF Granted
  <2>5. Reliable => HoldInv'
    BY <1>0, <1>1, <2>1, <2>3, <2>4 DEF HoldInv, Holds, InAcquire
  <2>. QED  BY <2>2, <2>5
<1>. QED  BY <1>0, <1>2, <1>3, <1>4 DEF EarStep, EarCalls, EarReturned, EarLost

LEMMA ContainerHolds ==
  ASSUME TrainerIInv, RequestShutdown \/ WorkerEnds \/ WorkerDies \/ Crash \/ Submit,
         UNCHANGED faults
  PROVE  SupTypeOK' /\ CallInv' /\ (Reliable' => HoldInv')
<1>0. /\ CallInv /\ SupTypeOK
      /\ Reliable' <=> Reliable
      /\ Reliable => HoldInv
  BY TrainerFacts DEF Reliable, TrainerIInv
<1>1. UNCHANGED <<pc, name, answer, leased, stale>>
  BY DEF RequestShutdown, WorkerEnds, WorkerDies, Crash, Submit, vars, leaseVars, taskVars
<1>2. CASE RequestShutdown \/ WorkerEnds \/ WorkerDies
  <2>1. /\ UNCHANGED <<sup, call>> /\ (worker' = "alive" => worker = "alive")
        /\ \/ UNCHANGED <<doomed, stopping>>
           \/ ~stopping /\ stopping'
    BY <1>2 DEF RequestShutdown, WorkerEnds, WorkerDies
  <2>2. SupTypeOK'
    <3>1. CASE RequestShutdown
      <4>1. (doomed \/ worker = "alive") \in BOOLEAN
        OBVIOUS
      <4>. QED  BY <1>0, <3>1, <4>1 DEF RequestShutdown, SupTypeOK
    <3>2. CASE WorkerEnds \/ WorkerDies
      BY <1>0, <3>2 DEF WorkerEnds, WorkerDies, SupTypeOK
    <3>. QED  BY <1>2, <3>1, <3>2
  <2>. QED  BY <1>0, <1>1, <2>1, <2>2 DEF CallInv, HoldInv, Holds, Granted
<1>3. CASE Crash
  <2>1. ~Reliable /\ SupTypeOK' /\ sup' = "gone" /\ worker' = "none"
    BY <1>0, <1>3 DEF Crash, Reliable, Unreliable, SupTypeOK
  <2>. QED  BY <1>0, <1>1, <2>1 DEF CallInv
<1>4. CASE Submit
  <2>1. SupTypeOK' /\ sup = "gone" /\ sup' = "asking" /\ UNCHANGED <<worker, call>>
    BY <1>0, <1>4 DEF Submit, SupTypeOK
  <2>. QED  BY <1>0, <1>1, <2>1 DEF CallInv, HoldInv, Holds, Granted
<1>. QED  BY <1>2, <1>3, <1>4

\* The notice thread of a worker ends with it, with a shutdown, or with a reclaim.
LEMMA EarKeeps ==
  ASSUME TrainerIInv, [TrainerNext]_allVars
  PROVE  EarInv'
<1>0. SupTypeOK /\ CallInv /\ EarInv
  BY DEF TrainerIInv
<1>1. CASE \/ ArbiterStep \/ OtherCalls \/ TrainerWorld \/ UNCHANGED allVars
  <2>1. UNCHANGED <<worker, doomed, ear, heard, stopping>>
    BY <1>1 DEF ArbiterStep, OtherCalls, TrainerWorld, supVars, allVars
  <2>. QED  BY <1>0, <2>1 DEF EarInv
<1>2. CASE MainStep
  <2>1. CASE AcquireReturned
    BY <1>0, <2>1 DEF AcquireReturned, EarInv
  <2>2. CASE WatchWorker
    BY <1>0, <2>2 DEF WatchWorker, Reaped, EarInv
  <2>3. CASE Ask \/ AcquireLost
    BY <1>0, <2>3 DEF Ask, AcquireLost, EarInv
  <2>4. CASE Release \/ Leave
    BY <1>0, <2>4 DEF Release, Leave, EarInv, CallInv
  <2>. QED  BY <1>2, <2>1, <2>2, <2>3, <2>4 DEF MainStep
<1>3. CASE EarStep
  <2>1. CASE EarCalls
    BY <1>0, <2>1 DEF EarCalls, EarInv
  <2>2. CASE EarReturned
    BY <1>0, <2>2 DEF EarReturned, EarInv
  <2>3. CASE EarLost
    BY <1>0, <2>3 DEF EarLost, EarInv
  <2>. QED  BY <1>3, <2>1, <2>2, <2>3 DEF EarStep
<1>4. CASE RequestShutdown \/ WorkerEnds \/ WorkerDies \/ Crash \/ Submit
  BY <1>0, <1>4 DEF RequestShutdown, WorkerEnds, WorkerDies, Crash, Submit, EarInv, CallInv, SupTypeOK
<1>. QED  BY <1>1, <1>2, <1>3, <1>4 DEF TrainerNext

-----------------------------------------------------------------------------
(* The theorems.                                                           *)

LEMMA TrainerInitInv ==
  ASSUME TrainerInit
  PROVE  TrainerIInv
<1>1. IInv
  BY InitInv DEF TrainerInit
<1>2. SupTypeOK
  BY DEF TrainerInit, SupTypeOK
<1>3. /\ \A t \in Tasks : pc[t] = "idle"
      /\ ~leased[trainer]
  BY TrainerAssumption DEF TrainerInit, Init, Actors
<1>4. CallInv /\ EarInv /\ HoldInv
  BY <1>3 DEF TrainerInit, CallInv, EarInv, HoldInv, Holds, InAcquire, Granted
<1>. QED  BY <1>1, <1>2, <1>4 DEF TrainerIInv

LEMMA TrainerStepInv ==
  ASSUME TrainerIInv, [TrainerNext]_allVars
  PROVE  TrainerIInv'
<1>1. IInv'
  BY StepIsArbiters, StepKeepsInv DEF TrainerIInv
<1>2. SupTypeOK' /\ CallInv' /\ (Reliable' => HoldInv')
  <2>1. CASE UNCHANGED allVars
    <3>1. UNCHANGED <<supVars, faults, pc, name, answer, leased, stale>>
      BY <2>1 DEF allVars, vars, leaseVars, taskVars
    <3>. QED
      BY <3>1 DEF TrainerIInv, supVars, SupTypeOK, CallInv, Reliable, HoldInv, Holds, Granted
  <2>2. CASE (ArbiterStep \/ OtherCalls \/ TrainerWorld) /\ UNCHANGED faults
    <3>1. UNCHANGED <<supVars, faults>>
      BY <2>2 DEF ArbiterStep, OtherCalls, TrainerWorld
    <3>2. SupTypeOK'
      BY <3>1 DEF supVars, SupTypeOK, TrainerIInv
    <3>. QED  BY <2>2, <3>2, LoopHolds, OutsideHolds
  <2>3. CASE MainStep /\ UNCHANGED faults
    BY <2>3, MainHolds
  <2>4. CASE EarStep /\ UNCHANGED faults
    BY <2>4, EarHolds
  <2>5. CASE (RequestShutdown \/ WorkerEnds \/ WorkerDies \/ Crash \/ Submit) /\ UNCHANGED faults
    BY <2>5, ContainerHolds
  <2>. QED  BY <2>1, <2>2, <2>3, <2>4, <2>5 DEF TrainerNext
<1>3. EarInv'
  BY EarKeeps
<1>. QED  BY <1>1, <1>2, <1>3 DEF TrainerIInv

\* The supervisor's state is well formed, and where the network, the arbiter and the
\* container hold, a worker on the card is a worker with a lease, whatever the other
\* jobs do meanwhile, unless it was started after the shutdown signal, which leaves
\* it unwatched (supervisor.py, run, watch_for_reclaim; scheduler.py, reap).
THEOREM WorkerKeepsLease == TrainerSpec => []TrainerInv
<1>1. TrainerIInv => TrainerInv
  BY DEF TrainerIInv, TrainerInv, TrainerTypeOK, SupTypeOK, WorkerIsLeased, Unwatched,
         CallInv, HoldInv, Holds, Reliable, IInv
<1>2. TrainerInit => TrainerIInv
  BY TrainerInitInv
<1>3. TrainerIInv /\ [TrainerNext]_allVars => TrainerIInv'
  BY TrainerStepInv
<1>. QED  BY <1>1, <1>2, <1>3, PTL DEF TrainerSpec

\* Beside a supervisor, with all its faults, the arbiter is the arbiter that
\* ArbiterProofs is about: one lease at a time, no lost wake-up, no stripped holder
\* (supervisor.py calls nothing but main.py's endpoints).
THEOREM ImplementsArbiter == TrainerSpec => Spec
<1>1. TrainerInit => Init
  BY DEF TrainerInit
<1>2. [TrainerNext]_allVars => [Next]_vars
  BY StepIsArbiters
<1>. QED  BY <1>1, <1>2, PTL DEF TrainerSpec, Spec
=============================================================================
