------------------------------- MODULE Arbiter -------------------------------
(***************************************************************************)
(* The GPU arbiter: arbiter/scheduler.py (admission and reaping),          *)
(* arbiter/reclaimers.py (how the card is taken back) and the endpoints of *)
(* arbiter/main.py.                                                        *)
(*                                                                         *)
(* One HTTP call is one task.  The arbiter is a single asyncio event loop, *)
(* so a task runs without interruption from one suspending await to the    *)
(* next, and that stretch is one action here.  The suspension points are   *)
(*   lock     waiting for Scheduler._lock                                  *)
(*   own      Docker is asked whether the caller's own container is up     *)
(*   probe    Docker is asked whether another leased container is up       *)
(*   kill     a container was signalled and must be seen to be gone        *)
(*   letgo    a cooperative holder was told, and must release              *)
(*   settle   the driver is giving memory back                             *)
(*   unlease  release asks Docker whether the releasing container is up    *)
(*   notice   a reclaim-notice call blocks until the card is wanted        *)
(*   woken    the same call, its event already set                         *)
(* Seconds are left out: a timeout may fire at any moment of a wait, and   *)
(* `stale' says that a cooperative job has been silent for longer than     *)
(* COOPERATIVE_STALE_AFTER.  The VRAM readings are an arbitrary verdict.   *)
(***************************************************************************)
EXTENDS Integers, Sequences, FiniteSets

CONSTANTS
  Names,         \* every name a caller may send
  JobOrder,      \* the names of jobs.yaml in the order load_jobs returns them
  Kind,          \* how the card is taken back from a name
  Priority,      \* its rank
  RequiresRoom,  \* whether it states a required_mb
  Tasks,         \* the HTTP calls that can be under way at once
  Reaper,        \* the housekeeping loop, the other user of the lock
  NoOne,         \* absence of a name
  MayTimeOut,    \* whether a wait for a cooperative holder may run out
  MayRestart     \* whether the arbiter process may be restarted

Kinds == {"none", "container", "cooperative"}

ASSUME ArbiterAssumption ==
  /\ JobOrder \in Seq(Names)
  /\ \A i, j \in 1..Len(JobOrder) :
       i < j => /\ JobOrder[i] # JobOrder[j]
                /\ Priority[JobOrder[i]] >= Priority[JobOrder[j]]
  /\ Kind \in [Names -> Kinds]
  /\ Priority \in [Names -> Int]
  /\ RequiresRoom \in [Names -> BOOLEAN]
  /\ \A n \in Names \ {JobOrder[i] : i \in 1..Len(JobOrder)} :
       Kind[n] = "none" /\ Priority[n] = 0 /\ RequiresRoom[n] = FALSE
  /\ Reaper \notin Tasks
  /\ NoOne \notin Names
  /\ MayTimeOut \in BOOLEAN
  /\ MayRestart \in BOOLEAN

VARIABLES
  leased,   \* Reclaimer._held
  wanted,   \* CooperativeReclaimer._wanted
  letGo,    \* CooperativeReclaimer._let_go
  stale,    \* seconds_since_poll() > COOPERATIVE_STALE_AFTER
  up,       \* what Docker would say of a container
  order,    \* the keys of Scheduler.reclaimers, in insertion order
  queue,    \* Scheduler._lock: its owner first, then the waiters
  holder,   \* Scheduler._holder, the cache behind /gpu/status
  pc,       \* where each task is suspended
  name,     \* the name each task was called with
  answer,   \* the last answer each task gave
  walk,     \* the locals of the one acquire that owns the lock
  todo      \* the jobs the reaper has still to look at

leaseVars == <<leased, wanted, letGo, stale>>
taskVars  == <<pc, name, answer>>
lockVars  == <<queue, walk, todo>>
vars == <<leaseVars, up, order, holder, taskVars, lockVars>>

Actors  == Tasks \cup {Reaper}
Known   == {order[i] : i \in 1..Len(order)}
NoWalk  == [at |-> 0, size |-> 0, stopped |-> FALSE]
Answers == {"none", "granted", "refused", "released", "reclaim", "keep", "error"}
Places == {"idle", "lock", "own", "probe", "kill", "letgo", "settle", "unlease",
           "notice", "woken", "sweep", "census"}

TypeOK ==
  /\ leased \in [Names -> BOOLEAN]
  /\ wanted \in [Names -> BOOLEAN]
  /\ letGo \in [Names -> BOOLEAN]
  /\ stale \in [Names -> BOOLEAN]
  /\ up \in [Names -> BOOLEAN]
  /\ order \in Seq(Names)
  /\ queue \in Seq(Actors)
  /\ holder \in Names \cup {NoOne}
  /\ pc \in [Actors -> Places]
  /\ name \in [Tasks -> Names \cup {NoOne}]
  /\ answer \in [Tasks -> Answers]
  /\ walk \in [at : Nat, size : Nat, stopped : BOOLEAN]
  /\ todo \in SUBSET Names

Init ==
  /\ leased = [n \in Names |-> FALSE]
  /\ wanted = [n \in Names |-> FALSE]
  /\ letGo = [n \in Names |-> FALSE]
  /\ stale = [n \in Names |-> FALSE]
  /\ up \in {u \in [Names -> BOOLEAN] : \A n \in Names : u[n] => Kind[n] = "container"}
  /\ order = JobOrder
  /\ queue = <<>>
  /\ holder = NoOne
  /\ pc = [a \in Actors |-> "idle"]
  /\ name = [t \in Tasks |-> NoOne]
  /\ answer = [t \in Tasks |-> "none"]
  /\ walk = NoWalk
  /\ todo = {}

-----------------------------------------------------------------------------
(* The pieces acquire, release and reap are made of.                       *)

Cooperative(k) == Kind[k] = "cooperative"

\* Seeded fault: the job is entered under no name.
RegisteredBlank(n) == IF n \in Known THEN order ELSE Append(order, NoOne)

\* A name jobs.yaml does not have joins the end of the table: _job_for.
Registered(n) == IF n \in Known THEN order ELSE Append(order, n)

Outranks(n, k) == Priority[n] > Priority[k]

\* The answer of task t, which is then free for another call.
Reply(t, a) ==
  /\ pc' = [pc EXCEPT ![t] = "idle"]
  /\ name' = [name EXCEPT ![t] = NoOne]
  /\ answer' = [answer EXCEPT ![t] = a]

\* asyncio.Lock is FIFO: the next waiter owns it.
Unlock == queue' = Tail(queue) /\ walk' = NoWalk

\* Seeded fault: forget() leaves the wish for the card behind.
ForgetLeavesWanted(k) ==
  /\ leased' = [leased EXCEPT ![k] = FALSE]
  /\ letGo' = [letGo EXCEPT ![k] = Cooperative(k)]
  /\ UNCHANGED wanted

\* Seeded fault: forget() does not wake whoever waits for the holder.
ForgetQuietly(k) ==
  /\ leased' = [leased EXCEPT ![k] = FALSE]
  /\ wanted' = [wanted EXCEPT ![k] = FALSE]
  /\ UNCHANGED letGo

\* forget(): the lease goes, and whoever waits for the holder is released.
Forget(k) ==
  /\ leased' = [leased EXCEPT ![k] = FALSE]
  /\ wanted' = [wanted EXCEPT ![k] = FALSE]
  /\ letGo' = [letGo EXCEPT ![k] = Cooperative(k)]

\* Seeded fault: grant() does not clear the event of the last lease.
GrantOldEvent(n, held) ==
  /\ leased' = [held EXCEPT ![n] = TRUE]
  /\ wanted' = [wanted EXCEPT ![n] = FALSE]
  /\ stale' = [stale EXCEPT ![n] = FALSE]
  /\ holder' = n
  /\ UNCHANGED letGo

\* grant() on top of the lease table `held'.
Grant(n, held) ==
  /\ leased' = [held EXCEPT ![n] = TRUE]
  /\ wanted' = [wanted EXCEPT ![n] = FALSE]
  /\ letGo' = [letGo EXCEPT ![n] = FALSE]
  /\ stale' = [stale EXCEPT ![n] = FALSE]
  /\ holder' = n

\* _fits and what follows it.  Only a job that states a requirement can be
\* refused for want of room, and an unreadable card never refuses.
Admit(t, held) ==
  /\ Unlock
  /\ \/ Grant(name[t], held) /\ Reply(t, "granted")
     \/ /\ RequiresRoom[name[t]]
        /\ leased' = held
        /\ Reply(t, "refused")
        /\ UNCHANGED <<wanted, letGo, stale, holder>>

\* Does the loop of acquire stop at k?  A junior lease of kind none is dropped
\* without suspending, so the loop runs straight past it.
Stops(n, k, held) == held[k] /\ k # n /\ (Kind[k] # "none" \/ ~Outranks(n, k))

\* Seeded fault: the reclaim of a lease of kind none does nothing at all.
DroppedNever(n, i, j, held) == {}

Dropped(n, i, j, held) ==
  {k \in Names : held[k] /\ k # n /\ \E m \in i..(j - 1) : order[m] = k}

\* The loop is at position j, whose job it cannot run past: a container is
\* looked up, a lease that is not outranked refuses the caller, a cooperative
\* holder is told to go, which wakes every notice call that waits for it.
StopAt(t, j, w, held) ==
  LET k == order[j] IN
  /\ leased' = held
  /\ UNCHANGED <<letGo, stale, holder>>
  /\ \/ /\ Kind[k] = "container"
        /\ pc' = [pc EXCEPT ![t] = "probe"]
        /\ walk' = [w EXCEPT !.at = j]
        /\ UNCHANGED <<wanted, queue, name, answer>>
     \/ /\ Kind[k] # "container" /\ ~Outranks(name[t], k)
        /\ Reply(t, "refused")
        /\ Unlock
        /\ UNCHANGED wanted
     \/ /\ Cooperative(k) /\ Outranks(name[t], k)
        /\ wanted' = [wanted EXCEPT ![k] = TRUE]
        /\ pc' = [a \in Actors |->
                    IF a = t THEN "letgo" ELSE
                    IF pc[a] = "notice" /\ name[a] = k THEN "woken" ELSE pc[a]]
        /\ walk' = [w EXCEPT !.at = j]
        /\ UNCHANGED <<queue, name, answer>>

\* The loop of acquire from position w.at, over the lease table `held', to the
\* next place where it suspends, refuses or ends.
WalkFrom(t, w, held) ==
  \E j \in w.at..(Len(order) + 1) :
    LET gone == Dropped(name[t], w.at, j, held)
        rest == [k \in Names |-> held[k] /\ k \notin gone]
        some == w.stopped \/ gone # {}
    IN
    /\ \A m \in w.at..(j - 1) : ~Stops(name[t], order[m], held)
    /\ \/ /\ j <= Len(order) /\ Stops(name[t], order[j], held)
          /\ StopAt(t, j, [w EXCEPT !.stopped = some], rest)
       \/ /\ j = Len(order) + 1 /\ some
          /\ leased' = rest
          /\ pc' = [pc EXCEPT ![t] = "settle"]
          /\ walk' = [w EXCEPT !.at = j, !.stopped = TRUE]
          /\ UNCHANGED <<wanted, letGo, stale, holder, queue, name, answer>>
       \/ /\ j = Len(order) + 1 /\ ~some
          /\ Admit(t, rest)

\* Python raises when a dictionary that is being iterated has grown: a name
\* registered while the loop was suspended ends it with an exception.
Resume(t, w, held) ==
  \/ /\ Len(order) # w.size
     /\ leased' = held
     /\ Reply(t, "error")
     /\ Unlock
     /\ UNCHANGED <<wanted, letGo, stale, holder>>
  \/ /\ Len(order) = w.size
     /\ WalkFrom(t, [w EXCEPT !.at = @ + 1], held)

\* Seeded fault: a refusal keeps the lock.
GiveUpLocked(t, a) ==
  /\ Reply(t, a)
  /\ UNCHANGED <<leaseVars, holder, queue, walk>>

\* The task that owns the lock gives up with answer a, leaving every lease.
GiveUp(t, a) ==
  /\ Reply(t, a)
  /\ Unlock
  /\ UNCHANGED <<leaseVars, holder>>

FirstStep == [at |-> 1, size |-> Len(order), stopped |-> FALSE]

-----------------------------------------------------------------------------
(* POST /gpu/acquire                                                       *)

AcquireCalled(t, n) ==
  /\ pc[t] = "idle"
  /\ pc' = [pc EXCEPT ![t] = "lock"]
  /\ name' = [name EXCEPT ![t] = n]
  /\ answer' = [answer EXCEPT ![t] = "none"]
  /\ order' = Registered(n)
  /\ queue' = Append(queue, t)
  /\ UNCHANGED <<leaseVars, up, holder, walk, todo>>

Owns(a, place) == pc[a] = place /\ queue # <<>> /\ Head(queue) = a

AcquireEntered(t) ==
  /\ Owns(t, "lock")
  /\ \/ /\ leased[name[t]] /\ Kind[name[t]] # "container"
        /\ GiveUp(t, "granted")
     \/ /\ leased[name[t]] /\ Kind[name[t]] = "container"
        /\ pc' = [pc EXCEPT ![t] = "own"]
        /\ UNCHANGED <<leaseVars, holder, queue, walk, name, answer>>
     \/ /\ ~leased[name[t]]
        /\ WalkFrom(t, FirstStep, leased)
  /\ UNCHANGED <<up, order, todo>>

OwnProbed(t) ==
  /\ Owns(t, "own")
  /\ \/ up[name[t]] /\ GiveUp(t, "granted")
     \/ ~up[name[t]] /\ WalkFrom(t, FirstStep, leased)
     \/ GiveUp(t, "error")                                 \* DockerError
  /\ UNCHANGED <<up, order, todo>>

Visited == order[walk.at]

Probed(t) ==
  /\ Owns(t, "probe")
  /\ \/ ~up[Visited] /\ Resume(t, walk, leased)
     \/ up[Visited] /\ ~Outranks(name[t], Visited) /\ GiveUp(t, "refused")
     \/ /\ up[Visited] /\ Outranks(name[t], Visited)
        /\ pc' = [pc EXCEPT ![t] = "kill"]
        /\ UNCHANGED <<leaseVars, holder, queue, walk, name, answer>>
     \/ GiveUp(t, "error")                                 \* DockerError
  /\ UNCHANGED <<up, order, todo>>

\* Seeded fault: the signal is taken for the exit.
KillUnseen(t) ==
  /\ Owns(t, "kill")
  /\ Resume(t, [walk EXCEPT !.stopped = TRUE], [leased EXCEPT ![Visited] = FALSE])
  /\ UNCHANGED <<up, order, todo>>

\* ContainerReclaimer.reclaim: gone, or still up (or up again, or Docker
\* cannot be reached) when the arbiter's patience ends.
KillEnded(t) ==
  /\ Owns(t, "kill")
  /\ \/ /\ ~up[Visited]
        /\ Resume(t, [walk EXCEPT !.stopped = TRUE],
                  [leased EXCEPT ![Visited] = FALSE])
     \/ GiveUp(t, "refused")
  /\ UNCHANGED <<up, order, todo>>

\* CooperativeReclaimer.reclaim, whose wait ends with the holder's release ...
HolderLetGo(t) ==
  /\ Owns(t, "letgo")
  /\ letGo[Visited]
  /\ Resume(t, [walk EXCEPT !.stopped = TRUE], [leased EXCEPT ![Visited] = FALSE])
  /\ UNCHANGED <<up, order, todo>>

\* Seeded fault: a holder that does not answer is passed over.
TimedOutAdmits(t) ==
  /\ MayTimeOut
  /\ Owns(t, "letgo")
  /\ ~letGo[Visited]
  /\ Admit(t, leased)
  /\ UNCHANGED <<up, order, todo>>

\* ... or runs out.  The holder has been told and stays told.
HolderTimedOut(t) ==
  /\ MayTimeOut
  /\ Owns(t, "letgo")
  /\ ~letGo[Visited]
  /\ GiveUp(t, "refused")
  /\ UNCHANGED <<up, order, todo>>

\* _wait_for_vram_to_settle: the reading stops climbing, or never does.
Settled(t) ==
  /\ Owns(t, "settle")
  /\ Admit(t, leased) \/ GiveUp(t, "refused")
  /\ UNCHANGED <<up, order, todo>>

-----------------------------------------------------------------------------
(* POST /gpu/release.  It takes no lock: acquire waits for it under the    *)
(* lock.                                                                   *)

ReleaseCalled(t, n) ==
  /\ pc[t] = "idle"
  /\ order' = Registered(n)
  /\ \/ /\ ~leased[n]
        /\ Reply(t, "released")
        /\ UNCHANGED <<leaseVars, holder>>
     \/ /\ leased[n] /\ Kind[n] # "container"
        /\ Forget(n)
        /\ holder' = IF holder = n THEN NoOne ELSE holder
        /\ Reply(t, "released")
        /\ UNCHANGED stale
     \/ /\ leased[n] /\ Kind[n] = "container"
        /\ pc' = [pc EXCEPT ![t] = "unlease"]
        /\ name' = [name EXCEPT ![t] = n]
        /\ answer' = [answer EXCEPT ![t] = "none"]
        /\ UNCHANGED <<leaseVars, holder>>
  /\ UNCHANGED <<up, lockVars>>

\* A container that is down is not seen to hold anything, and keeps its lease.
ReleaseProbed(t) ==
  /\ pc[t] = "unlease"
  /\ \/ /\ up[name[t]]
        /\ Forget(name[t])
        /\ holder' = IF holder = name[t] THEN NoOne ELSE holder
        /\ Reply(t, "released")
        /\ UNCHANGED stale
     \/ ~up[name[t]] /\ Reply(t, "released") /\ UNCHANGED <<leaseVars, holder>>
     \/ Reply(t, "error") /\ UNCHANGED <<leaseVars, holder>>  \* DockerError
  /\ UNCHANGED <<up, order, lockVars>>

-----------------------------------------------------------------------------
(* GET /gpu/reclaim-notice                                                 *)

NoticeCalled(t, n) ==
  /\ pc[t] = "idle"
  /\ \/ /\ ~(n \in Known /\ Cooperative(n))
        /\ Reply(t, "error")
        /\ UNCHANGED stale
     \/ /\ n \in Known /\ Cooperative(n) /\ ~leased[n]
        /\ Reply(t, "reclaim")
        /\ UNCHANGED stale
     \/ /\ n \in Known /\ Cooperative(n) /\ leased[n]
        /\ stale' = [stale EXCEPT ![n] = FALSE]
        /\ \/ wanted[n] /\ Reply(t, "reclaim")
           \/ /\ ~wanted[n]
              /\ pc' = [pc EXCEPT ![t] = "notice"]
              /\ name' = [name EXCEPT ![t] = n]
              /\ answer' = [answer EXCEPT ![t] = "none"]
  /\ UNCHANGED <<leased, wanted, letGo, up, order, holder, lockVars>>

\* wait_until_wanted returns, and counts as a poll whatever it returns.
NoticeEnded(t) ==
  /\ \/ pc[t] = "woken" /\ Reply(t, "reclaim")
     \/ pc[t] = "notice" /\ Reply(t, "keep")
  /\ stale' = [stale EXCEPT ![name[t]] = FALSE]
  /\ UNCHANGED <<leased, wanted, letGo, up, order, holder, lockVars>>

-----------------------------------------------------------------------------
(* Scheduler.reap, under the lock: drop the leases of the dead, then say   *)
(* who holds the card.  Jobs are looked at highest priority first.         *)

Top(k, S) == k \in S /\ \A j \in S : ~Outranks(j, k)

\* What is left to look at once k has been.
After(k) == {j \in todo \ {k} : ~Outranks(j, k)}

ReapDue ==
  /\ pc[Reaper] = "idle"
  /\ pc' = [pc EXCEPT ![Reaper] = "lock"]
  /\ queue' = Append(queue, Reaper)
  /\ UNCHANGED <<leaseVars, up, order, holder, name, answer, walk, todo>>

ReapEntered ==
  /\ Owns(Reaper, "lock")
  /\ pc' = [pc EXCEPT ![Reaper] = "sweep"]
  /\ todo' = Known
  /\ UNCHANGED <<leaseVars, up, order, holder, name, answer, queue, walk>>

ReapEnds ==
  /\ pc' = [pc EXCEPT ![Reaper] = "idle"]
  /\ Unlock
  /\ todo' = {}

\* Seeded fault: a silent holder is only looked at while it is wanted.
SilentAndWanted(k) == Cooperative(k) /\ stale[k] /\ wanted[k]

SilentTooLong(k) == Cooperative(k) /\ stale[k]

\* _drop_dead_leases.  Docker failing in the middle ends the whole reap.
Sweep ==
  LET Suspects == {k \in todo : leased[k] /\ (Kind[k] = "container" \/ SilentTooLong(k))}
  IN
  /\ Owns(Reaper, "sweep")
  /\ \/ /\ Suspects = {}
        /\ pc' = [pc EXCEPT ![Reaper] = "census"]
        /\ todo' = Known
        /\ UNCHANGED <<leaseVars, queue, walk>>
     \/ \E k \in Suspects :
          /\ Top(k, Suspects)
          /\ \/ /\ Kind[k] = "container" => ~up[k]
                /\ Forget(k)
                /\ todo' = After(k)
                /\ UNCHANGED <<stale, pc, queue, walk>>
             \/ /\ Kind[k] = "container" /\ up[k]
                /\ todo' = After(k)
                /\ UNCHANGED <<leaseVars, pc, queue, walk>>
             \/ /\ Kind[k] = "container"                   \* DockerError
                /\ ReapEnds
                /\ UNCHANGED leaseVars
  /\ UNCHANGED <<up, order, holder, name, answer>>

\* _holding_job
Census ==
  LET Holding == {k \in todo : leased[k]}
  IN
  /\ Owns(Reaper, "census")
  /\ \/ Holding = {} /\ holder' = NoOne /\ ReapEnds
     \/ \E k \in Holding :
          /\ Top(k, Holding)
          /\ \/ /\ Kind[k] = "container" => up[k]
                /\ holder' = k
                /\ ReapEnds
             \/ /\ Kind[k] = "container" /\ ~up[k]
                /\ todo' = After(k)
                /\ UNCHANGED <<holder, pc, queue, walk>>
             \/ /\ Kind[k] = "container"                   \* DockerError
                /\ ReapEnds
                /\ UNCHANGED holder
  /\ UNCHANGED <<leaseVars, up, order, name, answer>>

-----------------------------------------------------------------------------
(* What happens to the arbiter.                                            *)

\* A silence becomes long.  It cannot while a notice call is open: those are
\* renewed every NOTICE_TIMEOUT, well inside COOPERATIVE_STALE_AFTER.
PollAges(k) ==
  /\ Cooperative(k) /\ leased[k] /\ ~stale[k]
  /\ \A t \in Tasks : pc[t] \in {"notice", "woken"} => name[t] # k
  /\ stale' = [stale EXCEPT ![k] = TRUE]
  /\ UNCHANGED <<leased, wanted, letGo, up, order, holder, taskVars, lockVars>>

\* A container exits, is killed, or is started by its owner or its policy.
ContainerTurns(k) ==
  /\ Kind[k] = "container"
  /\ up' = [up EXCEPT ![k] = ~@]
  /\ UNCHANGED <<leaseVars, order, holder, taskVars, lockVars>>

\* The process is replaced: every lease and every open call is lost.
Restart ==
  /\ MayRestart
  /\ leased' = [n \in Names |-> FALSE]
  /\ wanted' = [n \in Names |-> FALSE]
  /\ letGo' = [n \in Names |-> FALSE]
  /\ stale' = [n \in Names |-> FALSE]
  /\ order' = JobOrder
  /\ queue' = <<>>
  /\ holder' = NoOne
  /\ pc' = [a \in Actors |-> "idle"]
  /\ name' = [t \in Tasks |-> NoOne]
  /\ answer' = [t \in Tasks |-> IF pc[t] = "idle" THEN answer[t] ELSE "error"]
  /\ walk' = NoWalk
  /\ todo' = {}
  /\ UNCHANGED up

\* What the event loop does for a call that has arrived, timeouts aside.
TaskStep(t) ==
  \/ AcquireEntered(t) \/ OwnProbed(t) \/ Probed(t) \/ KillEnded(t)
  \/ HolderLetGo(t) \/ Settled(t)
  \/ ReleaseProbed(t) \/ NoticeEnded(t)

ReaperStep == ReapDue \/ ReapEntered \/ Sweep \/ Census

\* A call arrives; a container that calls is running.
CallArrives(t, n) ==
  /\ Kind[n] = "container" => up[n]
  /\ AcquireCalled(t, n) \/ ReleaseCalled(t, n) \/ NoticeCalled(t, n)

World == Restart \/ \E k \in Names : PollAges(k) \/ ContainerTurns(k)

Next ==
  \/ \E t \in Tasks, n \in Names : CallArrives(t, n)
  \/ \E t \in Tasks : TaskStep(t) \/ HolderTimedOut(t)
  \/ ReaperStep
  \/ World

Spec == Init /\ [][Next]_vars

\* The event loop runs what is ready, timers included, and the reaper's loop
\* never ends.
Fairness ==
  /\ WF_vars(ReaperStep)
  /\ \A t \in Tasks : WF_vars(TaskStep(t) \/ HolderTimedOut(t))

FairSpec == Spec /\ Fairness

-----------------------------------------------------------------------------
(* Properties.                                                             *)

\* Two jobs that are not containers never have a lease at once: acquire runs
\* under the lock and reclaims from every junior before it grants, although
\* release does not take the lock (scheduler.py, acquire and release).
ExclusiveLease ==
  \A a, b \in Names :
    leased[a] /\ leased[b] /\ Kind[a] # "container" /\ Kind[b] # "container" => a = b

\* The event a reclaim waits for is never left over from an earlier lease: if
\* it were, the next reclaim would return at once, with the holder still on the
\* card (reclaimers.py, grant and forget).
LetGoMeansGone == \A k \in Names : letGo[k] => ~leased[k]

\* A holder that is wanted is not asleep: no notice call waits for an event
\* that has been set, and nobody is asked to give up what they no longer have
\* (reclaimers.py, wait_until_wanted and reclaim).
WantedIsHeard ==
  \A k \in Names : wanted[k] =>
    leased[k] /\ \A t \in Tasks : ~(pc[t] = "notice" /\ name[t] = k)

\* Whose lease may be taken without its say: a cooperative holder lets go
\* itself, and a container must be seen to be gone.
Defenceless(k) == Kind[k] = "none" \/ (Kind[k] = "container" /\ ~up[k])

\* How a lease may end: by a release in its own name, by the reaper when its
\* holder looks dead, with the arbiter, or by the acquire of a job that
\* outranks it, which strips neither a cooperative holder that has not let go
\* nor a container that still runs (scheduler.py, acquire; reclaimers.py, reclaim).
LeaseEndsProperly ==
  [][\A k \in Names : leased[k] /\ ~leased'[k] =>
       \/ \E t \in Tasks : ReleaseCalled(t, k) \/ (ReleaseProbed(t) /\ name[t] = k)
       \/ Sweep /\ (SilentTooLong(k) \/ (Kind[k] = "container" /\ ~up[k]))
       \/ Restart
       \/ /\ Defenceless(k)
          /\ queue # <<>> /\ Head(queue) \in Tasks
          /\ Outranks(name[Head(queue)], k)]_vars

\* The lease table implements the abstract lease: the card goes from one job to
\* another only through a state in which no job has it, so what a senior takes
\* is gone from the junior before the senior is told (scheduler.py, acquire).
Owners == {n \in Names : leased[n] /\ Kind[n] # "container"}

TheLease == INSTANCE Lease WITH owners <- Owners

ImplementsLease == TheLease!Spec

\* No acquire waits for ever, whoever it waits for: every wait under the lock
\* is bounded and the lock is FIFO (scheduler.py, acquire).
AcquireAnswered == \A t \in Tasks : pc[t] = "lock" ~> pc[t] = "idle"

\* The reaper takes back the lease of a cooperative holder that fell silent for
\* good, whatever calls keep arriving (scheduler.py, _drop_dead_leases).
SilentLeaseReaped ==
  \A k \in Names : (leased[k] /\ stale[k]) ~> (~leased[k] \/ ~stale[k])
=============================================================================
