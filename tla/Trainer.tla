------------------------------- MODULE Trainer -------------------------------
(***************************************************************************)
(* The training supervisor (lora-training/supervisor.py and its client     *)
(* lora-training/arbiter.py) composed with the arbiter.  The supervisor is *)
(* PID 1 of its container: its main thread asks for the card and runs one  *)
(* worker process at a time, and a second thread, the ear, holds a         *)
(* reclaim-notice call for as long as that worker runs.  Their HTTP calls  *)
(* are tasks of the arbiter that this module alone starts; the tasks in    *)
(* Callers are the calls of the other jobs.                                *)
(***************************************************************************)
EXTENDS Arbiter

CONSTANTS
  trainer,        \* the supervisor's ARBITER_JOB_NAME
  Callers,        \* the tasks that carry other jobs' calls
  Scenarios       \* sets of faults, of which a behaviour has one:
                  \*   restart   the arbiter may restart
                  \*   shutdown  the container may be told to stop
                  \*   crash     the container may die at any moment
                  \*   lose      a call or its answer may be lost, or time out
                  \*   slow      a killed worker may outlast COOPERATIVE_STALE_AFTER
                  \*   oom       the kernel may kill the worker

Faults == {"restart", "shutdown", "crash", "lose", "slow", "oom"}

ASSUME TrainerAssumption ==
  /\ trainer \in Names /\ Kind[trainer] = "cooperative"
  /\ Callers \subseteq Tasks
  /\ NoOne \notin Tasks
  /\ Scenarios \subseteq SUBSET Faults

VARIABLES
  sup,       \* where the main thread is
  call,      \* the acquire call it waits for
  worker,    \* the child process, or how it ended
  doomed,    \* SIGKILL has been sent to the child
  ear,       \* the notice thread of the current worker
  earCall,   \* the call it waits for
  heard,     \* the threading.Event `wanted' of the current worker
  stopping,  \* Supervisor.stopping
  faults     \* the faults of this behaviour

supVars == <<sup, call, worker, doomed, ear, earCall, heard, stopping>>
allVars == <<vars, supVars, faults>>

TrainerTypeOK ==
  /\ TypeOK
  /\ sup \in {"asking", "acquiring", "watching", "killing", "releasing", "leaving", "gone"}
  /\ call \in Tasks \cup {NoOne}
  /\ worker \in {"none", "alive", "finished", "failed", "ours", "kernel"}
  /\ ear \in {"off", "free", "waiting"}
  /\ earCall \in Tasks \cup {NoOne}
  /\ doomed \in BOOLEAN /\ heard \in BOOLEAN /\ stopping \in BOOLEAN
  /\ faults \in Scenarios

TrainerInit ==
  /\ Init
  /\ sup = "asking" /\ call = NoOne
  /\ worker = "none" /\ doomed = FALSE
  /\ ear = "off" /\ earCall = NoOne /\ heard = FALSE
  /\ stopping = FALSE
  /\ faults \in Scenarios

\* A connection that nobody of this container is using.
Free(t) == t \in Tasks \ Callers /\ pc[t] = "idle" /\ t \notin {call, earCall}

-----------------------------------------------------------------------------
(* The main thread: wait_for_gpu, run_worker, run.                         *)

Ask ==
  /\ sup = "asking"
  /\ \/ /\ stopping
        /\ sup' = "leaving"
        /\ UNCHANGED <<vars, call>>
     \/ /\ ~stopping
        /\ \E t \in Tasks :
             /\ Free(t)
             /\ AcquireCalled(t, trainer)
             /\ call' = t
        /\ sup' = "acquiring"
  /\ UNCHANGED <<worker, doomed, ear, earCall, heard, stopping>>

\* Seeded fault: any answer of the arbiter is taken for a grant.
AnyAnswerStarts ==
  /\ sup = "acquiring"
  /\ pc[call] = "idle"
  /\ call' = NoOne
  /\ sup' = "watching"
  /\ worker' = "alive" /\ doomed' = FALSE
  /\ ear' = "free" /\ heard' = FALSE
  /\ UNCHANGED <<vars, earCall, stopping>>

\* A grant starts the worker and its notice thread, whatever `stopping' says.
AcquireReturned ==
  /\ sup = "acquiring"
  /\ pc[call] = "idle"
  /\ call' = NoOne
  /\ \/ /\ answer[call] = "granted"
        /\ sup' = "watching"
        /\ worker' = "alive" /\ doomed' = FALSE
        /\ ear' = "free" /\ heard' = FALSE
     \/ /\ answer[call] # "granted"
        /\ sup' = "asking"
        /\ UNCHANGED <<worker, doomed, ear, heard>>
  /\ UNCHANGED <<vars, earCall, stopping>>

\* A transport error or the client's timeout is a refusal, although the arbiter
\* may have granted the call, or may yet grant it.
AcquireLost ==
  /\ "lose" \in faults
  /\ sup = "acquiring"
  /\ sup' = "asking" /\ call' = NoOne
  /\ UNCHANGED <<vars, worker, doomed, ear, earCall, heard, stopping>>

\* The notice thread belongs to one worker: afterwards nobody heeds it, though
\* a call of its that is still open stays open at the arbiter.
Reaped ==
  /\ worker # "alive"
  /\ sup' = "releasing"
  /\ ear' = "off" /\ earCall' = NoOne
  /\ UNCHANGED <<worker, doomed>>

WatchWorker ==
  /\ \/ /\ sup = "watching" /\ worker = "alive" /\ heard
        /\ sup' = "killing" /\ doomed' = TRUE
        /\ UNCHANGED <<worker, ear, earCall>>
     \/ sup \in {"watching", "killing"} /\ Reaped
  /\ UNCHANGED <<vars, call, heard, stopping>>

\* ArbiterClient.release: best effort.
Released ==
  \/ \E t \in Tasks : Free(t) /\ ReleaseCalled(t, trainer)
  \/ "lose" \in faults /\ UNCHANGED vars

\* Exit -9 is taken for a preemption, and the run goes on.
Release ==
  /\ sup = "releasing"
  /\ Released
  /\ sup' = IF worker \in {"ours", "kernel"} THEN "asking" ELSE "leaving"
  /\ worker' = "none" /\ doomed' = FALSE
  /\ UNCHANGED <<call, ear, earCall, heard, stopping>>

Leave ==
  /\ sup = "leaving"
  /\ Released
  /\ sup' = "gone"
  /\ UNCHANGED <<call, worker, doomed, ear, earCall, heard, stopping>>

-----------------------------------------------------------------------------
(* The notice thread: watch_for_reclaim.                                   *)

EarCalls ==
  /\ ear = "free"
  /\ \/ /\ heard \/ stopping
        /\ ear' = "off"
        /\ UNCHANGED <<vars, earCall>>
     \/ /\ ~heard /\ ~stopping
        /\ \E t \in Tasks :
             /\ Free(t)
             /\ NoticeCalled(t, trainer)
             /\ earCall' = t
        /\ ear' = "waiting"
  /\ UNCHANGED <<sup, call, worker, doomed, heard, stopping>>

\* Seeded fault: the notice thread asks once and ends.
EarAsksOnce ==
  /\ ear = "waiting"
  /\ pc[earCall] = "idle"
  /\ heard' = (answer[earCall] = "reclaim")
  /\ ear' = "off"
  /\ earCall' = NoOne
  /\ UNCHANGED <<vars, sup, call, worker, doomed, stopping>>

EarReturned ==
  /\ ear = "waiting"
  /\ pc[earCall] = "idle"
  /\ heard' = (answer[earCall] = "reclaim")
  /\ ear' = IF heard' THEN "off" ELSE "free"
  /\ earCall' = NoOne
  /\ UNCHANGED <<vars, sup, call, worker, doomed, stopping>>

\* An error or a timeout is not a reclaim: the ear asks again.
EarLost ==
  /\ "lose" \in faults
  /\ ear = "waiting"
  /\ ear' = "free" /\ earCall' = NoOne
  /\ UNCHANGED <<vars, sup, call, worker, doomed, heard, stopping>>

-----------------------------------------------------------------------------
(* What happens to the container.                                          *)

\* request_shutdown, on the main thread between two of its instructions: it
\* can only kill a child that has been started.  One signal is modelled: Docker
\* sends one, and a second would kill the worker that the first one missed.
RequestShutdown ==
  /\ "shutdown" \in faults /\ ~stopping /\ sup # "gone"
  /\ stopping' = TRUE
  /\ doomed' = (doomed \/ worker = "alive")
  /\ UNCHANGED <<vars, sup, call, worker, ear, earCall, heard>>

WorkerEnds ==
  /\ worker = "alive"
  /\ worker' \in {"finished", "failed"} \cup (IF "oom" \in faults THEN {"kernel"} ELSE {})
  /\ UNCHANGED <<vars, sup, call, doomed, ear, earCall, heard, stopping>>

\* The worker traps no signal: a kill ends it, in its own time.
WorkerDies ==
  /\ worker = "alive" /\ doomed
  /\ worker' = "ours"
  /\ UNCHANGED <<vars, sup, call, doomed, ear, earCall, heard, stopping>>

\* The whole container goes, worker included, and restart is "no".
Crash ==
  /\ "crash" \in faults /\ sup # "gone"
  /\ sup' = "gone" /\ call' = NoOne
  /\ worker' = "none" /\ doomed' = FALSE
  /\ ear' = "off" /\ earCall' = NoOne /\ heard' = FALSE
  /\ UNCHANGED <<vars, stopping>>

\* Someone submits a run: a fresh container of the same name.
Submit ==
  /\ sup = "gone"
  /\ sup' = "asking" /\ stopping' = FALSE
  /\ UNCHANGED <<vars, call, worker, doomed, ear, earCall, heard>>

-----------------------------------------------------------------------------
(* A lease is attended while the supervisor is about to renew it or to     *)
(* give it back, for which COOPERATIVE_STALE_AFTER leaves it time: a grant *)
(* it has yet to read, a worker whose notice thread still listens or has   *)
(* just heard, a worker that has exited, a release under way.  Nobody      *)
(* renews the lease of a worker whose notice thread has ended, and         *)
(* child.wait() after a kill has no bound.                                 *)
Attended ==
  \/ /\ sup \in {"watching", "killing"}
     /\ worker = "alive" => IF doomed THEN "slow" \notin faults ELSE ear # "off" \/ heard
  \/ sup = "releasing"
  \/ sup = "acquiring" /\ pc[call] = "idle" /\ answer[call] = "granted"

TrainerWorld ==
  /\ \/ "restart" \in faults /\ Restart
     \/ \E k \in Names : ContainerTurns(k)
     \/ \E k \in Names :
          (k = trainer => ~Attended) /\ PollAges(k)
  /\ UNCHANGED supVars

ArbiterStep ==
  /\ (\E t \in Tasks : TaskStep(t) \/ HolderTimedOut(t)) \/ ReaperStep
  /\ UNCHANGED supVars

OtherCalls ==
  /\ \E t \in Callers, n \in Names \ {trainer} : CallArrives(t, n)
  /\ UNCHANGED supVars

MainStep == Ask \/ AcquireReturned \/ AcquireLost \/ WatchWorker \/ Release \/ Leave
EarStep  == EarCalls \/ EarReturned \/ EarLost

TrainerNext ==
  /\ \/ MainStep \/ EarStep
     \/ RequestShutdown \/ WorkerEnds \/ WorkerDies \/ Crash \/ Submit
     \/ ArbiterStep \/ OtherCalls \/ TrainerWorld
  /\ UNCHANGED faults

TrainerSpec == TrainerInit /\ [][TrainerNext]_allVars

\* Both threads run, the arbiter's loop runs, a killed process dies, and the
\* network does not lose the answer to every notice call.  Timeouts may fire,
\* but nothing counts on them.
TrainerFairness ==
  /\ WF_allVars(MainStep /\ UNCHANGED faults) /\ WF_allVars(EarStep /\ UNCHANGED faults)
  /\ WF_allVars(WorkerDies /\ UNCHANGED faults)
  /\ SF_allVars(EarReturned /\ UNCHANGED faults)
  /\ WF_allVars(ReaperStep /\ UNCHANGED <<supVars, faults>>)
  /\ \A t \in Tasks : WF_allVars(TaskStep(t) /\ UNCHANGED <<supVars, faults>>)

FairTrainerSpec == TrainerSpec /\ TrainerFairness

-----------------------------------------------------------------------------
(* Properties.                                                             *)

\* Faults in which the arbiter may take the lease from under a worker, or the
\* supervisor may miss that it is wanted.
Unreliable == {"restart", "crash", "lose", "slow"}

\* A worker started after the shutdown was asked for, between the grant and the
\* Popen: the signal found no child to kill, and the notice thread ends at once,
\* so that the lease ages and the reaper takes it (supervisor.py, request_shutdown,
\* watch_for_reclaim).
Unwatched == worker = "alive" /\ stopping /\ ~doomed

\* A worker on the card is a worker with a lease, unless nobody watches it: the
\* supervisor starts it after the grant and releases only once it has exited, and
\* the arbiter does not take the lease from under it while the notice thread
\* renews it (supervisor.py, run; scheduler.py, acquire and reap).
WorkerIsLeased ==
  worker = "alive" /\ faults \cap Unreliable = {} => leased[trainer] \/ Unwatched

\* The supervisor's state is well formed, and a watched worker on the card is a
\* worker with a lease (supervisor.py, run).
TrainerInv == TrainerTypeOK /\ WorkerIsLeased

\* A reclaim gets its card without having to time out (no timer is fair here):
\* the acquire that told the supervisor to let go is freed by the supervisor's
\* release, which must therefore not need the lock (scheduler.py, release).
\* Only a shutdown of the supervisor can get in the way.
HandoverCompletes ==
  \A t \in Callers :
    (pc[t] = "letgo" /\ faults \cap Unreliable = {}) ~> (pc[t] # "letgo" \/ stopping)

\* A watched worker that lost its lease, to an arbiter restart or to the reaper,
\* leaves the card or has a lease again: the next notice call tells it to go
\* (main.py, gpu_reclaim_notice).
UnleasedWorkerLeaves ==
  (worker = "alive" /\ ~leased[trainer] /\ ~Unwatched) ~>
    (worker # "alive" \/ leased[trainer])
=============================================================================
