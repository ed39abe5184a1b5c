-------------------------------- MODULE Proxy --------------------------------
(***************************************************************************)
(* The gate in front of the swappable model slot: proxy/main.py (the proxy *)
(* handler, _forward, _idle_evictor), proxy/state.py and proxy/arbiter.py. *)
(* The arbiter appears as what it is shown to implement, the lease of      *)
(* Lease.tla, answering calls that take time to arrive; llama-server's     *)
(* router appears as the models it has resident.  The proxy is one asyncio *)
(* loop: an action runs from one suspending await to the next.             *)
(*                                                                         *)
(* A request is                                                            *)
(*   idle       not there                                                  *)
(*   asking     its acquire call is on the way                             *)
(*   granted    the arbiter's answer is on its way back                    *)
(*   refused    likewise, or the call failed                               *)
(*   slot       waiting for the slot's lock                                *)
(*   sent       forwarded to the router, which is loading the model        *)
(*   streaming  being answered                                             *)
(***************************************************************************)
EXTENDS Integers, Sequences, FiniteSets, SequencesExt

CONSTANTS
  Requests,      \* the requests that can be under way at once
  Models,        \* the models of the swappable slot
  llm,           \* the proxy's ARBITER_JOB_NAME
  job,           \* any other job
  NoModel,       \* no model
  MaxReleases,   \* bound on the release calls on their way at once
  MaxLeaks,      \* bound on the queue depth that exceptions leave behind
  Evicts,        \* IDLE_EVICT_ENABLED
  Scenarios      \* sets of faults, of which a behaviour has one:
                 \*   lose   a release, or the answer to an acquire, may be lost
                 \*   raise  an exception may end the acquire call or the wait for
                 \*          the slot: a 200 that is not JSON, a cancelled handler

ASSUME ProxyAssumption ==
  /\ IsFiniteSet(Requests)
  /\ llm # job
  /\ NoModel \notin Models
  /\ MaxReleases \in Nat \ {0}
  /\ MaxLeaks \in Nat
  /\ Evicts \in BOOLEAN /\ Scenarios \subseteq SUBSET {"lose", "raise"}

VARIABLES
  owners,     \* the lease, as the arbiter has it
  at,         \* where each request is
  wants,      \* the model it asked for, while it is under way
  depth,      \* OrchestratorState._queue_depth
  inflight,   \* OrchestratorState._llm_inflight
  current,    \* OrchestratorState.current_model
  slot,       \* OrchestratorState.lock: its owner first, then the waiters
  idle,       \* OrchestratorState.idle_seconds: none, short or long enough
  releases,   \* release calls on their way to the arbiter
  lateAsks,   \* acquire calls whose caller has stopped waiting
  evictor,    \* where the idle evictor is
  listed,     \* the models it is unloading
  resident,   \* the models the router has loaded
  faults      \* the faults of this behaviour

arbiterVars == <<owners, releases, lateAsks>>
stateVars   == <<depth, inflight, current, slot, idle>>
evictorVars == <<evictor, listed>>
vars == <<arbiterVars, stateVars, evictorVars, at, wants, resident, faults>>

TheLease == INSTANCE Lease WITH Names <- {llm, job}

AtRouter == {"sent", "streaming"}
Queued   == {"asking", "granted", "refused", "slot"}

TypeOK ==
  /\ owners \in SUBSET {llm, job}
  /\ at \in [Requests -> Queued \cup AtRouter \cup {"idle"}]
  /\ wants \in [Requests -> Models \cup {NoModel}]
  /\ depth \in Nat
  /\ inflight \in Nat
  /\ current \in Models \cup {NoModel}
  /\ slot \in Seq(Requests)
  /\ idle \in {"none", "short", "long"}
  /\ releases \in 0..MaxReleases
  /\ lateAsks \in 0..1
  /\ evictor \in {"sleep", "listing", "unloading", "verifying", "releasing"}
  /\ listed \in SUBSET Models
  /\ resident \in SUBSET Models
  /\ faults \in Scenarios

Init ==
  /\ faults \in Scenarios
  /\ owners = {}
  /\ at = [r \in Requests |-> "idle"]
  /\ wants = [r \in Requests |-> NoModel]
  /\ depth = 0 /\ inflight = 0 /\ current = NoModel /\ slot = <<>>
  /\ idle = "none"
  /\ releases = 0 /\ lateAsks = 0
  /\ evictor = "sleep" /\ listed = {}
  /\ resident = {}

Less(n) == IF n = 0 THEN 0 ELSE n - 1     \* max(0, n - 1)

Goes(r, place) == at' = [at EXCEPT ![r] = place]
Over(r) == Goes(r, "idle") /\ wants' = [wants EXCEPT ![r] = NoModel]

\* Seeded fault: the count is read before it is taken down.
FinishEarly(queued) ==
  /\ inflight' = Less(inflight)
  /\ IF inflight = 0 /\ queued = 0
     THEN releases < MaxReleases /\ releases' = releases + 1
     ELSE UNCHANGED releases

\* _finish, with the queue depth it finds: the last one out tells the arbiter,
\* in a task of its own that nobody waits for.
Finish(queued) ==
  /\ inflight' = Less(inflight)
  /\ IF inflight' = 0 /\ queued = 0
     THEN releases < MaxReleases /\ releases' = releases + 1
     ELSE UNCHANGED releases

-----------------------------------------------------------------------------
(* The proxy handler.                                                      *)

Arrive(r, m) ==
  /\ at[r] = "idle"
  /\ Goes(r, "asking")
  /\ wants' = [wants EXCEPT ![r] = m]
  /\ depth' = depth + 1 /\ inflight' = inflight + 1
  /\ idle' = "short"
  /\ UNCHANGED <<arbiterVars, evictorVars, current, slot, resident>>

\* Seeded fault: the request stays in the queue's depth.
EnterUncounted(r) ==
  /\ Goes(r, "sent")
  /\ current' = wants[r]
  /\ UNCHANGED depth

\* The slot is r's: the router is sent the request, and loads the model for it.
EnterSlot(r) ==
  /\ Goes(r, "sent")
  /\ depth' = Less(depth)
  /\ current' = wants[r]

HandleGrant(r) ==
  /\ at[r] = "granted"
  /\ slot' = Append(slot, r)
  /\ \/ slot = <<>> /\ EnterSlot(r)
     \/ slot # <<>> /\ Goes(r, "slot") /\ UNCHANGED <<depth, current>>
  /\ UNCHANGED <<arbiterVars, evictorVars, wants, inflight, idle, resident>>

HandleRefusal(r) ==
  /\ at[r] = "refused"
  /\ Over(r)
  /\ depth' = Less(depth)
  /\ Finish(depth')
  /\ UNCHANGED <<owners, lateAsks, evictorVars, current, slot, idle, resident>>

\* acquire() raises: nothing takes the request out of the queue's depth.
AcquireRaises(r) ==
  /\ "raise" \in faults
  /\ at[r] = "asking"
  /\ depth < MaxLeaks + Cardinality({q \in Requests : at[q] \in Queued})
  /\ Over(r)
  /\ Finish(depth)
  /\ UNCHANGED <<owners, lateAsks, evictorVars, depth, current, slot, idle, resident>>

\* Seeded fault: a cancelled waiter keeps its place in the lock's queue.
SlotWaitLeaks(r) ==
  /\ "raise" \in faults
  /\ at[r] = "slot"
  /\ Over(r)
  /\ depth' = Less(depth)
  /\ Finish(depth')
  /\ UNCHANGED <<owners, lateAsks, evictorVars, current, slot, idle, resident>>

\* The wait for the slot is cancelled, and whoever is behind moves up.
SlotWaitRaises(r) ==
  /\ "raise" \in faults
  /\ at[r] = "slot"
  /\ Over(r)
  /\ depth' = Less(depth)
  /\ \E i \in 1..Len(slot) : slot[i] = r /\ slot' = RemoveAt(slot, i)
  /\ Finish(depth')
  /\ UNCHANGED <<owners, lateAsks, evictorVars, current, idle, resident>>

TakeSlot(r) ==
  /\ at[r] = "slot" /\ Head(slot) = r
  /\ EnterSlot(r)
  /\ UNCHANGED <<arbiterVars, evictorVars, wants, inflight, slot, idle, resident>>

\* Seeded fault: _forward ends without releasing the slot's lock.
ForwardKeepsSlot(r) ==
  /\ at[r] \in AtRouter
  /\ Over(r)
  /\ Finish(depth)
  /\ UNCHANGED <<owners, lateAsks, evictorVars, depth, current, slot, idle, resident>>

\* _forward is over: the router could not be reached, the stream was consumed,
\* it broke, or the client left.
ForwardEnds(r) ==
  /\ at[r] \in AtRouter
  /\ Over(r)
  /\ slot' = Tail(slot)
  /\ Finish(depth)
  /\ UNCHANGED <<owners, lateAsks, evictorVars, depth, current, idle, resident>>

-----------------------------------------------------------------------------
(* The router (external): one model of the slot at a time.                 *)

RouterAnswers(r) ==
  /\ at[r] = "sent"
  /\ Goes(r, "streaming")
  /\ resident' = {wants[r]}
  /\ UNCHANGED <<arbiterVars, stateVars, evictorVars, wants>>

-----------------------------------------------------------------------------
(* The arbiter: a holder's acquire is idempotent, a job that will not go   *)
(* is a refusal.                                                           *)

Granted ==
  \/ llm \in owners /\ UNCHANGED owners
  \/ TheLease!Grant(llm)

AcquireAnswered(r) ==
  /\ at[r] = "asking"
  /\ \/ Granted /\ Goes(r, "granted")
     \/ job \in owners /\ Goes(r, "refused") /\ UNCHANGED owners
  /\ UNCHANGED <<releases, lateAsks, stateVars, evictorVars, wants, resident>>

\* ArbiterClient.acquire: a transport error is a refusal.  The arbiter never
\* got the call, or it did and will still answer it.
AcquireUnreachable(r) ==
  /\ at[r] = "asking"
  /\ Goes(r, "refused")
  /\ \/ UNCHANGED lateAsks
     \/ "lose" \in faults /\ lateAsks = 0 /\ lateAsks' = 1
  /\ UNCHANGED <<owners, releases, stateVars, evictorVars, wants, resident>>

LateGrant ==
  /\ lateAsks = 1
  /\ Granted
  /\ lateAsks' = 0
  /\ UNCHANGED <<releases, stateVars, evictorVars, at, wants, resident>>

\* ArbiterClient.release, at the arbiter or lost on the way.
ReleaseArrives ==
  /\ releases > 0
  /\ releases' = releases - 1
  /\ owners' = owners \ {llm} \/ ("lose" \in faults /\ UNCHANGED owners)
  /\ UNCHANGED <<lateAsks, stateVars, evictorVars, at, wants, resident>>

JobStep ==
  /\ TheLease!Grant(job) \/ TheLease!GiveUp(job)
  /\ UNCHANGED <<releases, lateAsks, stateVars, evictorVars, at, wants, resident>>

-----------------------------------------------------------------------------
(* _idle_evictor: the gates are read once, then it waits for the router    *)
(* three times and for the arbiter once.                                   *)

TimePasses ==
  /\ Evicts /\ idle = "short"
  /\ idle' = "long"
  /\ UNCHANGED <<arbiterVars, evictorVars, depth, inflight, current, slot, at, wants, resident>>

Evictor(here, next) == evictor = here /\ evictor' = next

EvictorWakes ==
  /\ Evicts /\ inflight = 0 /\ depth = 0 /\ idle = "long"
  /\ Evictor("sleep", "listing")
  /\ UNCHANGED <<arbiterVars, stateVars, listed, at, wants, resident>>

EvictorLists ==
  /\ \/ resident = {} /\ Evictor("listing", "sleep")
     \/ resident # {} /\ Evictor("listing", "unloading")
  /\ listed' = resident
  /\ UNCHANGED <<arbiterVars, stateVars, at, wants, resident>>

EvictorUnloads ==
  /\ Evictor("unloading", "verifying")
  /\ resident' = resident \ listed
  /\ listed' = {}
  /\ UNCHANGED <<arbiterVars, stateVars, at, wants>>

EvictorVerifies ==
  /\ resident = {}
  /\ Evictor("verifying", "releasing")
  /\ current' = NoModel
  /\ UNCHANGED <<arbiterVars, depth, inflight, slot, idle, listed, at, wants, resident>>

\* The router cannot be reached, refuses, or keeps the model.
EvictorGivesUp ==
  /\ evictor \in {"listing", "unloading", "verifying"}
  /\ evictor' = "sleep"
  /\ listed' = {}
  /\ UNCHANGED <<arbiterVars, stateVars, at, wants, resident>>

EvictorReleases ==
  /\ Evictor("releasing", "sleep")
  /\ owners' = owners \ {llm} \/ ("lose" \in faults /\ UNCHANGED owners)
  /\ UNCHANGED <<releases, lateAsks, stateVars, listed, at, wants, resident>>

EvictorStep ==
  \/ EvictorWakes \/ EvictorLists \/ EvictorUnloads \/ EvictorVerifies
  \/ EvictorGivesUp \/ EvictorReleases

-----------------------------------------------------------------------------
RequestStep(r) ==
  \/ HandleGrant(r) \/ HandleRefusal(r) \/ TakeSlot(r) \/ ForwardEnds(r)
  \/ RouterAnswers(r) \/ AcquireAnswered(r) \/ AcquireUnreachable(r)

Raises(r) == AcquireRaises(r) \/ SlotWaitRaises(r)

Next ==
  /\ \/ \E r \in Requests, m \in Models : Arrive(r, m)
     \/ \E r \in Requests : RequestStep(r) \/ Raises(r)
     \/ ReleaseArrives \/ LateGrant \/ JobStep
     \/ TimePasses \/ EvictorStep
  /\ UNCHANGED faults

Spec == Init /\ [][Next]_vars

\* The proxy's loop runs, time passes, every call returns within its timeout, and
\* the router finishes what it generates.
Fairness ==
  /\ \A r \in Requests : WF_vars(RequestStep(r) /\ UNCHANGED faults)
  /\ WF_vars(ReleaseArrives /\ UNCHANGED faults)
  /\ WF_vars(TimePasses /\ UNCHANGED faults) /\ WF_vars(EvictorStep /\ UNCHANGED faults)

FairSpec == Spec /\ Fairness

-----------------------------------------------------------------------------
(* Properties.                                                             *)

\* The two counters that decide when the card is given back count exactly the
\* requests under way and those still queued, on every way out of the handler
\* but one: an exception out of acquire leaves the depth too high, never too
\* low (main.py, proxy and _finish).
CountsAreRight ==
  /\ inflight = Cardinality({r \in Requests : at[r] # "idle"})
  /\ depth >= Cardinality({r \in Requests : at[r] \in Queued})
  /\ "raise" \notin faults => depth = Cardinality({r \in Requests : at[r] \in Queued})

\* The slot's lock is never leaked and never shared: whoever is at the router
\* owns it, and its owner is at the router or about to be (main.py, _forward).
SlotIsServed ==
  /\ \A r \in Requests : at[r] \in AtRouter => slot # <<>> /\ Head(slot) = r
  /\ \A i \in 1..Len(slot) : at[slot[i]] \in AtRouter \cup {"slot"}

\* While a request is served, the model recorded as current is its own, or none
\* after an eviction, never another one (main.py, proxy; state.py, record_swap).
CurrentIsServed ==
  \A r \in Requests : at[r] \in AtRouter => current \in {wants[r], NoModel}

\* The proxy's state is well formed, and its slot and what it records of it agree
\* with the request that is served (main.py, proxy; state.py).
SlotInv == TypeOK /\ SlotIsServed /\ CurrentIsServed

\* Every request is answered or refused: nobody waits for ever for the lease or
\* for the slot (main.py, proxy).
RequestsEnd == \A r \in Requests : at[r] # "idle" ~> at[r] = "idle"

\* Once nothing is in flight the lease goes back, so that other jobs are not
\* starved by an idle proxy, unless a call is lost or raises (main.py, _finish).
LeaseReturned ==
  (llm \in owners /\ inflight = 0 /\ faults = {}) ~> (llm \notin owners \/ inflight > 0)

\* The card is not handed away in the middle of a generation.
GeneratesUnderLease == \A r \in Requests : at[r] \in AtRouter => llm \in owners
=============================================================================
