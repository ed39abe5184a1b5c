-------------------------------- MODULE Lore --------------------------------
(***************************************************************************)
(* The follow-up threads of /lore in the Discord bot: offers and the        *)
(* reactions that claim them, the turns of a thread under its lock, the     *)
(* hourly sweep, the two stores on disk and what a restart makes of them    *)
(* (discord-bot/cogs/lore.py, cogs/chat.py restore_threads, services.py,    *)
(* lore/session.py, thread_registry.py).                                    *)
(*                                                                          *)
(* The bot is one asyncio loop: a step is what a coroutine does between     *)
(* two awaits.  A Discord thread opened on a message has the id of that     *)
(* message, so an offer and its thread share a name.  What a turn says is   *)
(* left out; who said what in which order is the transcript.                *)
(***************************************************************************)
EXTENDS Naturals, FiniteSets, Sequences, SequencesExt, Selections

CONSTANTS
  Offers,      \* offer messages, and the threads opened on them
  Messages,    \* follow-ups that users post; ids of both grow with time
  MaxCrashes,  \* bound: times the process dies
  MaxLoad,     \* bound: threads opened and follow-ups posted, together
  NoOne        \* no message, no lock

ASSUME IdAssumption ==
  /\ Offers \subseteq Nat /\ Messages \subseteq Nat
  /\ Offers # {} /\ NoOne \notin Messages
ASSUME BoundAssumption == MaxCrashes \in Nat /\ MaxLoad \in Nat

VARIABLES
  pending,     \* sessions.pending: offers nobody claimed yet
  live,        \* sessions.threads: threads that have a session
  transcript,  \* the session objects themselves, pending, live or dropped
  idle,        \* sessions whose last_active_at (created_at) is past the TTL
  registered,  \* the registry's entries of kind "lore"
  disk,        \* what the two files hold
  models,      \* router: threads the bot answers in
  routed,      \* router: the ones answered by the lore cog
  locks,       \* router: a thread's lock, named by the message that made it
  opened,      \* Discord: messages that have a thread
  claim,       \* per offer: where its claim stands; "none" when not in claiming
  at,          \* per message: where its handler stands
  to,          \* per message: the thread it was posted in
  lockOf,      \* per message: the lock its handler took or waits for
  cut,         \* per message: transcript positions its compaction removes
  sweep,       \* the sweep: threads still to visit, thread being notified
  restoring,   \* restore_threads: entries still to visit
  missed,      \* entries restore_threads could not fetch
  crashes,
  shown,       \* ghost: answers that reached Discord
  stray        \* ghost: threads retired with a follow-up under way

stores   == <<pending, live, transcript, idle, registered, disk>>
router   == <<models, routed, locks>>
turns    == <<at, to, lockOf, cut>>
world    == <<opened, claim>>
loops    == <<sweep, restoring, missed>>
ghosts   == <<crashes, shown, stray>>
vars == <<stores, router, turns, world, loops, ghosts>>

Seed == <<[kind |-> "question", by |-> NoOne],
          [kind |-> "research", by |-> NoOne],
          [kind |-> "answer",   by |-> NoOne]>>

Holding == {"holding", "searching", "answering", "posting",
            "summarising"}
UnderWay == {"arrived", "queued"} \cup Holding

Load == Cardinality(opened) + Cardinality({m \in Messages : at[m] # "unsent"})

\* Seeded fault: a turn that fails does not let go of the lock.
LockedForGood(l) ==
  \E m \in Messages : /\ at[m] \in Holding \cup {"ended"} /\ lockOf[m] = l /\ l # NoOne
                       /\ [kind |-> "question", by |-> m] \in Range(transcript[to[m]])
                       /\ [kind |-> "answer", by |-> m] \notin Range(transcript[to[m]])

Locked(l) == \E m \in Messages : at[m] \in Holding /\ lockOf[m] = l

Stored(kept, tr) == [o \in Offers |-> IF o \in kept THEN tr[o] ELSE <<>>]

\* The sessions file holds both populations; each save rewrites all of it,
\* the half-finished turns of other threads included.
Saved(p, l, tr, old) ==
  [disk EXCEPT !.pending = p, !.live = l, !.idle = old \cap (p \cup l),
               !.transcript = Stored(p \cup l, tr)]

Init ==
  /\ pending = {} /\ live = {} /\ idle = {} /\ registered = {}
  /\ transcript = [o \in Offers |-> <<>>]
  /\ disk = [pending |-> {}, live |-> {}, transcript |-> transcript,
             idle |-> {}, registered |-> {}]
  /\ models = {} /\ routed = {}
  /\ locks = [o \in Offers |-> NoOne]
  /\ opened = {}
  /\ claim = [o \in Offers |-> "none"]
  /\ at = [m \in Messages |-> "unsent"]
  /\ to = [m \in Messages |-> CHOOSE o \in Offers : TRUE]
  /\ lockOf = [m \in Messages |-> NoOne]
  /\ cut = [m \in Messages |-> {}]
  /\ sweep = [todo |-> {}, notifying |-> {}]
  /\ restoring = {} /\ missed = {}
  /\ crashes = 0 /\ shown = {} /\ stray = {}

-----------------------------------------------------------------------------
(* Offers and claims.                                                      *)

Unexpired == pending \ idle

\* A finished /lore posts its offer and parks the seeded session against it;
\* parking drops the offers that got too old.
OfferThread(o) ==
  /\ transcript[o] = <<>>
  /\ \A p \in Offers : p < o => transcript[p] # <<>>
  /\ transcript' = [transcript EXCEPT ![o] = Seed]
  /\ pending' = Unexpired \cup {o}
  /\ idle' = idle \ pending
  /\ disk' = Saved(pending', live, transcript', idle')
  /\ UNCHANGED <<live, registered, router, turns, world, loops, ghosts>>

Claims(o, place) == claim' = [claim EXCEPT ![o] = place]

\* on_raw_reaction_add: check and mark with no await in between, so that an
\* offer has one handler at a time.
React(o) ==
  /\ o \in pending /\ claim[o] = "none"
  /\ Claims(o, "peeking")
  /\ UNCHANGED <<stores, router, turns, opened, loops, ghosts>>

\* claim_thread: the offer may have been swept while the channel was fetched.
PeekOffer(o) ==
  /\ claim[o] = "peeking"
  /\ Claims(o, IF o \in pending THEN "opening" ELSE "none")
  /\ UNCHANGED <<stores, router, turns, opened, loops, ghosts>>

\* Discord opens one thread per message.  The fetch, the request or only its
\* answer may fail.
OpenThread(o) ==
  /\ claim[o] = "opening"
  /\ \/ /\ o \notin opened /\ Load < MaxLoad
        /\ opened' = opened \cup {o}
        /\ Claims(o, "opened") \/ Claims(o, "none")
     \/ Claims(o, "none") /\ UNCHANGED opened
  /\ UNCHANGED <<stores, router, turns, loops, ghosts>>

\* sessions.claim pops the offer and saves; the thread is routed; the registry
\* saves its entry.  No await in between; the greeting that follows only keeps
\* the mark in claiming a little longer.
ClaimThread(o) ==
  /\ claim[o] = "opened"
  /\ \/ /\ o \in pending
        /\ pending' = pending \ {o} /\ live' = live \cup {o}
        /\ models' = models \cup {o} /\ routed' = routed \cup {o}
        /\ registered' = registered \cup {o}
        /\ disk' = [Saved(pending', live', transcript, idle) EXCEPT !.registered = registered']
     \/ /\ o \notin pending
        /\ UNCHANGED <<pending, live, models, routed, registered, disk>>
  /\ Claims(o, "none")
  /\ UNCHANGED <<transcript, idle, locks, turns, opened, loops, ghosts>>

-----------------------------------------------------------------------------
(* A follow-up: on_message, holding the thread's lock for the whole turn.  *)

Moves(m, place) == at' = [at EXCEPT ![m] = place]
Appends(m, kind) ==
  transcript' = [transcript EXCEPT ![to[m]] = Append(@, [kind |-> kind, by |-> m])]

Arrive(m, t) ==
  /\ at[m] = "unsent" /\ t \in opened /\ Load < MaxLoad
  /\ \A n \in Messages : n < m => at[n] # "unsent"
  /\ to' = [to EXCEPT ![m] = t]
  /\ Moves(m, IF t \in routed \cap live THEN "arrived" ELSE "ended")
  /\ UNCHANGED <<stores, router, lockOf, cut, world, loops, ghosts>>

\* After ensure_discovered and the status message, the limiter having had its
\* say: the handler asks for the thread's lock.
Queue(m) ==
  LET t == to[m] IN
  /\ at[m] = "arrived"
  /\ \/ /\ locks' = [locks EXCEPT ![t] = IF @ = NoOne THEN m ELSE @]
        /\ lockOf' = [lockOf EXCEPT ![m] = locks'[t]]
        /\ Moves(m, "queued")
     \/ Moves(m, "ended") /\ UNCHANGED <<locks, lockOf>>
  /\ UNCHANGED <<stores, models, routed, to, cut, world, loops, ghosts>>

\* Seeded fault: a turn starts without waiting for the lock.
AcquireAtOnce(m) ==
  /\ at[m] = "queued"
  /\ Moves(m, IF to[m] \in live THEN "holding" ELSE "ended")
  /\ UNCHANGED <<stores, router, to, lockOf, cut, world, loops, ghosts>>

\* The session is read again under the lock.  (The lock is first come, first
\* served; here any waiter may be next.)
Acquire(m) ==
  /\ at[m] = "queued" /\ ~Locked(lockOf[m])
  /\ Moves(m, IF to[m] \in live THEN "holding" ELSE "ended")
  /\ UNCHANGED <<stores, router, to, lockOf, cut, world, loops, ghosts>>

\* run_lore_turn appends the question to the session object; nothing saves it.
Ask(m) ==
  /\ at[m] = "holding"
  /\ Appends(m, "question")
  /\ idle' = idle \ {to[m]}
  /\ Moves(m, "searching")
  /\ UNCHANGED <<pending, live, registered, disk, router, to, lockOf, cut, world, loops, ghosts>>

\* The tool rounds are over and found something new, or did not.
Search(m) ==
  /\ at[m] = "searching"
  /\ Moves(m, "answering")
  /\ Appends(m, "research") \/ UNCHANGED transcript
  /\ UNCHANGED <<pending, live, idle, registered, disk, router, to, lockOf, cut, world, loops, ghosts>>

\* A backend or Discord error: the status message says so and the turn ends,
\* its question still in the session object.
Fail(m) ==
  /\ at[m] \in {"holding", "searching", "answering"}
  /\ Moves(m, "ended")
  /\ UNCHANGED <<stores, router, to, lockOf, cut, world, loops, ghosts>>

\* Seeded fault: the session is put without being saved.
PutsInMemory(m, tr) == live' = live \cup {to[m]} /\ UNCHANGED disk

\* sessions.put: the session is (again) the thread's, and everything is saved.
Puts(m, tr) ==
  /\ live' = live \cup {to[m]}
  /\ disk' = Saved(pending, live', tr, idle \ {to[m]})

\* The answer is appended and, once the status message says so, put.
Answer(m) ==
  /\ at[m] = "answering"
  /\ Appends(m, "answer")
  /\ idle' = idle \ {to[m]}
  /\ Puts(m, transcript')
  /\ Moves(m, "posting")
  /\ UNCHANGED <<pending, registered, router, to, lockOf, cut, world, loops, ghosts>>

ResearchIn(t) == {i \in 1..Len(transcript[t]) : transcript[t][i].kind = "research"}

\* The oldest half of the research blocks, at least one.
Victims(t) ==
  LET half == Cardinality(ResearchIn(t)) \div 2
  IN  {i \in ResearchIn(t) :
         Cardinality({j \in ResearchIn(t) : j < i}) < IF half > 1 THEN half ELSE 1}

\* post_lore_answer may raise, some of the answer being visible by then; the
\* handler ends.  After a full post maybe_compact_session finds that the context
\* is not that full or that there is too little to merge, or it picks its victims
\* and asks for a summary.
PostAnswer(m) ==
  /\ at[m] = "posting"
  /\ shown' = shown \cup {m}
  /\ \/ Moves(m, "ended") /\ UNCHANGED cut
     \/ /\ Cardinality(ResearchIn(to[m])) >= 2
        /\ cut' = [cut EXCEPT ![m] = Victims(to[m])]
        /\ Moves(m, "summarising")
  /\ UNCHANGED <<stores, router, to, lockOf, world, loops, crashes, stray>>

\* Seeded fault: the summary takes the place of everything before it.
CondensedPrefix(s, gone) ==
  LET last == CHOOSE i \in gone : \A j \in gone : j <= i
  IN  <<[kind |-> "research", by |-> NoOne]>> \o SubSeq(s, last + 1, Len(s))

\* The transcript with the first of the positions cut replaced by a summary and
\* the others left out.
Condensed(s, gone) ==
  LET first == CHOOSE i \in gone : \A j \in gone : i <= j
  IN  Selected([i \in 1..Len(s) |->
                  IF i = first THEN [kind |-> "research", by |-> NoOne] ELSE s[i]],
               {i \in 1..Len(s) : i = first \/ i \notin gone})

Compact(m) ==
  /\ at[m] = "summarising"
  /\ \/ /\ transcript' = [transcript EXCEPT ![to[m]] = Condensed(@, cut[m])]
        /\ Puts(m, transcript')
     \/ UNCHANGED <<transcript, live, disk>>   \* no summary
  /\ Moves(m, "ended")
  /\ cut' = [cut EXCEPT ![m] = {}]
  /\ UNCHANGED <<pending, idle, registered, router, to, lockOf, world, loops, ghosts>>

-----------------------------------------------------------------------------
(* Expiry.                                                                 *)

\* A week of silence.  A turn is minutes and has just touched its session.
Age(t) ==
  /\ t \in pending \cup live
  /\ ~\E m \in Messages : to[m] = t /\ at[m] \in Holding \ {"holding"}
  /\ t \notin idle
  /\ idle' = idle \cup {t}
  /\ disk' = [disk EXCEPT !.idle = @ \cup ({t} \cap (disk.pending \cup disk.live))]
  /\ UNCHANGED <<pending, live, transcript, registered, router, turns, world, loops, ghosts>>

Sweeping == sweep.todo # {} \/ sweep.notifying # {}

Expired == live \cap idle

\* The sweep asks once which threads are.
SweepThreads ==
  /\ ~Sweeping
  /\ Expired # {}
  /\ sweep' = [sweep EXCEPT !.todo = Expired]
  /\ UNCHANGED <<stores, router, turns, world, restoring, missed, ghosts>>

\* Seeded fault: a thread that ever had a turn is skipped.
SweepSkipsUsed(t) ==
  /\ sweep.notifying = {} /\ t \in sweep.todo
  /\ sweep' = [todo |-> sweep.todo \ {t},
               notifying |-> IF locks[t] # NoOne THEN {} ELSE {t}]
  /\ UNCHANGED <<stores, router, turns, world, restoring, missed, ghosts>>

\* A thread mid-answer is skipped; another one is told first.
SweepThread(t) ==
  /\ sweep.notifying = {} /\ t \in sweep.todo
  /\ sweep' = [todo |-> sweep.todo \ {t},
               notifying |-> IF locks[t] # NoOne /\ Locked(locks[t]) THEN {} ELSE {t}]
  /\ UNCHANGED <<stores, router, turns, world, restoring, missed, ghosts>>

\* retire_thread: the router forgets the thread, lock included, then the
\* registry, then the session store.
RetireThread(t) ==
  /\ t \in sweep.notifying
  /\ sweep' = [sweep EXCEPT !.notifying = {}]
  /\ routed' = routed \ {t} /\ models' = models \ {t}
  /\ locks' = [locks EXCEPT ![t] = NoOne]
  /\ registered' = registered \ {t}
  /\ live' = live \ {t} /\ idle' = idle \ {t}
  /\ disk' = [Saved(pending, live', transcript, idle') EXCEPT !.registered = registered']
  /\ stray' = stray \cup {o \in {t} : \E m \in Messages : to[m] = o /\ at[m] \in UnderWay}
  /\ UNCHANGED <<pending, transcript, turns, world, restoring, missed, crashes, shown>>

-----------------------------------------------------------------------------
(* The process dies and is started again.                                  *)

\* Seeded fault: a retirement removes the session before the registry's entry.
DiskSessionFirst ==
  {disk} \cup {Saved(pending, live \ {t}, transcript, idle) : t \in sweep.notifying}

\* What the stores hold on disk when the process dies: what was saved last, or,
\* inside a claim or a retirement, the first of its two files.
DiskAtDeath ==
  {disk}
  \cup {Saved(pending \ {o}, live \cup {o}, transcript, idle) :
          o \in {p \in pending : claim[p] = "opened"}}
  \cup {[disk EXCEPT !.registered = @ \ {t}] : t \in sweep.notifying}

\* A session that is neither on offer nor in a thread is gone; its id is not
\* used again.
Loaded(d) ==
  [o \in Offers |-> IF o \in d.pending \cup d.live THEN d.transcript[o] ELSE transcript[o]]

Restart ==
  /\ crashes < MaxCrashes /\ crashes' = crashes + 1
  /\ \E d \in DiskAtDeath :
       /\ disk' = d
       /\ pending' = d.pending /\ live' = d.live /\ registered' = d.registered
       /\ transcript' = Loaded(d)
       /\ idle' = d.idle
       /\ restoring' = d.registered
  /\ models' = {} /\ routed' = {}
  /\ locks' = [o \in Offers |-> NoOne]
  /\ claim' = [o \in Offers |-> "none"]
  /\ at' = [m \in Messages |-> IF at[m] \in UnderWay THEN "ended" ELSE at[m]]
  /\ cut' = [m \in Messages |-> {}]
  /\ sweep' = [todo |-> {}, notifying |-> {}]
  /\ missed' = {}
  /\ UNCHANGED <<opened, to, lockOf, shown, stray>>

\* restore_threads, one entry of its snapshot: the registry and the store are
\* read after the fetch.
RestoreThread(t) ==
  /\ t \in restoring
  /\ restoring' = restoring \ {t}
  /\ \/ /\ models' = models \cup {t}
        /\ routed' = IF t \in registered \cap live THEN routed \cup {t} ELSE routed
        /\ UNCHANGED missed
     \/ missed' = missed \cup {t} /\ UNCHANGED <<models, routed>>
  /\ UNCHANGED <<stores, locks, turns, world, sweep, ghosts>>

-----------------------------------------------------------------------------
TurnStep(m) ==
  Queue(m) \/ Acquire(m) \/ Ask(m) \/ Search(m) \/ Answer(m) \/ Fail(m)
    \/ PostAnswer(m) \/ Compact(m)
ClaimStep(o) == PeekOffer(o) \/ OpenThread(o) \/ ClaimThread(o)
SweepStep == SweepThreads \/ (\E t \in Offers : SweepThread(t) \/ RetireThread(t))

Next ==
  \/ \E o \in Offers : OfferThread(o) \/ React(o) \/ ClaimStep(o) \/ Age(o) \/ RestoreThread(o)
  \/ \E m \in Messages : TurnStep(m) \/ (\E t \in Offers : Arrive(m, t))
  \/ SweepStep
  \/ Restart

Spec == Init /\ [][Next]_vars

\* The loop runs every handler that is ready, the sweep is due every hour, and
\* silence adds up to a week.
Fairness ==
  /\ \A m \in Messages : WF_vars(TurnStep(m))
  /\ \A o \in Offers : WF_vars(ClaimStep(o)) /\ WF_vars(RestoreThread(o)) /\ WF_vars(Age(o))
  /\ WF_vars(SweepStep)

FairSpec == Spec /\ Fairness

-----------------------------------------------------------------------------
(* Properties.                                                             *)

Entry == [kind : {"question", "research", "answer"}, by : Messages \cup {NoOne}]

TypeOK ==
  /\ pending \subseteq Offers /\ live \subseteq Offers /\ idle \subseteq Offers
  /\ registered \subseteq Offers /\ models \subseteq Offers /\ routed \subseteq models
  /\ opened \subseteq Offers
  /\ stray \subseteq Offers /\ shown \subseteq Messages
  /\ transcript \in [Offers -> Seq(Entry)]
  /\ disk \in [pending : SUBSET Offers, live : SUBSET Offers, idle : SUBSET Offers,
               registered : SUBSET Offers, transcript : [Offers -> Seq(Entry)]]
  /\ locks \in [Offers -> Messages \cup {NoOne}]
  /\ lockOf \in [Messages -> Messages \cup {NoOne}]
  /\ claim \in [Offers -> {"none", "peeking", "opening", "opened"}]
  /\ at \in [Messages -> UnderWay \cup {"unsent", "ended"}]
  /\ to \in [Messages -> Offers]
  /\ cut \in [Messages -> SUBSET (Nat \ {0})]
  /\ sweep \in [todo : SUBSET Offers, notifying : SUBSET Offers]
  /\ restoring \subseteq Offers /\ missed \subseteq Offers
  /\ crashes \in 0..MaxCrashes

\* Two follow-ups never interleave in a transcript (services.py, ThreadRouter:
\* "question, question, answer, answer"): what stands between an answer and its
\* question belongs to the same turn.  A thread retired under a follow-up is
\* the exception: its lock is gone.
TurnsDoNotInterleave ==
  \A t \in Offers \ stray : \A i \in 1..Len(transcript[t]) :
    LET e == transcript[t][i] IN
    (e.kind = "answer" /\ e.by # NoOne) =>
      \E j \in 1..i : /\ transcript[t][j] = [kind |-> "question", by |-> e.by]
                      /\ \A k \in j..i : transcript[t][k].by \in {e.by, NoOne}

\* A thread registered as lore has its session, in memory and in the two files,
\* whenever the process dies: a claim saves the session before the entry and a
\* retirement removes it after (claim_thread, retire_thread), so
\* restore_threads never has to fall back to plain chat.
RegisteredHasSession == registered \subseteq live /\ disk.registered \subseteq disk.live

\* An answer that reached Discord is in the saved transcript for as long as the
\* session is, restarts included (on_message: put comes before the post).  In a
\* thread retired under a follow-up two compactions can overlap, and the second
\* removes what the first has moved to its positions.
ShownIsSaved ==
  \A m \in shown : to[m] \in disk.live \ stray =>
    [kind |-> "answer", by |-> m] \in Range(disk.transcript[to[m]])

\* A session is an offer or a thread, never both, and no restart brings a
\* claimed offer back (LoreSessionStore.claim).
ClaimedOnce == pending \cap live = {} /\ disk.pending \cap disk.live = {}

\* Once restore_threads is through, the lore cog answers in every thread that
\* is registered, but for the ones Discord did not produce.
RestoredIsRouted == restoring = {} => registered \ missed \subseteq routed

\* The bot's state is well formed, and the session store, the registry and the
\* router agree on which threads there are (claim_thread, retire_thread,
\* restore_threads).
StoresAgree == TypeOK /\ RegisteredHasSession /\ ClaimedOnce /\ RestoredIsRouted

Turns(s) == Selected(s, {i \in 1..Len(s) : s[i].kind # "research"})

\* Compaction rewrites research only: as long as the process lives, no question
\* or answer leaves a transcript or changes place (_compact_session).
TurnsAreKept ==
  [][\A t \in Offers \ stray' :
       crashes' = crashes => IsPrefix(Turns(transcript[t]), Turns(transcript'[t]))]_vars

\* Every follow-up that was let in gets its turn and ends, also when the one
\* before it fails or its thread is retired (on_message, async with lock).
FollowUpsEnd == \A m \in Messages : at[m] \in UnderWay ~> at[m] \notin UnderWay

\* No session stays for good: after a week of silence the sweep takes it, also
\* one that a late turn has put back (sweep_threads).
SessionsReclaimed == \A t \in Offers : t \in live ~> t \notin live
=============================================================================
