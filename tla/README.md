# A TLA+ development of Local-AI-Server

One GPU is shared by a language model that must answer at once and by jobs
(LoRA training, video) that may have the card the rest of the time. This
directory models the parts of the repository that decide who has the card and
what survives when it is taken away, the service that archives the messages the
other services work on, and the two that read that archive: the RAG service with
the Discord bot's research agent on top of it, and the builder of the training
data. It checks them with TLC on small instances, and
proves the most important results with TLAPS for every instance.

## 1. The system

| Component | State it keeps | Operations | Modelled in |
|---|---|---|---|
| Arbiter (`arbiter/`) | leases, the two events of a cooperative lease, poll clocks, the scheduler's lock, the holder cache | `/gpu/acquire`, `/gpu/release`, `/gpu/reclaim-notice`, the reaper | `Arbiter`, `Lease` |
| Training supervisor (`lora-training/supervisor.py`, `arbiter.py`) | the child, the `wanted` event, `stopping` | run, wait for the card, start, kill, release, shut down | `Trainer` |
| Training worker (`checkpoints.py`, `train_worker.py`) | checkpoint directories, markers, `final/` | save, mark, prune, resume, finish | `Checkpoints` |
| LLM proxy (`proxy/`) | queue depth, in-flight count, slot lock, current model, idle clock | the proxy handler, `_forward`, the idle evictor | `Proxy` |
| Adapter export (`export_*.py`) | GGUF files and their manifest | convert, replace, record | not modelled, section 7 |
| History service (`history-service/`) | JSONL archive and its id index in memory, raw exports, channel states, the archive lock | `/evaluate`, `/reparse`, `/clear` | `History`; captions are not modelled |
| Lore threads of the Discord bot (`cogs/lore.py`, `lore/session.py`, `thread_registry.py`, `services.py`) | offers, sessions and their transcripts, the registry, routes and locks of threads, two files | `/lore`'s offer, reactions, follow-ups, compaction, the sweep, restart | `Lore` |
| Lore agent (`lore/agent.py`, `research.py`, `compaction.py`, `tools.py`) | the conversation of a run, what it has shown, its budgets; the session it leaves | tool rounds, condensing, the answer, a follow-up | `Agent` |
| RAG service (`rag/`) | the index of conversation chunks, the running ingest | `/ingest`, literal search, counts; similarity search is left out | `Rag`, `Records`, `Readers` |
| Data preparation (`build_dataset.py`, ...) | none that outlives a call | turns, examples, the split | `Dataset`, `Records`, `Readers` |
| Docker and NVML access (`arbiter/docker_client.py`, `gpu.py`) | none | look up, kill, read VRAM | their answers are inputs of `Arbiter` |

How they meet. The proxy and the supervisor are HTTP clients of the arbiter. The
proxy acquires before each request and releases, in a task nobody waits for,
when nothing is in flight. The supervisor acquires, starts a worker, and keeps a
reclaim-notice call open as long as the worker runs; told to let go it kills the
worker, waits for it to exit, and releases. The acquire of a senior job waits
for that release *while holding the scheduler's lock*, which is why release and
reclaim-notice take none. The worker can be killed at any instruction and finds
its way back through the checkpoints on disk. The history service meets the
others only through the files it leaves: its threads share the archive under a
lock, and the state file and `/clear` without one. The RAG service reads those
files without any lock while they grow, and so does the dataset builder. The bot's
agent asks the proxy for each round and the RAG service for each tool call, and
hands its research to a session, which outlives the run and, on disk, the process.

What is hard about it: every await of the arbiter and the proxy is a place where
another call runs; the two events of a cooperative lease outlive it; silence is
taken for death; a fire-and-forget release can be overtaken; a restart of the
arbiter forgets leases whose workers are on the card; a kill can fall between
any two file operations, of a checkpoint as of an archive or of the bot's two
stores; follow-ups, reactions, the sweep and compaction share a session across
awaits; and the agent must keep two lists, a set of keys and a budget consistent
while it condenses what it has found. `PROJECT.json` lists the hazards, each at
its line.

## 2. Modules

### Lease
The promise: at most one job has the card, and it passes from one job to another
only through a state in which nobody has it. `Proxy` uses this module as its
arbiter; `Arbiter` is shown to implement it.

### Arbiter
An action is the stretch of code between two suspending awaits. `pc` says where
each HTTP call (a task) and the reaper are suspended: waiting for the lock, for
Docker's answer about the caller's own container (`own`), about another one
(`probe`), about one that was just killed (`kill`), about one that releases
(`unlease`), for a cooperative holder (`letgo`), for memory to settle
(`settle`), or in a notice call (`notice`, or `woken` once its event is set).
`queue` is the FIFO `asyncio.Lock`, owner first. `leased`, `wanted`, `letGo` and
`stale` are the fields of the reclaimers; `order` is the insertion-ordered
dictionary that `acquire` iterates, which an unknown name extends.

`WalkFrom` is the loop of `Scheduler.acquire`: leases of kind none that the
caller outranks are dropped without suspending, and the loop stops at the first
container, cooperative or senior lease. `Resume` continues it after a
suspension, and raises when the dictionary has grown meanwhile, as Python does.
`Sweep` and `Census` are the two halves of `reap`.

Left out: seconds (a timeout may fire at any moment of its wait, and `stale` says
that COOPERATIVE_STALE_AFTER has passed), megabytes (`Admit` lets a job that
states a requirement be granted or refused), metrics and logs. `self.jobs` may be
re-sorted by a new name while the reaper is suspended, so that the code visits a
job twice or not at all in that round; the model visits each job once a round.

### Trainer
`Arbiter` extended with the supervisor's two threads and its worker. The
supervisor's HTTP calls are tasks that only it starts (`call`, `earCall`), so an
answer, a grant that nobody reads and a call that outlives its caller are all
states of the composition. `Callers` are the tasks of the other jobs. `Attended`
restricts when the trainer's poll clock can run out: not while a grant waits to be
read, while the worker's notice thread listens or has just heard, or while an
exited worker's lease is given back. It can run out when the notice thread has
ended beside a worker that nobody kills (`Unwatched`: the shutdown was asked for
between the grant and the `Popen`) and after a kill, as `child.wait()` has no
bound (the fault `slow`). One shutdown signal per container is modelled. `faults` is chosen from `Scenarios` in the initial state and
never changes: it says which faults the world of this behaviour has (arbiter
restarts, shutdowns of the supervisor, crashes of its container, lost calls, slow
deaths, kills by the kernel).

### Checkpoints
One directory per step with the state of its data and its marker. A save, a
marking and a removal are separate steps, a removal may be interrupted with the
marker still in place, or fail silently (`ignore_errors=True`; the history
variable `stuck` remembers it). A power loss turns what was only in the page
cache into `whole` or `lost`, because `mark_complete` syncs the marker but not
the data. `step` stands for the Trainer's `global_step`, and the wall-clock
decision to save is left open.

### Proxy
The swappable path of the handler from its counters to the end of `_forward`,
the slot's lock, the arbiter client, and the evictor with its awaits. `releases`
are release calls on their way, `lateAsks` acquires that the arbiter will answer
after the caller gave up. As in `Trainer`, `faults` says whether calls get lost
and handlers raise in this behaviour. The autocomplete path and requests without a model
touch none of this state.

### History
A pipeline is a call of `/evaluate` or `/reparse`: a thread that exports channel
by channel and appends what is new, or one that appends what all raw exports have
and then rewrites the file. `file` is one user's archive: the records that can be
read, in order, and how the file ends, since a write that was cut short leaves
half a record, or a record without its newline, on which the next append lands.
`known` is `_user_id_cache`, which `append_messages` fills while the records are
still in a buffer, so `AppendBegins` fills it and `AppendEnds` writes. `recorded`
is `channel_state.json`, truncated (`Torn`) between the open and the write of
`save_state`. `/clear` is four steps without the lock, and `orphan` says that it
unlinked a file that is open for appending.

Two history variables mark what the properties exempt: `forfeited` are messages
that a failed write, a truncated export or an unfinished line has cost, and
`crossed` says that a `/clear` met a pipeline or was cut short; section 6 says
what happens then. Left out: the fields of a record and what a refresh changes in
them (`RefreshEnds` may or may not rewrite), other users' files (which share only
the lock), excluded channels, date ranges (which the code never passes, see
`history_activity`), and read errors of the archive.

### Lore
The bot is one asyncio loop, so an action is what a coroutine does between two
awaits. A Discord thread opened on a message has the id of that message, hence an
offer and its thread have one name. `pending` and `live` are the two populations
of `LoreSessionStore`, `transcript` the session objects (kept after a session is
dropped, since a turn may still hold one), `registered` the registry, `models`,
`routed` and `locks` the `ThreadRouter`. `at[m]` is where the handler of a
follow-up is suspended. A lock is named by the message that made it: a retirement
forgets it, and the next follow-up makes another. `disk` is what the two files
hold; `DiskAtDeath` adds the states between the two saves of a claim and of a
retirement. `restoring` is the loop of `restore_threads`, which awaits Discord
for every entry.

The ghost `stray` marks threads that were retired with a follow-up under way; the
order of turns is not promised there (section 6). Left out: what is said, the
status message and its failures, `update_status` (nothing reads it), and failing
disk writes. The lock is FIFO; in the model any waiter may be next.

### Agent
One run of the tool loop, then follow-ups on the session it leaves. A tool result
is a set of texts, each identified as `chunk_key` identifies it. A text costs one
unit of context; a question, an answer, a call, a notice and the wording of a result
cost `Wording` each, reasoning being part of its call; a summary costs what the model
makes it, between one and `Longest`, so it may be longer than what it condenses.
`messages` is what the model sees,
`toolMessages` what the run hands over, `shown` the keys `drop_seen_chunks`
consults, `research` and `seen` the session's part of the same. Rounds, repeats
and the two thresholds of the context are the code's; a failed backend, a failed
summary, an empty reply and a RAG service that is down may happen at every call.
`victims` is what `compact_tool_rounds` holds across the await of the summary. The
code tells messages apart by object identity (`id(m)`); the model numbers the
calls of a run instead, and a result carries the number of its call.

Two kinds of sizes meet in the code, and in the model. A usage report is exact: it
has the whole request and the reply to it (`context_used`, prompt and completion), hence also the
calls of a round and their reasoning (`ReplyCalls`). What came after it is counted in
characters and divided by three or four: the results of a round (`Projected`, which is
`used + fresh` give or take `Error`), what a summary gave back (`Reclaimed`, cut off
below at nothing, so that a summary longer than what it replaces is not charged), and
the context a session is seeded with (`Finish`). `Error` is the most that one such
estimate is off, in either direction, for whatever text; the code's own figure is
3.1 characters a token against the 3 it uses (`compaction.py:32`). `projected` is
held across the await of the summary, as in the code. The usage that llama-server reports is
taken as given (the fallback used without it is not modelled).

### Records, Rag
`Records` is the archive as its readers see it: channel, time, author, and
whether a message is only an image, and the order in which both readers sort it
(`Earlier`). `Rag` has the pure chunking, the ingest as a thread that reads the
files one by one while the archive grows, cuts, and upserts in batches, with a
failure possible at every step, and the searches without embeddings as operators
over the index.

A document is text, and the searches read it back line by line. `Parts` says how a
message's text falls into parts: the first, and one for each later line that reads
`name: ...`. `_parse_chunk_messages` takes such a line for a message of its own if
the name is one of the chunk's authors (`Starts`), and joins any other line to the
message above it (`Continues`), or drops it if nothing above it was recognised; so a
quoted line of somebody who speaks in the chunk becomes that person's. `KnownAs` says
what the comma-joined list of authors (`_build_metadata`) and the line pattern make of
a name: itself, as a rule, other names if it has a comma, none if it has a colon.
`Second` are the whole seconds of the metadata, and `Rank` the order in which the
collection returns documents, which decides between documents of one second. The
prefilter may let more documents through than the model's, as its patterns also match
the header and the names; that matters only to `_MAX_SCAN`.

The chunking is by positions in the sorted messages, where the
code appends to a current chunk: `Opens` says where a conversation starts,
`ChunkStart` is a function that gives each message the start of its chunk, as
`_split_chunk` finds it from the message before, and `Chunks` are the groups
between the starts. The ghost `shifted` says that the cut between two chunks
moved under the index: then a message is in two documents, section 6.

### Dataset
The operators of `build_dataset.py` from timelines to the split, over the same
records: turns are groups of a timeline, a context is what stands between the
last obstacle and the reply, and the examples are a set put in the order of the
final sort (`Sooner`).

### Readers
`Rag` and `Dataset` over one archive. Its property `DatasetIsSound` speaks of
every part of the archive, since the builder reads the files while they grow as
the ingest does.

### Selections, and the proof modules
`Selections` has the entries of a sequence at a set of positions (`Selected`),
the groups of a sequence that start at a set of positions (`Groups`), the members
of a set in an order (`InOrder`) and a sum of weights (`Total`). They stand where
the code has a list comprehension with a condition, a loop that opens groups, a
sort, or a running sum: `SelectSeq` and the folds of the community modules are
recursive and out of the prover's reach, these are not. `Lore`, `Agent`, `Rag`
and `Dataset` use them. `SequenceLemmas` holds what the proofs need of them, of
concatenation, of minima and maxima and of counting. `ArbiterProofs` (with the
composition `Trainer`), `CheckpointsProofs`, `ProxyProofs`, `HistoryProofs`,
`LoreProofs`, `AgentProofs` and `ReadersProofs` hold the theorems of section 4.

### The MC modules
Values of the constants for TLC. Operators whose comment starts with "Seeded
fault" are used by no specification: each is a variant of the definition below
it with a plausible bug, and substituting it makes the property it is paired
with in `PROJECT.json` fail.

## 3. Runs

| Run | Shows |
|---|---|
| `arbiter` | one job of each kind and an unknown name, three concurrent calls, reaper, timeouts, Docker errors, restarts: `ExclusiveLease`, `LetGoMeansGone`, `WantedIsHeard`, `LeaseEndsProperly`, and the refinement of `Lease` (`ImplementsLease`) |
| `arbiter_live` | every acquire is answered, a silent holder is reaped |
| `trainer` | a worker on the card has the lease as long as it is watched (`WorkerIsLeased`), a reclaim completes by the worker's exit and the release, with no timer's help (`HandoverCompletes`), and after arbiter restarts, crashes, lost calls and slow deaths a watched worker without a lease leaves or is leased again (`UnleasedWorkerLeaves`) |
| `proxy` | the counters are exact, the slot is never leaked or shared and the recorded model is the served one (`SlotInv`), every request ends, an idle proxy returns the lease; with and without exceptions, lost calls and late grants |
| `checkpoints` | no resume from a half-written directory, progress never moves back, debris is bounded, training finishes when left alone |
| `history` | with two pipelines, a `/clear` and a failure anywhere: no message is archived twice (`NoDuplicates`), no rewrite loses an append (`ArchiveKeeps`), the id index is not ahead of the file (`IndexInv`), and a channel that counts as exported has its messages archived (`RecordedIsArchived`) |
| `lore` | turns do not interleave in a transcript, the stores and the router agree and an offer is claimed once, restarts included (`StoresAgree`), an answer that was shown is on disk, compaction touches research only, every follow-up ends, every session is reclaimed |
| `agent` | nothing a tool returned is lost (`FoundIsKept`), what is withheld as already shown is there and nothing is there twice (`ContextInv`), calls keep their results, a request of a round exceeds the hard limit by no more than a fixed slack, although results, summaries and the seeded session are only estimated (`WithinWindow`), every run ends |
| `rag` | chunks are conversations, re-runs and broken runs neither duplicate (`IndexInv`) nor lose (`NothingLeavesIndex`), counts and first mentions are the archive's, up to a second and to quoted lines (`SearchesAreTrue`); the evaluation set is held out and examples are replies in their own conversation (`DatasetIsSound`) |
| `proxy_late_release`, `checkpoints_final`, `history_activity` | counterexamples, section 6 |

The type invariants are checked too: on their own where they are theorems, and
as the first conjunct of `TrainerInv`, `SlotInv`, `IndexInv`, `StoresAgree` and
`ContextInv` elsewhere.

Bounds. Three tasks are enough for one acquire that owns the lock and is suspended, one
that waits for it, and one lock-free release or notice call that runs in between; with
the reaper that is every kind of overlap, and tasks are interchangeable (symmetry in
`arbiter`, where no liveness is checked). The names have one job of each kind and one
that `jobs.yaml` does not have, so the loop of acquire meets each of its branches; the
liveness run uses the kinds that are deployed. `Trainer` needs two connections for the
supervisor's two threads and one other caller. The proxy has two requests, one of which
owns the slot while the other waits, two models so that they can differ, at most
`MaxReleases` = 2 release calls on their way (one from each of two idle moments) and
`MaxLeaks` = 1 leaked count. Scenarios of faults share a run and do not mix: `trainer`
has one with shutdowns and kernel kills and one with restarts, crashes, lost calls and
slow deaths, `proxy` one without faults, for which alone the stronger properties are
stated, and one with all of them. The checkpoints run has three steps and keeps one, so
that there is always something to prune and something that must not be; the proofs cover
every other size of it. The history run has two pipelines, which are interchangeable,
two messages in two channels, `MaxFaults` = 1 and `MaxClears` = 1: one fault is a cut
write, a lost export or a restart, and everything after it is the recovery. The same run
with two faults has 9.1 million states, takes some minutes more, and finds nothing
either. The lore run has two offers and two follow-ups, of which `MaxLoad` = 3 lets any
three happen: two follow-ups in one thread (which the lock is about), or two threads and
one follow-up (which the sweep and the stores are about), and one crash. The agent run
has two searches with an overlapping hit, three rounds of up to two calls, and two
follow-ups; the thresholds (4, 5, 6, window 8) are so close that the notice, compaction,
the hard stop and a request that does not fit all occur. An estimate is off by up to
one, and a summary takes one unit or six, as much as the hard limit: less, and more,
than what it condenses. The rag run has six messages: a conversation longer than a chunk
with an image in it, a message over the budget, and a second channel; batches of one, so
that a run can end between any two chunks; two calls, which are interchangeable; and a
`MaxScan` that is reached. Two messages of the first channel, in different chunks, are
in one second, and the collection returns the later one first. One message quotes
somebody who does not speak in its chunk, which changes nothing, and one in the second
channel somebody who does, so that there only the weaker part of `SearchesAreTrue`
applies.

Fairness. The event loops run what is ready and timers fire: weak fairness of each task
and of the reaper's endless loop. In `Trainer` timers are *not* fair, so
`HandoverCompletes` shows that nothing counts on them; both threads run, a process that
was sent SIGKILL dies, and the answer to a notice call is not lost every time (strong
fairness of `EarReturned`, since the thread retries for ever). In `Proxy` every HTTP
call has a timeout and the router finishes what it generates. In `Checkpoints` a worker
that is not killed goes on, and one that was killed is started again by its supervisor;
`TrainingFinishes` assumes that kills end at some time. In `Lore` the loop runs every
handler that is ready, the backends answer or time out, the sweep is due every hour, and
silence adds up to the TTL; crashes are bounded. In `Agent` every call to a backend
ends. `Rag` has no liveness property. `History`'s only liveness question is answered
with a no, so its fairness is the most generous one: every thread goes on, gets the lock
when it keeps asking, and `/evaluate` is called again and again.

## 4. Theorems

`ArbiterProofs`: for every set of names and tasks, every job table in priority
order, and all timeouts and restarts, `TypeCorrect`, `OneLease`
(`ExclusiveLease`), `NoStaleRelease` (`LetGoMeansGone`), `NoLostWakeup`
(`WantedIsHeard`), `LeasesEndProperly` and `LeaseRefinement` (`ImplementsLease`).
The first four are not inductive by themselves. The invariant `IInv` adds
 * `PlaceInv`, `LockInv`: who is suspended where, and that whoever is inside the
   critical section is at the head of the queue, once;
 * `NameInv`: a suspended task has a name the table knows;
 * `WalkInv`: everything the walking acquire has passed holds no lease that is
   not a container's, and the job it waits for is one it outranks. This is what
   makes the grant exclusive: leases can only disappear behind the walk, since
   every grant needs the lock;
 * `WantedInv`: a set `wanted` belongs to a lease that stands.

In the same module, of the composition `Trainer`: `ImplementsArbiter` shows that every
behaviour of supervisor and arbiter together is one of the arbiter, so what is proved of
`Arbiter` holds of the composition, and `IInv` is available as a lemma. On top of it
`WorkerKeepsLease` (`TrainerInv`) needs `HoldInv`: an acquire of the training job is the
one its supervisor waits for, the job's lease means that the supervisor has it, is
giving it back or has just been granted it, and while it has it the poll clock has not
run out. The last needs `EarInv`: the notice thread of a worker that is not yet killed
listens or has heard, unless the shutdown came first. That part holds where no fault
takes the lease away behind the supervisor's back or loses an answer; section 6 has the
others.

`CheckpointsProofs`: for every run length and every number of checkpoints kept
(at least one), `CheckpointsTyped`, `ProgressKept` (`NoProgressLost`),
`ResumeIsSafe` (`LatestWasSaved`) and `DebrisIsBounded` (`DiskBounded`). The
invariant says that what is being saved is newer than every marked directory
(`SaveInv`) and that every marked directory about to be removed has a newer marked
one (`DoomInv`, where `Keep >= 1` is used), so neither a save nor an interrupted
removal touches the one a restart would resume from. The bound
(`BoundInv`) counts what a prune in progress leaves: at most `Keep` directories are
not doomed, so a prune that comes to its end leaves at most `Keep`, and only one
save can begin before the next.

`ProxyProofs`: for any number of requests, `CountsAreExact` (`CountsAreRight`) and
`SlotIsOwned` (`SlotInv`). They become inductive with `WaitersInv`: the lock's
queue has everybody who waits for the slot, and nobody twice, so that a cancelled
request leaves no place behind and only the first is ever at the router. The
counters, which stop at zero, are right because whoever takes one down is still
counted by it.

`HistoryProofs`: for any number of messages, channels and pipelines,
`NothingTwice` (`NoDuplicates`), `IndexIsTrue` (`IndexInv`), `RecordsAreTrue`
(`RecordedIsArchived`) and `NothingIsLost` (`ArchiveKeeps`). What makes them
inductive is what a thread has in hand: what an append is about to write is known
and not in the file (`FreshInv`), the copy a rewrite works on is the file
(`CopyInv`), the index has what the file has and, but for that append, no more
(`KnownInv`), and a pipeline's own copy of the channel states is true once what it
has taken on is written (`StateInv`). All of it holds until a `/clear` meets a
pipeline. `NothingIsLost` is about steps: only `/clear` and a line that a cut write
left unfinished take a message out.

`LoreProofs`: for any number of threads and follow-ups, `StoresDoAgree`
(`StoresAgree`), `OneTurnAtATime` (`TurnsDoNotInterleave`), `ShownAnswersAreSaved`
(`ShownIsSaved`) and `QuestionsAndAnswersStay` (`TurnsAreKept`). The handlers
of a thread use one lock (`LockInv`), so one of them at a time is inside
(`AloneInv`), the transcript ends with what that one has said (`SpeakInv`), and the
positions its compaction noted are still those of research when the summary comes
(`CutInv`). An answer is in the session, in memory and on disk, before it is posted
(`KeptInv`). The attempt to prove `ShownIsSaved` for every thread failed for a
reason: section 6, `compaction.py:116`.

`AgentProofs`: for every archive, and all budgets and thresholds,
`NothingFoundIsLost` (`FoundIsKept`), `ContextIsExact` (`ContextInv`),
`CallsKeepAnswers` (`CallsAreAnswered`) and `RoundsFitWindow` (`WithinWindow`).
The four need one another, through
 * `MirrorInv`: what the run hands over stands in the conversation at certain places
   and in its order, and at the others are the session's research and the loop's notices; so the two lists that
   `compact_tool_rounds` rewrites are condensed alike;
 * `ToolInv`: results are told apart by their call, calls and results stand side by
   side, and the victims chosen before the await are still in the list after it;
 * `SeenInv`, `FoundInv`, `ShownInv`: a key of the session or of the loop stands for
   a text that is there, and every text found is in what is handed over unless the
   session has it;
 * `OnceInv`: a text stands once, so the size of a list is that of its texts and
   its wording, and condensing takes out just what the victims weigh;
 * `SizeInv`: while calls are made and a summary is awaited, the conversation is the
   last usage report and what came after it; between two turns the session is no
   larger than its recorded context, plus one error or one summary.

`RoundsFitWindow` follows from the last: whatever the loop goes on with was estimated
under the hard limit, by an estimate that is off by `Error` at most, and what a summary gave
back is off by `Error` or, where it looked longer than what it replaced, by the
summary. No error is carried on, since the next usage report starts the count anew.
`Slack` is that sum, and the run finds violations of any bound without it. What the
theorem does not say is that the requests stay under the hard limit itself: they do
not (section 6).

`ReadersProofs`: for every archive, and all gaps, budgets, batch sizes and numbers
of runs, `IndexIsSound` (`IndexInv`), `IndexOnlyGrows` (`NothingLeavesIndex`),
`ChunksAreTrue` (`ChunksAreConversations`), `SearchesTellTruth`
(`SearchesAreTrue`) and `DatasetsAreSound` (`DatasetIsSound`). The invariant
`IngestInv` has
 * `LoadedInv`: what a run has read is in the archive and not older than its
   `since`, and what it has still to upsert are chunks of what it has read;
 * `DocumentInv`: a document has the key of its first message and nothing that is
   not archived;
 * `UnshiftedInv`, as long as no cut moved: every document is the beginning of a
   chunk of the archive; a run has read each indexed message that it could have
   read by now, and its chunks are in the index or still to do; what finished runs
   have read stays indexed.

A message is in one chunk of the archive, and the beginnings of one chunk have one first
message, hence one key: that is `IndexInv`, and the reason why the key is the first
message and not the last. A batch replaces documents by chunks with the same key; both
are beginnings of one chunk of the archive, and the run has read all that the replaced
one has, so the new one is not shorter: that is `NothingLeavesIndex`, and it needs that
runs do not overlap. When everything archived was read by a finished run, the documents
part the messages among them, so, if nothing but its messages is read back from a
document (`ReadBack`, `DocumentTells`), a count document by document is a count of
messages (`PairsCounted`); if quotes add to it, it is no less (`PairsCover`). And a
chunk that starts earlier has all its messages earlier, so the first document of a
literal search holds the first match, or starts in the same second. The chunking is
proved from `ChunkStart`: a message's chunk starts at it or where that of the message
before does, so the starts are the positions that are their own start, and between two
of them nothing was over the budget. Of the dataset the lemmas hold for every set of
messages: the turns of a channel part its messages, the context of a reply is the
messages between two moments of its channel, and the sort has no ties.

The assumptions are those of the `ASSUME`s: the order of `jobs.yaml` as `load_jobs`
returns it, the defaults of an unknown name, `Keep >= 1`, budgets that are at least one,
thresholds in their order, finite sets of what is counted, summaries of at least one
unit, seconds that follow the timestamps, a first part of each message that is its
author's, and messages of one channel with different timestamps, which are Discord's to
the millisecond (where two agree, `load_archive` leaves them in the order of the files).

How the proofs do without induction over data. What a list comprehension returns is
stated by position and cardinality (`NthProperties`, `SelectedProperties`): the k-th
selected position is the one with k - 1 selected before it. In the same way `InOrder`
puts at the i-th place the member with i - 1 before it, and `Groups` cuts between the
k-th start and the next (`InOrderProperties`, `GroupsProperties`). That there is one
rests on `SetInduction` and `LeastOfSet` in `SequenceLemmas`, which take a set where the
library's induction theorems take an operator, and so does the existence of a function
that is defined by recursion over positions (`ChunkStart`, `StartsExist`).

Only model-checked is liveness, since it rests on fairness and ENABLED:
`AcquireAnswered`, `SilentLeaseReaped`, `HandoverCompletes`,
`UnleasedWorkerLeaves`, `TrainingFinishes`, `LeaseReturned`, `RequestsEnd`,
`FollowUpsEnd`, `SessionsReclaimed` and `RunsEnd`. Every invariant and every action
property of the runs is stated by a theorem.

## 5. Plan

What would come next is `Exports`: conversion, replacement and manifest as steps
that a crash separates (section 7).

## 6. Where the code and its documentation disagree

With a run and a counterexample:
 * `proxy_late_release`: a release in its own task can be overtaken by the next
   request's acquire, and takes the lease from it (`proxy/main.py:481`,
   `state.py:36`).
 * `checkpoints_final`: a second run over a finished output directory rewrites
   `final/` with the old marker in place (`train_worker.py:358`,
   `checkpoints.py:9`).
 * `history_activity`: `channels_needing_export` looks for
   `last_message_timestamp` (`channel_state.py:135`) where the fetch path writes
   `last_message_at` (`history-service/main.py:415`), so a channel is exported
   once and never again (`main.py:158`). With `NeedsExport` comparing the
   channel's record with its messages, the same run finds no violation.

Reachable in the models, without a run of their own. Arbiter, supervisor, proxy:
 * an acquire answered "already held" does not restart the poll clock
   (`scheduler.py:83`), so a supervisor submitted again after a crash can lose the
   lease under its new worker, where `config.py:86` has "a healthy client always
   renews before this fires"; `WorkerIsLeased` is therefore stated for behaviours
   without the faults that leave such a lease behind;
 * a call under a new name while an acquire is suspended in its loop grows the
   dictionary being iterated, and the acquire fails with an exception
   (`scheduler.py:87`, `Resume`) instead of a 503 (`main.py:108`);
 * a SIGTERM between the grant and the start of the worker kills nothing
   (`supervisor.py:70`, `:130`), and the notice thread of that worker ends at once
   (`supervisor.py:111`). Nobody renews its lease: the reaper takes it
   (`scheduler.py:239`), the next job is granted the card, and the worker stays on it
   until it ends by itself. `WorkerIsLeased` and `UnleasedWorkerLeaves` exempt this
   worker (`Unwatched`), and `HandoverCompletes` a supervisor that is stopping;
 * a leased container that is down when acquire looks keeps its lease and is a
   second holder when it comes back (`scheduler.py:88`), which is why
   `ExclusiveLease` speaks of the other kinds; no deployed job is a container;
 * an unknown name runs at priority 0 (`scheduler.py:179`) where `config.py:125`
   promises it the top rank;
 * a worker that takes longer than COOPERATIVE_STALE_AFTER to die loses its lease
   while it is on the card (`scheduler.py:244`, the fault `slow`);
 * exit -9 is retried whoever sent the signal (`supervisor.py:171`, the fault `oom`);
 * the evictor reads its gates before several awaits (`proxy/main.py:172`), so a
   request that arrives meanwhile can have its model unloaded;
 * an exception out of `acquire` leaves the queue depth too high
   (`proxy/main.py:490`), after which an idle proxy keeps its lease;
 * a lost release, or a grant after the caller gave up, leaves the proxy's lease
   in place until its next request: nothing reaps a lease of kind none;
 * a power loss can leave a marked checkpoint that does not load
   (`checkpoints.py:55`);
 * an append whose write fails keeps its ids in the index, and the channel is
   recorded: only a `/reparse` after a restart brings the messages back
   (`jsonl_store.py:150`);
 * a record on an unfinished line is lost with the next append, and so is the
   first record of that append, until a `/reparse` after a restart
   (`jsonl_store.py:141`);
 * an export that died half-way passes for a whole one (`dce_orchestrator.py:198`);
 * `/clear` takes no lock, although `jsonl_store.py:24` says "Held by every
   write": beside a pipeline it can leave ids known whose records went to an
   unlinked file, or have a rewrite bring back what was cleared; and a crash
   between its steps leaves channels recorded whose archive is gone.

The bot:
 * the sweep looks at a thread's lock and then awaits Discord before it retires
   the thread (`cogs/lore.py:456`). A follow-up that takes the lock meanwhile has
   its session removed under it, which the docstring at `:444` says would strand
   it; its `put` brings the session back, without a route, until the next sweep. A
   further follow-up in between gets a new lock, and the two can interleave;
 * in such a thread two turns can also compact at the same time. Each replaces
   positions it noted before its summary was asked for, and the second then takes
   entries for research that the first has moved: an answer can leave the
   transcript, although `compaction.py:116` has the summary in place "so surrounding
   questions and answers keep their order". It takes four follow-ups (TLC finds it
   with `Messages` of four, in the absence of the exemption); `ShownIsSaved` and
   `TurnsAreKept` exempt threads in `stray`;
 * a crash between the creation of a thread and the claim leaves an offer that no
   reaction can open: Discord refuses a second thread on the message;
 * `claim` does not touch `last_active_at`, so a thread opened late on its offer
   can be retired before anybody asks in it, although `session.py:78` has "a thread
   stays alive as long as anyone is using it";
 * `agent.py:458` says that the caller persists "once after posting to Discord
   succeeds"; `cogs/lore.py:407` persists before it posts, which is what makes
   `ShownIsSaved` hold;
 * after a session was compacted its `seen_keys` still list what was condensed, so
   follow-ups leave it out as already shown, and `last_context_tokens` is that of
   before; the in-run compaction does forget the keys (`compaction.py:208`);
 * a follow-up that fails leaves its question in the session, and its research if its
   answer was being written, and has not recorded the context, so the next one may
   send a first request that much larger (`agent.py:549`; the exemption of
   `WithinWindow`);
 * the projection of the next request is an estimate (`agent.py:251`, "projected at
   ... of" the window), and so is what a summary gave back: `max(0, ...)` charges
   nothing for a summary that is longer than what it replaces (`compaction.py:220`). A round
   can therefore go on with a request at or over AGENT_CTX_HARD_PCT, by at most the
   slack of `WithinWindow`. The hard limit does its work as long as the window above it
   has room for that slack;
 * an empty reply is nudged and asked again without any look at the context
   (`agent.py:160`), so the notices of such rounds come on top of it;
 * a repeated search is refused with its results being "above" also after these
   were condensed, and "no match" is reported as conclusive also when the RAG
   service was down.

The readers of the archive:
 * `ingest.py:8` speaks of idempotent re-runs. A caption that arrives late, a
   `since` in the middle of a conversation or a file that was skipped gives the
   conversation another first message or another cut; the old documents stay, and
   a message is in two (`shifted`);
 * `retrieve.py:274` has a line start a new message only if its name "is one of the
   chunk's known authors", so that message text with colons is not "read as a speaker".
   When it is the name of somebody who speaks in the chunk it is: a quoted line `bob: ...` in another's message
   counts as Bob's message, so the counts per author, a search by author and the
   attribution of its matches differ from the archive. `SearchesAreTrue` says which
   answers still hold: a channel's count is not too low, and the first mention by
   anybody is first. A username with a comma or a colon is never recognised
   (`retrieve.py:279`): its messages count as those of whoever spoke before, or not at
   all;
 * documents of a channel that start in the same whole second (`ingest.py:354`) come
   in the order of the collection, so "first" is right up to a second;
 * a search over several channels orders chunks by their start, so "who said it
   first" can be wrong across channels (`FirstIsFirst` speaks of one); a date
   filter leaves out chunks that straddle the date; `_MAX_SCAN` applies before the
   order;
 * a split of a single example leaves the training set empty
   (`build_dataset.py:403`).

## 7. Not modelled

Docker's HTTP-over-socket client and `nvidia-smi` parsing (I/O without state),
what is trained, the normalisation of training text, similarity search and its
ranking, counts per month, prompts, metrics and logging, plain chat threads and
`/mimic` (whose only state is Discord's own history), the discovery of the
context window; image captions, which are off by default and write through
`update_records`.

The export scripts: `export_adapter.py` replaces the GGUF (`:103`) and
`export_latest.py` writes the manifest afterwards (`:152`), so a crash in between
leaves a manifest that names another run than the adapter is from. If that older
run is asked for again, or is the newest finished one again, it is skipped as
"already live" (`:138`). A module for it would be three steps and a crash; it is
in the plan.
