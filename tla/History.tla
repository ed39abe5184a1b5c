------------------------------- MODULE History -------------------------------
(***************************************************************************)
(* The history service: history-service/jsonl_store.py (the archive),      *)
(* channel_state.py and dce_orchestrator.py (what has been exported) and   *)
(* the endpoints of main.py.  POST /evaluate and POST /reparse run as      *)
(* pipelines in worker threads, several at once; POST /clear runs on the   *)
(* event loop beside them.  _archive_lock is held by whoever writes the    *)
(* archive, but for /clear; the channel states have no lock.               *)
(*                                                                         *)
(* The archive is one file per user.  The model has one of them: the files *)
(* share only the lock.  A message is its number, which is also its place  *)
(* in time; of a record only the message matters.  Every reader skips the  *)
(* lines that are not JSON, and so does the model.  Channels are those     *)
(* that EXCLUDED_CHANNELS does not name.                                   *)
(*                                                                         *)
(* A pipeline is                                                           *)
(*   idle     not there                                                    *)
(*   loop     between two channels of an evaluate                          *)
(*   append   about to append its batch, waiting for the lock              *)
(*   write    appending it                                                 *)
(*   refresh  about to refresh archived records, waiting for the lock      *)
(*   rewrite  refreshing them                                              *)
(*   save     writing channel_state.json, which it has truncated           *)
(***************************************************************************)
EXTENDS Integers, Sequences, FiniteSets, SequencesExt

CONSTANTS
  MaxMsgs,     \* bound on the messages posted
  Channels,    \* the channels of the guild
  Channel,     \* the channel of each message
  Pipelines,   \* the calls of /evaluate and /reparse that can be under way
  NoOne,       \* no pipeline
  MaxFaults,   \* bound on the failures of exports, writes and the process
  MaxClears    \* bound on the calls of /clear

Msgs == 1..MaxMsgs

ASSUME HistoryAssumption ==
  /\ {MaxMsgs, MaxFaults, MaxClears} \subseteq Nat
  /\ Channel \in [Msgs -> Channels]
  /\ NoOne \notin Pipelines

VARIABLES
  posted,      \* how many messages Discord has
  raw,         \* the messages of the exports under /archive/raw
  file,        \* the user's JSONL file
  known,       \* _user_id_cache, or that it is not loaded
  recorded,    \* channel_state.json
  lock,        \* _archive_lock
  pipe,        \* the pipelines
  clear,       \* where /clear is
  orphan,      \* the file being appended to has been unlinked
  faults,      \* how many failures there have been
  clears,      \* how many calls of /clear there have been
  forfeited,   \* history: messages that a failed write or export has cost
  crossed      \* history: a /clear met a pipeline, or was cut short

store == <<raw, file, known, recorded>>
ghosts == <<forfeited, crossed>>
vars == <<posted, store, lock, pipe, clear, orphan, faults, clears, ghosts>>

NotLoaded == {0}          \* no message has the number 0

\* A channel's record stands for the messages there were at its export.
Never == {0}
Fresh == [c \in Channels |-> Never]
Torn  == <<>>             \* truncated, or half written: not JSON
Records == [Channels -> (SUBSET Msgs) \cup {Never}]

\* How a file may end: with a whole line, with part of a record, or with a
\* record that has no newline.  Such a record can be read all the same.
Ends  == {"line", "half", "bare"}
Empty == [lines |-> <<>>, end |-> "line"]

Idle == [at |-> "idle", job |-> "none", state |-> Fresh, todo |-> {},
         batch |-> {}, fresh |-> {}, copy |-> <<>>]
Locked == {"write", "rewrite"}

TypeOK ==
  /\ posted \in 0..MaxMsgs
  /\ raw \in SUBSET Msgs
  /\ file.lines \in Seq(Msgs) /\ file.end \in Ends
  /\ known = NotLoaded \/ known \in SUBSET Msgs
  /\ recorded = Torn \/ recorded \in Records
  /\ lock \in Pipelines \cup {NoOne}
  /\ \A p \in Pipelines : pipe[p].at \in Locked <=> lock = p
  /\ \A p \in Pipelines : pipe[p].at \in
       {"idle", "loop", "append", "write", "refresh", "rewrite", "save"}
  /\ clear \in {"no", "cache", "raw", "state"}
  /\ faults \in 0..MaxFaults /\ clears \in 0..MaxClears
  /\ orphan \in BOOLEAN /\ crossed \in BOOLEAN
  /\ forfeited \in SUBSET Msgs

Init ==
  /\ posted = 0
  /\ raw = {} /\ file = Empty /\ known = NotLoaded /\ recorded = Fresh
  /\ lock = NoOne /\ pipe = [p \in Pipelines |-> Idle]
  /\ clear = "no" /\ orphan = FALSE /\ faults = 0 /\ clears = 0
  /\ forfeited = {} /\ crossed = FALSE

-----------------------------------------------------------------------------
\* Something fails.  Where nothing does, `faults' is among what stays.
Fault == faults < MaxFaults /\ faults' = faults + 1

(* The archive file.                                                       *)

Readable(f) == ToSet(f.lines)

\* Chronological, as DCE writes it and as reparse sorts it.
Ordered(S) ==
  CHOOSE s \in [1..Cardinality(S) -> S] :
    \A i, j \in 1..Cardinality(S) : i < j => s[i] < s[j]

\* The records s are added to the file f, the last of them only as far as `end'
\* has it.  What follows an unfinished line lands on it: no reader gets either.
Put(f, s, end) ==
  LET glued == f.end # "line"
      base  == IF f.end = "bare" THEN Front(f.lines) ELSE f.lines
      whole == IF end = "half" THEN Front(s) ELSE s
      more  == IF glued THEN SubSeq(whole, 2, Len(whole)) ELSE whole
  IN  IF s = <<>> THEN f
      ELSE [lines |-> base \o more,
            end   |-> IF glued /\ Len(s) = 1 /\ end = "bare" THEN "half" ELSE end]

\* What an unfinished line costs: the record on it, and the first that lands there.
Spoiled(f, s) ==
  IF f.end = "line" \/ s = <<>> THEN {}
  ELSE {Head(s)} \cup (IF f.end = "bare" THEN {Last(f.lines)} ELSE {})

\* A write of s that stopped somewhere: on an error, or with the process.
Cut(f, s) == {Put(f, SubSeq(s, 1, k), end) : k \in 0..Len(s), end \in Ends}

Goes(p, place) == pipe' = [pipe EXCEPT ![p].at = place]

\* The append of p is over, in an evaluate or in a reparse.
Appended(p) ==
  LET q == pipe[p] IN
  pipe' = [pipe EXCEPT ![p] =
    IF q.job = "evaluate"
    THEN [q EXCEPT !.at = "loop", !.batch = {}, !.fresh = {}]
    ELSE [q EXCEPT !.at = "refresh", !.batch = {}, !.fresh = {}]]

\* Seeded fault: ids that are not loaded are taken for none.
AppendUnread(p) ==
  /\ pipe[p].at = "append" /\ lock = NoOne
  /\ LET ids == IF known = NotLoaded THEN {} ELSE known IN
     /\ known' = ids \cup pipe[p].batch
     /\ pipe' = [pipe EXCEPT ![p].at = "write", ![p].fresh = pipe[p].batch \ ids]
  /\ lock' = p /\ orphan' = FALSE
  /\ UNCHANGED <<posted, raw, file, recorded, clear, faults, clears, ghosts>>

\* append_messages takes the lock, loads the ids unless they are cached, and
\* buffers what is new.  The cached set grows with every record it buffers.
AppendBegins(p) ==
  /\ pipe[p].at = "append" /\ lock = NoOne
  /\ LET ids == IF known = NotLoaded THEN Readable(file) ELSE known IN
     /\ known' = ids \cup pipe[p].batch
     /\ pipe' = [pipe EXCEPT ![p].at = "write", ![p].fresh = pipe[p].batch \ ids]
  /\ lock' = p /\ orphan' = FALSE
  /\ UNCHANGED <<posted, raw, file, recorded, clear, faults, clears, ghosts>>

\* The file is closed, and _add_to_cache.  A file that was unlinked meanwhile
\* takes the records with it.
AppendEnds(p) ==
  LET s == Ordered(pipe[p].fresh) IN
  /\ pipe[p].at = "write"
  /\ file' = IF orphan THEN file ELSE Put(file, s, "line")
  /\ known' = (known \ NotLoaded) \cup pipe[p].fresh
  /\ forfeited' = forfeited \cup Spoiled(file, s)
  /\ lock' = NoOne /\ orphan' = FALSE
  /\ Appended(p)
  /\ UNCHANGED <<posted, raw, recorded, clear, faults, clears, crossed>>

\* The file cannot be opened or written, at the latest when it is closed.
\* append_messages logs it and its caller goes on.  The cache keeps the j records
\* buffered before that.
AppendFails(p) ==
  LET s == Ordered(pipe[p].fresh) IN
  /\ Fault
  /\ pipe[p].at = "write" /\ s # <<>>
  /\ \E j \in 0..Len(s) :
       /\ known' = known \ ToSet(SubSeq(s, j + 1, Len(s)))
       /\ IF orphan THEN UNCHANGED file ELSE file' \in Cut(file, SubSeq(s, 1, j))
  /\ forfeited' = forfeited \cup pipe[p].fresh \cup Spoiled(file, s)
  /\ lock' = NoOne /\ orphan' = FALSE
  /\ Appended(p)
  /\ UNCHANGED <<posted, raw, recorded, clear, clears, crossed>>

-----------------------------------------------------------------------------
(* POST /evaluate                                                          *)

\* load_state: a file that is not JSON is taken for an empty one.
LoadState == IF recorded = Torn THEN Fresh ELSE recorded

\* channels_needing_export.  The activity of a channel is looked up under
\* last_message_timestamp, and _fetch_discord_channels reports it under
\* last_message_at, so that only a channel without a record needs one.
NeedsExport(state) == {c \in Channels : state[c] = Never}

EvaluateStarts(p) ==
  /\ pipe[p].at = "idle"
  /\ pipe' = [pipe EXCEPT ![p] =
       [Idle EXCEPT !.at = "loop", !.job = "evaluate", !.state = LoadState,
                    !.todo = NeedsExport(LoadState)]]
  /\ crossed' = (crossed \/ clear # "no")
  /\ UNCHANGED <<posted, store, lock, clear, orphan, faults, clears, forfeited>>

Posted(c) == {m \in 1..posted : Channel[m] = c}

\* p records channel c, with `batch' to merge first.
Takes(p, c, batch) ==
  LET q == pipe[p] IN
  pipe' = [pipe EXCEPT ![p] =
    [q EXCEPT !.at = IF batch = {} THEN "loop" ELSE "append", !.todo = q.todo \ {c},
              !.state = [q.state EXCEPT ![c] = Posted(c)], !.batch = batch]]

\* DCE exports the channel.  The code makes the record after the merge, but
\* nobody else sees it before p saves it.
Exported(p, c) ==
  /\ pipe[p].at = "loop" /\ c \in pipe[p].todo
  /\ raw' = raw \cup Posted(c)
  /\ Takes(p, c, Posted(c))
  /\ UNCHANGED <<posted, file, known, recorded, lock, clear, orphan, faults, clears, ghosts>>

\* Seeded fault: a channel is recorded although its export failed.
ExportFailsRecorded(p, c) ==
  /\ Fault
  /\ pipe[p].at = "loop" /\ c \in pipe[p].todo
  /\ Takes(p, c, {})
  /\ UNCHANGED <<posted, store, lock, clear, orphan, clears, ghosts>>

\* No export, or it takes longer than an hour: then what is killed is docker
\* compose, and the container may finish the file.
ExportFails(p, c) ==
  /\ Fault
  /\ pipe[p].at = "loop" /\ c \in pipe[p].todo
  /\ raw' \in {raw, raw \cup Posted(c)}
  /\ pipe' = [pipe EXCEPT ![p].todo = @ \ {c}]
  /\ UNCHANGED <<posted, file, known, recorded, lock, clear, orphan, clears, ghosts>>

\* DCE dies while it writes.  Any file that is not empty passes for an export,
\* and the parser finds nothing in it.
ExportTruncated(p, c) ==
  /\ Fault
  /\ pipe[p].at = "loop" /\ c \in pipe[p].todo
  /\ Takes(p, c, {})
  /\ forfeited' = forfeited \cup Posted(c)
  /\ UNCHANGED <<posted, store, lock, clear, orphan, clears, crossed>>

\* save_state opens the file for writing, which truncates it ...
SaveBegins(p) ==
  /\ pipe[p].at = "loop" /\ pipe[p].todo = {}
  /\ Goes(p, "save")
  /\ recorded' = Torn
  /\ UNCHANGED <<posted, raw, file, known, lock, clear, orphan, faults, clears, ghosts>>

\* ... and writes what p knows of all channels.  If another pipeline has written
\* meanwhile, the end of a longer text may stick out after p's.
SaveEnds(p) ==
  /\ pipe[p].at = "save"
  /\ recorded' \in {pipe[p].state} \cup (IF recorded = Torn THEN {} ELSE {Torn})
  /\ pipe' = [pipe EXCEPT ![p] = Idle]
  /\ UNCHANGED <<posted, raw, file, known, lock, clear, orphan, faults, clears, ghosts>>

\* The file cannot be opened, or not be written.
SaveFails(p) ==
  /\ Fault
  /\ \/ pipe[p].at = "loop" /\ pipe[p].todo = {}
     \/ pipe[p].at = "save"
  /\ pipe' = [pipe EXCEPT ![p] = Idle]
  /\ UNCHANGED <<posted, store, lock, clear, orphan, clears, ghosts>>

-----------------------------------------------------------------------------
(* POST /reparse                                                           *)

ReparseStarts(p) ==
  /\ pipe[p].at = "idle"
  /\ raw # {}
  /\ pipe' = [pipe EXCEPT ![p] =
       [Idle EXCEPT !.at = "append", !.job = "reparse", !.batch = raw]]
  /\ crossed' = (crossed \/ clear # "no")
  /\ UNCHANGED <<posted, store, lock, clear, orphan, faults, clears, forfeited>>

\* Seeded fault: the records are loaded before the lock is taken.
RefreshUnlocked(p) ==
  /\ pipe[p].at = "refresh"
  /\ \/ pipe[p].copy = <<>>
        /\ pipe' = [pipe EXCEPT ![p].copy = file.lines] /\ UNCHANGED lock
     \/ pipe[p].copy # <<>> /\ lock = NoOne
        /\ Goes(p, "rewrite") /\ lock' = p
  /\ UNCHANGED <<posted, store, clear, orphan, faults, clears, ghosts>>

\* refresh_fields, by update_records: load under the lock ...
RefreshBegins(p) ==
  /\ pipe[p].at = "refresh" /\ lock = NoOne
  /\ pipe' = [pipe EXCEPT ![p].at = "rewrite",
                          ![p].copy = file.lines]
  /\ lock' = p
  /\ UNCHANGED <<posted, store, clear, orphan, faults, clears, ghosts>>

\* Seeded fault: the rewrite drops the newest record.
RewritesAllButLast(p) == file' = [lines |-> Front(pipe[p].copy), end |-> "line"]

\* _write_atomically: a new file is renamed over the old one.
Rewrites(p) == file' = [lines |-> pipe[p].copy, end |-> "line"]

\* ... and rewrite, if anything changed and the rewrite does not fail.
RefreshEnds(p) ==
  /\ pipe[p].at = "rewrite"
  /\ \/ pipe[p].copy # <<>> /\ Rewrites(p)
     \/ UNCHANGED file
  /\ lock' = NoOne
  /\ pipe' = [pipe EXCEPT ![p] = Idle]
  /\ UNCHANGED <<posted, raw, known, recorded, clear, orphan, faults, clears, ghosts>>

-----------------------------------------------------------------------------
(* POST /clear, which takes no lock.                                       *)

Clears(here, next) == clear = here /\ clear' = next

\* clear_all: unlink the files, which may fail, ...
ClearArchive ==
  /\ clears < MaxClears /\ clears' = clears + 1
  /\ Clears("no", "cache")
  /\ \/ /\ file' = Empty /\ orphan' = (\E p \in Pipelines : pipe[p].at = "write")
        /\ UNCHANGED faults
     \/ Fault /\ UNCHANGED <<file, orphan>>
  /\ crossed' = (crossed \/ \E p \in Pipelines : pipe[p].at # "idle")
  /\ UNCHANGED <<posted, raw, known, recorded, lock, pipe, forfeited>>

\* ... and then empty the cache.
ClearCache ==
  /\ Clears("cache", "raw")
  /\ known' = NotLoaded
  /\ UNCHANGED <<posted, raw, file, recorded, lock, pipe, orphan, faults, clears, ghosts>>

\* Each export that cannot be deleted is skipped.
ClearRaw ==
  /\ Clears("raw", "state")
  /\ \/ raw' = {} /\ UNCHANGED faults
     \/ raw' \in SUBSET raw /\ Fault
  /\ UNCHANGED <<posted, file, known, recorded, lock, pipe, orphan, clears, ghosts>>

\* reset_state.  A save under way ends in the file that is unlinked here, so that
\* it is over.
ClearState ==
  /\ Clears("state", "no")
  /\ \/ /\ recorded' = Fresh
        /\ pipe' = [p \in Pipelines |-> IF pipe[p].at = "save" THEN Idle ELSE pipe[p]]
        /\ UNCHANGED <<faults, crossed>>
     \/ Fault /\ crossed' = TRUE /\ UNCHANGED <<recorded, pipe>>
  /\ UNCHANGED <<posted, raw, file, known, lock, orphan, clears, forfeited>>

-----------------------------------------------------------------------------
Post ==
  /\ posted < MaxMsgs
  /\ posted' = posted + 1
  /\ UNCHANGED <<store, lock, pipe, clear, orphan, faults, clears, ghosts>>

\* The process ends and is started again, in the middle of whatever it did.
Crash ==
  /\ Fault
  /\ IF lock # NoOne /\ pipe[lock].at = "write" /\ ~orphan
     THEN LET s == Ordered(pipe[lock].fresh) IN
          file' \in Cut(file, s) /\ forfeited' = forfeited \cup Spoiled(file, s)
     ELSE UNCHANGED <<file, forfeited>>
  /\ known' = NotLoaded
  /\ lock' = NoOne /\ pipe' = [p \in Pipelines |-> Idle]
  /\ clear' = "no" /\ orphan' = FALSE
  /\ crossed' = (crossed \/ clear # "no")
  /\ UNCHANGED <<posted, raw, recorded, clears>>

Step(p) ==
  \/ AppendBegins(p) \/ AppendEnds(p) \/ AppendFails(p)
  \/ \E c \in Channels : Exported(p, c) \/ ExportFails(p, c) \/ ExportTruncated(p, c)
  \/ SaveBegins(p) \/ SaveEnds(p) \/ SaveFails(p)
  \/ RefreshBegins(p) \/ RefreshEnds(p)

ClearStep == ClearArchive \/ ClearCache \/ ClearRaw \/ ClearState

Next ==
  \/ Post \/ Crash \/ ClearStep
  \/ \E p \in Pipelines : EvaluateStarts(p) \/ ReparseStarts(p) \/ Step(p)

Spec == Init /\ [][Next]_vars

\* Threads run, a thread that asks for the lock again and again gets it, and the
\* cron job calls /evaluate again and again.
FairSpec ==
  /\ Spec
  /\ \A p \in Pipelines : SF_vars(Step(p)) /\ SF_vars(EvaluateStarts(p))

-----------------------------------------------------------------------------
(* Properties.                                                             *)

\* No message is archived twice, whatever crashes, fails and runs at once: the
\* cached ids never fall behind the file.  Only a /clear that meets a pipeline
\* can do that (jsonl_store.py, append_messages and _load_existing_ids).
NoDuplicates ==
  crossed \/ IsInjective(file.lines)

\* The ids never run ahead of the file either: a message that the service takes
\* for archived is in the file, but for those a failed or unfinished write has
\* cost (jsonl_store.py, _add_to_cache).
KnownIsWritten ==
  lock = NoOne /\ known # NotLoaded /\ clear = "no" /\ ~crossed =>
    known \subseteq Readable(file) \cup forfeited

\* The service's state is well formed, and its id index is no further than the
\* file (jsonl_store.py, _user_id_cache).
IndexInv == TypeOK /\ KnownIsWritten

\* A channel that channel_state.json has a record of, and so will not be
\* exported again, has its messages in the archive: a crash in the middle of an
\* evaluate costs time, not messages (dce_orchestrator.py, evaluate_and_export).
RecordedIsArchived ==
  recorded # Torn /\ clear = "no" /\ ~crossed =>
    \A c \in Channels : recorded[c] # Never =>
      recorded[c] \subseteq Readable(file) \cup forfeited

\* Nothing is taken out of the archive but by /clear, or by landing on a line
\* that a cut write left unfinished: no rewrite loses an append that ran beside
\* it (jsonl_store.py, update_records and _archive_lock).
ArchiveKeeps ==
  [][~ClearArchive /\ ~crossed =>
       Readable(file) \subseteq Readable(file') \cup forfeited']_vars

\* Every message finds its way into the archive.
EveryMessageArchived == \A m \in Msgs : posted >= m ~> m \in Readable(file)
=============================================================================
