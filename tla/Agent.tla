-------------------------------- MODULE Agent --------------------------------
(***************************************************************************)
(* The tool-calling loop of /lore and of a thread's follow-ups, and what it *)
(* leaves in the thread's session (discord-bot/lore/agent.py, research.py,  *)
(* compaction.py, tools.py).  One run is one coroutine that owns its lists; *)
(* the thread's lock (Lore) keeps the runs of a session apart.              *)
(*                                                                          *)
(* A tool result is a set of texts, each known by its chunk_key: excerpts,  *)
(* a miss, an error.  A text takes one unit of the context; a question, an  *)
(* answer, a call, a notice and the wording of a result take Wording each,  *)
(* a summary what the model makes it.  What the code counts in characters   *)
(* it knows to within Error.  The model may answer, search or say nothing   *)
(* at every round, and every call to the backend may fail.                  *)
(***************************************************************************)
EXTENDS Naturals, Sequences, FiniteSets, Selections

CONSTANTS
  Texts,       \* what tool results are made of
  Searches,    \* call signatures: a tool and its arguments
  Hits,        \* per search: the excerpts the archive has for it
  Miss,        \* per search: its text for nothing found, or for an error
  MaxRounds,   \* max_rounds
  MaxCalls,    \* bound: tool calls the model makes in one round
  MaxRepeats,  \* AGENT_MAX_REPEATED_SEARCHES
  Wording,     \* size of what is said in one message around its texts
  Lengths,     \* sizes of the summaries the model writes
  Longest,     \* the largest of them
  Error,       \* most that a size taken from characters is off
  SoftAt,      \* AGENT_CTX_SOFT_PCT of the window
  CompactAt,   \* AGENT_CTX_COMPACT_PCT of it
  HardAt,      \* AGENT_CTX_HARD_PCT of it
  Window,      \* ctx_limit()
  MaxTurns     \* bound: turns after the opening run

ASSUME TextAssumption ==
  /\ Hits \in [Searches -> SUBSET Texts] /\ Miss \in [Searches -> Texts]
  /\ IsFiniteSet(Texts)
ASSUME SummaryAssumption == Lengths # {} /\ Lengths \subseteq 1..Longest
ASSUME BudgetAssumption ==
  /\ {MaxRounds, MaxCalls, MaxRepeats, Longest} \subseteq Nat \ {0}
  /\ {Wording, Error, SoftAt, CompactAt, HardAt, Window, MaxTurns} \subseteq Nat
  /\ CompactAt <= HardAt /\ HardAt <= Window

VARIABLES
  at,            \* where the run stands; "idle" between runs
  turn,          \* 0 until an opening run has seeded a session
  round,
  todo,          \* tool calls of this round still to make
  messages,      \* the live conversation
  toolMessages,  \* what the run will hand over: calls, results, summaries
  shown,         \* keys the conversation holds
  ran,           \* searches that were run
  repeats,       \* calls refused because they were
  fresh,         \* size of this round's results
  victims,       \* the results that are being condensed
  projected,     \* size the next request was estimated at, while they are
  used,          \* metrics.context_used
  research,      \* session: the research messages of the transcript
  talk,          \* session: size of its prompt, its questions and its answers
  seen,          \* session.seen_keys
  lastContext,   \* session.last_context_tokens
  found,         \* ghost: texts this run's tools returned
  learned,       \* ghost: those of the runs whose research the session has
  unrecorded     \* ghost: a turn failed and is not in lastContext

conversation == <<messages, toolMessages, shown, ran, repeats, fresh, victims, projected, found>>
session      == <<research, talk, seen, lastContext, learned, unrecorded>>
vars == <<at, turn, round, todo, used, conversation, session>>

Message(kind, id, texts, summed, length) ==
  [kind |-> kind, id |-> id, texts |-> texts, summed |-> summed, length |-> length]

Nudge == Message("nudge", 0, {}, {}, Wording)

Verbatim(s) == UNION {s[i].texts : i \in 1..Len(s)}
Summed(s)   == UNION {s[i].summed : i \in 1..Len(s)}
SizeOf(m)   == Cardinality(m.texts) + m.length

\* The size of what a list holds at the positions in K, and of all of it.
SizeAt(s, K) == Total(K, [i \in K |-> SizeOf(s[i])])
Size(s)      == SizeAt(s, 1..Len(s))

Places(s, k) == {i \in 1..Len(s) : s[i].kind = k}
OfKind(s, k) == Selected(s, Places(s, k))

\* What the code may take a size of n for that it counts in characters.
Estimates(n) == {e \in 0..(n + Error) : n <= e + Error}

Init ==
  /\ at = "idle" /\ turn = 0 /\ round = 0 /\ todo = <<>> /\ used = 0
  /\ messages = <<>> /\ toolMessages = <<>>
  /\ shown = {} /\ ran = {} /\ repeats = 0 /\ fresh = 0 /\ found = {}
  /\ victims = {} /\ projected = 0
  /\ research = <<>> /\ talk = 0 /\ seen = {} /\ lastContext = 0
  /\ learned = {} /\ unrecorded = FALSE

-----------------------------------------------------------------------------
\* The locals of a run: what one begins with, and what is left of one.
Locals(base, keys) ==
  /\ messages' = base /\ toolMessages' = <<>>
  /\ shown' = keys /\ ran' = {} /\ repeats' = 0 /\ fresh' = 0
  /\ victims' = {} /\ projected' = 0 /\ found' = {}

(* A run begins: run_agent_loop on an empty conversation, run_lore_turn on  *)
(* the session's with the question appended.  Above the soft limit the      *)
(* model of a follow-up is told its budget, above the hard limit it gets no *)
(* tools.                                                                   *)
Begin ==
  /\ at = "idle" /\ turn <= MaxTurns
  /\ at' = IF lastContext < HardAt THEN "thinking" ELSE "answering"
  /\ round' = 1
  /\ talk' = talk + Wording
  /\ Locals(IF turn > 0 /\ lastContext >= SoftAt THEN Append(research, Nudge) ELSE research, seen)
  /\ UNCHANGED <<turn, todo, used, research, seen, lastContext, learned, unrecorded>>

\* for round_num in range(max_rounds): the next one, or the budget is spent.
NextRound ==
  /\ at' = IF round < MaxRounds THEN "thinking" ELSE "answering"
  /\ round' = IF round < MaxRounds THEN round + 1 ELSE round

\* The proxy client's answer to a request: none when it is longer than the
\* model's window.
Accepted(size) == size <= Window

\* A request of a round: the session's talk and the conversation.
Context == talk + Size(messages)

Replies == at = "thinking" /\ Accepted(Context)

\* Neither prose nor a call: a nudge, and another round, whatever the size.
ReplyEmpty ==
  /\ Replies
  /\ messages' = Append(messages, Nudge)
  /\ used' = Context
  /\ NextRound
  /\ UNCHANGED <<turn, todo, toolMessages, shown, ran, repeats, fresh, victims, projected, found,
                 session>>

\* The usage report counts the request and the reply's calls.
ReplyCalls ==
  /\ Replies
  /\ \E n \in 1..MaxCalls : todo' \in [1..n -> Searches]
  /\ used' = Context + Len(todo') * Wording
  /\ fresh' = 0
  /\ at' = "calling"
  /\ UNCHANGED <<turn, round, messages, toolMessages, shown, ran, repeats, victims, projected,
                 found, session>>

\* The call and its result go to the end of both lists; calls are numbered.
\* Only the result is counted: the calls are in the usage report.
Pair(texts) ==
  LET id == 1 + Cardinality(ran) + repeats
      pair == <<Message("call", id, {}, {}, Wording), Message("result", id, texts, {}, Wording)>>
  IN  /\ messages' = messages \o pair
      /\ toolMessages' = toolMessages \o pair
      /\ fresh' = fresh + Cardinality(texts) + Wording

\* The RAG client: what the archive has, or nothing when the service is down.
Retrieved(s) == {{}, Hits[s]}

\* A tool's result: the excerpts, or a text that says there are none.
Worded(s, hits) == IF hits = {} THEN {Miss[s]} ELSE hits

\* execute_tool: an unknown tool and a tool's error come back as text too.
Outcomes(s) == {Worded(s, hits) : hits \in Retrieved(s)}

\* drop_seen_chunks: what the conversation holds is left out, the rest is kept
\* and remembered.
DropSeen(raw) ==
  /\ Pair(raw \ shown)
  /\ shown' = shown \cup raw

CallTool ==
  /\ at = "calling" /\ todo # <<>>
  /\ todo' = Tail(todo)
  /\ LET s == Head(todo) IN
     \/ /\ s \in ran
        /\ repeats' = repeats + 1
        /\ Pair({})
        /\ UNCHANGED <<shown, ran, found>>
     \/ /\ s \notin ran
        /\ ran' = ran \cup {s}
        /\ \E raw \in Outcomes(s) : DropSeen(raw) /\ found' = found \cup raw
        /\ UNCHANGED repeats
  /\ UNCHANGED <<at, turn, round, used, victims, projected, session>>

-----------------------------------------------------------------------------
(* After the calls of a round: stop on repeats, or make room.              *)

Results == OfKind(toolMessages, "result")

\* results[: len(results) // 2]
Oldest == {Results[i] : i \in 1..(Len(Results) \div 2)}

\* A result is told from the others, and its call found, by the number of the call.
Victim(m) == \E v \in victims : v.id = m.id

VictimTexts == UNION {v.texts : v \in victims}

\* Seeded fault: the summary is not put in the place of what it condenses.
CondenseDrops(s, w) == Selected(s, {i \in 1..Len(s) : ~Victim(s[i])})

\* Seeded fault: a result goes and its call stays.
CondenseResults(s, w) ==
  Selected(s, {i \in 1..Len(s) : ~Victim(s[i]) \/ s[i].kind = "call"})
    \o <<Message("condensed", 0, {}, VictimTexts, w)>>

\* Each call goes together with its result; the summary, if there is one,
\* stands where the first of them stood.
Condense(s, w) ==
  LET first(i) == \A j \in 1..(i - 1) : ~Victim(s[j])
      summary  == Message("condensed", 0, {}, VictimTexts, w)
  IN  Selected([i \in 1..Len(s) |-> IF Victim(s[i]) THEN summary ELSE s[i]],
               {i \in 1..Len(s) : Victim(s[i]) => (first(i) /\ VictimTexts # {})})

\* Seeded fault: the last usage report is taken for the next request.
ProjectedLate == Estimates(used)

\* The last usage report, and this round's results by their characters.
Projected == Estimates(used + fresh)

\* Once r of the p projected was given back: is the hard limit still reached?
GoOn(p, r) ==
  IF p >= HardAt + r THEN at' = "answering" /\ UNCHANGED round ELSE NextRound

CheckContext ==
  /\ at = "calling" /\ todo = <<>>
  /\ \/ /\ repeats >= MaxRepeats
        /\ at' = "answering" /\ UNCHANGED <<round, victims, projected>>
     \/ /\ repeats < MaxRepeats
        /\ \E p \in Projected :
             \/ /\ p < CompactAt
                /\ NextRound /\ UNCHANGED <<victims, projected>>
             \/ /\ p >= CompactAt /\ Len(Results) < 2
                /\ GoOn(p, 0) /\ UNCHANGED <<victims, projected>>
             \/ /\ p >= CompactAt /\ Len(Results) >= 2
                /\ at' = "summarising" /\ victims' = Oldest /\ projected' = p
                /\ UNCHANGED round
  /\ UNCHANGED <<turn, todo, used, messages, toolMessages, shown, ran, repeats, fresh, found, session>>

\* The size of the victims: their texts, their wording and the reasoning.
Removed == SizeAt(messages, {i \in 1..Len(messages) : Victim(messages[i])})

\* What a summary of size w may be said to give back: nothing when it looks
\* longer than what it replaces.
Reclaimed(w) ==
  {r \in 0..(Removed + Error) :
     (r = 0 \/ r + w <= Removed + Error) /\ Removed <= r + w + Error}

\* How long the summary of the victims is; without texts there is none.
Summaries == IF VictimTexts = {} THEN {0} ELSE Lengths

\* Seeded fault: what was condensed still counts as shown.
SummariseForgets ==
  /\ at = "summarising"
  /\ \E w \in Summaries : \E r \in Reclaimed(w) :
       /\ messages' = Condense(messages, w) /\ toolMessages' = Condense(toolMessages, w)
       /\ GoOn(projected, r)
  /\ victims' = {} /\ projected' = 0
  /\ UNCHANGED <<turn, todo, used, shown, ran, repeats, fresh, found, session>>

\* The rest of compact_tool_rounds, once it has its summary or needs none: what
\* was condensed may be shown again.
Summarise ==
  /\ at = "summarising"
  /\ \E w \in Summaries : \E r \in Reclaimed(w) :
       /\ messages' = Condense(messages, w) /\ toolMessages' = Condense(toolMessages, w)
       /\ GoOn(projected, r)
  /\ shown' = shown \ VictimTexts
  /\ victims' = {} /\ projected' = 0
  /\ UNCHANGED <<turn, todo, used, ran, repeats, fresh, found, session>>

\* The summary of the victims is being written, and there is something in them.
AsksForSummary == at = "summarising" /\ VictimTexts # {}

\* Seeded fault: a summary that failed is asked for again.
SummaryRetried ==
  /\ AsksForSummary
  /\ at' = "calling" /\ victims' = {} /\ projected' = 0
  /\ UNCHANGED <<turn, round, todo, used, messages, toolMessages, shown, ran, repeats, fresh,
                 found, session>>

\* _summarise got none: nothing was changed.
SummaryFails ==
  /\ AsksForSummary
  /\ GoOn(projected, 0)
  /\ victims' = {} /\ projected' = 0
  /\ UNCHANGED <<turn, todo, used, messages, toolMessages, shown, ran, repeats, fresh,
                 found, session>>

-----------------------------------------------------------------------------
(* The end of a run.                                                       *)

\* render_research_blocks: one message of what the session does not have yet,
\* and of the run's summaries.
Rendered(keys) ==
  Message("research", 0, Verbatim(toolMessages) \ keys, Summed(toolMessages),
          SizeAt(toolMessages, Places(toolMessages, "condensed")))

AppendResearch ==
  LET block == Rendered(seen)
  IN  /\ research' = IF block.texts = {} /\ block.summed = {} THEN research
                     ELSE Append(research, block)
      /\ seen' = seen \cup block.texts
      /\ learned' = learned \cup found

Over ==
  /\ Locals(<<>>, {})
  /\ round' = 0 /\ todo' = <<>> /\ used' = 0

\* seed_session_from_run, or the end of run_lore_turn: the turn counts, and the
\* session knows how full the context was, from the usage report of the last
\* request or, at first, from the characters of its transcript.
Finish(request) ==
  /\ Over
  /\ talk' = talk + Wording
  /\ \/ turn = 0 /\ lastContext' \in Estimates(talk' + Size(research'))
     \/ turn > 0 /\ lastContext' = request + Wording
  /\ turn' = turn + 1
  /\ unrecorded' = FALSE
  /\ at' = IF turn = 0 THEN "idle" ELSE "posted"

\* The model answers instead of searching on.
ReplyAnswer ==
  /\ Replies
  /\ AppendResearch
  /\ Finish(Context)

\* No answer yet: a follow-up hands its research to the session and then asks
\* with the session's transcript; the opening run asks with a flattened copy.
Render ==
  /\ at = "answering"
  /\ at' = "writing"
  /\ \/ turn > 0 /\ AppendResearch
     \/ turn = 0 /\ UNCHANGED <<research, seen, learned>>
  /\ UNCHANGED <<turn, round, todo, used, conversation, talk, lastContext, unrecorded>>

\* What the answer is asked with: the transcript and a nudge, or the flattened
\* research.
Request == talk + IF turn > 0 THEN Size(research) + Wording ELSE SizeOf(Rendered({}))

\* stream_answer; an empty answer is asked for again and then made up.
Write ==
  /\ at = "writing"
  /\ \/ turn = 0 /\ AppendResearch
     \/ turn > 0 /\ UNCHANGED <<research, seen, learned>>
  /\ Accepted(Request) /\ Finish(Request)

\* The backend fails, or refuses a request that does not fit.  The opening run
\* leaves no session; a follow-up leaves its question and what else it had
\* appended by then.
Fail ==
  /\ at \in {"thinking", "writing"} \/ AsksForSummary
  /\ at' = "idle"
  /\ turn' = IF turn = 0 THEN 0 ELSE turn + 1
  /\ talk' = IF turn = 0 THEN 0 ELSE talk
  /\ unrecorded' = (turn > 0)
  /\ Over
  /\ UNCHANGED <<research, seen, lastContext, learned>>

-----------------------------------------------------------------------------
(* maybe_compact_session, after a follow-up was posted.  Neither the keys   *)
(* nor the context of the session are changed by it.                        *)

CompactSession ==
  /\ at = "posted"
  /\ LET n == Len(research) \div 2
         summary(w) == Message("research", 0, {},
           Verbatim(SubSeq(research, 1, n)) \cup Summed(SubSeq(research, 1, n)), w)
     IN  \/ /\ lastContext >= CompactAt /\ n > 0
            /\ \E w \in Lengths :
                 research' = <<summary(w)>> \o SubSeq(research, n + 1, Len(research))
         \/ UNCHANGED research      \* too early, too little, or no summary
  /\ at' = "idle"
  /\ UNCHANGED <<turn, round, todo, used, conversation, talk, seen, lastContext, learned,
                 unrecorded>>

-----------------------------------------------------------------------------
RunStep ==
  \/ Fail \/ ReplyEmpty \/ ReplyCalls \/ ReplyAnswer \/ CallTool
  \/ CheckContext \/ SummaryFails \/ Summarise
  \/ Render \/ Write \/ CompactSession

Next == Begin \/ RunStep

Spec == Init /\ [][Next]_vars

\* Every call to a backend ends, by its timeout if need be.
FairSpec == Spec /\ WF_vars(RunStep)

-----------------------------------------------------------------------------
(* Properties.                                                             *)

InLoop == at \in {"thinking", "calling", "summarising"}

MessageSet ==
  [kind : {"research", "call", "result", "nudge", "condensed"}, id : Nat,
   texts : SUBSET Texts, summed : SUBSET Texts, length : Nat]

TypeOK ==
  /\ at \in {"idle", "thinking", "calling", "summarising", "answering", "writing", "posted"}
  /\ turn \in 0..(MaxTurns + 1) /\ round \in 0..MaxRounds
  /\ todo \in Seq(Searches)
  /\ {messages, toolMessages, research} \subseteq Seq(MessageSet)
  /\ shown \subseteq Texts /\ seen \subseteq Texts /\ ran \subseteq Searches
  /\ {repeats, fresh, used, projected, talk, lastContext} \subseteq Nat
  /\ victims \subseteq MessageSet
  /\ found \subseteq Texts /\ learned \subseteq Texts /\ unrecorded \in BOOLEAN

\* Nothing a tool returned gets lost: for the whole run it stands in the
\* conversation, word for word or in a summary, and then in the session for as
\* long as that lasts, whatever was omitted as already shown, condensed in the
\* loop or condensed afterwards (_run_tool_rounds, compact_tool_rounds,
\* render_research_blocks, _compact_session).
FoundIsKept ==
  /\ InLoop => found \subseteq Verbatim(messages) \cup Summed(messages)
  /\ learned \subseteq Verbatim(research) \cup Summed(research)

\* What the loop would omit as "already shown" is what its results show, plus
\* the session's keys: no more, or the model never sees it, and no less, or it
\* is sent twice (drop_seen_chunks, compact_tool_rounds).
ShownIsThere ==
  InLoop => shown = seen \cup Verbatim(OfKind(messages, "result"))

\* No text is paid for twice: neither a request nor a session holds one word
\* for word in two places (research.py, "dropped, keeping the first occurrence").
VerbatimOnce ==
  \A s \in {messages, research} : \A i, j \in 1..Len(s) :
    i # j => s[i].texts \cap s[j].texts = {}

\* The run's state is well formed, and its record of what the model was shown is
\* exact, without anything being shown twice (drop_seen_chunks,
\* compact_tool_rounds).
ContextInv == TypeOK /\ ShownIsThere /\ VerbatimOnce

\* "The conversation never holds a call without its answer", compaction included
\* (compact_tool_rounds finds a call one place before its result).
CallsAreAnswered ==
  \A s \in {messages, toolMessages} : \A i \in 1..Len(s) :
    /\ s[i].kind = "call" =>
         i < Len(s) /\ s[i + 1].kind = "result" /\ s[i + 1].id = s[i].id
    /\ s[i].kind = "result" =>
         i > 1 /\ s[i - 1].kind = "call" /\ s[i - 1].id = s[i].id

\* What a request may exceed the hard limit by: an estimate was short, or the
\* question came on top of the context last recorded; and the same again when a
\* summary took more than it was said to give back.
Larger(m, n) == IF m > n THEN m ELSE n
Slack == Larger(Error, Wording) + Larger(Error, Longest)

\* What of a conversation is counted: all but the loop's notices.
Counted(s) == SizeAt(s, (1..Len(s)) \ Places(s, "nudge"))

\* The estimates keep every request of a round under the hard limit plus a slack
\* that is fixed, however many rounds, summaries and turns went before: the
\* errors do not add up, as every usage report starts the count anew.  Not
\* counted are the loop's notices, which no check follows.  Exempt is a
\* follow-up that has not searched yet, after a turn that failed: that turn's
\* question, and its research if it was writing, are in the session and not in
\* its accounts (_run_tool_rounds; compact_tool_rounds; run_lore_turn,
\* record_context).
WithinWindow ==
  (at = "thinking" /\ (toolMessages # <<>> \/ ~unrecorded)) =>
    talk + Counted(messages) < HardAt + Slack

\* Every run ends, however often the model repeats itself or says nothing
\* (_run_tool_rounds, max_rounds).
RunsEnd == at # "idle" ~> at = "idle"
=============================================================================
