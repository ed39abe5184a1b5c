--------------------------------- MODULE Rag ---------------------------------
(***************************************************************************)
(* The RAG service: the ingest that turns the archive into an index of      *)
(* conversation chunks (rag/ingest.py), its endpoint (rag/main.py) and the  *)
(* searches that read the index without embeddings (rag/retrieve.py).       *)
(*                                                                          *)
(* The archive is the history service's, one file per author, and grows     *)
(* while an ingest reads it; a message that is only an image counts once it *)
(* has a caption.  A document of the index is the chunk it renders, found   *)
(* by the key that its first message gives it.  A search reads the text of  *)
(* a document back line by line, and a line `name: ...' inside a message is *)
(* another's message if that name speaks in the chunk.  Similarity search   *)
(* picks documents the model cannot tell apart and is left out.             *)
(***************************************************************************)
EXTENDS Records

CONSTANTS
  Parts,       \* per message: its text, cut before each line `name: ...': who a
               \* part seems to be by, the first being by the author, and its terms
  KnownAs,     \* per author: the names that the list of a chunk's authors makes of
               \* his; a comma cuts a name in two, and one with a colon names no line
  Second,      \* per message: the whole second it was sent in
  Rank,        \* per message: where the collection returns a document it begins
  Weight,      \* per message: its estimated tokens
  Gap,         \* gap_minutes
  MaxTokens,   \* max_tokens
  BatchSize,   \* CHROMA_MAX_BATCH_SIZE
  MaxScan,     \* _MAX_SCAN
  Calls,       \* requests to /ingest
  Sinces,      \* what they say in `since'; 0 is nothing
  Unset        \* an argument that was not given

ASSUME IngestAssumption ==
  /\ DOMAIN Parts = Messages /\ DOMAIN KnownAs = Authors
  /\ \A m \in Messages : /\ Len(Parts[m]) \in Nat \ {0}
                         /\ DOMAIN Parts[m] = 1..Len(Parts[m])
                         /\ Parts[m][1].by = Author[m]
  /\ Second \in [Messages -> Nat] /\ Rank \in [Messages -> Nat]
  /\ \A m, n \in Messages : Time[m] <= Time[n] => Second[m] <= Second[n]
  /\ \A m, n \in Messages : m # n => Rank[m] # Rank[n]
  /\ Weight \in [Messages -> Nat]
  /\ {Gap, MaxTokens, MaxScan} \subseteq Nat /\ BatchSize \in Nat \ {0}
  /\ Sinces \subseteq Nat

VARIABLES
  archive,    \* messages in the archive
  captioned,  \* images with a caption
  index,      \* the collection: key of a chunk -> the chunk
  task,       \* _ingest_task: the call whose run it is
  at,         \* per call: where its run stands
  since,
  unread,     \* files its run has still to read
  loaded,     \* messages it has read
  todo,       \* chunks it has still to upsert
  done,       \* ghost: messages that a finished run has read
  shifted     \* ghost: an arrival moved the cut between two chunks, or a run
              \* saw another cut than the archive has, or not all of a file

run == <<task, at, since, unread, loaded, todo>>
vars == <<archive, captioned, index, run, done, shifted>>

Indexable == {m \in archive : m \in Images => m \in captioned}

-----------------------------------------------------------------------------
(* Chunking: chunk_by_conversation.                                        *)

Sorted(S) == InOrder(S, Earlier)

\* Whether the i-th message starts a conversation.
Opens(s, i) ==
  \/ i = 1
  \/ Chan[s[i - 1]] # Chan[s[i]]
  \/ Time[s[i]] - Time[s[i - 1]] > Gap

\* The conversation that has the i-th message.
Conversation(s, i) ==
  SubSeq(s, Max({j \in 1..i : Opens(s, j)}),
            Min({j \in i..Len(s) : j = Len(s) \/ Opens(s, j + 1)}))

Tokens(chunk) == Total(ToSet(chunk), Weight)

\* Seeded fault: the message that goes over the budget still joins the chunk.
ChunkStartAfter(s) ==
  LET start[i \in 1..Len(s)] ==
        IF \/ Opens(s, i)
           \/ /\ Tokens(Conversation(s, i)) > MaxTokens
              /\ Tokens(SubSeq(s, start[i - 1], i - 1)) > MaxTokens
        THEN i ELSE start[i - 1]
  IN  start

\* Per message: where its chunk starts.  A conversation that is over the budget is
\* split before each message that would not fit (_split_chunk).
ChunkStart(s) ==
  LET start[i \in 1..Len(s)] ==
        IF \/ Opens(s, i)
           \/ /\ Tokens(Conversation(s, i)) > MaxTokens
              /\ Tokens(SubSeq(s, start[i - 1], i)) > MaxTokens
        THEN i ELSE start[i - 1]
  IN  start

Chunks(S) ==
  LET s == Sorted(S)
      start == ChunkStart(s)
  IN  Groups(s, {i \in 1..Len(s) : start[i] = i})

Keys(chunks) == {Head(c) : c \in ToSet(chunks)}

\* Whether a chunk of S is not the beginning of one of T: T cuts elsewhere.
Shifts(S, T) ==
  LET whole == Chunks(T)
  IN  \E c \in ToSet(Chunks(S)) : \A d \in ToSet(whole) : ~IsPrefix(c, d)

-----------------------------------------------------------------------------
(* The archive (external).                                                 *)

Arrives ==
  /\ shifted' = (shifted \/ Shifts(Indexable, Indexable'))
  /\ UNCHANGED <<index, run, done>>

\* A channel is exported in its order.
Archive(m) ==
  /\ m \notin archive
  /\ \A n \in Messages : (Chan[n] = Chan[m] /\ Time[n] < Time[m]) => n \in archive
  /\ archive' = archive \cup {m}
  /\ UNCHANGED captioned
  /\ Arrives

Caption(m) ==
  /\ m \in (archive \cap Images) \ captioned
  /\ captioned' = captioned \cup {m}
  /\ UNCHANGED archive
  /\ Arrives

-----------------------------------------------------------------------------
(* /ingest and its thread.                                                 *)

Init ==
  /\ archive = {} /\ captioned = {} /\ index = <<>>
  /\ task = {}
  /\ at = [c \in Calls |-> "idle"]
  /\ since = [c \in Calls |-> 0]
  /\ unread = [c \in Calls |-> {}]
  /\ loaded = [c \in Calls |-> {}]
  /\ todo = [c \in Calls |-> <<>>]
  /\ done = {} /\ shifted = FALSE

\* Seeded fault: a second run is started beside the first.
IngestBeside(c, s) ==
  /\ at[c] = "idle"
  /\ task' = {c}
  /\ at' = [at EXCEPT ![c] = "loading"]
  /\ since' = [since EXCEPT ![c] = s]
  /\ unread' = [unread EXCEPT ![c] = Authors]
  /\ loaded' = [loaded EXCEPT ![c] = {}]
  /\ UNCHANGED <<archive, captioned, index, todo, done, shifted>>

\* A call beside a run is answered "running" and changes nothing.
Ingest(c, s) ==
  /\ at[c] = "idle" /\ task = {}
  /\ task' = {c}
  /\ at' = [at EXCEPT ![c] = "loading"]
  /\ since' = [since EXCEPT ![c] = s]
  /\ unread' = [unread EXCEPT ![c] = Authors]
  /\ loaded' = [loaded EXCEPT ![c] = {}]
  /\ UNCHANGED <<archive, captioned, index, todo, done, shifted>>

\* load_archive, one file.
LoadFile(c, a) ==
  /\ at[c] = "loading" /\ a \in unread[c]
  /\ unread' = [unread EXCEPT ![c] = @ \ {a}]
  /\ loaded' = [loaded EXCEPT ![c] =
       @ \cup {m \in Indexable : Author[m] = a /\ Time[m] >= since[c]}]
  /\ UNCHANGED <<archive, captioned, index, task, at, since, todo, done, shifted>>

\* A file that cannot be read is skipped and the run goes on.
SkipFile(c, a) ==
  /\ at[c] = "loading" /\ a \in unread[c]
  /\ unread' = [unread EXCEPT ![c] = @ \ {a}]
  /\ shifted' = TRUE
  /\ UNCHANGED <<archive, captioned, index, task, at, since, loaded, todo, done>>

ChunkMessages(c) ==
  /\ at[c] = "loading" /\ unread[c] = {}
  /\ at' = [at EXCEPT ![c] = "upserting"]
  /\ todo' = [todo EXCEPT ![c] = Chunks(loaded[c])]
  /\ shifted' = (shifted \/ Shifts(loaded[c], Indexable))
  /\ UNCHANGED <<archive, captioned, index, task, since, unread, loaded, done>>

\* Seeded fault: a document has the key of its chunk's last message.
UpsertedByLast(chunks) ==
  [k \in DOMAIN index \cup {Last(c) : c \in ToSet(chunks)} |->
     IF \E c \in ToSet(chunks) : Last(c) = k THEN CHOOSE c \in ToSet(chunks) : Last(c) = k
     ELSE index[k]]

Upserted(chunks) ==
  [k \in DOMAIN index \cup Keys(chunks) |->
     IF k \in Keys(chunks) THEN CHOOSE c \in ToSet(chunks) : Head(c) = k ELSE index[k]]

\* embed_and_upsert, one batch: a chunk replaces the one that has its key.
Upsert(c) ==
  /\ at[c] = "upserting" /\ todo[c] # <<>>
  /\ LET n == Min({BatchSize, Len(todo[c])}) IN
       /\ index' = Upserted(SubSeq(todo[c], 1, n))
       /\ todo' = [todo EXCEPT ![c] = SubSeq(@, n + 1, Len(@))]
  /\ UNCHANGED <<archive, captioned, task, at, since, unread, loaded, done, shifted>>

\* The thread's finally, whatever ended the run.
Ends(c) ==
  /\ task' = {}
  /\ at' = [at EXCEPT ![c] = "idle"]
  /\ since' = [since EXCEPT ![c] = 0]
  /\ unread' = [unread EXCEPT ![c] = {}]
  /\ loaded' = [loaded EXCEPT ![c] = {}]
  /\ todo' = [todo EXCEPT ![c] = <<>>]
  /\ UNCHANGED <<archive, captioned, index, shifted>>

Complete(c) ==
  /\ at[c] = "upserting" /\ todo[c] = <<>>
  /\ done' = done \cup loaded[c]
  /\ Ends(c)

\* No model, no Chroma, a batch refused: what was upserted stays.
IngestFails(c) ==
  /\ at[c] # "idle"
  /\ UNCHANGED done
  /\ Ends(c)

Next ==
  \/ \E m \in Messages : Archive(m) \/ Caption(m)
  \/ \E c \in Calls :
       \/ \E s \in Sinces : Ingest(c, s)
       \/ \E a \in Authors : LoadFile(c, a) \/ SkipFile(c, a)
       \/ ChunkMessages(c) \/ Upsert(c) \/ Complete(c) \/ IngestFails(c)

Spec == Init /\ [][Next]_vars

-----------------------------------------------------------------------------
(* The searches, over the index as it stands.  A query names a term and an  *)
(* author or leaves them out, the channels it is about, and a first and a   *)
(* last moment.                                                             *)

Lines(S) == UNION {{m} \X DOMAIN Parts[m] : m \in S}
Name(x) == Parts[x[1]][x[2]].by
Words(x) == Parts[x[1]][x[2]].says

\* _build_where_clause and _build_document_filter: the chunk lies between the
\* dates, in whole seconds, a line has the author's name and one has the term.
Prefilter(q, chunk) ==
  /\ Chan[Head(chunk)] \in q.chans
  /\ Second[Head(chunk)] >= q.from /\ Second[Last(chunk)] <= q.until
  /\ \E x \in Lines(ToSet(chunk)) : q.author \in {Unset, Name(x)}
  /\ \E x \in Lines(ToSet(chunk)) : q.term \in {Unset} \cup Words(x)

\* Chroma applies the limit before anything is ordered.
Scan(q) ==
  LET hits == {k \in DOMAIN index : Prefilter(q, index[k])}
  IN  IF Cardinality(hits) <= MaxScan THEN hits
      ELSE CHOOSE s \in SUBSET hits : Cardinality(s) = MaxScan

\* _parse_chunk_messages: a line with the name of one of the chunk's authors starts
\* a message, the others continue the one above them.
Known(chunk) == UNION {KnownAs[Author[m]] : m \in ToSet(chunk)}
Starts(chunk) == {x \in Lines(ToSet(chunk)) : Name(x) \in Known(chunk)}
Above(x, y) == <<x[1], y[1]>> \in Earlier \/ (x[1] = y[1] /\ x[2] < y[2])
Continues(chunk, x) ==
  {y \in Lines(ToSet(chunk)) :
     x = y \/ (Above(x, y) /\ \A z \in Starts(chunk) : Above(x, z) => Above(y, z))}

\* Seeded fault: everything the author says where the term was said.
MatchesAround(q, chunk) == {x \in Starts(chunk) : q.author \in {Unset, Name(x)}}

\* The messages, by the lines that start them, in which the author, not just
\* somebody, says the term.
MatchesIn(q, chunk) ==
  {x \in Starts(chunk) :
     /\ q.author \in {Unset, Name(x)}
     /\ \E y \in Continues(chunk, x) : q.term \in {Unset} \cup Words(y)}

Kept(q) == {k \in Scan(q) : MatchesIn(q, index[k]) # {}}

\* search_literal: the chunks with a match, by the second in which they start.  The
\* sort is stable, also when it is reversed.
SearchLiteral(q, order, limit) ==
  LET before == {p \in Messages \X Messages :
                   \/ Second[p[1]] = Second[p[2]] /\ Rank[p[1]] < Rank[p[2]]
                   \/ order = "earliest" /\ Second[p[1]] < Second[p[2]]
                   \/ order = "latest" /\ Second[p[1]] > Second[p[2]]}
      found == InOrder(Kept(q), before)
  IN  SubSeq(found, 1, Min({limit, Len(found)}))

\* aggregate_stats: the matches, document by document, and how many are by one
\* author or in one channel.
Counted(q) ==
  {p \in Scan(q) \X Lines(Messages) : p[2] \in MatchesIn(q, index[p[1]])}
CountBy(q, a) == Cardinality({p \in Counted(q) : Name(p[2]) = a})
CountIn(q, c) == Cardinality({p \in Counted(q) : Chan[p[1]] = c})

-----------------------------------------------------------------------------
(* Properties.                                                             *)

TypeOK ==
  /\ captioned \subseteq archive /\ archive \subseteq Messages
  /\ DOMAIN index \subseteq Messages
  /\ \A k \in DOMAIN index : index[k] \in Seq(Messages) \ {<<>>}
  /\ task \subseteq Calls
  /\ at \in [Calls -> {"idle", "loading", "upserting"}]
  /\ \A c \in Calls : at[c] # "idle" <=> task = {c}
  /\ since \in [Calls -> Sinces \cup {0}]
  /\ unread \in [Calls -> SUBSET Authors] /\ loaded \in [Calls -> SUBSET Messages]
  /\ todo \in [Calls -> Seq(Seq(Messages))]
  /\ done \subseteq Messages /\ shifted \in BOOLEAN

\* The chunks of an archive are its conversations: every message once and in
\* order, no channel change and no gap inside a chunk, none over the budget but
\* a single message, and none split that would have fitted
\* (chunk_by_conversation, _split_chunk).
ChunksAreConversations ==
  LET cs == Chunks(Indexable)
      joined(m, n) == Chan[m] = Chan[n] /\ Time[n] - Time[m] <= Gap
  IN  /\ UNION {ToSet(c) : c \in ToSet(cs)} = Indexable
      /\ \A i, j \in 1..Len(cs) : \A p \in 1..Len(cs[i]), q \in 1..Len(cs[j]) :
           i < j \/ (i = j /\ p < q) => <<cs[i][p], cs[j][q]>> \in Earlier
      /\ \A i \in 1..Len(cs) :
           /\ \A j \in 1..(Len(cs[i]) - 1) : joined(cs[i][j], cs[i][j + 1])
           /\ Len(cs[i]) > 1 => Tokens(cs[i]) <= MaxTokens
           /\ (i > 1 /\ joined(Last(cs[i - 1]), Head(cs[i]))) =>
                Tokens(Append(cs[i - 1], Head(cs[i]))) > MaxTokens

\* Re-runs are idempotent: however many runs there were, finished or broken off,
\* a message is in one document of the index.  That is as long as no cut between
\* two chunks moved: by a late caption, a run that cut a conversation with
\* `since', or one that missed a message while it read the files
\* (embed_and_upsert, "re-running does not duplicate data").
EachMessageOnce ==
  ~shifted => \A j, k \in DOMAIN index :
                j # k => ToSet(index[j]) \cap ToSet(index[k]) = {}

\* The service's state is well formed, and its index has no message twice
\* (embed_and_upsert).
IndexInv == TypeOK /\ EachMessageOnce

Indexed == UNION {ToSet(index[k]) : k \in DOMAIN index}

\* A run never takes a message out of the index that an earlier run put there,
\* though it replaces documents one batch at a time: what it has read is no
\* older than what it replaces, because two runs never overlap (ingest,
\* _ingest_task).
NothingLeavesIndex ==
  [][~shifted' => Indexed \subseteq Indexed']_vars

Query(term, author, chans) ==
  [term |-> term, author |-> author, chans |-> chans, from |-> 0,
   until |-> Max({0} \cup {Second[m] : m \in Messages})]

\* What is asked of the archive.
Speaks(q, m) == q.author \in {Unset, Author[m]}
SaysIt(q, m) == \E x \in Lines({m}) : q.term \in {Unset} \cup Words(x)

Terms == UNION {Words(x) : x \in Lines(Messages)}

\* Whether every message of a chunk is read back from its document, and whether
\* nothing else is.
Firsts(chunk) == {<<m, 1>> : m \in ToSet(chunk)}
Recognised(chans) ==
  \A k \in DOMAIN index : Chan[k] \in chans => Firsts(index[k]) \subseteq Starts(index[k])
Plain(chans) ==
  \A k \in DOMAIN index : Chan[k] \in chans => Firsts(index[k]) = Starts(index[k])

\* Once everything in the archive was read by a run that finished, the counts
\* are those of the archive, per author and per channel, also while another run
\* is writing, if the scan is not cut off and no message there quotes one of its
\* chunk's speakers line by line.  With such quotes, what is counted in a channel is
\* no less than was said there: zero is zero (aggregate_stats, "the answer is zero
\* for that exact wording").
CountsAreTrue ==
  (~shifted /\ Indexable \subseteq done) =>
    \A t \in Terms \cup {Unset}, chans \in SUBSET Channels :
      LET q == Query(t, Unset, chans)
          real == {m \in Indexable : Chan[m] \in chans /\ SaysIt(q, m)}
      IN  Cardinality({k \in DOMAIN index : Prefilter(q, index[k])}) <= MaxScan =>
            /\ Plain(chans) =>
                 \A a \in Authors :
                   /\ CountBy(q, a) = Cardinality({m \in real : Author[m] = a})
                   /\ CountBy(Query(t, a, chans), a) = Cardinality({m \in real : Author[m] = a})
            /\ Plain(chans) =>
                 \A c \in Channels : CountIn(q, c) = Cardinality({m \in real : Chan[m] = c})
            /\ Recognised(chans) =>
                 \A c \in Channels : CountIn(q, c) >= Cardinality({m \in real : Chan[m] = c})

\* "Who said it first" in a channel: the first document of a literal search holds
\* the first message of the archive that matches, or starts in the same second as
\* the document that does, and likewise the last one when the newest are asked for
\* (search_literal, order).  For a search by author no message there may quote one
\* of its chunk's speakers line by line.
FirstIsFirst ==
  (~shifted /\ Indexable \subseteq done) =>
    \A t \in Terms, a \in Authors \cup {Unset}, c \in Channels :
      LET q == Query(t, a, {c})
          real == {m \in Indexable : Chan[m] = c /\ Speaks(q, m) /\ SaysIt(q, m)}
          first == CHOOSE m \in real : \A n \in real : Time[m] <= Time[n]
          newest == CHOOSE m \in real : \A n \in real : Time[m] >= Time[n]
          top(order) == Second[Head(SearchLiteral(q, order, 1))]
      IN  /\ real # {} /\ IF a = Unset THEN Recognised({c}) ELSE Plain({c})
          /\ Cardinality({k \in DOMAIN index : Prefilter(q, index[k])}) <= MaxScan
          => /\ \E k \in DOMAIN index :
                  first \in ToSet(index[k]) /\ Second[k] = top("earliest")
             /\ \E k \in DOMAIN index :
                  newest \in ToSet(index[k]) /\ Second[k] = top("latest")

\* What the searches without embeddings say of the archive is so: how often, by
\* whom and where first (aggregate_stats, search_literal).
SearchesAreTrue == CountsAreTrue /\ FirstIsFirst
=============================================================================
