------------------------------- MODULE Dataset -------------------------------
(***************************************************************************)
(* lora-training/build_dataset.py: from the records of the archive to the   *)
(* examples that a member's adapter is trained and evaluated on.  A turn is *)
(* the sequence of its messages, an example a reply with its context.       *)
(***************************************************************************)
EXTENDS Records

CONSTANTS
  Noise,        \* records by bots, commands, events: not conversation
  Chars,        \* per message: its characters beside links and mentions
  LongNumbers,  \* messages with a long run of digits
  UserIds,      \* the accounts of the member
  ContextN,     \* context_n
  GapSeconds,   \* gap_minutes * 60
  MergeSeconds, \* merge_seconds
  MinChars,     \* min_chars
  EvalOneIn     \* 1 / eval_fraction; 0 for no evaluation

ASSUME DatasetAssumption ==
  /\ Noise \subseteq Messages /\ LongNumbers \subseteq Messages
  /\ Chars \in [Messages -> Nat] /\ UserIds \subseteq Authors
  /\ {ContextN, GapSeconds, MergeSeconds, MinChars, EvalOneIn} \subseteq Nat

Timeline(S, c) == InOrder({m \in S \ Noise : Chan[m] = c}, Earlier)

Turns(msgs) ==
  Groups(msgs, {i \in 1..Len(msgs) :
                  \/ i = 1
                  \/ Author[msgs[i - 1]] # Author[msgs[i]]
                  \/ Time[msgs[i]] - Time[msgs[i - 1]] > MergeSeconds})

Start(turn) == Time[Head(turn)]
End(turn) == Time[Last(turn)]

\* A turn of the member that says enough, with nothing in it to unlearn.
IsTarget(turn) ==
  /\ Author[Head(turn)] \in UserIds
  /\ ~(ToSet(turn) \subseteq Images)
  /\ Total(ToSet(turn), Chars) >= MinChars
  /\ ToSet(turn) \cap LongNumbers = {}

Silent(later, prev) == Start(later) - End(prev) > GapSeconds

\* The turns before the i-th, back to a silence or the context's limit.
Context(turns, i) ==
  LET far == {j \in 1..(i - 1) : i - j > ContextN \/ Silent(turns[j + 1], turns[j])}
      from == IF far = {} THEN 1 ELSE Max(far) + 1
  IN  SubSeq(turns, from, i - 1)

ExamplesIn(turns) ==
  {[reply |-> turns[i], context |-> Context(turns, i)] :
     i \in {j \in 1..Len(turns) : IsTarget(turns[j]) /\ Context(turns, j) # <<>>}}

AllExamples(S) == UNION {ExamplesIn(Turns(Timeline(S, c))) : c \in Channels}

\* Seeded fault: the examples of one channel after those of another.
SoonerByChannel(S) ==
  {p \in AllExamples(S) \X AllExamples(S) :
     <<Head(p[1].reply), Head(p[2].reply)>> \in Earlier}

\* Oldest first; of two at one moment the first channel's.
Sooner(S) ==
  {p \in AllExamples(S) \X AllExamples(S) :
     \/ Start(p[1].reply) < Start(p[2].reply)
     \/ /\ Start(p[1].reply) = Start(p[2].reply)
        /\ Chan[Head(p[1].reply)] < Chan[Head(p[2].reply)]}

BuildExamples(S) == InOrder(AllExamples(S), Sooner(S))

\* split_by_time: how many of the newest examples are for evaluation.
NEval(n) == IF n = 0 \/ EvalOneIn = 0 THEN 0 ELSE Max({1, n \div EvalOneIn})

Split(examples) ==
  LET n == Len(examples) - NEval(Len(examples))
  IN  [train |-> SubSeq(examples, 1, n), eval |-> SubSeq(examples, n + 1, Len(examples))]

-----------------------------------------------------------------------------

\* What the evaluation measures was not in the training data: no training reply
\* is newer than an evaluated one, in whichever channel, and an evaluated reply
\* is neither a training reply nor in the context of one (build_examples,
\* split_by_time, "the eval loss would measure memory rather than voice").
HeldOut(S) ==
  LET d == Split(BuildExamples(S)) IN
  \A x \in ToSet(d.train), y \in ToSet(d.eval) :
    /\ Start(x.reply) <= Start(y.reply)
    /\ y.reply # x.reply /\ y.reply \notin ToSet(x.context)

\* Every reply the member gave in a conversation is an example, once, with the
\* context that preceded it: nothing of another channel, nothing from before a
\* silence, nothing from before the limit, and no turn that fits left out
\* (build_examples).
InContext(S) ==
  LET es == BuildExamples(S)
      all(x) == UNION {ToSet(t) : t \in ToSet(x.context) \cup {x.reply}}
      near(m, n) == Chan[m] = Chan[n] /\ Time[m] < Time[n] /\ Time[n] - Time[m] <= GapSeconds
      talk == S \ Noise
  IN  /\ \A x \in ToSet(es) :
           LET first == Head(Head(x.context)) IN
           /\ Len(x.context) \in 1..ContextN
           /\ all(x) = {m \in talk : /\ Chan[m] = Chan[first]
                                    /\ Time[m] \in Time[first]..End(x.reply)}
           /\ \A m \in all(x) \ {Last(x.reply)} : \E n \in all(x) :
                Time[n] > Time[m] /\ Time[n] - Time[m] <= Max({GapSeconds, MergeSeconds})
           /\ Len(x.context) < ContextN => ~\E m \in talk : near(m, first)
      /\ \A i, j \in 1..Len(es) : i # j => ToSet(es[i].reply) \cap ToSet(es[j].reply) = {}
      /\ \A m \in talk \ (Images \cup LongNumbers) :
           (/\ Author[m] \in UserIds /\ Chars[m] >= MinChars /\ ContextN > 0
            /\ \E n \in talk : near(n, m) /\ Author[n] # Author[m]
            /\ ~\E n \in talk \ {m} : Author[n] = Author[m] /\ Chan[n] = Chan[m]) =>
             \E i \in 1..Len(es) : m \in ToSet(es[i].reply)
=============================================================================
