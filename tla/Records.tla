------------------------------- MODULE Records -------------------------------
(***************************************************************************)
(* The records of the message archive, as the programs that read it see     *)
(* them: the history service writes one file per author, the RAG service's  *)
(* ingest and the dataset builder read them all.                            *)
(***************************************************************************)
EXTENDS Naturals, Sequences, FiniteSets, SequencesExt, FiniteSetsExt, Selections

CONSTANTS
  Messages,    \* message ids
  Chan,        \* per message: its channel
  Time,        \* per message: its timestamp
  Author,      \* per message: its author, whose file it is in
  Images       \* messages that are an attachment without text

ASSUME RecordAssumption ==
  /\ IsFiniteSet(Messages)
  /\ Chan \in [Messages -> Nat] /\ Time \in [Messages -> Nat \ {0}]
  /\ DOMAIN Author = Messages /\ Images \subseteq Messages
  /\ \A m, n \in Messages : (m # n /\ Chan[m] = Chan[n]) => Time[m] # Time[n]

Authors == {Author[m] : m \in Messages}
Channels == {Chan[m] : m \in Messages}

\* By channel and then by time, in which two messages of a channel differ.
Earlier ==
  {p \in Messages \X Messages :
     \/ Chan[p[1]] < Chan[p[2]]
     \/ Chan[p[1]] = Chan[p[2]] /\ Time[p[1]] < Time[p[2]]}
=============================================================================
