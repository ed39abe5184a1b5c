------------------------------- MODULE Readers -------------------------------
(***************************************************************************)
(* The two programs that read the archive, over one archive: the RAG        *)
(* service's ingest and the dataset builder.                                *)
(***************************************************************************)
EXTENDS Rag, Dataset

\* The parts of the archive from which the builder makes sound data.
SoundParts == UNION {IF HeldOut(S) /\ InContext(S) THEN {S} ELSE {} : S \in SUBSET Messages}

\* HeldOut and InContext, for whatever part of the archive the builder has read:
\* like the ingest, it reads the files while the history service appends to them
\* (build_examples, split_by_time).
DatasetIsSound == SUBSET archive \subseteq SoundParts
=============================================================================
