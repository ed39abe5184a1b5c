-------------------------------- MODULE MCRag --------------------------------
(***************************************************************************)
(* Rag and Dataset over one archive for TLC: four messages in a channel and *)
(* two in another, by two authors.  Messages 1 to 3 are a conversation that *)
(* outgrows a chunk and two of which are in one second; 2 is an image; 4    *)
(* alone is over a chunk's budget and quotes somebody who does not speak in *)
(* its chunk, and 6 quotes somebody who does.                               *)
(***************************************************************************)
EXTENDS Readers

MCChan == <<1, 1, 1, 1, 2, 2>>
MCTime == <<1, 2, 3, 6, 2, 4>>
MCAuthor == <<"ann", "bob", "bob", "ann", "bob", "ann">>
MCParts ==
  LET part(by, says) == [by |-> by, says |-> says] IN
  <<<<part("ann", {})>>, <<part("bob", {"x"})>>, <<part("bob", {"x"})>>,
    <<part("ann", {}), part("bob", {"x"})>>, <<part("bob", {"x"})>>,
    <<part("ann", {}), part("bob", {"x"})>>>>
MCKnownAs == [a \in Authors |-> {a}]
MCSecond == <<0, 0, 0, 1, 0, 1>>
MCRank == <<6, 5, 4, 3, 2, 1>>
MCWeight == <<1, 1, 1, 3, 1, 1>>
MCChars == <<1, 0, 1, 1, 1, 1>>

MCSymmetry == Permutations(Calls)
=============================================================================
