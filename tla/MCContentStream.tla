--------------------------- MODULE MCContentStream ---------------------------
(***************************************************************************)
(* Instance of ContentStream for TLC.  The header's name is "C:" and the   *)
(* separator "\r\n".  One message has a length of two digits and one looks *)
(* like the beginning of a header.  The junk is every way of starting a    *)
(* header and not ending it, and a zero byte.                              *)
(***************************************************************************)
EXTENDS ContentStream

MCName == <<67, 58>>

MCSeparator == <<13, 10>>

MCBodies == {<<120>>, <<67, 58, 49>>, [i \in 1 .. 10 |-> 121]}

MCJunks == {<<67>>, <<67, 58>>, <<67, 58, 49>>, <<67, 58, 49, 13>>, <<0, 120>>}

(* The condition under which ContentStreamProofs finds every frame holds   *)
(* of this instance.                                                       *)
ASSUME MCUnmistakable == Unmistakable
=============================================================================
