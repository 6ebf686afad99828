------------------------------ MODULE MCSession ------------------------------
(* A session and its peer, for model checking.  Calls that do the same are *)
(* interchangeable, which the safety runs use.                             *)
EXTENDS SessionPeer, TLC

CallSymmetry == Permutations(ReqCalls) \cup Permutations(EvtCalls)
=============================================================================
