------------------------------- MODULE MCChan -------------------------------
(* Chan with three takers, two values and a queue of at most three.        *)
EXTENDS Chan
=============================================================================
