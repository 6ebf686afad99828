------------------------------ MODULE MCRWMutex ------------------------------
(* RWMutex with four lock objects, each of which may be used as a read or  *)
(* as a write lock any number of times.                                    *)
EXTENDS RWMutex
=============================================================================
