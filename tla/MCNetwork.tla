------------------------------ MODULE MCNetwork ------------------------------
(* dap::net for model checking: three threads that share a connection, or  *)
(* use a server.                                                           *)
EXTENDS Network
=============================================================================
