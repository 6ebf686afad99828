------------------------------ MODULE MCValues ------------------------------
(***************************************************************************)
(* The values of the Values model with the type information of the         *)
(* protocol.                                                               *)
(***************************************************************************)
EXTENDS Values, Protocol
=============================================================================
