----------------------------- MODULE MCPipeCall -----------------------------
(* Two callers, one of the requests possibly after a timeout.              *)
EXTENDS PipeCall

MCPromises == Callers \X (1..Rounds)
=============================================================================
