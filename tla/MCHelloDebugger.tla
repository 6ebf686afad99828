-------------------------- MODULE MCHelloDebugger ---------------------------
(* A client that sends a few requests, in any order.                       *)
EXTENDS HelloDebugger

Request(name, data) == Message("request", name, data)

(* Requests that only differ in their name are represented by one of them: *)
(* launch stands for all that are answered and change nothing, also for a  *)
(* disconnect that does not terminate.  Line 4 is beyond the source.       *)
MCRequests ==
    {Request("initialize", {}), Request("launch", {}), Request("source", {}),
     Request("stackTrace", {1}), Request("pause", {}), Request("continue", {}),
     Request("next", {}), Request("setBreakpoints", {1, 3, 4}),
     Request("setBreakpointsElsewhere", {2}), Request("disconnect", {1}),
     Request("configurationDone", {}), Request("unknown", {})}
=============================================================================
