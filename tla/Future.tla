------------------------------- MODULE Future -------------------------------
(***************************************************************************)
(* promise<T> and future<T> of include/dap/future.h: a shared state of a   *)
(* value, a flag, a mutex and a condition variable.                        *)
(*                                                                         *)
(* get() and wait() block until the flag is set; wait_for() and            *)
(* wait_until() also until a time is reached.  A waiter is "out",          *)
(* "asleep", or "woken" and about to evaluate the predicate again.         *)
(***************************************************************************)
EXTENDS Naturals

CONSTANTS Promises,   \* the shared states
          Waiters,    \* the threads that wait
          NoValue     \* a value-initialised val

VARIABLES
    val,       \* val[f]
    hasVal,    \* hasVal[f]
    wpc,       \* wpc[t]: where thread t is in a wait
    waitsFor,  \* waitsFor[t]: the state t waits on
    status,    \* status[t]: what t's last wait returned
    result     \* result[t]: the value t's last get() returned

futureVars == <<val, hasVal, wpc, waitsFor, status, result>>

FutureInit ==
    /\ val = [f \in Promises |-> NoValue]
    /\ hasVal = [f \in Promises |-> FALSE]
    /\ wpc = [t \in Waiters |-> "out"]
    /\ waitsFor \in [Waiters -> Promises]
    /\ status = [t \in Waiters |-> "none"]
    /\ result = [t \in Waiters |-> NoValue]

(* Both overloads of set_value().                                          *)
SetValue(f, v) ==
    /\ val' = [val EXCEPT ![f] = v]
    /\ hasVal' = [hasVal EXCEPT ![f] = TRUE]
    /\ wpc' = [t \in Waiters |-> IF wpc[t] = "asleep" /\ waitsFor[t] = f
                                 THEN "woken" ELSE wpc[t]]
    /\ UNCHANGED <<waitsFor, status, result>>

(* The predicate of the wait, evaluated under the mutex.                   *)
Look(t, f) ==
    /\ wpc' = [wpc EXCEPT ![t] = IF hasVal[f] THEN "out" ELSE "asleep"]
    /\ status' = [status EXCEPT ![t] = IF hasVal[f] THEN "ready" ELSE "none"]
    /\ result' = [result EXCEPT ![t] = IF hasVal[f] THEN val[f] ELSE NoValue]
    /\ UNCHANGED <<val, hasVal>>

(* get(), wait(), wait_for() and wait_until() begin alike.                 *)
Wait(t, f) ==
    /\ wpc[t] = "out"
    /\ waitsFor' = [waitsFor EXCEPT ![t] = f]
    /\ Look(t, f)

WaitResumes(t) ==
    /\ wpc[t] = "woken"
    /\ Look(t, waitsFor[t])
    /\ UNCHANGED waitsFor

(* cv.wait() may return for no reason.                                     *)
WaiterWakes(t) ==
    /\ wpc[t] = "asleep"
    /\ wpc' = [wpc EXCEPT ![t] = "woken"]
    /\ UNCHANGED <<val, hasVal, waitsFor, status, result>>

(* The time of wait_for() or wait_until() is reached: the result is the    *)
(* predicate's, evaluated once more under the mutex.                       *)
TimesOut(t) ==
    LET f == waitsFor[t]
    IN  /\ wpc[t] # "out"
        /\ wpc' = [wpc EXCEPT ![t] = "out"]
        /\ status' = [status EXCEPT ![t] = IF hasVal[f] THEN "ready" ELSE "timeout"]
        /\ result' = [result EXCEPT ![t] = IF hasVal[f] THEN val[f] ELSE NoValue]
        /\ UNCHANGED <<val, hasVal, waitsFor>>
-----------------------------------------------------------------------------
(* No lost wakeup: a thread sleeps in a wait only while the value is not   *)
(* set (future.h:99-130, 161-175).                                         *)
SleepsWithoutValue == \A t \in Waiters : wpc[t] = "asleep" => ~hasVal[waitsFor[t]]
=============================================================================
