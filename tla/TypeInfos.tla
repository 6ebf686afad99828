----------------------------- MODULE TypeInfos ------------------------------
(***************************************************************************)
(* typeof.cpp: the TypeInfos singleton, which every value of a dap type    *)
(* needs to be copied or destructed.  Its first use constructs it, with a  *)
(* reference that the static Instance releases when the program exits;     *)
(* initialize() and terminate() take and release further ones.             *)
(***************************************************************************)
EXTENDS Integers

CONSTANT
    MaxInitializes      \* bound on the outstanding calls of initialize()

ASSUME MaxInitializesAssumption == MaxInitializes \in Nat

VARIABLES
    refcount,           \* TypeInfos::refcount
    destructed,         \* how often ~TypeInfos() ran
    initialized,        \* calls of initialize() without their terminate()
    terminated,         \* terminate() was called
    exiting             \* the static destructors run

typeVars == <<refcount, destructed, initialized, terminated, exiting>>

TypesInit ==
    /\ refcount = 1 /\ destructed = 0
    /\ initialized = 0 /\ terminated = FALSE /\ exiting = FALSE

\* Mutant: the reference that is left is taken for none.
ReleaseAtOne ==
    /\ refcount' = refcount - 1
    /\ destructed' = IF refcount' <= 1 THEN destructed + 1 ELSE destructed

Release ==
    /\ refcount' = refcount - 1
    /\ destructed' = IF refcount' = 0 THEN destructed + 1 ELSE destructed

\* dap.h: not after terminate().
Initialize ==
    /\ ~terminated /\ ~exiting /\ initialized < MaxInitializes
    /\ refcount' = refcount + 1
    /\ initialized' = initialized + 1
    /\ UNCHANGED <<destructed, terminated, exiting>>

\* dap.h: the program's last terminate() follows the last usage.
Terminate(inUse) ==
    /\ initialized > 0
    /\ exiting /\ initialized = 1 => ~inUse
    /\ Release
    /\ initialized' = initialized - 1
    /\ terminated' = TRUE
    /\ UNCHANGED exiting

\* ~Instance().  Values in global state outlive it only if initialize() was called.
Exit(inUse) ==
    /\ ~exiting
    /\ inUse => initialized > 0
    /\ Release
    /\ exiting' = TRUE
    /\ UNCHANGED <<initialized, terminated>>
=============================================================================
