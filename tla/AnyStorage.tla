----------------------------- MODULE AnyStorage -----------------------------
(***************************************************************************)
(* any.h: the storage of dap::any.  A value lives in the 32-byte buffer of *)
(* the any or, when it does not fit, in a heap block; "value" points at    *)
(* it, "heap" is the block to delete.  Three types stand for all: one      *)
(* without resources of its own (boolean, integer, number), a string,      *)
(* which fits the buffer and has to be destructed, and an object, which    *)
(* does not fit.                                                           *)
(***************************************************************************)
EXTENDS TypeInfos

CONSTANTS
    Anys,           \* the variables of type any
    Contents,       \* the values assigned, of each type
    MaxBlocks,      \* heap blocks
    Moved,          \* the types whose values the program moves
    Nothing         \* no content

\* The buffers are numbered, and memory does not run out: an any without a
\* block finds one, whatever blocks the others have.
ASSUME StorageAssumption ==
    /\ Anys \subseteq Nat \ {0} /\ MaxBlocks \in Nat
    /\ \A block \in [Anys -> 0..MaxBlocks], a \in Anys :
          block[a] = 0 => \E b \in 1..MaxBlocks : \A c \in Anys : block[c] # b
    /\ Nothing \notin Contents

VARIABLES
    anys,           \* Anys -> [built, value, type, heap]
    bytes,          \* the content of each place, a buffer or a block
    allocated,      \* the blocks that new[] returned and delete[] has not freed
    constructed,    \* the places with an object that has to be destructed
    assigned        \* what was last assigned to each any (history)

anyVars == <<anys, bytes, allocated, constructed, assigned>>
storageVars == <<anyVars, typeVars>>

Types == {"integer", "string", "object"}
FitsBuffer(T) == T # "object"
Trivial(T) == T = "integer"

\* Places: 0 is nullptr, b > 0 a block, and the buffer of any number i is -i.
Blocks == 1..MaxBlocks
Buffer(a) == -a
IsInBuffer(a, p) == p = Buffer(a)
Places == Blocks \cup {Buffer(a) : a \in Anys}

Unbuilt == [built |-> FALSE, value |-> 0, type |-> "none", heap |-> 0]
Built == [Unbuilt EXCEPT !.built = TRUE]

StorageInit ==
    /\ TypesInit
    /\ anys = [a \in Anys |-> Unbuilt]
    /\ bytes = [p \in Places |-> Nothing]
    /\ allocated = {} /\ constructed = {}
    /\ assigned = [a \in Anys |-> Nothing]

\* The storage as a record, so that an operation is a composition of steps.
Storage == [anys |-> anys, bytes |-> bytes, allocated |-> allocated, constructed |-> constructed]
Becomes(s) ==
    /\ anys' = s.anys /\ bytes' = s.bytes
    /\ allocated' = s.allocated /\ constructed' = s.constructed

SetPointer(s, a, p) == [s EXCEPT !.anys[a].value = p]
SetType(s, a, T) == [s EXCEPT !.anys[a].type = T]
SetHeap(s, a, p) == [s EXCEPT !.anys[a].heap = p]

\* Mutant: the heap block is not deleted.
FreeNot(s, a) == SetHeap(SetPointer(s, a, 0), a, 0)

Free(s, a) ==
    [SetHeap(SetPointer(s, a, 0), a, 0) EXCEPT !.allocated = @ \ {s.anys[a].heap}]

\* reset(): destruct() and free(), if there is a value.
ResetStorage(s, a) ==
    LET p == s.anys[a].value
        freed == IF p = 0 THEN s
                 ELSE Free([s EXCEPT !.constructed = @ \ {p}, !.bytes[p] = Nothing], a)
    IN SetType(freed, a, "none")

\* alloc(): the buffer, or a new block that may be one freed before.
NewBlock(s) == CHOOSE b \in Blocks \ s.allocated : TRUE
Alloc(s, a, T) ==
    IF FitsBuffer(T) THEN SetPointer(s, a, Buffer(a))
    ELSE LET b == NewBlock(s)
         IN [SetPointer(SetHeap(s, a, b), a, b) EXCEPT !.allocated = @ \cup {b}]

\* TypeInfo::copyConstruct() at the place value points to.
CopyConstruct(s, a, T, x) ==
    LET p == s.anys[a].value
    IN [s EXCEPT !.bytes[p] = x,
                 !.constructed = IF Trivial(T) THEN @ ELSE @ \cup {p}]

\* Mutant: a copy points at the value of the other any.
CopyFromShares(s, a, b) ==
    SetPointer(SetType(s, a, s.anys[b].type), a, s.anys[b].value)

\* The statements common to the constructors and assignments from an any.
CopyFrom(s, a, b) ==
    LET T == s.anys[b].type
        p == s.anys[b].value
        typed == SetType(s, a, T)
    IN IF p = 0 THEN typed ELSE CopyConstruct(Alloc(typed, a, T), a, T, s.bytes[p])

MoveFrom(s, a, b) ==
    LET taken == IF IsInBuffer(b, s.anys[b].value) THEN CopyFrom(s, a, b)
                 ELSE SetPointer(SetType(s, a, s.anys[b].type), a, s.anys[b].value)
    IN SetType(SetPointer(taken, b, 0), b, "none")

\* operator=(const T&): in place when the any holds a T already.
AssignValue(s, a, T, x) ==
    IF s.anys[a].type = T THEN [s EXCEPT !.bytes[s.anys[a].value] = x]
    ELSE CopyConstruct(Alloc(SetType(ResetStorage(s, a), a, T), a, T), a, T, x)
-----------------------------------------------------------------------------
IsBuilt(a) == anys[a].built
Alive == destructed = 0

\* any() and any(const T&).
Construct(a) ==
    /\ Alive /\ ~exiting /\ ~IsBuilt(a)
    /\ \/ Becomes([Storage EXCEPT !.anys[a] = Built]) /\ UNCHANGED assigned
       \/ \E T \in Types, x \in Contents :
            /\ Becomes(AssignValue([Storage EXCEPT !.anys[a] = Built], a, T, x))
            /\ assigned' = [assigned EXCEPT ![a] = x]
    /\ UNCHANGED typeVars

\* any(const any&) and operator=(const any&).
Copy(a, b) ==
    /\ Alive /\ IsBuilt(b) /\ a # b
    /\ Becomes(CopyFrom(IF IsBuilt(a) THEN ResetStorage(Storage, a)
                        ELSE [Storage EXCEPT !.anys[a] = Built], a, b))
    /\ assigned' = [assigned EXCEPT ![a] = assigned[b]]
    /\ UNCHANGED typeVars

\* any(any&&) and operator=(any&&).
MoveAny(a, b) ==
    /\ Alive /\ IsBuilt(b) /\ a # b
    /\ anys[b].type \in Moved \cup {"none"}
    /\ Becomes(MoveFrom(IF IsBuilt(a) THEN ResetStorage(Storage, a)
                        ELSE [Storage EXCEPT !.anys[a] = Built], a, b))
    /\ assigned' = [assigned EXCEPT ![a] = assigned[b], ![b] = Nothing]
    /\ UNCHANGED typeVars

Assign(a) ==
    /\ Alive /\ IsBuilt(a)
    /\ \E T \in Types, x \in Contents :
         /\ Becomes(AssignValue(Storage, a, T, x))
         /\ assigned' = [assigned EXCEPT ![a] = x]
    /\ UNCHANGED typeVars

\* reset() and operator=(nullptr).
ResetAny(a) ==
    /\ IsBuilt(a)
    /\ Becomes(ResetStorage(Storage, a))
    /\ assigned' = [assigned EXCEPT ![a] = Nothing]
    /\ UNCHANGED typeVars

\* ~any()
Destroy(a) ==
    /\ IsBuilt(a)
    /\ Becomes([ResetStorage(Storage, a) EXCEPT !.anys[a] =
                    [Unbuilt EXCEPT !.heap = ResetStorage(Storage, a).anys[a].heap]])
    /\ assigned' = [assigned EXCEPT ![a] = Nothing]
    /\ UNCHANGED typeVars

InUse == \E a \in Anys : IsBuilt(a)

StorageNext ==
    \/ \E a \in Anys : Construct(a) \/ Assign(a) \/ ResetAny(a) \/ Destroy(a)
    \/ \E a, b \in Anys : Copy(a, b) \/ MoveAny(a, b)
    \/ Initialize /\ UNCHANGED anyVars
    \/ Terminate(InUse) /\ UNCHANGED anyVars
    \/ Exit(InUse) /\ UNCHANGED anyVars

StorageSpec == StorageInit /\ [][StorageNext]_storageVars
-----------------------------------------------------------------------------
\* An any gives the value last assigned to it, from storage that is still
\* allocated, whatever was done to other anys in between (any.h:55, "get()
\* returns the contained value of the type T").
GetReturnsAssigned ==
    \A a \in Anys : IsBuilt(a) =>
        LET p == anys[a].value IN
        /\ (assigned[a] = Nothing) = (p = 0)
        /\ p # 0 => /\ p \in Blocks => p \in allocated
                    /\ bytes[p] = assigned[a]

\* Every block has exactly one any that will delete it, and every object
\* that needs its destructor is still the value of an any.
NothingIsLost ==
    /\ \A b \in allocated :
          \E a \in Anys : {c \in Anys : anys[c].heap = b /\ anys[c].value = b} = {a}
    /\ \A p \in constructed : \E a \in Anys : anys[a].value = p

\* The type information outlives the values: while an any exists, in a
\* program that follows dap.h, TypeInfos has not been destructed, and it is
\* destructed at most once.
InfosOutliveValues ==
    /\ destructed <= 1
    /\ InUse => destructed = 0
=============================================================================
