--------------------------- MODULE PipeAnyProofs ----------------------------
(***************************************************************************)
(* Proofs about AnyStorage and about PipeCall.                             *)
(***************************************************************************)
EXTENDS PipeCall, AnyStorage, TLAPS

(* The time each step may take, and the time of a second attempt.          *)
USE SMTT(30), SMTT(60)
-----------------------------------------------------------------------------
(***************************************************************************)
(* What holds of the storage of dap::any, for any number of anys, any      *)
(* contents and any sequence of operations, as long as the program moves   *)
(* no any that has its value on the heap.                                  *)
(***************************************************************************)
Cells == [built : BOOLEAN, value : Int, type : Types \cup {"none"}, heap : Int]

AnyValues == Contents \cup {Nothing}

Storages == [anys : [Anys -> Cells], bytes : [Places -> AnyValues],
             allocated : SUBSET Blocks, constructed : SUBSET Places]

(* An any is empty, or has its value in its buffer, or in a block of its   *)
(* own.                                                                    *)
Empty(s, a) == s.anys[a].value = 0 /\ s.anys[a].type = "none" /\ s.anys[a].heap = 0

InBuffer(s, a) ==
    /\ s.anys[a].built /\ s.anys[a].type \in {"integer", "string"}
    /\ s.anys[a].value = Buffer(a) /\ s.anys[a].heap = 0

OnHeap(s, a) ==
    /\ s.anys[a].built /\ s.anys[a].type = "object"
    /\ s.anys[a].value = s.anys[a].heap /\ s.anys[a].heap \in s.allocated

(* Each block that is allocated has one owner.                             *)
Owned(s) ==
    /\ \A a, b \in Anys : a # b /\ s.anys[a].heap # 0 => s.anys[a].heap # s.anys[b].heap
    /\ \A p \in s.allocated : \E a \in Anys : s.anys[a].heap = p

(* The values are those that were assigned.                                *)
Holds(s, as) ==
    \A a \in Anys : IF s.anys[a].value = 0 THEN as[a] = Nothing
                    ELSE as[a] \in Contents /\ s.bytes[s.anys[a].value] = as[a]

(* What has to be destructed is the value of an any, if no string is moved *)
(* out of its buffer.                                                      *)
Destructible(s) ==
    Moved \subseteq {"integer"} =>
        \A p \in s.constructed :
            \E a \in Anys : s.anys[a].value = p /\ s.anys[a].type # "integer"

Sound(s, as) ==
    /\ s \in Storages /\ as \in [Anys -> AnyValues]
    /\ \A a \in Anys : Empty(s, a) \/ InBuffer(s, a) \/ OnHeap(s, a)
    /\ Owned(s) /\ Holds(s, as) /\ Destructible(s)

(* The references: one of the program, until it exits, and one for every   *)
(* initialize() without its terminate().                                   *)
Counted ==
    /\ initialized \in Nat /\ exiting \in BOOLEAN
    /\ refcount = initialized + IF exiting THEN 0 ELSE 1
    /\ destructed = IF refcount = 0 THEN 1 ELSE 0
    /\ InUse => refcount > 0
-----------------------------------------------------------------------------
(* Buffers and blocks are different places, and none is the null pointer.  *)
LEMMA PlacesDiffer ==
    /\ Blocks \subseteq Places /\ \A a \in Anys : Buffer(a) \in Places /\ Buffer(a) \in Int
    /\ \A p \in Blocks : p \in Int /\ p > 0
    /\ \A a \in Anys : Buffer(a) < 0
    /\ \A a, b \in Anys : Buffer(a) = Buffer(b) => a = b
    /\ 0 \notin Places
BY StorageAssumption DEF Places, Blocks, Buffer

(* There is a block for an any that has none.                              *)
LEMMA BlockIsFree ==
    ASSUME NEW s, NEW as, Sound(s, as), NEW a \in Anys, s.anys[a].heap = 0
    PROVE  NewBlock(s) \in Blocks \ s.allocated
<1> DEFINE block == [c \in Anys |-> s.anys[c].heap]
<1>1. \A c \in Anys : s.anys[c].heap \in 0..MaxBlocks
  <2>1. s.allocated \subseteq Blocks
    BY ZenonT(40) DEF Sound, Storages
  <2>2. ASSUME NEW c \in Anys PROVE s.anys[c].heap \in Blocks \cup {0}
    BY <2>1, ZenonT(40) DEF Sound, Empty, InBuffer, OnHeap
  <2> QED
    BY <2>2, StorageAssumption DEF Blocks
<1>2. block \in [Anys -> 0..MaxBlocks] /\ block[a] = 0
  BY <1>1, ZenonT(40)
<1>3. PICK b \in 1..MaxBlocks : \A c \in Anys : block[c] # b
  BY <1>2, StorageAssumption, ZenonT(40)
<1>4. \A c \in Anys : s.anys[c].heap # b
  BY <1>3, ZenonT(40)
<1>5. b \in Blocks \ s.allocated
  BY <1>4, ZenonT(40) DEF Blocks, Sound, Owned
<1> QED
  BY <1>5, ZenonT(40) DEF NewBlock
-----------------------------------------------------------------------------
(* What it is to change one field of one any.                              *)
OnlyCell(r, s, a) ==
    /\ r \in Storages /\ \A b \in Anys : b # a => r.anys[b] = s.anys[b]
    /\ r.bytes = s.bytes /\ r.allocated = s.allocated /\ r.constructed = s.constructed

Cell(built, value, type, heap) ==
    [built |-> built, value |-> value, type |-> type, heap |-> heap]

LEMMA SetValueIs ==
    ASSUME NEW s \in Storages, NEW a \in Anys, NEW p \in Int
    PROVE  /\ OnlyCell(SetPointer(s, a, p), s, a)
           /\ SetPointer(s, a, p).anys[a] =
                Cell(s.anys[a].built, p, s.anys[a].type, s.anys[a].heap)
BY ZenonT(40) DEF OnlyCell, SetPointer, Storages, Cells, Cell

LEMMA SetHeapIs ==
    ASSUME NEW s \in Storages, NEW a \in Anys, NEW p \in Int
    PROVE  /\ OnlyCell(SetHeap(s, a, p), s, a)
           /\ SetHeap(s, a, p).anys[a] =
                Cell(s.anys[a].built, s.anys[a].value, s.anys[a].type, p)
BY ZenonT(40) DEF OnlyCell, SetHeap, Storages, Cells, Cell

LEMMA SetTypeIs ==
    ASSUME NEW s \in Storages, NEW a \in Anys, NEW T \in Types \cup {"none"}
    PROVE  /\ OnlyCell(SetType(s, a, T), s, a)
           /\ SetType(s, a, T).anys[a] =
                Cell(s.anys[a].built, s.anys[a].value, T, s.anys[a].heap)
BY ZenonT(40) DEF OnlyCell, SetType, Storages, Cells, Cell

(* reset() leaves an empty any and nothing else is changed.                *)
Emptied(r, s, a) ==
    /\ r \in Storages
    /\ r.anys[a] = Cell(s.anys[a].built, 0, "none", 0)
    /\ \A b \in Anys : b # a => r.anys[b] = s.anys[b]
    /\ \A q \in Places : q # s.anys[a].value => r.bytes[q] = s.bytes[q]
    /\ r.allocated = s.allocated \ {s.anys[a].heap}
    /\ r.constructed = s.constructed \ {s.anys[a].value}

LEMMA ResetIs ==
    ASSUME NEW s, NEW as, Sound(s, as), NEW a \in Anys
    PROVE  Emptied(ResetStorage(s, a), s, a)
<1>1. s \in Storages /\ (Empty(s, a) \/ InBuffer(s, a) \/ OnHeap(s, a))
  BY ZenonT(40) DEF Sound
<1>2. s.anys[a] \in Cells /\ s.anys \in [Anys -> Cells] /\ s.bytes \in [Places -> AnyValues]
  BY <1>1, ZenonT(40) DEF Storages
<1>3. CASE s.anys[a].value = 0
  <2>1. ResetStorage(s, a) = SetType(s, a, "none")
    BY <1>3, ZenonT(40) DEF ResetStorage
  <2>2. s.anys[a].heap = 0 /\ s.anys[a].type = "none"
    BY <1>1, <1>3, PlacesDiffer, ZenonT(40) DEF Empty, InBuffer, OnHeap, Storages
  <2>3. s.constructed \ {0} = s.constructed /\ s.allocated \ {0} = s.allocated
    BY <1>1, PlacesDiffer DEF Storages
  <2> QED
    BY <1>1, <1>3, <2>1, <2>2, <2>3, SetTypeIs DEF OnlyCell, Emptied
<1>4. CASE s.anys[a].value # 0
  <2>1. s.anys[a].value \in Places /\ s.anys[a].heap \in Int
    BY <1>1, <1>2, <1>4, PlacesDiffer, ZenonT(40) DEF Empty, InBuffer, OnHeap, Storages, Cells
  <2> DEFINE p == s.anys[a].value
             h == s.anys[a].heap
             s1 == [s EXCEPT !.constructed = @ \ {p}, !.bytes[p] = Nothing]
             s2 == SetPointer(s1, a, 0)
             s3 == SetHeap(s2, a, 0)
             s4 == [s3 EXCEPT !.allocated = @ \ {h}]
  <2>2. /\ s1.anys = s.anys /\ s1.bytes = [s.bytes EXCEPT ![p] = Nothing]
        /\ s1.allocated = s.allocated /\ s1.constructed = s.constructed \ {p}
        /\ s1 \in Storages
    BY <1>1, <2>1, ZenonT(40) DEF Storages, AnyValues
  <2>3. ResetStorage(s, a) = SetType(s4, a, "none")
    BY <1>4, <2>2, ZenonT(40) DEF ResetStorage, Free
  <2> HIDE DEF s1
  <2>4. OnlyCell(s2, s1, a) /\ s2.anys[a] = Cell(s.anys[a].built, 0, s.anys[a].type, h)
    BY <2>2, SetValueIs
  <2> HIDE DEF s2
  <2>5. OnlyCell(s3, s2, a) /\ s3.anys[a] = Cell(s.anys[a].built, 0, s.anys[a].type, 0)
    BY <2>4, SetHeapIs DEF OnlyCell, Cell
  <2> HIDE DEF s3
  <2>6. /\ s4.anys = s3.anys /\ s4.bytes = s3.bytes /\ s4.allocated = s3.allocated \ {h}
        /\ s4.constructed = s3.constructed /\ s4 \in Storages
    BY <2>5, ZenonT(40) DEF Storages, OnlyCell
  <2> HIDE DEF s4
  <2>7. /\ OnlyCell(ResetStorage(s, a), s4, a)
        /\ ResetStorage(s, a).anys[a] = Cell(s.anys[a].built, 0, "none", 0)
    BY <2>3, <2>5, <2>6, SetTypeIs DEF Cell
  <2>8. \A q \in Places : q # p => s1.bytes[q] = s.bytes[q]
    BY <1>2, <2>2, ZenonT(40)
  <2> HIDE DEF p, h
  <2> QED
    BY <2>2, <2>4, <2>5, <2>6, <2>7, <2>8 DEF OnlyCell, Emptied, p, h
<1> QED
  BY <1>3, <1>4, ZenonT(40)

(* After reset() nothing is assigned to the any, and the others are as     *)
(* they were.                                                              *)
LEMMA ResetSound ==
    ASSUME NEW s, NEW as, Sound(s, as), NEW a \in Anys
    PROVE  Sound(ResetStorage(s, a), [as EXCEPT ![a] = Nothing]) /\ Empty(ResetStorage(s, a), a)
<1> DEFINE r == ResetStorage(s, a)
           at == [as EXCEPT ![a] = Nothing]
<1>1. /\ r \in Storages
      /\ r.anys[a] = Cell(s.anys[a].built, 0, "none", 0)
      /\ \A b \in Anys : b # a => r.anys[b] = s.anys[b]
      /\ \A q \in Places : q # s.anys[a].value => r.bytes[q] = s.bytes[q]
      /\ r.allocated = s.allocated \ {s.anys[a].heap}
      /\ r.constructed = s.constructed \ {s.anys[a].value}
  BY ZenonT(40), ResetIs DEF Emptied
<1> HIDE DEF r
<1>2. /\ s \in Storages /\ as \in [Anys -> AnyValues]
      /\ Owned(s) /\ Holds(s, as) /\ Destructible(s)
      /\ \A b \in Anys : Empty(s, b) \/ InBuffer(s, b) \/ OnHeap(s, b)
  BY ZenonT(40) DEF Sound
<1>3. at \in [Anys -> AnyValues] /\ at[a] = Nothing /\ \A b \in Anys : b # a => at[b] = as[b]
  BY <1>2, ZenonT(40) DEF AnyValues
<1> HIDE DEF at
<1>4. r.anys[a].value = 0 /\ r.anys[a].type = "none" /\ r.anys[a].heap = 0
  BY <1>1 DEF Cell
<1>5. ASSUME NEW b \in Anys, b # a, s.anys[b].value # 0
      PROVE  s.anys[b].value \in Places /\ s.anys[b].value # s.anys[a].value
  BY <1>2, <1>5, PlacesDiffer DEF Empty, InBuffer, OnHeap, Owned, Storages
<1>6. Empty(r, a)
  BY <1>4, ZenonT(40) DEF Empty
<1>7. ASSUME NEW b \in Anys, b # a
      PROVE  Empty(r, b) \/ InBuffer(r, b) \/ OnHeap(r, b)
  <2>1. r.anys[b] = s.anys[b] /\ (Empty(s, b) \/ InBuffer(s, b) \/ OnHeap(s, b))
    BY <1>1, <1>2, <1>7, ZenonT(40)
  <2>2. s.anys[b].heap \in s.allocated => s.anys[b].heap \in r.allocated
    BY <1>1, <1>2, <1>7, PlacesDiffer DEF Owned, Storages
  <2> QED
    BY ZenonT(40), <2>1, <2>2 DEF Empty, InBuffer, OnHeap
<1>8. Owned(r)
  BY <1>1, <1>2, <1>4 DEF Owned
<1>9. Holds(r, at)
  <2>1. ASSUME NEW b \in Anys, b # a
        PROVE  IF r.anys[b].value = 0 THEN at[b] = Nothing
               ELSE at[b] \in Contents /\ r.bytes[r.anys[b].value] = at[b]
    <3>1. r.anys[b] = s.anys[b] /\ at[b] = as[b]
      BY ZenonT(40), <1>1, <1>3, <2>1
    <3>2. s.anys[b].value # 0 => r.bytes[s.anys[b].value] = s.bytes[s.anys[b].value]
      BY ZenonT(40), <1>1, <1>5, <2>1
    <3> QED
      BY <1>2, <3>1, <3>2, ZenonT(40) DEF Holds
  <2> QED
    BY <1>3, <1>4, <2>1, ZenonT(40) DEF Holds
<1>10. Destructible(r)
  BY <1>1, <1>2 DEF Destructible
<1> QED
  BY <1>1, <1>3, <1>6, <1>7, <1>8, <1>9, <1>10, ZenonT(40) DEF Sound, at, r

(* The value of another type: constructed in the buffer or in a new block. *)
Filled(s, a, T, x) == CopyConstruct(Alloc(SetType(s, a, T), a, T), a, T, x)

FilledAt(r, s, a, T, x, p, h) ==
    /\ p \in Places
    /\ IF T = "object" THEN p = h /\ h \in Blocks \ s.allocated
       ELSE p = Buffer(a) /\ h = 0
    /\ r \in Storages
    /\ r.anys[a] = Cell(s.anys[a].built, p, T, h)
    /\ \A b \in Anys : b # a => r.anys[b] = s.anys[b]
    /\ r.bytes = [s.bytes EXCEPT ![p] = x]
    /\ r.allocated = s.allocated \cup ({h} \ {0})
    /\ r.constructed = s.constructed \cup (IF T = "integer" THEN {} ELSE {p})

LEMMA FilledIs ==
    ASSUME NEW s, NEW as, Sound(s, as), NEW a \in Anys, Empty(s, a),
           NEW T \in Types, NEW x \in Contents
    PROVE  \E p, h : FilledAt(Filled(s, a, T, x), s, a, T, x, p, h)
<1>1. s \in Storages /\ s.anys[a].heap = 0 /\ s.anys[a].value = 0
  BY ZenonT(40) DEF Sound, Empty
<1> DEFINE s1 == SetType(s, a, T)
           s2 == Alloc(s1, a, T)
           h == IF T = "object" THEN NewBlock(s) ELSE 0
           p == IF T = "object" THEN NewBlock(s) ELSE Buffer(a)
<1>2. OnlyCell(s1, s, a) /\ s1.anys[a] = Cell(s.anys[a].built, 0, T, 0)
  BY <1>1, SetTypeIs, ZenonT(40)
<1>3. T = "object" => NewBlock(s1) = NewBlock(s) /\ NewBlock(s) \in Blocks \ s.allocated
  BY <1>1, <1>2, BlockIsFree, ZenonT(40) DEF NewBlock, OnlyCell
<1> HIDE DEF s1
<1>4. /\ s2 \in Storages /\ s2.anys[a] = Cell(s.anys[a].built, p, T, h)
      /\ \A b \in Anys : b # a => s2.anys[b] = s.anys[b]
      /\ s2.bytes = s.bytes /\ s2.allocated = s.allocated \cup ({h} \ {0})
      /\ s2.constructed = s.constructed
  <2>1. CASE T # "object"
    <3>1. s2 = SetPointer(s1, a, Buffer(a))
      BY <2>1, ZenonT(40) DEF Alloc, FitsBuffer
    <3> QED
      BY <1>2, <2>1, <3>1, PlacesDiffer, SetValueIs DEF OnlyCell, Cell
  <2>2. CASE T = "object"
    <3> DEFINE b == NewBlock(s)
               s3 == SetHeap(s1, a, b)
               s4 == SetPointer(s3, a, b)
    <3>1. s2 = [s4 EXCEPT !.allocated = @ \cup {b}]
      BY <1>3, <2>2, ZenonT(40) DEF Alloc, FitsBuffer
    <3>2. b \in Blocks \ s.allocated /\ b \in Int /\ b # 0
      BY <1>3, <2>2, PlacesDiffer, ZenonT(40)
    <3> HIDE DEF b
    <3>3. OnlyCell(s3, s1, a) /\ s3.anys[a] = Cell(s.anys[a].built, 0, T, b)
      BY <1>2, <3>2, SetHeapIs DEF OnlyCell, Cell
    <3> HIDE DEF s3
    <3>4. OnlyCell(s4, s3, a) /\ s4.anys[a] = Cell(s.anys[a].built, b, T, b)
      BY <3>2, <3>3, SetValueIs DEF OnlyCell, Cell
    <3> HIDE DEF s4
    <3>5. /\ s2.anys = s4.anys /\ s2.bytes = s4.bytes /\ s2.constructed = s4.constructed
          /\ s2.allocated = s4.allocated \cup {b} /\ s2 \in Storages
      BY <3>1, <3>2, <3>4 DEF OnlyCell, Storages
    <3>6. p = b /\ h = b
      BY <2>2, ZenonT(40) DEF b
    <3> HIDE DEF p, h, s2
    <3> QED
      BY <1>2, <3>2, <3>3, <3>4, <3>5, <3>6 DEF OnlyCell
  <2> QED
    BY <2>1, <2>2, ZenonT(40)
<1>5. p \in Places /\ h \in Blocks \cup {0} /\ p \in Int
  BY <1>3, PlacesDiffer, ZenonT(40)
<1>6. Filled(s, a, T, x) = [s2 EXCEPT !.bytes[p] = x,
            !.constructed = IF T = "integer" THEN @ ELSE @ \cup {p}]
  BY <1>4 DEF Filled, CopyConstruct, Trivial, s1, Cell
<1>7. IF T = "object" THEN p = h /\ h \in Blocks \ s.allocated ELSE p = Buffer(a) /\ h = 0
  BY <1>3, ZenonT(40)
<1> HIDE DEF s2, p, h
<1>8. /\ Filled(s, a, T, x).anys = s2.anys /\ Filled(s, a, T, x).allocated = s2.allocated
      /\ Filled(s, a, T, x).bytes = [s.bytes EXCEPT ![p] = x]
      /\ Filled(s, a, T, x).constructed =
            s.constructed \cup (IF T = "integer" THEN {} ELSE {p})
      /\ Filled(s, a, T, x) \in Storages
  <2> DEFINE f == Filled(s, a, T, x)
             c == s2.constructed \cup (IF T = "integer" THEN {} ELSE {p})
  <2>1. /\ s2.bytes \in [Places -> AnyValues] /\ s2.constructed \in SUBSET Places
        /\ s2.anys \in [Anys -> Cells] /\ s2.allocated \in SUBSET Blocks
        /\ s2 = [anys |-> s2.anys, bytes |-> s2.bytes, allocated |-> s2.allocated,
                 constructed |-> s2.constructed]
    BY <1>4, ZenonT(40) DEF Storages
  <2>2. f = [anys |-> s2.anys, bytes |-> [s2.bytes EXCEPT ![p] = x],
             allocated |-> s2.allocated, constructed |-> c]
    BY <1>6, <2>1, ZenonT(40)
  <2>3. [s2.bytes EXCEPT ![p] = x] \in [Places -> AnyValues] /\ c \in SUBSET Places
    BY <1>5, <2>1, ZenonT(40) DEF AnyValues
  <2> HIDE DEF f, c
  <2>4. /\ f.anys = s2.anys /\ f.allocated = s2.allocated /\ f.constructed = c
        /\ f.bytes = [s2.bytes EXCEPT ![p] = x] /\ f \in Storages
    BY <2>1, <2>2, <2>3, ZenonT(40) DEF Storages
  <2> QED
    BY <1>4, <2>4, ZenonT(40) DEF f, c
<1>9. FilledAt(Filled(s, a, T, x), s, a, T, x, p, h)
  BY <1>4, <1>5, <1>7, <1>8, ZenonT(40) DEF FilledAt
<1> QED
  BY ZenonT(40), <1>9

LEMMA FilledSound ==
    ASSUME NEW s, NEW as, Sound(s, as), NEW a \in Anys, Empty(s, a), s.anys[a].built,
           NEW T \in Types, NEW x \in Contents
    PROVE  /\ Sound(Filled(s, a, T, x), [as EXCEPT ![a] = x])
           /\ \A b \in Anys : b # a => Filled(s, a, T, x).anys[b] = s.anys[b]
<1> DEFINE r == Filled(s, a, T, x)
           at == [as EXCEPT ![a] = x]
<1>1. PICK p, h : FilledAt(r, s, a, T, x, p, h)
  BY ZenonT(40), FilledIs
<1> HIDE DEF r
<1>2. /\ s \in Storages /\ as \in [Anys -> AnyValues]
      /\ Owned(s) /\ Holds(s, as) /\ Destructible(s)
      /\ \A b \in Anys : Empty(s, b) \/ InBuffer(s, b) \/ OnHeap(s, b)
  BY ZenonT(40) DEF Sound
<1>3. at \in [Anys -> AnyValues] /\ at[a] = x /\ \A b \in Anys : b # a => at[b] = as[b]
  BY <1>2, ZenonT(40) DEF AnyValues
<1> HIDE DEF at
<1>4. /\ r.anys[a].built /\ r.anys[a].value = p /\ r.anys[a].type = T /\ r.anys[a].heap = h
      /\ r \in Storages /\ \A b \in Anys : b # a => r.anys[b] = s.anys[b]
  BY <1>1 DEF FilledAt, Cell
<1>5. ASSUME NEW b \in Anys, b # a, s.anys[b].value # 0
      PROVE  s.anys[b].value \in Places /\ s.anys[b].value # p
  BY <1>1, <1>2, <1>5, PlacesDiffer DEF Empty, InBuffer, OnHeap, Storages, FilledAt
<1>6. InBuffer(r, a) \/ OnHeap(r, a)
  BY <1>1, <1>4, PlacesDiffer, ZenonT(40) DEF InBuffer, OnHeap, FilledAt, Types
<1>7. ASSUME NEW b \in Anys, b # a
      PROVE  Empty(r, b) \/ InBuffer(r, b) \/ OnHeap(r, b)
  <2>1. r.anys[b] = s.anys[b] /\ (Empty(s, b) \/ InBuffer(s, b) \/ OnHeap(s, b))
    BY <1>2, <1>4, <1>7, ZenonT(40)
  <2>2. s.anys[b].heap \in s.allocated => s.anys[b].heap \in r.allocated
    BY <1>1, ZenonT(40) DEF FilledAt
  <2> QED
    BY ZenonT(40), <2>1, <2>2 DEF Empty, InBuffer, OnHeap
<1>8. Owned(r)
  <2>1. ASSUME NEW b \in Anys, b # a, h # 0
        PROVE  s.anys[b].heap # h
    <3>1. h \in Blocks \ s.allocated /\ h # 0
      BY <1>1, <2>1, ZenonT(40) DEF FilledAt
    <3> QED
      BY <1>2, <3>1, ZenonT(40) DEF Empty, InBuffer, OnHeap
  <2>2. \A b, c \in Anys : b # c /\ r.anys[b].heap # 0 => r.anys[b].heap # r.anys[c].heap
    BY <1>2, <1>4, <2>1 DEF Owned
  <2>3. ASSUME NEW q \in r.allocated
        PROVE  \E b \in Anys : r.anys[b].heap = q
    <3>1. q \in s.allocated \/ q = h
      BY <1>1, ZenonT(40) DEF FilledAt
    <3>2. CASE q \in s.allocated
      <4>1. PICK b \in Anys : s.anys[b].heap = q
        BY <1>2, <3>2, ZenonT(40) DEF Owned
      <4>2. b # a
        BY <1>2, <3>2, <4>1, PlacesDiffer DEF Empty, Storages
      <4> QED
        BY <1>4, <4>1, <4>2, ZenonT(40)
    <3> QED
      BY <1>4, <3>1, <3>2, ZenonT(40)
  <2> QED
    BY <2>2, <2>3, ZenonT(40) DEF Owned
<1>9. Holds(r, at)
  <2>1. r.bytes[p] = x /\ \A q \in Places : q # p => r.bytes[q] = s.bytes[q]
    BY <1>1, <1>2 DEF FilledAt, Storages
  <2>2. p # 0
    BY <1>1, PlacesDiffer, ZenonT(40) DEF FilledAt
  <2>3. ASSUME NEW b \in Anys, b # a
        PROVE  IF r.anys[b].value = 0 THEN at[b] = Nothing
               ELSE at[b] \in Contents /\ r.bytes[r.anys[b].value] = at[b]
    <3>1. r.anys[b] = s.anys[b] /\ at[b] = as[b]
      BY ZenonT(40), <1>3, <1>4, <2>3
    <3>2. s.anys[b].value # 0 => r.bytes[s.anys[b].value] = s.bytes[s.anys[b].value]
      BY ZenonT(40), <1>5, <2>1, <2>3
    <3> QED
      BY <1>2, <3>1, <3>2, ZenonT(40) DEF Holds
  <2> QED
    BY <1>3, <1>4, <2>1, <2>2, <2>3, ZenonT(40) DEF Holds
<1>10. Destructible(r)
  <2> SUFFICES ASSUME Moved \subseteq {"integer"}, NEW q \in r.constructed
               PROVE  \E b \in Anys : r.anys[b].value = q /\ r.anys[b].type # "integer"
    BY ZenonT(40) DEF Destructible
  <2>1. q \in s.constructed \/ (q = p /\ T # "integer")
    BY <1>1, ZenonT(40) DEF FilledAt
  <2>2. CASE q \in s.constructed
    <3>1. PICK b \in Anys : s.anys[b].value = q /\ s.anys[b].type # "integer"
      BY <1>2, <2>2, ZenonT(40) DEF Destructible
    <3>2. b # a
      BY <1>2, <2>2, <3>1, PlacesDiffer, ZenonT(40) DEF Empty, Storages
    <3> QED
      BY <1>4, <3>1, <3>2, ZenonT(40)
  <2> QED
    BY <1>4, <2>1, <2>2, ZenonT(40)
<1> QED
  BY ZenonT(40), <1>3, <1>4, <1>6, <1>7, <1>8, <1>9, <1>10 DEF Sound, at, r

(* A constructor and the destructor change only whether the any exists.    *)
LEMMA BuiltSound ==
    ASSUME NEW s, NEW as, Sound(s, as), NEW a \in Anys, Empty(s, a), NEW v \in BOOLEAN
    PROVE  LET r == [s EXCEPT !.anys[a] = Cell(v, 0, "none", 0)]
           IN /\ Sound(r, as) /\ Empty(r, a) /\ r.anys[a].built = v
              /\ \A b \in Anys : b # a => r.anys[b] = s.anys[b]
<1> DEFINE r == [s EXCEPT !.anys[a] = Cell(v, 0, "none", 0)]
<1>1. /\ s \in Storages /\ as \in [Anys -> AnyValues]
      /\ Owned(s) /\ Holds(s, as) /\ Destructible(s)
      /\ \A b \in Anys : Empty(s, b) \/ InBuffer(s, b) \/ OnHeap(s, b)
  BY ZenonT(40) DEF Sound
<1>2. /\ r \in Storages /\ r.anys[a] = Cell(v, 0, "none", 0)
      /\ \A b \in Anys : b # a => r.anys[b] = s.anys[b]
      /\ r.bytes = s.bytes /\ r.allocated = s.allocated /\ r.constructed = s.constructed
  <2>1. Cell(v, 0, "none", 0) \in Cells
    BY DEF Cell, Cells
  <2> QED
    BY <1>1, <2>1, ZenonT(40) DEF Storages
<1> HIDE DEF r
<1>3. /\ r.anys[a].built = v /\ r.anys[a].value = 0 /\ r.anys[a].type = "none"
      /\ r.anys[a].heap = 0
  BY <1>2 DEF Cell
<1>4. s.anys[a].value = 0 /\ s.anys[a].heap = 0
  BY ZenonT(40) DEF Empty
<1>5. \A b \in Anys : r.anys[b].value = s.anys[b].value /\ r.anys[b].heap = s.anys[b].heap
  BY <1>2, <1>3, <1>4, ZenonT(40)
<1>6. \A b \in Anys : Empty(r, b) \/ InBuffer(r, b) \/ OnHeap(r, b)
  BY ZenonT(40), <1>1, <1>2, <1>3 DEF Empty, InBuffer, OnHeap
<1>7. Owned(r)
  BY <1>1, <1>2, <1>5 DEF Owned
<1>8. Holds(r, as)
  BY ZenonT(40), <1>1, <1>2, <1>5 DEF Holds
<1>9. Destructible(r)
  <2>1. 0 \notin s.constructed
    BY <1>1, PlacesDiffer, ZenonT(40) DEF Storages
  <2> QED
    BY <1>1, <1>2, <1>4, <2>1 DEF Destructible
<1> QED
  BY ZenonT(40), <1>1, <1>2, <1>3, <1>6, <1>7, <1>8, <1>9 DEF Sound, Empty, r

(* operator=(const T&) in place.                                           *)
LEMMA OverwriteSound ==
    ASSUME NEW s, NEW as, Sound(s, as), NEW a \in Anys, NEW x \in Contents,
           s.anys[a].type \in Types
    PROVE  Sound([s EXCEPT !.bytes[s.anys[a].value] = x], [as EXCEPT ![a] = x])
<1> DEFINE p == s.anys[a].value
           r == [s EXCEPT !.bytes[p] = x]
           at == [as EXCEPT ![a] = x]
<1>1. /\ s \in Storages /\ as \in [Anys -> AnyValues]
      /\ Owned(s) /\ Holds(s, as) /\ Destructible(s)
      /\ \A b \in Anys : Empty(s, b) \/ InBuffer(s, b) \/ OnHeap(s, b)
  BY ZenonT(40) DEF Sound
<1>2. p \in Places /\ p # 0 /\ (InBuffer(s, a) \/ OnHeap(s, a))
  BY <1>1, PlacesDiffer DEF Empty, InBuffer, OnHeap, Types, Storages
<1>3. /\ r \in Storages /\ r.anys = s.anys /\ r.bytes = [s.bytes EXCEPT ![p] = x]
      /\ r.allocated = s.allocated /\ r.constructed = s.constructed
  BY <1>1, <1>2, ZenonT(40) DEF Storages, AnyValues
<1>4. at \in [Anys -> AnyValues] /\ at[a] = x /\ \A b \in Anys : b # a => at[b] = as[b]
  BY <1>1, ZenonT(40) DEF AnyValues
<1>5. \A b \in Anys : b # a /\ s.anys[b].value # 0 =>
          s.anys[b].value \in Places /\ s.anys[b].value # p
  BY <1>1, <1>2, PlacesDiffer DEF Empty, InBuffer, OnHeap, Owned, Storages
<1>6. r.bytes[p] = x /\ \A q \in Places : q # p => r.bytes[q] = s.bytes[q]
  BY <1>1, <1>2, <1>3, ZenonT(40) DEF Storages
<1>7. p = r.anys[a].value
  BY <1>3, ZenonT(40)
<1> HIDE DEF r, p, at
<1>8. Holds(r, at)
  <2>1. ASSUME NEW b \in Anys, b # a
        PROVE  IF r.anys[b].value = 0 THEN at[b] = Nothing
               ELSE at[b] \in Contents /\ r.bytes[r.anys[b].value] = at[b]
    <3>1. r.anys[b] = s.anys[b] /\ at[b] = as[b]
      BY ZenonT(40), <1>3, <1>4, <2>1
    <3>2. s.anys[b].value # 0 => r.bytes[s.anys[b].value] = s.bytes[s.anys[b].value]
      BY ZenonT(40), <1>5, <1>6, <2>1
    <3> QED
      BY <1>1, <3>1, <3>2, ZenonT(40) DEF Holds
  <2> QED
    BY <1>2, <1>4, <1>6, <1>7, <2>1, ZenonT(40) DEF Holds
<1>9. \A b \in Anys : Empty(r, b) \/ InBuffer(r, b) \/ OnHeap(r, b)
  BY ZenonT(40), <1>1, <1>3 DEF Empty, InBuffer, OnHeap
<1>10. Owned(r) /\ Destructible(r)
  BY <1>1, <1>3 DEF Owned, Destructible
<1> QED
  BY ZenonT(40), <1>3, <1>4, <1>8, <1>9, <1>10 DEF Sound, r, at, p

(* What a move leaves of its source: nothing that was on the heap, and no  *)
(* destructor to call unless Moved has a type that needs it.               *)
LEMMA DropSound ==
    ASSUME NEW s, NEW as, Sound(s, as), NEW b \in Anys, Empty(s, b) \/ InBuffer(s, b),
           s.anys[b].type \in Moved \cup {"none"}
    PROVE  Sound(SetType(SetPointer(s, b, 0), b, "none"), [as EXCEPT ![b] = Nothing])
<1> DEFINE s1 == SetPointer(s, b, 0)
           r == SetType(s1, b, "none")
           at == [as EXCEPT ![b] = Nothing]
<1>1. /\ s \in Storages /\ as \in [Anys -> AnyValues]
      /\ Owned(s) /\ Holds(s, as) /\ Destructible(s)
      /\ \A c \in Anys : Empty(s, c) \/ InBuffer(s, c) \/ OnHeap(s, c)
  BY ZenonT(40) DEF Sound
<1>2. s.anys[b].heap = 0
  BY ZenonT(40) DEF Empty, InBuffer
<1>3. OnlyCell(s1, s, b) /\ s1.anys[b] = Cell(s.anys[b].built, 0, s.anys[b].type, 0)
  BY <1>1, <1>2, SetValueIs
<1> HIDE DEF s1
<1>4. OnlyCell(r, s1, b) /\ r.anys[b] = Cell(s.anys[b].built, 0, "none", 0)
  BY <1>3, SetTypeIs DEF OnlyCell, Cell
<1>5. at \in [Anys -> AnyValues] /\ at[b] = Nothing /\ \A c \in Anys : c # b => at[c] = as[c]
  BY <1>1, ZenonT(40) DEF AnyValues
<1> HIDE DEF r, at
<1>6. /\ r \in Storages /\ \A c \in Anys : c # b => r.anys[c] = s.anys[c]
      /\ r.bytes = s.bytes /\ r.allocated = s.allocated /\ r.constructed = s.constructed
      /\ r.anys[b].value = 0 /\ r.anys[b].type = "none" /\ r.anys[b].heap = 0
  BY <1>3, <1>4 DEF OnlyCell, Cell
<1>7. Empty(r, b) /\ \A c \in Anys : r.anys[c].heap = s.anys[c].heap
  BY <1>2, <1>6, ZenonT(40) DEF Empty
<1>8. \A c \in Anys : Empty(r, c) \/ InBuffer(r, c) \/ OnHeap(r, c)
  <2>1. ASSUME NEW c \in Anys, c # b
        PROVE  Empty(r, c) \/ InBuffer(r, c) \/ OnHeap(r, c)
    <3>1. r.anys[c] = s.anys[c] /\ (Empty(s, c) \/ InBuffer(s, c) \/ OnHeap(s, c))
      BY ZenonT(40), <1>1, <1>6, <2>1
    <3> QED
      BY ZenonT(40), <1>6, <3>1 DEF Empty, InBuffer, OnHeap
  <2> QED
    BY ZenonT(40), <1>7, <2>1
<1>9. Owned(r)
  BY <1>1, <1>6, <1>7 DEF Owned
<1>10. Holds(r, at)
  BY <1>1, <1>5, <1>6, ZenonT(40) DEF Holds
<1>11. Destructible(r)
  <2> SUFFICES ASSUME Moved \subseteq {"integer"}, NEW q \in r.constructed
               PROVE  \E c \in Anys : r.anys[c].value = q /\ r.anys[c].type # "integer"
    BY ZenonT(40) DEF Destructible
  <2>1. PICK c \in Anys : s.anys[c].value = q /\ s.anys[c].type # "integer"
    BY <1>1, <1>6, ZenonT(40) DEF Destructible
  <2>2. q # 0
    BY <1>6, PlacesDiffer, ZenonT(40) DEF Storages
  <2>3. c # b
    BY <2>1, <2>2, ZenonT(40) DEF Empty, InBuffer
  <2> QED
    BY <1>6, <2>1, <2>3, ZenonT(40)
<1> QED
  BY ZenonT(40), <1>5, <1>6, <1>8, <1>9, <1>10, <1>11 DEF Sound, r, s1, at

(* The statements of a copy, into an any that is empty.                    *)
LEMMA CopyFromSound ==
    ASSUME NEW s, NEW as, Sound(s, as), NEW a \in Anys, Empty(s, a), s.anys[a].built,
           NEW b \in Anys, a # b
    PROVE  /\ Sound(CopyFrom(s, a, b), [as EXCEPT ![a] = as[b]])
           /\ CopyFrom(s, a, b).anys[b] = s.anys[b]
<1>1. /\ s \in Storages /\ as \in [Anys -> AnyValues] /\ Holds(s, as)
      /\ Empty(s, b) \/ InBuffer(s, b) \/ OnHeap(s, b)
  BY ZenonT(40) DEF Sound
<1>2. CASE s.anys[b].value = 0
  <2>1. Empty(s, b)
    BY <1>1, <1>2, PlacesDiffer, ZenonT(40) DEF InBuffer, OnHeap, Storages
  <2>2. s.anys[a] \in Cells /\ s.anys[a] = Cell(s.anys[a].built, 0, "none", 0)
    BY <1>1, ZenonT(40) DEF Storages, Cells, Cell, Empty
  <2>3. CopyFrom(s, a, b) = SetType(s, a, "none")
    BY <1>2, <2>1, ZenonT(40) DEF CopyFrom, Empty
  <2>4. SetType(s, a, "none") = s
    BY <1>1, <2>2 DEF SetType, Storages, Cells, Cell
  <2>5. as[b] = Nothing /\ as[a] = Nothing
    BY <1>1, <1>2, ZenonT(40) DEF Holds, Empty
  <2>6. [as EXCEPT ![a] = as[b]] = as
    BY <1>1, <2>5, ZenonT(40)
  <2> QED
    BY <2>3, <2>4, <2>6, ZenonT(40)
<1>3. CASE s.anys[b].value # 0
  <2> DEFINE T == s.anys[b].type
             x == s.bytes[s.anys[b].value]
  <2>1. T \in Types
    BY <1>1, <1>3, ZenonT(40) DEF Empty, InBuffer, OnHeap, Types
  <2>2. x = as[b] /\ x \in Contents
    BY <1>1, <1>3, ZenonT(40) DEF Holds
  <2>3. CopyFrom(s, a, b) = Filled(s, a, T, x)
    BY <1>3, ZenonT(40) DEF CopyFrom, Filled
  <2> HIDE DEF T, x
  <2>4. /\ Sound(Filled(s, a, T, x), [as EXCEPT ![a] = x])
        /\ \A c \in Anys : c # a => Filled(s, a, T, x).anys[c] = s.anys[c]
    <3>1. x \in Contents
      BY <2>2, ZenonT(40)
    <3> QED
      BY <2>1, <3>1, FilledSound, ZenonT(40)
  <2> QED
    BY <2>2, <2>3, <2>4, ZenonT(40)
<1> QED
  BY <1>2, <1>3, ZenonT(40)

(* The statements of a move from an any without a block.                   *)
LEMMA MoveFromSound ==
    ASSUME NEW s, NEW as, Sound(s, as), NEW a \in Anys, Empty(s, a), s.anys[a].built,
           NEW b \in Anys, a # b, s.anys[b].type \in Moved \cup {"none"},
           "object" \notin Moved
    PROVE  Sound(MoveFrom(s, a, b), [as EXCEPT ![a] = as[b], ![b] = Nothing])
<1> DEFINE r == CopyFrom(s, a, b)
           at == [as EXCEPT ![a] = as[b]]
<1>1. /\ s \in Storages /\ as \in [Anys -> AnyValues]
      /\ Empty(s, b) \/ InBuffer(s, b)
  BY ZenonT(40) DEF Sound, OnHeap
<1>2. Sound(r, at) /\ r.anys[b] = s.anys[b]
  BY ZenonT(40), CopyFromSound
<1>3. (IF IsInBuffer(b, s.anys[b].value) THEN CopyFrom(s, a, b)
       ELSE SetPointer(SetType(s, a, s.anys[b].type), a, s.anys[b].value)) = r
  <2>1. CASE InBuffer(s, b)
    BY <2>1, ZenonT(40) DEF InBuffer, IsInBuffer
  <2>2. CASE Empty(s, b)
    <3>1. ~IsInBuffer(b, s.anys[b].value)
      BY <2>2, PlacesDiffer, ZenonT(40) DEF Empty, IsInBuffer
    <3>2. r = SetType(s, a, "none")
      BY <2>2, ZenonT(40) DEF Empty, CopyFrom
    <3> HIDE DEF r
    <3>3. OnlyCell(r, s, a) /\ r.anys[a] = Cell(s.anys[a].built, 0, "none", 0)
      <4>1. s.anys[a].value = 0 /\ s.anys[a].heap = 0
        BY ZenonT(40) DEF Empty
      <4>2. "none" \in Types \cup {"none"} /\ s \in Storages
        BY <1>1, ZenonT(40)
      <4>3. /\ OnlyCell(SetType(s, a, "none"), s, a)
            /\ SetType(s, a, "none").anys[a] =
                  Cell(s.anys[a].built, s.anys[a].value, "none", s.anys[a].heap)
        BY ZenonT(40), <4>2, SetTypeIs
      <4> QED
        BY <3>2, <4>1, <4>3, ZenonT(40)
    <3>4. r \in Storages /\ r.anys[a].value = 0
      BY <3>3 DEF OnlyCell, Cell
    <3>5. SetPointer(r, a, 0) = r
      BY <3>4 DEF SetPointer, Storages, Cells
    <3> QED
      BY <2>2, <3>1, <3>2, <3>5, ZenonT(40) DEF Empty
  <2> QED
    BY <1>1, <2>1, <2>2, ZenonT(40)
<1>4. MoveFrom(s, a, b) = SetType(SetPointer(r, b, 0), b, "none")
  BY <1>3, ZenonT(40) DEF MoveFrom
<1>5. [at EXCEPT ![b] = Nothing] = [as EXCEPT ![a] = as[b], ![b] = Nothing]
  BY ZenonT(40)
<1> HIDE DEF r, at
<1>6. Empty(r, b) \/ InBuffer(r, b)
  BY ZenonT(40), <1>1, <1>2 DEF Empty, InBuffer
<1>7. Sound(SetType(SetPointer(r, b, 0), b, "none"), [at EXCEPT ![b] = Nothing])
  BY ZenonT(40), <1>2, <1>6, DropSound
<1> QED
  BY ZenonT(40), <1>4, <1>5, <1>7
-----------------------------------------------------------------------------
LEMMA Becoming ==
    ASSUME NEW s \in Storages, Becomes(s)
    PROVE  Storage' = s
<1>1. s = [anys |-> s.anys, bytes |-> s.bytes, allocated |-> s.allocated,
           constructed |-> s.constructed]
  BY ZenonT(40) DEF Storages
<1>2. Storage' = [anys |-> anys', bytes |-> bytes', allocated |-> allocated',
                  constructed |-> constructed']
  BY ZenonT(40) DEF Storage
<1> QED
  BY <1>1, <1>2, ZenonT(40) DEF Becomes

LEMMA BecomesSound ==
    ASSUME NEW s, NEW as, Sound(s, as), Becomes(s), assigned' = as
    PROVE  Sound(Storage, assigned)'
<1>1. Storage' = s
  BY Becoming, ZenonT(40) DEF Sound
<1> QED
  BY <1>1, ZenonT(40)

LEMMA CellsBuilt == Built = Cell(TRUE, 0, "none", 0) /\ Unbuilt = Cell(FALSE, 0, "none", 0)
<1>1. Unbuilt = Cell(FALSE, 0, "none", 0)
  BY ZenonT(40) DEF Unbuilt, Cell
<1>2. ASSUME NEW v \in BOOLEAN, NEW w \in BOOLEAN
      PROVE  [Cell(v, 0, "none", 0) EXCEPT !.built = w] = Cell(w, 0, "none", 0)
  BY DEF Cell
<1> QED
  BY ZenonT(40), <1>1, <1>2 DEF Built

(* An any that does not exist is empty.                                    *)
LEMMA UnbuiltIsEmpty ==
    ASSUME Sound(Storage, assigned), NEW a \in Anys, ~IsBuilt(a)
    PROVE  Empty(Storage, a) /\ assigned[a] = Nothing
<1>1. Storage.anys = anys
  BY ZenonT(40) DEF Storage
<1>2. Empty(Storage, a)
  BY <1>1, ZenonT(40) DEF Sound, IsBuilt, InBuffer, OnHeap
<1> QED
  BY <1>2, ZenonT(40) DEF Sound, Holds, Empty

(* operator=(const T&).                                                    *)
LEMMA AssignValueSound ==
    ASSUME NEW s, NEW as, Sound(s, as), NEW a \in Anys, s.anys[a].built,
           NEW T \in Types, NEW x \in Contents
    PROVE  Sound(AssignValue(s, a, T, x), [as EXCEPT ![a] = x])
<1>1. CASE s.anys[a].type = T
  BY ZenonT(40), <1>1, OverwriteSound DEF AssignValue
<1>2. CASE s.anys[a].type # T
  <2> DEFINE r == ResetStorage(s, a)
             at == [as EXCEPT ![a] = Nothing]
  <2>1. Sound(r, at) /\ Empty(r, a)
    BY ZenonT(40), ResetSound
  <2>2. r.anys[a].built = s.anys[a].built
    <3>1. Emptied(r, s, a)
      BY ZenonT(40), ResetIs
    <3> HIDE DEF r
    <3> QED
      BY <3>1 DEF Emptied, Cell
  <2>3. [at EXCEPT ![a] = x] = [as EXCEPT ![a] = x]
    BY ZenonT(40)
  <2>4. AssignValue(s, a, T, x) = Filled(r, a, T, x)
    BY <1>2, ZenonT(40) DEF AssignValue, Filled
  <2> HIDE DEF r, at
  <2>5. r.anys[a].built
    BY ZenonT(40), <2>2
  <2>6. Sound(Filled(r, a, T, x), [at EXCEPT ![a] = x])
    BY ZenonT(40), <2>1, <2>5, FilledSound
  <2> QED
    BY ZenonT(40), <2>3, <2>4, <2>6
<1> QED
  BY <1>1, <1>2, ZenonT(40)

(* The any that a constructor or an assignment writes to: empty and built. *)
Target(a) == IF IsBuilt(a) THEN ResetStorage(Storage, a) ELSE [Storage EXCEPT !.anys[a] = Built]

LEMMA TargetSound ==
    ASSUME Sound(Storage, assigned), NEW a \in Anys
    PROVE  /\ Sound(Target(a), [assigned EXCEPT ![a] = Nothing])
           /\ Empty(Target(a), a) /\ Target(a).anys[a].built
           /\ \A b \in Anys : b # a => Target(a).anys[b] = anys[b]
<1>1. Storage.anys = anys /\ assigned \in [Anys -> AnyValues]
  BY ZenonT(40) DEF Storage, Sound
<1>2. CASE IsBuilt(a)
  <2>1. Target(a) = ResetStorage(Storage, a)
    BY <1>2, ZenonT(40) DEF Target
  <2>2. Emptied(Target(a), Storage, a)
    BY ZenonT(40), <2>1, ResetIs
  <2>3. Target(a).anys[a].built = Storage.anys[a].built
    BY <2>2 DEF Emptied, Cell
  <2>4. \A b \in Anys : b # a => Target(a).anys[b] = anys[b]
    BY ZenonT(40), <1>1, <2>2 DEF Emptied
  <2>5. Target(a).anys[a].built
    BY ZenonT(40), <1>1, <1>2, <2>3 DEF IsBuilt
  <2>6. /\ Sound(ResetStorage(Storage, a), [assigned EXCEPT ![a] = Nothing])
        /\ Empty(ResetStorage(Storage, a), a)
    BY ZenonT(40), ResetSound
  <2> QED
    BY <2>1, <2>4, <2>5, <2>6, ZenonT(40)
<1>3. CASE ~IsBuilt(a)
  <2>1. Empty(Storage, a) /\ assigned[a] = Nothing
    BY ZenonT(40), <1>3, UnbuiltIsEmpty
  <2>2. [assigned EXCEPT ![a] = Nothing] = assigned
    BY <1>1, <2>1, ZenonT(40)
  <2>3. Target(a) = [Storage EXCEPT !.anys[a] = Cell(TRUE, 0, "none", 0)]
    BY ZenonT(40), <1>3, CellsBuilt DEF Target
  <2>4. /\ Sound(Target(a), assigned) /\ Empty(Target(a), a)
        /\ Target(a).anys[a].built = TRUE
        /\ \A b \in Anys : b # a => Target(a).anys[b] = Storage.anys[b]
    <3> DEFINE r == [Storage EXCEPT !.anys[a] = Cell(TRUE, 0, "none", 0)]
    <3>1. /\ Sound(r, assigned) /\ Empty(r, a) /\ r.anys[a].built = TRUE
          /\ \A b \in Anys : b # a => r.anys[b] = Storage.anys[b]
      BY ZenonT(40), <2>1, BuiltSound
    <3> HIDE DEF r
    <3>2. Target(a) = r
      BY ZenonT(40), <2>3 DEF r
    <3> QED
      BY <3>1, <3>2, ZenonT(40)
  <2> QED
    BY ZenonT(40), <1>1, <2>2, <2>4
<1> QED
  BY ZenonT(40), <1>2, <1>3

LEMMA ConstructSound ==
    ASSUME Sound(Storage, assigned), NEW a \in Anys, Construct(a)
    PROVE  Sound(Storage, assigned)'
<1> DEFINE s == [Storage EXCEPT !.anys[a] = Built]
<1>1. ~IsBuilt(a)
  BY ZenonT(40) DEF Construct
<1>2. s = Target(a)
  BY ZenonT(40), <1>1 DEF Target
<1>3. assigned \in [Anys -> AnyValues] /\ assigned[a] = Nothing
  BY <1>1, UnbuiltIsEmpty, ZenonT(40) DEF Sound
<1>4. [assigned EXCEPT ![a] = Nothing] = assigned
  BY <1>3, ZenonT(40)
<1> HIDE DEF s
<1>5. Sound(s, assigned) /\ s.anys[a].built
  BY ZenonT(40), <1>2, <1>4, TargetSound
<1>6. CASE Becomes(s) /\ UNCHANGED assigned
  BY ZenonT(40), <1>5, <1>6, BecomesSound
<1>7. ASSUME NEW T \in Types, NEW x \in Contents, Becomes(AssignValue(s, a, T, x)),
             assigned' = [assigned EXCEPT ![a] = x]
      PROVE  Sound(Storage, assigned)'
  <2>1. Sound(AssignValue(s, a, T, x), [assigned EXCEPT ![a] = x])
    BY ZenonT(40), <1>5, AssignValueSound
  <2> QED
    BY ZenonT(40), <1>7, <2>1, BecomesSound
<1> QED
  BY ZenonT(40), <1>6, <1>7 DEF Construct, s

LEMMA AssignSound ==
    ASSUME Sound(Storage, assigned), NEW a \in Anys, Assign(a)
    PROVE  Sound(Storage, assigned)'
<1>1. Storage.anys[a].built
  BY ZenonT(40) DEF Assign, IsBuilt, Storage
<1>2. PICK T \in Types, x \in Contents :
          /\ Becomes(AssignValue(Storage, a, T, x))
          /\ assigned' = [assigned EXCEPT ![a] = x]
  BY ZenonT(40) DEF Assign
<1>3. Sound(AssignValue(Storage, a, T, x), [assigned EXCEPT ![a] = x])
  BY ZenonT(40), <1>1, AssignValueSound
<1> QED
  BY ZenonT(40), <1>2, <1>3, BecomesSound

LEMMA CopySound ==
    ASSUME Sound(Storage, assigned), NEW a \in Anys, NEW b \in Anys, Copy(a, b)
    PROVE  Sound(Storage, assigned)'
<1> DEFINE at == [assigned EXCEPT ![a] = Nothing]
<1>1. /\ a # b /\ Becomes(CopyFrom(Target(a), a, b))
      /\ assigned' = [assigned EXCEPT ![a] = assigned[b]]
  BY ZenonT(40) DEF Copy, Target
<1>2. [at EXCEPT ![a] = at[b]] = assigned'
  BY <1>1, ZenonT(40) DEF Sound
<1> HIDE DEF at
<1>3. Sound(Target(a), at) /\ Empty(Target(a), a) /\ Target(a).anys[a].built
  BY ZenonT(40), TargetSound DEF at
<1>4. Sound(CopyFrom(Target(a), a, b), [at EXCEPT ![a] = at[b]])
  BY ZenonT(40), <1>1, <1>3, CopyFromSound
<1> QED
  BY ZenonT(40), <1>1, <1>2, <1>4, BecomesSound

LEMMA MoveSound ==
    ASSUME Sound(Storage, assigned), NEW a \in Anys, NEW b \in Anys, MoveAny(a, b),
           "object" \notin Moved
    PROVE  Sound(Storage, assigned)'
<1> DEFINE at == [assigned EXCEPT ![a] = Nothing]
<1>1. /\ a # b /\ Becomes(MoveFrom(Target(a), a, b))
      /\ anys[b].type \in Moved \cup {"none"}
      /\ assigned' = [assigned EXCEPT ![a] = assigned[b], ![b] = Nothing]
  BY ZenonT(40) DEF MoveAny, Target
<1>2. [at EXCEPT ![a] = at[b], ![b] = Nothing] = assigned'
  BY <1>1, ZenonT(40) DEF Sound
<1> HIDE DEF at
<1>3. Sound(Target(a), at) /\ Empty(Target(a), a) /\ Target(a).anys[a].built
  BY ZenonT(40), TargetSound DEF at
<1>4. Target(a).anys[b] = anys[b]
  BY ZenonT(40), <1>1, TargetSound
<1>5. Target(a).anys[b].type \in Moved \cup {"none"}
  BY <1>1, <1>4, ZenonT(40)
<1>6. Sound(MoveFrom(Target(a), a, b), [at EXCEPT ![a] = at[b], ![b] = Nothing])
  BY ZenonT(40), <1>1, <1>3, <1>5, MoveFromSound
<1> QED
  BY ZenonT(40), <1>1, <1>2, <1>6, BecomesSound

LEMMA ResetAnySound ==
    ASSUME Sound(Storage, assigned), NEW a \in Anys, ResetAny(a)
    PROVE  Sound(Storage, assigned)'
<1>1. Becomes(ResetStorage(Storage, a)) /\ assigned' = [assigned EXCEPT ![a] = Nothing]
  BY ZenonT(40) DEF ResetAny
<1>2. Sound(ResetStorage(Storage, a), [assigned EXCEPT ![a] = Nothing])
  BY ZenonT(40), ResetSound
<1> QED
  BY ZenonT(40), <1>1, <1>2, BecomesSound

LEMMA DestroySound ==
    ASSUME Sound(Storage, assigned), NEW a \in Anys, Destroy(a)
    PROVE  Sound(Storage, assigned)'
<1> DEFINE s == ResetStorage(Storage, a)
           at == [assigned EXCEPT ![a] = Nothing]
           r == [s EXCEPT !.anys[a] = Cell(FALSE, 0, "none", 0)]
<1>1. Sound(s, at) /\ Empty(s, a)
  BY ZenonT(40), ResetSound
<1>2. [Unbuilt EXCEPT !.heap = s.anys[a].heap] = Cell(FALSE, 0, "none", 0)
  <2>1. s.anys[a].heap = 0
    BY <1>1, ZenonT(40) DEF Empty
  <2> HIDE DEF s
  <2>2. [Cell(FALSE, 0, "none", 0) EXCEPT !.heap = 0] = Cell(FALSE, 0, "none", 0)
    BY DEF Cell
  <2> QED
    BY ZenonT(40), <2>1, <2>2, CellsBuilt
<1>3. Becomes(r) /\ assigned' = at
  BY ZenonT(40), <1>2 DEF Destroy
<1> HIDE DEF s, at
<1>4. Sound(r, at)
  BY ZenonT(40), <1>1, BuiltSound
<1> QED
  BY ZenonT(40), <1>3, <1>4, BecomesSound
-----------------------------------------------------------------------------
(* The operations of an any need the type information, and leave it.       *)
LEMMA OperationsKeepCount ==
    ASSUME Counted, Alive \/ InUse, UNCHANGED typeVars
    PROVE  Counted'
<1>1. refcount > 0
  BY DEF Counted, Alive
<1> QED
  BY <1>1, ZenonT(40) DEF Counted, typeVars

LEMMA InUseKept ==
    ASSUME UNCHANGED anyVars
    PROVE  InUse' = InUse
BY ZenonT(40) DEF anyVars, InUse, IsBuilt

LEMMA CountKept ==
    ASSUME Counted, StorageNext
    PROVE  Counted'
<1>1. ASSUME NEW a \in Anys, Construct(a) \/ Assign(a) \/ ResetAny(a) \/ Destroy(a)
      PROVE  Counted'
  <2>1. (Alive \/ InUse) /\ UNCHANGED typeVars
    BY ZenonT(40), <1>1 DEF Construct, Assign, ResetAny, Destroy, InUse
  <2> QED
    BY ZenonT(40), <2>1, OperationsKeepCount
<1>2. ASSUME NEW a \in Anys, NEW b \in Anys, Copy(a, b) \/ MoveAny(a, b)
      PROVE  Counted'
  <2>1. Alive /\ UNCHANGED typeVars
    BY ZenonT(40), <1>2 DEF Copy, MoveAny
  <2> QED
    BY ZenonT(40), <2>1, OperationsKeepCount
<1>3. CASE Initialize /\ UNCHANGED anyVars
  BY <1>3 DEF Counted, Initialize
<1>4. CASE Terminate(InUse) /\ UNCHANGED anyVars
  <2>1. InUse' = InUse
    BY <1>4, InUseKept, ZenonT(40)
  <2> QED
    BY <1>4, <2>1 DEF Counted, Terminate, Release
<1>5. CASE Exit(InUse) /\ UNCHANGED anyVars
  <2>1. InUse' = InUse
    BY <1>5, InUseKept, ZenonT(40)
  <2> QED
    BY <1>5, <2>1 DEF Counted, Exit, Release
<1> QED
  BY <1>1, <1>2, <1>3, <1>4, <1>5, ZenonT(40) DEF StorageNext

LEMMA SoundKept ==
    ASSUME Sound(Storage, assigned), StorageNext, "object" \notin Moved
    PROVE  Sound(Storage, assigned)'
<1>1. ASSUME NEW a \in Anys, Construct(a) \/ Assign(a) \/ ResetAny(a) \/ Destroy(a)
      PROVE  Sound(Storage, assigned)'
  BY ZenonT(40), <1>1, ConstructSound, AssignSound, ResetAnySound, DestroySound
<1>2. ASSUME NEW a \in Anys, NEW b \in Anys, Copy(a, b) \/ MoveAny(a, b)
      PROVE  Sound(Storage, assigned)'
  BY ZenonT(40), <1>2, CopySound, MoveSound
<1>3. CASE UNCHANGED anyVars
  <2>1. Storage' = Storage /\ assigned' = assigned
    BY <1>3, ZenonT(40) DEF anyVars, Storage
  <2> QED
    BY <2>1, ZenonT(40)
<1> QED
  BY ZenonT(40), <1>1, <1>2, <1>3 DEF StorageNext

LEMMA InitSound ==
    ASSUME StorageInit
    PROVE  Sound(Storage, assigned)
<1>1. /\ Storage.anys = [a \in Anys |-> Unbuilt]
      /\ Storage.bytes = [p \in Places |-> Nothing]
      /\ Storage.allocated = {} /\ Storage.constructed = {}
      /\ assigned = [a \in Anys |-> Nothing]
  BY ZenonT(40) DEF StorageInit, Storage
<1>2. Unbuilt \in Cells
  BY DEF Unbuilt, Cells
<1>3. Storage \in Storages /\ assigned \in [Anys -> AnyValues]
  BY <1>1, <1>2, ZenonT(40) DEF Storages, Storage, AnyValues
<1>4. \A a \in Anys : /\ Storage.anys[a].value = 0 /\ Storage.anys[a].type = "none"
                      /\ Storage.anys[a].heap = 0 /\ assigned[a] = Nothing
  BY <1>1 DEF Unbuilt
<1> HIDE DEF Storage
<1>5. \A a \in Anys : Empty(Storage, a)
  BY ZenonT(40), <1>4 DEF Empty
<1>6. Owned(Storage) /\ Holds(Storage, assigned) /\ Destructible(Storage)
  BY <1>1, <1>4, ZenonT(40) DEF Owned, Holds, Destructible
<1> QED
  BY ZenonT(40), <1>3, <1>5, <1>6 DEF Sound

LEMMA InitCounted ==
    ASSUME StorageInit
    PROVE  Counted
<1>1. ~InUse
  <2>1. Unbuilt.built = FALSE /\ \A a \in Anys : anys[a] = Unbuilt
    BY ZenonT(40) DEF StorageInit, Unbuilt
  <2> QED
    BY ZenonT(40), <2>1 DEF InUse, IsBuilt
<1>2. initialized \in Nat /\ exiting \in BOOLEAN /\ ~exiting
  BY ZenonT(40) DEF StorageInit, TypesInit
<1>3. refcount = initialized + 1 /\ destructed = 0 /\ refcount # 0
  BY DEF StorageInit, TypesInit
<1> QED
  BY ZenonT(40), <1>1, <1>2, <1>3 DEF Counted
-----------------------------------------------------------------------------
LEMMA SoundImpliesGet ==
    ASSUME Sound(Storage, assigned)
    PROVE  GetReturnsAssigned
<1>1. /\ Storage.anys = anys /\ Storage.bytes = bytes /\ Storage.allocated = allocated
  BY ZenonT(40) DEF Storage
<1>2. ASSUME NEW a \in Anys
      PROVE  LET p == anys[a].value IN
             /\ (assigned[a] = Nothing) = (p = 0)
             /\ p # 0 => /\ p \in Blocks => p \in allocated
                         /\ bytes[p] = assigned[a]
  <2>1. (assigned[a] = Nothing) = (anys[a].value = 0)
    BY <1>1, StorageAssumption, ZenonT(40) DEF Sound, Holds
  <2>2. anys[a].value # 0 => bytes[anys[a].value] = assigned[a]
    BY <1>1, ZenonT(40) DEF Sound, Holds
  <2>3. anys[a].value \in Blocks => anys[a].value \in allocated
    BY <1>1, PlacesDiffer DEF Sound, Empty, InBuffer, OnHeap
  <2> QED
    BY ZenonT(40), <2>1, <2>2, <2>3
<1> QED
  BY ZenonT(40), <1>2 DEF GetReturnsAssigned

LEMMA SoundImpliesNothingLost ==
    ASSUME Sound(Storage, assigned), Moved \subseteq {"integer"}
    PROVE  NothingIsLost
<1>1. /\ Storage.anys = anys /\ Storage.allocated = allocated
      /\ Storage.constructed = constructed /\ allocated \subseteq Blocks
  BY ZenonT(40) DEF Storage, Sound, Storages
<1>2. ASSUME NEW b \in allocated
      PROVE  \E a \in Anys : {c \in Anys : anys[c].heap = b /\ anys[c].value = b} = {a}
  <2>1. b # 0
    BY <1>1, PlacesDiffer, ZenonT(40)
  <2>2. PICK a \in Anys : anys[a].heap = b
    BY <1>1, ZenonT(40) DEF Sound, Owned
  <2>3. anys[a].value = b
    BY <1>1, <2>1, <2>2, ZenonT(40) DEF Sound, Empty, InBuffer, OnHeap
  <2>4. \A c \in Anys : c # a => anys[c].heap # b
    BY <1>1, <2>1, <2>2, ZenonT(40) DEF Sound, Owned
  <2>5. {c \in Anys : anys[c].heap = b /\ anys[c].value = b} = {a}
    BY <2>2, <2>3, <2>4, ZenonT(40)
  <2> QED
    BY ZenonT(40), <2>5
<1>3. \A p \in constructed : \E a \in Anys : anys[a].value = p
  BY <1>1, ZenonT(40) DEF Sound, Destructible
<1> QED
  BY <1>2, <1>3, ZenonT(40) DEF NothingIsLost

LEMMA StorageSound ==
    ASSUME "object" \notin Moved
    PROVE  StorageSpec => []Sound(Storage, assigned)
<1>1. Sound(Storage, assigned) /\ [StorageNext]_storageVars => Sound(Storage, assigned)'
  <2> SUFFICES ASSUME Sound(Storage, assigned), [StorageNext]_storageVars
               PROVE  Sound(Storage, assigned)'
    BY ZenonT(40)
  <2>1. CASE StorageNext
    BY ZenonT(40), <2>1, SoundKept
  <2>2. CASE UNCHANGED storageVars
    <3>1. Storage' = Storage /\ assigned' = assigned
      BY <2>2, ZenonT(40) DEF storageVars, anyVars, Storage
    <3> QED
      BY <3>1, ZenonT(40)
  <2> QED
    BY <2>1, <2>2, ZenonT(40)
<1> QED
  BY InitSound, <1>1, PTL DEF StorageSpec

(* The value that get() returns (any.h:160-166) is the one last assigned,  *)
(* by construction, copy, move or operator=, and its block is not freed,   *)
(* whatever is done to the other anys.  The run any_move shows that the    *)
(* hypothesis is needed: a move of a value on the heap leaves the block    *)
(* with the any moved from (any.h:124-137).                                *)
THEOREM ValuesAreKept ==
    ASSUME "object" \notin Moved
    PROVE  StorageSpec => []GetReturnsAssigned
BY StorageSound, SoundImpliesGet, PTL

(* free() gives back every block once (any.h:194-201), and what needs a    *)
(* destructor stays the value of an any, when no string is moved either:   *)
(* a move out of the buffer destructs nothing.                             *)
THEOREM NoValueIsLost ==
    ASSUME Moved \subseteq {"integer"}
    PROVE  StorageSpec => []NothingIsLost
<1>1. "object" \notin Moved
  BY ZenonT(40)
<1> QED
  BY <1>1, StorageSound, SoundImpliesNothingLost, PTL

(* The references that initialize(), terminate() and the static Instance   *)
(* take and release (typeof.cpp:29-41) destruct the type information once  *)
(* and not before the last any of a program that follows dap.h.            *)
THEOREM TypeInfosOutliveAnys == StorageSpec => []InfosOutliveValues
<1>1. Counted /\ [StorageNext]_storageVars => Counted'
  <2> SUFFICES ASSUME Counted, [StorageNext]_storageVars
               PROVE  Counted'
    BY ZenonT(40)
  <2>1. CASE StorageNext
    BY ZenonT(40), <2>1, CountKept
  <2>2. CASE UNCHANGED storageVars
    BY <2>2, ZenonT(40) DEF storageVars, typeVars, anyVars, Counted, InUse, IsBuilt
  <2> QED
    BY <2>1, <2>2, ZenonT(40)
<1>2. Counted => InfosOutliveValues
  BY DEF Counted, InfosOutliveValues
<1> QED
  BY InitCounted, <1>1, <1>2, PTL DEF StorageSpec
-----------------------------------------------------------------------------
(***************************************************************************)
(* PipeCall: no wakeup is lost in Pipe and in future, every read() yields  *)
(* a whole message, and a future yields its own answer.                    *)
(***************************************************************************)
Bytes == {Header(m) : m \in Promises} \cup {Content(m) : m \in Promises}

PipeTypes ==
    /\ data \in [Pipes -> Seq(Bytes)]
    /\ closed \in [Pipes -> BOOLEAN]
    /\ pc \in [Readers -> {"out", "asleep", "woken"}]
    /\ on = [t \in Readers |-> IF t = "peer" THEN "requests" ELSE "answers"]
    /\ want \in [Readers -> Nat]
    /\ out \in [Readers -> Seq(Bytes)]

CallTypes ==
    /\ cpc \in [Callers -> {"idle", "header", "content", "sent", "waiting"}]
    /\ round \in [Callers -> 0..Rounds]
    /\ sendMutex \in Callers \cup {"free"}

FutureTypes ==
    /\ val \in [Promises -> {NoValue, SendError} \cup Promises]
    /\ hasVal \in [Promises -> BOOLEAN]
    /\ wpc \in [Waiters -> {"out", "asleep", "woken"}]
    /\ waitsFor \in [Waiters -> Promises]
    /\ status \in [Waiters -> {"none", "ready", "timeout"}]
    /\ result \in [Waiters -> {NoValue, SendError} \cup Promises]

(* The caller that writes holds sendMutex, and has begun a request.        *)
Calls ==
    \A c \in Callers :
        /\ cpc[c] # "idle" => round[c] >= 1
        /\ cpc[c] \in {"header", "content"} <=> sendMutex = c

(* A reader inside read() lacks a byte.                                    *)
Lacks == \A t \in Readers : pc[t] # "out" => want[t] = 2 /\ Len(out[t]) < 2

(* The bytes of a message that are in the reader's buffer, and not the     *)
(* message's last.                                                         *)
Taken(t) == IF pc[t] = "out" THEN 0 ELSE Len(out[t])

IsHeader(b) == b[1] \in Promises /\ b = Header(b[1])

(* d holds whole messages but for its last byte, which may be a header, and *)
(* its first, which belongs to the header o when k = 1.                    *)
Whole(d, k, o) ==
    /\ \A i \in 1..Len(d) : (i + k) % 2 = 1 =>
          IsHeader(d[i]) /\ (i < Len(d) => d[i + 1] = Content(d[i][1]))
    /\ k = 1 => IsHeader(o) /\ (Len(d) > 0 => d[1] = Content(o[1]))

LastOf(d, o) == IF Len(d) = 0 THEN o ELSE d[Len(d)]

(* On an open pipe the reader's byte and the deque hold whole messages.    *)
Stream == \A t \in Readers : IsOpen(on[t]) => Whole(data[on[t]], Taken(t), out[t][1])

(* What is behind the last whole message is the header that a caller has   *)
(* just written.                                                           *)
AtEnd ==
    /\ IsOpen("answers") => (Len(data["answers"]) + Taken("session")) % 2 = 0
    /\ IsOpen("requests") =>
          IF \E c \in Callers : cpc[c] = "content"
            THEN /\ (Len(data["requests"]) + Taken("peer")) % 2 = 1
                 /\ \A c \in Callers : cpc[c] = "content" =>
                       LastOf(data["requests"], out["peer"][1]) = Header(Call(c))
            ELSE (Len(data["requests"]) + Taken("peer")) % 2 = 0

PipeInv == PipeTypes /\ Lacks /\ Stream /\ SleepsOnEmpty /\ ReadsWhole

FutureInv == FutureTypes /\ SleepsWithoutValue /\ OwnAnswer

Inv == PipeInv /\ CallTypes /\ Calls /\ AtEnd /\ FutureInv
-----------------------------------------------------------------------------
(* The bytes that a turn of read()'s loop moves to the buffer.             *)
Moves(p, sofar) == Least(2 - Len(sofar), Len(data[p]))

(* A turn of the loop in read() on an open pipe: it moves as many bytes as *)
(* are there and wanted, and sleeps on an empty deque unless it has both.  *)
Turned(t, p, sofar) ==
    /\ closed' = closed
    /\ data' \in [Pipes -> Seq(Bytes)] /\ out' \in [Readers -> Seq(Bytes)]
    /\ pc' \in [Readers -> {"out", "asleep", "woken"}]
    /\ \A q \in Pipes : q # p => data'[q] = data[q]
    /\ \A u \in Readers : u # t => out'[u] = out[u] /\ pc'[u] = pc[u]
    /\ Moves(p, sofar) \in 0..2
    /\ Len(data'[p]) = Len(data[p]) - Moves(p, sofar)
    /\ \A i \in 1..Len(data'[p]) : data'[p][i] = data[p][i + Moves(p, sofar)]
    /\ Len(out'[t]) = Len(sofar) + Moves(p, sofar) /\ Len(out'[t]) \in 0..2
    /\ \A i \in 1..Len(sofar) : out'[t][i] = sofar[i]
    /\ \A i \in 1..Moves(p, sofar) : out'[t][Len(sofar) + i] = data[p][i]
    /\ pc'[t] = IF Len(out'[t]) = 2 THEN "out" ELSE "asleep"
    /\ Len(out'[t]) < 2 => data'[p] = <<>>

(* What is left of a sequence without its first k elements.                *)
LEMMA WithoutFirst ==
    ASSUME NEW S, NEW s \in Seq(S), NEW k \in Nat, k <= Len(s)
    PROVE  /\ SubSeq(s, k + 1, Len(s)) \in Seq(S)
           /\ Len(SubSeq(s, k + 1, Len(s))) = Len(s) - k
           /\ \A i \in 1..(Len(s) - k) : SubSeq(s, k + 1, Len(s))[i] = s[i + k]
OBVIOUS

LEMMA ReadTurn ==
    ASSUME NEW t \in Readers, NEW p \in Pipes, NEW sofar \in Seq(Bytes),
           data \in [Pipes -> Seq(Bytes)], out \in [Readers -> Seq(Bytes)],
           pc \in [Readers -> {"out", "asleep", "woken"}],
           Len(sofar) \in 0..1, IsOpen(p), ReadLoop(t, p, 2, sofar)
    PROVE  Turned(t, p, sofar)
<1> DEFINE d == data[p]
           k == Moves(p, sofar)
<1>1. /\ d \in Seq(Bytes) /\ Len(d) \in Nat /\ Len(sofar) \in 0..1
      /\ k \in 0..2 /\ k <= Len(d) /\ (Len(sofar) + k < 2 => k = Len(d))
  <2>1. d \in Seq(Bytes)
    BY ZenonT(40)
  <2>2. Len(d) \in Nat /\ Len(sofar) \in Nat
    BY <2>1
  <2>3. \A a \in 0..1, n \in Nat :
           /\ Least(2 - a, n) \in 0..2 /\ Least(2 - a, n) <= n
           /\ a + Least(2 - a, n) < 2 => Least(2 - a, n) = n
    BY DEF Least
  <2> QED
    BY ZenonT(40), <2>1, <2>2, <2>3 DEF Moves
<1>2. Len(sofar) + k \in 0..2
  <2>1. \A a \in 0..1, n \in Nat : a + Least(2 - a, n) \in 0..2
    BY DEF Least
  <2> QED
    BY ZenonT(40), <1>1, <2>1 DEF Moves
<1>3. /\ data' = [data EXCEPT ![p] = SubSeq(d, k + 1, Len(d))]
      /\ out' = [out EXCEPT ![t] = sofar \o SubSeq(d, 1, k)]
      /\ pc' = [pc EXCEPT ![t] = IF d # <<>> /\ Len(sofar) + k = 2 THEN "out" ELSE "asleep"]
      /\ closed' = closed
  BY ZenonT(40) DEF ReadLoop, IsOpen, Moves
<1>4. /\ SubSeq(d, k + 1, Len(d)) \in Seq(Bytes)
      /\ Len(SubSeq(d, k + 1, Len(d))) = Len(d) - k
      /\ \A i \in 1..(Len(d) - k) : SubSeq(d, k + 1, Len(d))[i] = d[i + k]
  BY <1>1, WithoutFirst
<1>5. /\ SubSeq(d, 1, k) \in Seq(Bytes) /\ Len(SubSeq(d, 1, k)) = k
      /\ \A i \in 1..k : SubSeq(d, 1, k)[i] = d[i]
  BY <1>1
<1>6. /\ sofar \o SubSeq(d, 1, k) \in Seq(Bytes)
      /\ Len(sofar \o SubSeq(d, 1, k)) = Len(sofar) + k
      /\ \A i \in 1..Len(sofar) : (sofar \o SubSeq(d, 1, k))[i] = sofar[i]
      /\ \A i \in 1..k : (sofar \o SubSeq(d, 1, k))[Len(sofar) + i] = d[i]
  BY <1>1, <1>5
<1>7. /\ data' \in [Pipes -> Seq(Bytes)] /\ data'[p] = SubSeq(d, k + 1, Len(d))
      /\ \A q \in Pipes : q # p => data'[q] = data[q]
  BY ZenonT(40), <1>3, <1>4
<1>8. /\ out' \in [Readers -> Seq(Bytes)] /\ out'[t] = sofar \o SubSeq(d, 1, k)
      /\ \A u \in Readers : u # t => out'[u] = out[u] /\ pc'[u] = pc[u]
  BY ZenonT(40), <1>3, <1>6
<1>9. Len(sofar) + k = 2 => d # <<>>
  <2>1. d = <<>> => Len(d) = 0
    OBVIOUS
  <2>2. \A a \in 0..1, b \in 0..2, n \in Nat : b <= n /\ a + b = 2 => n # 0
    OBVIOUS
  <2> HIDE DEF d, k
  <2> QED
    BY <1>1, <2>1, <2>2, ZenonT(40)
<1>10. /\ pc' \in [Readers -> {"out", "asleep", "woken"}]
      /\ pc'[t] = IF Len(sofar) + k = 2 THEN "out" ELSE "asleep"
  BY <1>3, <1>9, ZenonT(40)
<1>11. Len(sofar) + k < 2 => data'[p] = <<>>
  <2>1. ASSUME Len(sofar) + k < 2 PROVE Len(data'[p]) = 0
    BY <1>1, <1>4, <1>7, <2>1
  <2> QED
    BY <1>4, <1>7, <2>1
<1>12. /\ Len(data'[p]) = Len(d) - k
       /\ \A i \in 1..Len(data'[p]) : data'[p][i] = d[i + k]
  BY <1>4, <1>7, ZenonT(40)
<1>13. /\ Len(out'[t]) = Len(sofar) + k
       /\ \A i \in 1..Len(sofar) : out'[t][i] = sofar[i]
       /\ \A i \in 1..k : out'[t][Len(sofar) + i] = d[i]
  BY <1>6, <1>8, ZenonT(40)
<1> HIDE DEF k
<1>14. k = Moves(p, sofar)
  BY ZenonT(40) DEF k
<1>15. /\ pc'[t] = IF Len(out'[t]) = 2 THEN "out" ELSE "asleep"
       /\ Len(out'[t]) < 2 => data'[p] = <<>>
       /\ Len(out'[t]) \in 0..2
  BY <1>2, <1>10, <1>11, <1>13
<1> QED
  BY ZenonT(60), <1>1, <1>3, <1>7, <1>8, <1>10, <1>12, <1>13, <1>14, <1>15 DEF Turned

LEMMA CallIsPromise ==
    ASSUME CallTypes, Calls, NEW c \in Callers, cpc[c] # "idle"
    PROVE  Call(c) \in Promises /\ Header(Call(c)) \in Bytes /\ Content(Call(c)) \in Bytes
<1>1. round[c] \in 1..Rounds
  BY BoundsAssumption DEF CallTypes, Calls
<1>2. Call(c) \in Promises
  BY <1>1, ThreadsAssumption, ZenonT(40) DEF Call
<1> QED
  BY <1>2, ZenonT(40) DEF Bytes

LEMMA InitInv == Init => Inv
<1> SUFFICES ASSUME Init PROVE Inv
  BY ZenonT(40)
<1>1. /\ \A p \in Pipes : data[p] = <<>> /\ ~closed[p]
      /\ \A t \in Readers : pc[t] = "out" /\ out[t] = <<>> /\ want[t] = 0
      /\ \A c \in Callers : cpc[c] = "idle" /\ round[c] = 0
      /\ \A m \in Promises : ~hasVal[m]
      /\ \A c \in Waiters : wpc[c] = "out" /\ status[c] = "none"
      /\ sendMutex = "free"
  BY ZenonT(40) DEF Init, PipeInit, FutureInit
<1>2. PipeTypes
  BY DEF Init, PipeInit, PipeTypes
<1>3. CallTypes
  BY BoundsAssumption DEF Init, CallTypes
<1>4. FutureTypes
  BY ZenonT(40) DEF Init, FutureInit, FutureTypes
<1>5. Lacks /\ SleepsOnEmpty /\ SleepsWithoutValue /\ OwnAnswer /\ Calls
  BY <1>1, ThreadsAssumption DEF Lacks, SleepsOnEmpty, SleepsWithoutValue, OwnAnswer,
     Calls
<1>6. \A t \in Readers : Len(out[t]) = 0 /\ Taken(t) = 0
  BY <1>1 DEF Taken
<1>7. \A t \in Readers : on[t] \in Pipes /\ Len(data[on[t]]) = 0
  BY <1>1, <1>2, ThreadsAssumption, ZenonT(40) DEF PipeTypes
<1>8. ReadsWhole
  BY <1>6 DEF ReadsWhole
<1>9. Stream
  BY <1>6, <1>7 DEF Stream, Whole
<1>10. AtEnd
  BY <1>1, <1>6, ThreadsAssumption DEF AtEnd
<1> QED
  BY <1>2, <1>3, <1>4, <1>5, <1>8, <1>9, <1>10, ZenonT(40) DEF Inv, PipeInv, FutureInv
-----------------------------------------------------------------------------
(* The steps that only concern the futures, and those that only concern    *)
(* the pipes.                                                              *)
LEMMA PipeKept == PipeInv /\ UNCHANGED pipeVars => PipeInv'
<1> SUFFICES ASSUME PipeInv, UNCHANGED pipeVars PROVE PipeInv'
  BY ZenonT(40)
<1>1. /\ data' = data /\ closed' = closed /\ pc' = pc
      /\ on' = on /\ want' = want /\ out' = out
  BY ZenonT(40) DEF pipeVars
<1>2. PipeTypes' /\ Lacks' /\ SleepsOnEmpty' /\ ReadsWhole'
  BY <1>1, ZenonT(40) DEF PipeInv, PipeTypes, Lacks, SleepsOnEmpty, ReadsWhole, IsOpen
<1>3. Stream'
  BY <1>1, ZenonT(40) DEF PipeInv, Stream, Taken, IsOpen
<1> QED
  BY <1>2, <1>3, ZenonT(40) DEF PipeInv

LEMMA FutureKept == FutureInv /\ UNCHANGED futureVars => FutureInv'
  BY DEF FutureInv, FutureTypes, SleepsWithoutValue, OwnAnswer, futureVars

LEMMA SetValueInv ==
    ASSUME FutureInv, NEW m \in Promises, NEW v \in {m, SendError}, SetValue(m, v)
    PROVE  FutureInv'
<1>1. FutureTypes'
  BY ZenonT(40) DEF FutureInv, FutureTypes, SetValue
<1>2. SleepsWithoutValue'
  BY ZenonT(40) DEF FutureInv, FutureTypes, SetValue, SleepsWithoutValue
<1>3. OwnAnswer'
  BY ZenonT(40) DEF FutureInv, FutureTypes, SetValue, OwnAnswer
<1> QED
  BY <1>1, <1>2, <1>3, ZenonT(40) DEF FutureInv

LEMMA LookInv ==
    ASSUME FutureInv, NEW c \in Waiters, NEW f \in Promises, Look(c, f),
           waitsFor' = [waitsFor EXCEPT ![c] = f]
    PROVE  FutureInv'
<1>1. FutureTypes'
  BY ZenonT(40) DEF FutureInv, FutureTypes, Look
<1>2. SleepsWithoutValue'
  BY ZenonT(40) DEF FutureInv, FutureTypes, Look, SleepsWithoutValue
<1>3. OwnAnswer'
  BY ZenonT(40) DEF FutureInv, FutureTypes, Look, OwnAnswer
<1> QED
  BY <1>1, <1>2, <1>3, ZenonT(40) DEF FutureInv

(* A wait that resumes, times out or wakes for no reason.                  *)
LEMMA WaiterInv ==
    ASSUME FutureInv, NEW c \in Waiters, WaitResumes(c) \/ TimesOut(c) \/ WaiterWakes(c)
    PROVE  FutureInv'
<1>1. CASE WaitResumes(c)
  <2>1. waitsFor[c] \in Promises /\ waitsFor' = [waitsFor EXCEPT ![c] = waitsFor[c]]
    BY <1>1, ZenonT(40) DEF FutureInv, FutureTypes, WaitResumes
  <2> QED
    BY ZenonT(40), <1>1, <2>1, LookInv DEF WaitResumes
<1>2. CASE TimesOut(c)
  <2>1. FutureTypes'
    BY <1>2, ZenonT(40) DEF FutureInv, FutureTypes, TimesOut
  <2>2. SleepsWithoutValue'
    BY <1>2, ZenonT(40) DEF FutureInv, FutureTypes, TimesOut, SleepsWithoutValue
  <2>3. OwnAnswer'
    BY <1>2, ZenonT(40) DEF FutureInv, FutureTypes, TimesOut, OwnAnswer
  <2> QED
    BY <2>1, <2>2, <2>3, ZenonT(40) DEF FutureInv
<1>3. CASE WaiterWakes(c)
  BY <1>3, ZenonT(40) DEF FutureInv, FutureTypes, WaiterWakes, SleepsWithoutValue, OwnAnswer
<1> QED
  BY <1>1, <1>2, <1>3, ZenonT(40)
-----------------------------------------------------------------------------
(* What a reader is in the middle of, and where, is left alone by the      *)
(* notifications of write() and close().                                   *)
LEMMA NotifyKeeps ==
    ASSUME PipeTypes, NEW p, pc' \in {pc, NotifyAll(p)}, out' = out
    PROVE  /\ pc' \in [Readers -> {"out", "asleep", "woken"}]
           /\ \A t \in Readers :
                /\ pc'[t] = "out" <=> pc[t] = "out"
                /\ pc'[t] = "asleep" => pc[t] = "asleep"
                /\ Taken(t)' = Taken(t)
<1>1. /\ pc' \in [Readers -> {"out", "asleep", "woken"}]
      /\ \A t \in Readers :
            /\ pc'[t] = "out" <=> pc[t] = "out"
            /\ pc'[t] = "asleep" => pc[t] = "asleep"
  BY ZenonT(40) DEF PipeTypes, NotifyAll
<1> QED
  BY <1>1, ZenonT(40) DEF Taken

(* write() appends, and leaves nobody asleep on the pipe.                  *)
LEMMA WriteTurn ==
    ASSUME PipeTypes, SleepsOnEmpty, NEW p \in Pipes, NEW b \in Seq(Bytes), Write(p, b)
    PROVE  /\ PipeTypes' /\ SleepsOnEmpty'
           /\ closed' = closed /\ on' = on /\ want' = want /\ out' = out
           /\ \A q \in Pipes : q # p => data'[q] = data[q]
           /\ Len(data'[p]) = Len(data[p]) + Len(b)
           /\ \A i \in 1..Len(data[p]) : data'[p][i] = data[p][i]
           /\ \A i \in 1..Len(b) : data'[p][Len(data[p]) + i] = b[i]
           /\ \A t \in Readers :
                /\ pc'[t] = "out" <=> pc[t] = "out"
                /\ Taken(t)' = Taken(t)
<1> DEFINE d == data[p]
<1>1. /\ closed' = closed /\ on' = on /\ want' = want /\ out' = out
      /\ data' = [data EXCEPT ![p] = d \o b]
      /\ pc' = IF d = <<>> THEN NotifyAll(p) ELSE pc
  BY ZenonT(40) DEF Write
<1>2. /\ pc' \in [Readers -> {"out", "asleep", "woken"}]
      /\ \A t \in Readers :
                /\ pc'[t] = "out" <=> pc[t] = "out"
                /\ pc'[t] = "asleep" => pc[t] = "asleep"
                /\ Taken(t)' = Taken(t)
  BY <1>1, NotifyKeeps
<1>3. /\ d \in Seq(Bytes) /\ d \o b \in Seq(Bytes)
      /\ Len(d \o b) = Len(d) + Len(b)
      /\ \A i \in 1..Len(d) : (d \o b)[i] = d[i]
      /\ \A i \in 1..Len(b) : (d \o b)[Len(d) + i] = b[i]
  BY DEF PipeTypes
<1>4. /\ data' \in [Pipes -> Seq(Bytes)] /\ data'[p] = d \o b
      /\ \A q \in Pipes : q # p => data'[q] = data[q]
  BY <1>1, <1>3, ZenonT(40) DEF PipeTypes
<1>5. PipeTypes'
  BY <1>1, <1>2, <1>4, ZenonT(40) DEF PipeTypes
<1>6. ASSUME NEW t \in Readers, pc'[t] = "asleep" PROVE IsOpen(on[t]) /\ data'[on[t]] = <<>>
  <2>1. pc[t] = "asleep" /\ IsOpen(on[t]) /\ data[on[t]] = <<>> /\ on[t] \in Pipes
    BY <1>2, <1>6, ThreadsAssumption, ZenonT(40) DEF SleepsOnEmpty, PipeTypes
  <2>2. CASE on[t] # p
    BY <2>1, <2>2, <1>4, ZenonT(40)
  <2>3. CASE on[t] = p
    BY <2>1, <2>3, <1>1, <1>6, ZenonT(40) DEF NotifyAll
  <2> QED
    BY <2>2, <2>3, ZenonT(40)
<1>7. SleepsOnEmpty'
  BY <1>1, <1>6, ZenonT(40) DEF SleepsOnEmpty, IsOpen
<1> QED
  BY <1>1, <1>2, <1>3, <1>4, <1>5, <1>7, ZenonT(40)
-----------------------------------------------------------------------------
(* A header behind whole messages, and the content behind that header.     *)
Appends(d, e, b) ==
    /\ Len(e) = Len(d) + 1
    /\ \A i \in 1..Len(d) : e[i] = d[i]
    /\ e[Len(d) + 1] = b

EndsInHeader(e, k, o, m) ==
    Whole(e, k, o) /\ (Len(e) + k) % 2 = 1 /\ LastOf(e, o) = Header(m)

LEMMA AppendHeader ==
    ASSUME NEW d \in Seq(Bytes), NEW e \in Seq(Bytes), NEW k \in {0, 1}, NEW o,
           NEW m \in Promises, Whole(d, k, o), (Len(d) + k) % 2 = 0,
           Appends(d, e, Header(m))
    PROVE  EndsInHeader(e, k, o, m)
<1>1. Len(d) \in Nat
  OBVIOUS
<1> USE DEF Appends
<1>2. IsHeader(Header(m))
  BY ZenonT(40) DEF IsHeader, Header
<1>3. (Len(e) + k) % 2 = 1
  BY <1>1
<1>4. LastOf(e, o) = Header(m)
  BY <1>1 DEF LastOf
<1>5. ASSUME NEW i \in 1..Len(e), (i + k) % 2 = 1
      PROVE  IsHeader(e[i]) /\ (i < Len(e) => e[i + 1] = Content(e[i][1]))
  <2>1. CASE i = Len(d) + 1
    BY <1>1, <1>2, <2>1
  <2>2. CASE i # Len(d) + 1
    <3>1. i \in 1..Len(d) /\ i # Len(d)
      BY <1>1, <1>5, <2>2
    <3>2. i < Len(d) /\ i + 1 \in 1..Len(d)
      BY <1>1, <3>1
    <3>3. IsHeader(d[i]) /\ d[i + 1] = Content(d[i][1])
      BY <1>5, <3>1, <3>2, ZenonT(40) DEF Whole
    <3> QED
      BY <3>1, <3>2, <3>3, ZenonT(40)
  <2> QED
    BY <2>1, <2>2, ZenonT(40)
<1>6. k = 1 => IsHeader(o) /\ e[1] = Content(o[1])
  <2>1. k = 1 => Len(d) > 0
    BY <1>1
  <2> QED
    BY <1>1, <2>1 DEF Whole
<1> QED
  BY <1>3, <1>4, <1>5, <1>6, ZenonT(40) DEF Whole, EndsInHeader

LEMMA AppendContent ==
    ASSUME NEW d \in Seq(Bytes), NEW e \in Seq(Bytes), NEW k \in {0, 1}, NEW o,
           NEW m \in Promises, Whole(d, k, o), (Len(d) + k) % 2 = 1, LastOf(d, o) = Header(m),
           Appends(d, e, Content(m))
    PROVE  Whole(e, k, o) /\ (Len(e) + k) % 2 = 0
<1>1. Len(d) \in Nat
  OBVIOUS
<1> USE DEF Appends
<1>2. Header(m)[1] = m
  BY ZenonT(40) DEF Header
<1>3. (Len(e) + k) % 2 = 0
  BY <1>1
<1>4. ASSUME NEW i \in 1..Len(e), (i + k) % 2 = 1
      PROVE  IsHeader(e[i]) /\ (i < Len(e) => e[i + 1] = Content(e[i][1]))
  <2>1. i \in 1..Len(d)
    BY <1>1, <1>4
  <2>2. IsHeader(d[i]) /\ (i < Len(d) => d[i + 1] = Content(d[i][1]))
    BY <1>4, <2>1, ZenonT(40) DEF Whole
  <2>3. CASE i = Len(d)
    <3>1. d[i] = Header(m)
      BY <1>1, <2>1, <2>3 DEF LastOf
    <3> QED
      BY <1>2, <2>1, <2>2, <2>3, <3>1, ZenonT(40)
  <2>4. CASE i < Len(d)
    <3>1. i + 1 \in 1..Len(d)
      BY <1>1, <2>1, <2>4
    <3> QED
      BY <2>1, <2>2, <2>4, <3>1
  <2> QED
    BY <1>1, <2>1, <2>3, <2>4
<1>5. k = 1 => IsHeader(o) /\ e[1] = Content(o[1])
  <2>1. CASE Len(d) = 0
    BY <1>2, <2>1 DEF LastOf, Whole
  <2>2. CASE Len(d) > 0
    BY <1>1, <2>2 DEF Whole
  <2> QED
    BY <1>1, <2>1, <2>2
<1> QED
  BY <1>3, <1>4, <1>5, ZenonT(40) DEF Whole

(* A turn of read()'s loop moves k bytes of d behind the bytes s that the  *)
(* buffer had.  It leaves e in the deque and r in the buffer.              *)
Turn(d, s, k, e, r) ==
    /\ Len(d) = Len(e) + k /\ \A i \in 1..Len(e) : e[i] = d[i + k]
    /\ Len(r) = Len(s) + k
    /\ \A i \in 1..Len(s) : r[i] = s[i]
    /\ \A i \in 1..k : r[Len(s) + i] = d[i]
    /\ Len(r) \in 0..2 /\ (Len(r) < 2 => Len(e) = 0)

Rest(r) == IF Len(r) = 2 THEN 0 ELSE Len(r)

LEMMA Evens ==
    /\ \A n \in Nat : (n + 2) % 2 = n % 2
    /\ \A n \in Nat : n % 2 = 1 => n >= 1
  OBVIOUS

(* It takes the bytes of one message, or all there are.                    *)
Consumed(d, s, e, r) ==
    /\ Len(r) = 2 => \E m \in Promises : r = <<Header(m), Content(m)>>
    /\ Whole(e, Rest(r), r[1])
    /\ (Len(e) + Rest(r)) % 2 = (Len(d) + Len(s)) % 2
    /\ (Len(e) + Rest(r)) % 2 = 1 => LastOf(e, r[1]) = LastOf(d, s[1])

LEMMA Consume ==
    ASSUME NEW d \in Seq(Bytes), NEW s \in Seq(Bytes), NEW e \in Seq(Bytes), NEW r \in Seq(Bytes),
           NEW k \in 0..2, Len(s) \in 0..1, Turn(d, s, k, e, r), Whole(d, Len(s), s[1])
    PROVE  Consumed(d, s, e, r)
<1>1. /\ Len(d) \in Nat /\ Len(e) \in Nat /\ Len(d) = Len(e) + k
      /\ Len(r) = Len(s) + k /\ Len(r) \in 0..2 /\ (Len(r) < 2 => Len(e) = 0)
  BY DEF Turn
<1>2. \/ Len(s) = 0 /\ k = 0 /\ Len(d) = 0 /\ Len(e) = 0
      \/ Len(s) = 0 /\ k = 1 /\ Len(d) = 1 /\ Len(e) = 0
      \/ Len(s) = 1 /\ k = 0 /\ Len(d) = 0 /\ Len(e) = 0
      \/ Len(s) + k = 2 /\ Len(d) + Len(s) = Len(e) + 2 /\ Len(d) >= k /\ k \in 1..2
  <2>1. Len(s) + k \in 0..2 /\ (Len(s) + k < 2 => Len(e) = 0)
    BY <1>1, ZenonT(40)
  <2>2. Len(s) + k = 2 => Len(d) + Len(s) = Len(e) + 2 /\ Len(d) >= k /\ k \in 1..2
    <3>1. \A a \in 0..1, b \in 0..2, n \in Nat, m \in Nat :
             n = m + b /\ a + b = 2 => n + a = m + 2 /\ n >= b /\ b \in 1..2
      OBVIOUS
    <3> QED
      BY <1>1, <3>1, ZenonT(40)
  <2>3. Len(s) + k < 2 => Len(e) = 0 /\ Len(d) = k
    BY <1>1
  <2>4. Len(s) + k < 2 => \/ Len(s) = 0 /\ k = 0
                          \/ Len(s) = 0 /\ k = 1
                          \/ Len(s) = 1 /\ k = 0
    BY <1>1
  <2>5. Len(s) + k < 2 \/ Len(s) + k = 2
    BY <1>1
  <2> QED
    BY <2>2, <2>3, <2>4, <2>5, ZenonT(40)
<1>3. CASE Len(s) + k = 2 /\ Len(d) + Len(s) = Len(e) + 2 /\ Len(d) >= k /\ k \in 1..2
  <2>1. Len(r) = 2 /\ Rest(r) = 0 /\ Len(e) + 0 = Len(e)
    BY <1>1, <1>3 DEF Rest
  <2>2. r = <<r[1], r[2]>>
    BY <2>1
  <2>3. \E m \in Promises : r = <<Header(m), Content(m)>>
    <3>1. CASE Len(s) = 0
      <4>1. k = 2
        BY <1>3, <3>1
      <4>2. r[1] = d[1] /\ r[2] = d[2]
        BY <3>1, <4>1 DEF Turn
      <4>3. 1 \in 1..Len(d) /\ 1 < Len(d) /\ (1 + 0) % 2 = 1
        BY <1>1, <1>3, <4>1
      <4>4. IsHeader(d[1]) /\ d[2] = Content(d[1][1])
        BY <3>1, <4>3 DEF Whole
      <4> QED
        BY <2>2, <4>2, <4>4 DEF IsHeader
    <3>2. CASE Len(s) = 1
      <4>1. k = 1
        BY <1>3, <3>2
      <4>2. r[1] = s[1] /\ r[2] = d[1]
        BY <3>2, <4>1 DEF Turn
      <4>3. Len(d) > 0
        BY <1>1, <1>3, <4>1
      <4>4. IsHeader(s[1]) /\ d[1] = Content(s[1][1])
        BY <3>2, <4>3, ZenonT(40) DEF Whole
      <4> QED
        BY <2>2, <4>2, <4>4, ZenonT(40) DEF IsHeader
    <3> QED
      BY <3>1, <3>2
  <2>4. ASSUME NEW i \in 1..Len(e), (i + 0) % 2 = 1
        PROVE  IsHeader(e[i]) /\ (i < Len(e) => e[i + 1] = Content(e[i][1]))
    <3>1. i \in Nat /\ i + 0 = i /\ i + k + Len(s) = i + 2 /\ i + k \in 1..Len(d)
      BY <1>1, <1>3
    <3>2. (i + k + Len(s)) % 2 = 1
      BY ZenonT(40), <2>4, <3>1, Evens
    <3>3. IsHeader(d[i + k]) /\ (i + k < Len(d) => d[i + k + 1] = Content(d[i + k][1]))
      BY <3>1, <3>2, ZenonT(40) DEF Whole
    <3>4. ASSUME i < Len(e)
          PROVE  i + 1 \in 1..Len(e) /\ i + 1 + k = i + k + 1 /\ i + k < Len(d)
      BY <1>1, <3>4
    <3>5. e[i] = d[i + k] /\ (i < Len(e) => e[i + 1] = d[i + 1 + k])
      BY <3>4, ZenonT(40) DEF Turn
    <3> QED
      BY <3>3, <3>4, <3>5, ZenonT(40)
  <2>5. Whole(e, Rest(r), r[1])
    BY <2>1, <2>4 DEF Whole
  <2>6. (Len(e) + Rest(r)) % 2 = (Len(d) + Len(s)) % 2
    BY ZenonT(40), <1>1, <1>3, <2>1, Evens
  <2>7. ASSUME (Len(e) + Rest(r)) % 2 = 1 PROVE LastOf(e, r[1]) = LastOf(d, s[1])
    <3>1. Len(e) >= 1
      BY <1>1, <2>1, <2>7, Evens, ZenonT(40)
    <3>2. Len(e) \in 1..Len(e) /\ Len(e) # 0 /\ Len(d) # 0
      BY <1>1, <3>1
    <3>3. e[Len(e)] = d[Len(d)]
      BY ZenonT(40), <1>1, <3>2 DEF Turn
    <3> QED
      BY <3>2, <3>3, ZenonT(40) DEF LastOf
  <2> QED
    BY <2>1, <2>3, <2>5, <2>6, <2>7 DEF Consumed
<1>4. CASE Len(s) = 0 /\ k = 0 /\ Len(d) = 0 /\ Len(e) = 0
  <2>1. Len(r) = 0 /\ Rest(r) = 0
    BY <1>1, <1>4, ZenonT(40) DEF Rest
  <2> QED
    BY <1>4, <2>1 DEF Whole, Consumed
<1>5. CASE Len(s) = 0 /\ k = 1 /\ Len(d) = 1 /\ Len(e) = 0
  <2>1. Len(r) = 1 /\ Rest(r) = 1
    BY <1>1, <1>5 DEF Rest
  <2>2. r[1] = d[1]
    BY <1>5 DEF Turn
  <2>3. IsHeader(d[1])
    BY <1>5 DEF Whole
  <2> QED
    BY <1>5, <2>1, <2>2, <2>3 DEF Whole, LastOf, Consumed
<1>6. CASE Len(s) = 1 /\ k = 0 /\ Len(d) = 0 /\ Len(e) = 0
  <2>1. Len(r) = 1 /\ Rest(r) = 1
    BY <1>1, <1>6 DEF Rest
  <2>2. r[1] = s[1]
    BY <1>6 DEF Turn
  <2>3. IsHeader(s[1])
    BY <1>6, ZenonT(40) DEF Whole
  <2> QED
    BY <1>6, <2>1, <2>2, <2>3 DEF Whole, LastOf, Consumed
<1> QED
  BY <1>2, <1>3, <1>4, <1>5, <1>6
-----------------------------------------------------------------------------
(* Whether a header waits for its content at the end of reader u's pipe,   *)
(* and which, is the same after a step as before it.                       *)
EndKept(u) ==
    /\ (Len(data'[on[u]]) + Taken(u)') % 2 = (Len(data[on[u]]) + Taken(u)) % 2
    /\ (Len(data[on[u]]) + Taken(u)) % 2 = 1 =>
          LastOf(data'[on[u]], out'[u][1]) = LastOf(data[on[u]], out[u][1])

LEMMA PipeOfReader ==
    ASSUME PipeTypes
    PROVE  /\ on["peer"] = "requests" /\ on["session"] = "answers"
           /\ \A t \in Readers : on[t] \in Pipes
           /\ \A t, u \in Readers : on[t] = on[u] => t = u
  BY ThreadsAssumption, ZenonT(40) DEF PipeTypes

(* A turn of the loop that finds the pipe closed.                          *)
LEMMA ReadClosed ==
    ASSUME PipeInv, NEW t \in Readers, NEW s \in Seq(Bytes), Len(s) \in 0..1,
           ~IsOpen(on[t]), ReadLoop(t, on[t], 2, s), on' = on, want' = [want EXCEPT ![t] = 2]
    PROVE  PipeInv' /\ closed' = closed /\ \A u \in Readers : IsOpen(on[u]) => EndKept(u)
<1>1. /\ data' = data /\ closed' = closed
      /\ out' = [out EXCEPT ![t] = s] /\ pc' = [pc EXCEPT ![t] = "out"]
  BY ZenonT(40) DEF ReadLoop, IsOpen
<1>2. PipeTypes /\ PipeTypes'
  BY <1>1, ZenonT(40) DEF PipeInv, PipeTypes
<1>3. /\ out'[t] = s /\ pc'[t] = "out"
      /\ \A u \in Readers : u # t => out'[u] = out[u] /\ pc'[u] = pc[u] /\ want'[u] = want[u]
  BY <1>1, <1>2 DEF PipeTypes
<1>4. Lacks' /\ SleepsOnEmpty'
  BY <1>1, <1>3 DEF PipeInv, Lacks, SleepsOnEmpty, IsOpen
<1>5. ReadsWhole'
  <2>1. Len(out'[t]) # 2
    BY <1>3
  <2> QED
    BY <1>3, <2>1 DEF PipeInv, ReadsWhole
<1>6. \A u \in Readers : u # t => Taken(u)' = Taken(u)
  BY <1>3, ZenonT(40) DEF Taken
<1>7. Stream'
  BY <1>1, <1>3, <1>6 DEF PipeInv, Stream, IsOpen
<1>8. \A u \in Readers : u # t => EndKept(u)
  BY <1>1, <1>3, <1>6, ZenonT(40) DEF EndKept
<1> QED
  BY <1>1, <1>2, <1>4, <1>5, <1>7, <1>8 DEF PipeInv

(* A turn of the loop on an open pipe.                                     *)
LEMMA ReadOpen ==
    ASSUME PipeInv, NEW t \in Readers, NEW s \in Seq(Bytes), Len(s) \in 0..1,
           Len(s) = Taken(t), Len(s) = 1 => s[1] = out[t][1],
           IsOpen(on[t]), ReadLoop(t, on[t], 2, s), on' = on, want' = [want EXCEPT ![t] = 2]
    PROVE  PipeInv' /\ closed' = closed /\ \A u \in Readers : IsOpen(on[u]) => EndKept(u)
<1> DEFINE d == data[on[t]]
           e == data'[on[t]]
           r == out'[t]
           k == Moves(on[t], s)
<1>1. /\ PipeTypes /\ on[t] \in Pipes
      /\ \A u \in Readers : on[u] \in Pipes /\ (u # t => on[u] # on[t])
  BY PipeOfReader, ZenonT(40) DEF PipeInv
<1>2. /\ closed' = closed
      /\ data' \in [Pipes -> Seq(Bytes)] /\ out' \in [Readers -> Seq(Bytes)]
      /\ pc' \in [Readers -> {"out", "asleep", "woken"}]
      /\ \A q \in Pipes : q # on[t] => data'[q] = data[q]
      /\ \A u \in Readers : u # t => out'[u] = out[u] /\ pc'[u] = pc[u]
      /\ k \in 0..2 /\ Len(r) \in 0..2
      /\ Len(e) = Len(d) - k /\ (\A i \in 1..Len(e) : e[i] = d[i + k])
      /\ Len(r) = Len(s) + k
      /\ \A i \in 1..Len(s) : r[i] = s[i]
      /\ \A i \in 1..k : r[Len(s) + i] = d[i]
      /\ pc'[t] = IF Len(r) = 2 THEN "out" ELSE "asleep"
      /\ Len(r) < 2 => e = <<>>
  <2>1. /\ data \in [Pipes -> Seq(Bytes)] /\ out \in [Readers -> Seq(Bytes)]
        /\ pc \in [Readers -> {"out", "asleep", "woken"}]
    BY <1>1, ZenonT(40) DEF PipeTypes
  <2>2. Turned(t, on[t], s)
    BY <1>1, <2>1, ReadTurn, ZenonT(40)
  <2> QED
    BY <2>2, ZenonT(40) DEF Turned
<1>3. d \in Seq(Bytes) /\ e \in Seq(Bytes) /\ r \in Seq(Bytes)
  BY <1>1, <1>2 DEF PipeTypes
<1> HIDE DEF d, e, r, k
<1>4. Turn(d, s, k, e, r)
  <2>1. Len(d) = Len(e) + k
    <3>1. Len(e) = Len(d) - k /\ k \in 0..2
      BY <1>2, ZenonT(40)
    <3> QED
      BY <1>3, <3>1
  <2>2. Len(r) < 2 => Len(e) = 0
    BY <1>2
  <2> QED
    BY <1>2, <2>1, <2>2, ZenonT(40) DEF Turn
<1>5. Whole(d, Len(s), s[1])
  BY ZenonT(40) DEF PipeInv, Stream, Whole, d
<1>6. /\ Len(r) = 2 => \E m \in Promises : r = <<Header(m), Content(m)>>
      /\ Whole(e, Rest(r), r[1])
      /\ (Len(e) + Rest(r)) % 2 = (Len(d) + Len(s)) % 2
      /\ (Len(e) + Rest(r)) % 2 = 1 => LastOf(e, r[1]) = LastOf(d, s[1])
  <2>1. Consumed(d, s, e, r)
    BY <1>2, <1>3, <1>4, <1>5, Consume, ZenonT(40)
  <2> QED
    BY <2>1, ZenonT(40) DEF Consumed
<1>7. Taken(t)' = Rest(r) /\ \A u \in Readers : u # t => Taken(u)' = Taken(u)
  BY <1>2, ZenonT(40) DEF Taken, Rest, r
<1>8. PipeTypes'
  BY <1>1, <1>2, ZenonT(40) DEF PipeTypes
<1>9. Lacks'
  BY <1>1, <1>2 DEF PipeInv, Lacks, PipeTypes, r
<1>10. SleepsOnEmpty'
  <2>1. ASSUME NEW u \in Readers, pc'[u] = "asleep" PROVE IsOpen(on[u]) /\ data'[on[u]] = <<>>
    <3>1. CASE u = t
      <4>1. Len(r) < 2
        BY <1>2, <2>1, <3>1
      <4> QED
        BY <1>2, <3>1, <4>1, ZenonT(40) DEF e
    <3>2. CASE u # t
      BY <1>1, <1>2, <2>1, <3>2, ZenonT(40) DEF PipeInv, SleepsOnEmpty
    <3> QED
      BY <3>1, <3>2, ZenonT(40)
  <2> QED
    BY <1>2, <2>1, ZenonT(40) DEF SleepsOnEmpty, IsOpen
<1>11. ReadsWhole'
  <2>1. ASSUME NEW u \in Readers, pc'[u] = "out", Len(out'[u]) = 2
        PROVE  \E m \in Promises : out'[u] = <<Header(m), Content(m)>>
    <3>1. CASE u = t
      BY <1>6, <2>1, <3>1, ZenonT(40) DEF r
    <3>2. CASE u # t
      <4>1. out'[u] = out[u] /\ pc[u] = "out" /\ Len(out[u]) = 2
        BY <1>2, <2>1, <3>2, ZenonT(40)
      <4> QED
        BY <4>1, ZenonT(40) DEF PipeInv, ReadsWhole
    <3> QED
      BY <3>1, <3>2, ZenonT(40)
  <2> QED
    BY <2>1, ZenonT(40) DEF ReadsWhole
<1>12. Stream'
  BY <1>1, <1>2, <1>6, <1>7, ZenonT(40) DEF PipeInv, Stream, IsOpen, r, e
<1>13. ASSUME NEW u \in Readers, u # t PROVE EndKept(u)
  BY <1>1, <1>2, <1>7, <1>13, ZenonT(40) DEF EndKept
<1>14. EndKept(t)
  <2>1. (Len(d) + Len(s)) % 2 = 1 => LastOf(d, s[1]) = LastOf(d, out[t][1])
    BY <1>3 DEF LastOf
  <2> QED
    BY <1>6, <1>7, <2>1, ZenonT(40) DEF EndKept, d, e, r
<1> QED
  BY <1>2, <1>8, <1>9, <1>10, <1>11, <1>12, <1>13, <1>14, ZenonT(40) DEF PipeInv
-----------------------------------------------------------------------------
LEMMA ReadInv ==
    ASSUME PipeInv, NEW t \in Readers, Read(t, on[t], 2) \/ ReadResumes(t)
    PROVE  PipeInv' /\ closed' = closed /\ \A u \in Readers : IsOpen(on[u]) => EndKept(u)
<1>1. CASE Read(t, on[t], 2)
  <2>1. /\ on' = on /\ want' = [want EXCEPT ![t] = 2] /\ ReadLoop(t, on[t], 2, <<>>)
        /\ <<>> \in Seq(Bytes) /\ Len(<<>>) = 0 /\ Len(<<>>) \in 0..1 /\ Taken(t) = 0
    BY <1>1 DEF Read, PipeInv, PipeTypes, Taken
  <2>2. Len(<<>>) # 1
    BY <2>1
  <2> QED
    BY <2>1, <2>2, ReadClosed, ReadOpen, ZenonT(40)
<1>2. CASE ReadResumes(t)
  <2>1. want[t] = 2 /\ Len(out[t]) < 2 /\ pc[t] # "out"
    BY <1>2, ZenonT(40) DEF ReadResumes, PipeInv, Lacks
  <2>2. out[t] \in Seq(Bytes) /\ Len(out[t]) \in 0..1 /\ Len(out[t]) = Taken(t)
    <3>1. out[t] \in Seq(Bytes)
      BY ZenonT(40) DEF PipeInv, PipeTypes
    <3>2. Len(out[t]) \in Nat
      BY <3>1
    <3>3. \A n \in Nat : n < 2 => n \in 0..1
      OBVIOUS
    <3> QED
      BY <2>1, <3>1, <3>2, <3>3, ZenonT(40) DEF Taken
  <2>3. on' = on /\ want' = [want EXCEPT ![t] = 2] /\ ReadLoop(t, on[t], 2, out[t])
    BY <1>2, <2>1, ZenonT(40) DEF ReadResumes, PipeInv, PipeTypes
  <2> QED
    BY <2>2, <2>3, ReadClosed, ReadOpen, ZenonT(40)
<1> QED
  BY <1>1, <1>2, ZenonT(40)

(* A write keeps the invariant of the pipes when it leaves whole messages. *)
LEMMA WriteInv ==
    ASSUME PipeInv, NEW t \in Readers, NEW b \in Seq(Bytes), Write(on[t], b),
           Whole(data'[on[t]], Taken(t), out[t][1])
    PROVE  PipeInv' /\ \A u \in Readers : u # t => EndKept(u)
<1>1. PipeTypes /\ SleepsOnEmpty /\ on[t] \in Pipes
  BY PipeOfReader, ZenonT(40) DEF PipeInv
<1>2. /\ PipeTypes' /\ SleepsOnEmpty'
      /\ closed' = closed /\ on' = on /\ want' = want /\ out' = out
      /\ \A q \in Pipes : q # on[t] => data'[q] = data[q]
      /\ \A u \in Readers : (pc'[u] = "out" <=> pc[u] = "out") /\ Taken(u)' = Taken(u)
  BY <1>1, WriteTurn, ZenonT(40)
<1>3. \A u \in Readers : on[u] \in Pipes /\ (u # t => data'[on[u]] = data[on[u]])
  BY <1>1, <1>2, PipeOfReader, ZenonT(40)
<1>4. Lacks' /\ ReadsWhole'
  BY <1>2, ZenonT(40) DEF PipeInv, Lacks, ReadsWhole
<1>5. Stream'
  BY <1>2, <1>3, ZenonT(40) DEF PipeInv, Stream, IsOpen
<1>6. \A u \in Readers : u # t => EndKept(u)
  BY <1>2, <1>3, ZenonT(40) DEF EndKept
<1> QED
  BY <1>2, <1>4, <1>5, <1>6, ZenonT(40) DEF PipeInv

LEMMA CloseInv ==
    ASSUME PipeInv, NEW p, Close(p)
    PROVE  PipeInv' /\ \A u \in Readers : EndKept(u) /\ (IsOpen(on[u])' => IsOpen(on[u]))
<1>1. /\ closed' = [closed EXCEPT ![p] = TRUE] /\ pc' = NotifyAll(p)
      /\ data' = data /\ on' = on /\ want' = want /\ out' = out
  BY ZenonT(40) DEF Close
<1>2. PipeTypes /\ \A t \in Readers : on[t] \in Pipes
  BY PipeOfReader, ZenonT(40) DEF PipeInv
<1>3. /\ pc' \in [Readers -> {"out", "asleep", "woken"}]
      /\ \A t \in Readers :
            /\ pc'[t] = "out" <=> pc[t] = "out"
            /\ pc'[t] = "asleep" => pc[t] = "asleep"
            /\ Taken(t)' = Taken(t)
  <2>1. pc' \in {pc, NotifyAll(p)}
    BY <1>1, ZenonT(40)
  <2> QED
    BY <1>1, <1>2, <2>1, NotifyKeeps
<1>4. /\ closed' \in [Pipes -> BOOLEAN]
      /\ \A u \in Readers : ~closed'[on[u]] => ~closed[on[u]]
      /\ \A u \in Readers : on[u] # p => closed'[on[u]] = closed[on[u]]
  BY ZenonT(40), <1>1, <1>2 DEF PipeTypes
<1>5. PipeTypes'
  BY <1>1, <1>2, <1>3, <1>4, ZenonT(40) DEF PipeTypes
<1>6. \A u \in Readers : pc'[u] = "asleep" => on[u] # p
  BY <1>1, ZenonT(40) DEF NotifyAll
<1>7. SleepsOnEmpty'
  BY <1>1, <1>3, <1>4, <1>6 DEF PipeInv, SleepsOnEmpty, IsOpen
<1>8. Lacks' /\ ReadsWhole'
  BY <1>1, <1>3, ZenonT(40) DEF PipeInv, Lacks, ReadsWhole
<1>9. Stream'
  BY <1>1, <1>3, <1>4, ZenonT(40) DEF PipeInv, Stream, IsOpen
<1>10. \A u \in Readers : EndKept(u)
  BY <1>1, <1>3, ZenonT(40) DEF EndKept
<1> QED
  BY <1>1, <1>4, <1>5, <1>7, <1>8, <1>9, <1>10 DEF PipeInv, IsOpen

LEMMA WakesInv ==
    ASSUME PipeInv, NEW t \in Readers, WakesSpuriously(t)
    PROVE  PipeInv' /\ closed' = closed /\ \A u \in Readers : EndKept(u)
<1>1. /\ closed' = closed /\ pc[t] = "asleep" /\ pc' = [pc EXCEPT ![t] = "woken"]
      /\ data' = data /\ on' = on /\ want' = want /\ out' = out
  BY ZenonT(40) DEF WakesSpuriously
<1>2. PipeTypes /\ PipeTypes'
  BY <1>1, ZenonT(40) DEF PipeInv, PipeTypes
<1>3. \A u \in Readers :
         /\ pc'[u] = "out" <=> pc[u] = "out"
         /\ pc'[u] = "asleep" => pc[u] = "asleep"
  BY <1>1, <1>2, ZenonT(40) DEF PipeTypes
<1>4. \A u \in Readers : Taken(u)' = Taken(u)
  BY <1>1, <1>3, ZenonT(40) DEF Taken
<1>5. Lacks' /\ ReadsWhole' /\ SleepsOnEmpty'
  BY <1>1, <1>3, ZenonT(40) DEF PipeInv, Lacks, ReadsWhole, SleepsOnEmpty, IsOpen
<1>6. Stream'
  BY <1>1, <1>4, ZenonT(40) DEF PipeInv, Stream, IsOpen
<1>7. \A u \in Readers : EndKept(u)
  BY <1>1, <1>4, ZenonT(40) DEF EndKept
<1> QED
  BY <1>1, <1>2, <1>5, <1>6, <1>7, ZenonT(40) DEF PipeInv

(* A step that keeps the ends of the open pipes, and who is between its    *)
(* two writes, keeps AtEnd.                                                *)
LEMMA EndsInv ==
    ASSUME PipeInv, PipeInv', AtEnd,
           \A u \in Readers : IsOpen(on[u])' => IsOpen(on[u]) /\ EndKept(u),
           \A c \in Callers : /\ cpc'[c] = "content" <=> cpc[c] = "content"
                              /\ cpc[c] = "content" => round'[c] = round[c]
    PROVE  AtEnd'
<1>1. /\ "peer" \in Readers /\ "session" \in Readers
      /\ on["peer"] = "requests" /\ on["session"] = "answers"
      /\ on'["peer"] = "requests" /\ on'["session"] = "answers"
  BY ThreadsAssumption, ZenonT(40) DEF PipeInv, PipeTypes
<1>2. \A c \in Callers : cpc[c] = "content" => Header(Call(c))' = Header(Call(c))
  BY ZenonT(40) DEF Header, Call
<1>3. (\E c \in Callers : cpc'[c] = "content") <=> \E c \in Callers : cpc[c] = "content"
  BY ZenonT(40)
<1>4. IsOpen("answers")' => (Len(data'["answers"]) + Taken("session")') % 2 = 0
  BY <1>1, ZenonT(40) DEF EndKept, AtEnd
<1>5. ASSUME IsOpen("requests")'
      PROVE  IF \E c \in Callers : cpc'[c] = "content"
               THEN /\ (Len(data'["requests"]) + Taken("peer")') % 2 = 1
                    /\ \A c \in Callers : cpc'[c] = "content" =>
                          LastOf(data'["requests"], out'["peer"][1]) = Header(Call(c))'
               ELSE (Len(data'["requests"]) + Taken("peer")') % 2 = 0
  <2>1. IsOpen("requests") /\ EndKept("peer")
    BY <1>1, <1>5, ZenonT(40)
  <2> QED
    BY <1>1, <1>2, <1>3, <2>1, ZenonT(40) DEF EndKept, AtEnd
<1> QED
  BY <1>4, <1>5, ZenonT(40) DEF AtEnd
-----------------------------------------------------------------------------
(* The threads' own state.                                                 *)
LEMMA CallsInv ==
    ASSUME CallTypes, Calls, Next
    PROVE  CallTypes' /\ Calls'
<1>1. ASSUME NEW c \in Callers, Send(c) PROVE CallTypes' /\ Calls'
  <2>1. round[c] \in 0..Rounds /\ round[c] + 1 \in 0..Rounds /\ round[c] + 1 >= 1
    BY <1>1, BoundsAssumption DEF CallTypes, Send
  <2>2. CallTypes'
    BY <1>1, <2>1, ZenonT(40) DEF CallTypes, Send, Goto
  <2>3. Calls'
    BY <1>1, <2>1, ThreadsAssumption, ZenonT(40) DEF CallTypes, Calls, Send, Goto
  <2> QED
    BY <2>2, <2>3, ZenonT(40)
<1>2. ASSUME NEW c \in Callers, CallerSteps(c) PROVE CallTypes' /\ Calls'
  <2>1. CASE SendHeader(c)
    BY <1>2, <2>1, ThreadsAssumption, ZenonT(40) DEF CallTypes, Calls, SendHeader, Goto
  <2>2. CASE SendContent(c) \/ SendFails(c)
    BY <1>2, <2>2, ThreadsAssumption, ZenonT(40) DEF CallTypes, Calls, SendContent, SendFails, Goto
  <2>3. CASE \E t \in BOOLEAN : WaitForAnswer(c, t)
    BY <1>2, <2>3, ThreadsAssumption, ZenonT(40) DEF CallTypes, Calls, WaitForAnswer, Goto
  <2>4. CASE Waits(c)
    BY <1>2, <2>4, ZenonT(40) DEF CallTypes, Calls, Waits, callVars
  <2>5. CASE Returns(c)
    BY <1>2, <2>5, ThreadsAssumption, ZenonT(40) DEF CallTypes, Calls, Returns, Goto
  <2> QED
    BY <1>2, <2>1, <2>2, <2>3, <2>4, <2>5, ZenonT(40) DEF CallerSteps
<1>3. ASSUME cpc' = cpc, round' = round, sendMutex' = sendMutex PROVE CallTypes' /\ Calls'
  BY <1>3, ZenonT(40) DEF CallTypes, Calls
<1>4. ASSUME NEW c \in Callers, TimePasses(c) PROVE CallTypes' /\ Calls'
  BY <1>3, <1>4, ZenonT(40) DEF TimePasses, callVars
<1>5. ASSUME NEW t \in Readers, Reads(t) \/ Resumes(t) \/ Ends(t) PROVE CallTypes' /\ Calls'
  BY <1>3, <1>5, ZenonT(40) DEF Reads, Resumes, Ends, callVars
<1>6. CASE Answers \/ PeerAnswers
  BY <1>3, <1>6, ZenonT(40) DEF Answers, PeerAnswers
<1>7. CASE RWClose \/ RWCloses \/ Spurious
  BY <1>3, <1>7, ZenonT(40) DEF RWClose, RWCloses, Spurious, callVars
<1>8. "session" \in Readers /\ "peer" \in Readers
  BY ThreadsAssumption, ZenonT(40)
<1> QED
  BY <1>1, <1>2, <1>4, <1>5, <1>6, <1>7, <1>8 DEF Next, SessionSteps, PeerSteps
-----------------------------------------------------------------------------
LEMMA QuietInv ==
    ASSUME PipeInv, AtEnd, UNCHANGED pipeVars,
           \A c \in Callers : /\ cpc'[c] = "content" <=> cpc[c] = "content"
                              /\ cpc[c] = "content" => round'[c] = round[c]
    PROVE  PipeInv' /\ AtEnd'
<1>1. PipeInv'
  BY PipeKept, ZenonT(40)
<1>2. /\ data' = data /\ closed' = closed /\ pc' = pc /\ on' = on /\ out' = out
  BY ZenonT(40) DEF pipeVars
<1>3. \A u \in Readers : Taken(u)' = Taken(u) /\ (IsOpen(on[u])' <=> IsOpen(on[u]))
  BY <1>2, ZenonT(40) DEF Taken, IsOpen
<1>4. \A u \in Readers : EndKept(u)
  BY <1>2, <1>3, ZenonT(40) DEF EndKept
<1> QED
  BY <1>1, <1>3, <1>4, EndsInv, ZenonT(40)

(* Where a caller that writes finds the requests' pipe.                    *)
LEMMA WriterAlone ==
    ASSUME CallTypes, Calls, AtEnd, IsOpen("requests"), NEW c \in Callers
    PROVE  /\ cpc[c] = "header" =>
                /\ \A b \in Callers : cpc[b] # "content"
                /\ (Len(data["requests"]) + Taken("peer")) % 2 = 0
           /\ cpc[c] = "content" =>
                /\ \A b \in Callers : b # c => cpc[b] # "content"
                /\ (Len(data["requests"]) + Taken("peer")) % 2 = 1
                /\ LastOf(data["requests"], out["peer"][1]) = Header(Call(c))
<1>1. cpc[c] = "header" => \A b \in Callers : cpc[b] # "content"
  BY ZenonT(40) DEF Calls
<1>2. cpc[c] = "content" => \A b \in Callers : b # c => cpc[b] # "content"
  BY ZenonT(40) DEF Calls
<1> QED
  BY <1>1, <1>2, ZenonT(40) DEF AtEnd

(* What a write does to the pipe of reader t.                              *)
Grown(t, b) ==
    /\ data[on[t]] \in Seq(Bytes) /\ data'[on[t]] \in Seq(Bytes)
    /\ Len(data'[on[t]]) = Len(data[on[t]]) + Len(b)
    /\ \A i \in 1..Len(data[on[t]]) : data'[on[t]][i] = data[on[t]][i]
    /\ \A i \in 1..Len(b) : data'[on[t]][Len(data[on[t]]) + i] = b[i]
    /\ Taken(t) \in {0, 1} /\ Taken(t)' = Taken(t) /\ out' = out /\ closed' = closed
    /\ IsOpen(on[t]) /\ Whole(data[on[t]], Taken(t), out[t][1])

LEMMA Written ==
    ASSUME PipeInv, NEW t \in Readers, NEW b \in Seq(Bytes), Write(on[t], b)
    PROVE  Grown(t, b)
<1>1. PipeTypes /\ SleepsOnEmpty /\ on[t] \in Pipes
  BY PipeOfReader, ZenonT(40) DEF PipeInv
<1>2. /\ PipeTypes' /\ Taken(t)' = Taken(t) /\ out' = out /\ closed' = closed
      /\ Len(data'[on[t]]) = Len(data[on[t]]) + Len(b)
      /\ \A i \in 1..Len(data[on[t]]) : data'[on[t]][i] = data[on[t]][i]
      /\ \A i \in 1..Len(b) : data'[on[t]][Len(data[on[t]]) + i] = b[i]
  BY <1>1, WriteTurn, ZenonT(40)
<1>3. data[on[t]] \in Seq(Bytes) /\ data'[on[t]] \in Seq(Bytes)
  BY <1>1, <1>2 DEF PipeTypes
<1>4. Taken(t) \in {0, 1}
  <2>1. out[t] \in Seq(Bytes)
    BY <1>1, ZenonT(40) DEF PipeTypes
  <2>2. Len(out[t]) \in Nat
    BY <2>1
  <2>3. \A n \in Nat : n < 2 => n \in {0, 1}
    OBVIOUS
  <2> QED
    BY ZenonT(40), <2>2, <2>3 DEF Taken, PipeInv, Lacks
<1>5. IsOpen(on[t]) /\ Whole(data[on[t]], Taken(t), out[t][1])
  BY ZenonT(40) DEF Write, PipeInv, Stream
<1> QED
  BY <1>2, <1>3, <1>4, <1>5, ZenonT(40) DEF Grown

LEMMA AppendElements ==
    ASSUME NEW S, NEW q \in Seq(S), NEW x \in S
    PROVE  /\ Append(q, x) \in Seq(S)
           /\ Len(q) \in Nat /\ Len(Append(q, x)) = Len(q) + 1
           /\ Append(q, x)[Len(q) + 1] = x
           /\ \A i \in 1..Len(q) : Append(q, x)[i] = q[i]
  OBVIOUS

LEMMA GrownByOne ==
    ASSUME NEW t, NEW b, Grown(t, <<b>>)
    PROVE  Appends(data[on[t]], data'[on[t]], b)
<1>1. Len(<<b>>) = 1 /\ 1 \in 1..1 /\ <<b>>[1] = b
  OBVIOUS
<1> QED
  BY <1>1, ZenonT(40) DEF Grown, Appends

(* The write of a message's header, and of its content.                    *)
LEMMA SendHeaderInv ==
    ASSUME PipeInv, CallTypes, Calls, AtEnd, NEW c \in Callers, SendHeader(c)
    PROVE  PipeInv' /\ AtEnd'
<1> DEFINE m == Call(c)
           d == data["requests"]
           e == data'["requests"]
           k == Taken("peer")
           o == out["peer"][1]
<1>1. /\ m \in Promises /\ <<Header(m)>> \in Seq(Bytes)
      /\ Len(<<Header(m)>>) = 1 /\ <<Header(m)>>[1] = Header(m)
  BY CallIsPromise DEF SendHeader
<1>2. /\ "peer" \in Readers /\ on["peer"] = "requests" /\ on'["peer"] = "requests"
      /\ "session" \in Readers /\ on["session"] = "answers"
  BY ThreadsAssumption, ZenonT(40) DEF PipeInv, PipeTypes, SendHeader, Write
<1>3. Write(on["peer"], <<Header(m)>>)
  BY <1>2, ZenonT(40) DEF SendHeader
<1>4. /\ d \in Seq(Bytes) /\ e \in Seq(Bytes) /\ Appends(d, e, Header(m))
      /\ k \in {0, 1} /\ k' = k /\ out' = out /\ closed' = closed
      /\ IsOpen("requests") /\ Whole(d, k, o)
  <2>1. Grown("peer", <<Header(m)>>)
    BY <1>1, <1>2, <1>3, Written, ZenonT(40)
  <2>2. Appends(data[on["peer"]], data'[on["peer"]], Header(m))
    BY <1>2, <2>1, GrownByOne, ZenonT(40)
  <2> QED
    BY <1>2, <2>1, <2>2, ZenonT(40) DEF Grown
<1>5. (\A b \in Callers : cpc[b] # "content") /\ (Len(d) + k) % 2 = 0
  BY <1>4, WriterAlone, ZenonT(40) DEF SendHeader
<1> HIDE DEF m, d, e, k, o
<1>6. Whole(e, k, o) /\ (Len(e) + k) % 2 = 1 /\ LastOf(e, o) = Header(m)
  <2>1. EndsInHeader(e, k, o, m)
    BY <1>1, <1>4, <1>5, AppendHeader, ZenonT(40)
  <2> QED
    BY <2>1, ZenonT(40) DEF EndsInHeader
<1>7. PipeInv' /\ EndKept("session")
  <2>1. "session" # "peer" /\ Whole(data'[on["peer"]], Taken("peer"), out["peer"][1])
    BY <1>2, <1>6, ZenonT(40) DEF e, k, o
  <2> QED
    BY <1>1, <1>2, <1>3, <2>1, WriteInv, ZenonT(40)
<1>8. IsOpen("answers")' => (Len(data'["answers"]) + Taken("session")') % 2 = 0
  BY <1>2, <1>4, <1>7, ZenonT(40) DEF EndKept, AtEnd, IsOpen
<1>9. /\ cpc'[c] = "content" /\ \A b \in Callers : cpc'[b] = "content" => b = c
      /\ Header(Call(c))' = Header(m)
  BY <1>5, ZenonT(40) DEF SendHeader, Goto, CallTypes, Header, Call, m
<1>10. /\ (Len(data'["requests"]) + Taken("peer")') % 2 = 1
       /\ LastOf(data'["requests"], out'["peer"][1]) = Header(m)
  BY <1>4, <1>6, ZenonT(40) DEF e, k, o
<1> QED
  BY <1>7, <1>8, <1>9, <1>10, ZenonT(40) DEF AtEnd

LEMMA SendContentInv ==
    ASSUME PipeInv, CallTypes, Calls, AtEnd, NEW c \in Callers, SendContent(c)
    PROVE  PipeInv' /\ AtEnd'
<1> DEFINE m == Call(c)
           d == data["requests"]
           e == data'["requests"]
           k == Taken("peer")
           o == out["peer"][1]
<1>1. /\ m \in Promises /\ <<Content(m)>> \in Seq(Bytes)
      /\ Len(<<Content(m)>>) = 1 /\ <<Content(m)>>[1] = Content(m)
  BY CallIsPromise DEF SendContent
<1>2. /\ "peer" \in Readers /\ on["peer"] = "requests" /\ on'["peer"] = "requests"
      /\ "session" \in Readers /\ on["session"] = "answers"
  BY ThreadsAssumption, ZenonT(40) DEF PipeInv, PipeTypes, SendContent, Write
<1>3. Write(on["peer"], <<Content(m)>>)
  BY <1>2, ZenonT(40) DEF SendContent
<1>4. /\ d \in Seq(Bytes) /\ e \in Seq(Bytes) /\ Appends(d, e, Content(m))
      /\ k \in {0, 1} /\ k' = k /\ out' = out /\ closed' = closed
      /\ IsOpen("requests") /\ Whole(d, k, o)
  <2>1. Grown("peer", <<Content(m)>>)
    BY <1>1, <1>2, <1>3, Written, ZenonT(40)
  <2>2. Appends(data[on["peer"]], data'[on["peer"]], Content(m))
    BY <1>2, <2>1, GrownByOne, ZenonT(40)
  <2> QED
    BY <1>2, <2>1, <2>2, ZenonT(40) DEF Grown
<1>5. /\ \A b \in Callers : b # c => cpc[b] # "content"
      /\ (Len(d) + k) % 2 = 1 /\ LastOf(d, o) = Header(m)
  BY <1>4, WriterAlone, ZenonT(40) DEF SendContent
<1> HIDE DEF m, d, e, k, o
<1>6. Whole(e, k, o) /\ (Len(e) + k) % 2 = 0
  BY <1>1, <1>4, <1>5, AppendContent, ZenonT(40)
<1>7. PipeInv' /\ EndKept("session")
  <2>1. "session" # "peer" /\ Whole(data'[on["peer"]], Taken("peer"), out["peer"][1])
    BY <1>2, <1>6, ZenonT(40) DEF e, k, o
  <2> QED
    BY <1>1, <1>2, <1>3, <2>1, WriteInv, ZenonT(40)
<1>8. IsOpen("answers")' => (Len(data'["answers"]) + Taken("session")') % 2 = 0
  BY <1>2, <1>4, <1>7, ZenonT(40) DEF EndKept, AtEnd, IsOpen
<1>9. \A b \in Callers : cpc'[b] # "content"
  BY <1>5, ZenonT(40) DEF SendContent, Goto, CallTypes
<1>10. (Len(data'["requests"]) + Taken("peer")') % 2 = 0
  BY <1>4, <1>6, ZenonT(40) DEF e, k
<1> QED
  BY <1>7, <1>8, <1>9, <1>10, ZenonT(40) DEF AtEnd

(* The peer writes a whole message at once.                                *)
LEMMA PeerAnswersInv ==
    ASSUME PipeInv, AtEnd, PeerAnswers
    PROVE  PipeInv' /\ AtEnd'
<1>1. /\ "peer" \in Readers /\ on["peer"] = "requests"
      /\ "session" \in Readers /\ on["session"] = "answers"
  BY ThreadsAssumption, ZenonT(40) DEF PipeInv, PipeTypes
<1>2. cpc' = cpc /\ round' = round
  BY ZenonT(40) DEF PeerAnswers
<1>3. CASE UNCHANGED pipeVars
  BY <1>2, <1>3, QuietInv, ZenonT(40)
<1>4. CASE ~UNCHANGED pipeVars
  <2>1. PICK m \in Promises : out["peer"] = <<Header(m), Content(m)>>
    BY <1>1, ZenonT(40) DEF PeerAnswers, PipeInv, ReadsWhole
  <2>2. out["peer"][1][1] = m /\ out["peer"][2][1] = m
    BY <2>1 DEF Header, Content
  <2> DEFINE b == <<Header(m), Content(m)>>
             d == data["answers"]
             f == Append(d, Header(m))
             e == data'["answers"]
             k == Taken("session")
             o == out["session"][1]
  <2>3. Write(on["session"], b)
    BY <1>1, <1>4, <2>2, ZenonT(40) DEF PeerAnswers
  <2>4. b \in Seq(Bytes) /\ Len(b) = 2 /\ b[1] = Header(m) /\ b[2] = Content(m)
    BY DEF Bytes
  <2>5. Grown("session", b)
    BY <1>1, <2>3, <2>4, Written, ZenonT(40)
  <2>6. /\ d \in Seq(Bytes) /\ e \in Seq(Bytes) /\ Len(e) = Len(d) + 2
        /\ (\A i \in 1..Len(d) : e[i] = d[i])
        /\ e[Len(d) + 1] = Header(m) /\ e[Len(d) + 2] = Content(m)
        /\ k \in {0, 1} /\ k' = k /\ out' = out /\ closed' = closed
        /\ IsOpen("answers") /\ Whole(d, k, o)
    BY <1>1, <2>4, <2>5 DEF Grown
  <2>7. f \in Seq(Bytes) /\ Appends(d, f, Header(m)) /\ Appends(f, e, Content(m))
    <3>1. Header(m) \in Bytes
      BY ZenonT(40) DEF Bytes
    <3>2. d \in Seq(Bytes)
      BY ZenonT(40), <2>6
    <3> HIDE DEF d, e
    <3>3. /\ f \in Seq(Bytes) /\ Len(d) \in Nat /\ Len(f) = Len(d) + 1
          /\ f[Len(d) + 1] = Header(m) /\ \A i \in 1..Len(d) : f[i] = d[i]
      BY <3>1, <3>2, AppendElements
    <3> HIDE DEF f
    <3> QED
      BY <2>6, <3>3 DEF Appends
  <2>8. (Len(d) + k) % 2 = 0
    BY <2>6, ZenonT(40) DEF AtEnd
  <2> HIDE DEF b, d, e, f, k, o
  <2>9. Whole(f, k, o) /\ (Len(f) + k) % 2 = 1 /\ LastOf(f, o) = Header(m)
    <3>1. EndsInHeader(f, k, o, m)
      BY <2>6, <2>7, <2>8, AppendHeader, ZenonT(40)
    <3> QED
      BY <3>1, ZenonT(40) DEF EndsInHeader
  <2>10. Whole(e, k, o) /\ (Len(e) + k) % 2 = 0
    BY ZenonT(40), <2>6, <2>7, <2>9, AppendContent
  <2>11. PipeInv' /\ EndKept("peer")
    <3>1. "session" # "peer" /\ Whole(data'[on["session"]], Taken("session"), out["session"][1])
      BY <1>1, <2>10, ZenonT(40) DEF e, k, o
    <3> QED
      BY <1>1, <2>3, <2>4, <3>1, WriteInv, ZenonT(40)
  <2>12. (Len(data'["answers"]) + Taken("session")') % 2 = 0
    BY <2>6, <2>10, ZenonT(40) DEF e, k
  <2>13. \A c \in Callers : Header(Call(c))' = Header(Call(c))
    BY <1>2, ZenonT(40) DEF Header, Call
  <2>14. IsOpen("requests")' <=> IsOpen("requests")
    BY <2>6, ZenonT(40) DEF IsOpen
  <2> QED
    BY <1>1, <1>2, <2>11, <2>12, <2>13, <2>14, ZenonT(40) DEF AtEnd, EndKept
<1> QED
  BY <1>3, <1>4, ZenonT(40)
-----------------------------------------------------------------------------
(* The futures.                                                            *)
LEMMA FuturesInv ==
    ASSUME PipeInv, CallTypes, Calls, FutureInv, Next
    PROVE  FutureInv'
<1>1. ASSUME NEW c \in Callers, cpc[c] # "idle", SetValue(Call(c), SendError) PROVE FutureInv'
  <2>1. Call(c) \in Promises
    BY <1>1, CallIsPromise, ZenonT(40)
  <2> QED
    BY <1>1, <2>1, SetValueInv
<1>2. ASSUME NEW c \in Callers, SendFails(c) PROVE FutureInv'
  BY <1>1, <1>2, ZenonT(40) DEF SendFails
<1>3. ASSUME NEW c \in Callers, NEW t \in BOOLEAN, WaitForAnswer(c, t) PROVE FutureInv'
  <2>1. Call(c) \in Promises
    BY <1>3, CallIsPromise, ZenonT(40) DEF WaitForAnswer
  <2>2. c \in Waiters /\ Look(c, Call(c)) /\ waitsFor' = [waitsFor EXCEPT ![c] = Call(c)]
    BY <1>3, ThreadsAssumption, ZenonT(40) DEF WaitForAnswer, Wait
  <2> QED
    BY ZenonT(40), <2>1, <2>2, LookInv
<1>4. ASSUME NEW c \in Callers, WaitResumes(c) \/ TimesOut(c) \/ WaiterWakes(c)
      PROVE  FutureInv'
  BY <1>4, WaiterInv, ThreadsAssumption, ZenonT(40)
<1>5. ASSUME Answers PROVE FutureInv'
  <2>1. PICK m \in Promises : out["session"] = <<Header(m), Content(m)>>
    BY <1>5, ThreadsAssumption, ZenonT(40) DEF Answers, PipeInv, ReadsWhole
  <2>2. out["session"][1][1] = m /\ out["session"][2][1] = m
    BY <2>1 DEF Header, Content
  <2> QED
    BY <1>5, <2>2, SetValueInv, ZenonT(40) DEF Answers
<1>6. ASSUME UNCHANGED futureVars PROVE FutureInv'
  BY <1>6, FutureKept, ZenonT(40)
<1>7. ASSUME NEW c \in Callers, Send(c) \/ SendHeader(c) \/ SendContent(c) \/ Returns(c)
      PROVE  UNCHANGED futureVars
  BY <1>7, ZenonT(40) DEF Send, SendHeader, SendContent, Returns
<1>8. ASSUME NEW t \in Readers, Reads(t) \/ Resumes(t) \/ Ends(t) PROVE UNCHANGED futureVars
  BY <1>8, ZenonT(40) DEF Reads, Resumes, Ends
<1>9. ASSUME PeerAnswers \/ RWClose \/ RWCloses PROVE UNCHANGED futureVars
  BY <1>9, ZenonT(40) DEF PeerAnswers, RWClose, RWCloses
<1>10. ASSUME NEW c \in Callers, CallerSteps(c) \/ TimePasses(c) PROVE FutureInv'
  BY <1>2, <1>3, <1>4, <1>6, <1>7, <1>10, ZenonT(40) DEF CallerSteps, Waits, TimePasses
<1>11. ASSUME Spurious PROVE FutureInv'
  BY <1>4, <1>6, <1>11, ZenonT(40) DEF Spurious
<1>12. "session" \in Readers /\ "peer" \in Readers
  BY ThreadsAssumption, ZenonT(40)
<1> QED
  BY <1>5, <1>6, <1>7, <1>8, <1>9, <1>10, <1>11, <1>12, ZenonT(40) DEF Next, SessionSteps,
     PeerSteps

(* The pipes.                                                              *)
LEMMA PipesInv ==
    ASSUME PipeInv, CallTypes, Calls, AtEnd, Next
    PROVE  PipeInv' /\ AtEnd'
<1> DEFINE SameCalls == \A c \in Callers :
              /\ cpc'[c] = "content" <=> cpc[c] = "content"
              /\ cpc[c] = "content" => round'[c] = round[c]
<1>1. ASSUME cpc' = cpc, round' = round PROVE SameCalls
  BY <1>1, ZenonT(40)
<1>2. ASSUME NEW c \in Callers, Send(c) \/ Returns(c) \/ \E t \in BOOLEAN : WaitForAnswer(c, t)
      PROVE  SameCalls /\ UNCHANGED pipeVars
  BY <1>2, ZenonT(40) DEF Send, Returns, WaitForAnswer, Goto, CallTypes
<1>3. ASSUME NEW c \in Callers, Waits(c) \/ TimePasses(c) PROVE SameCalls /\ UNCHANGED pipeVars
  BY <1>1, <1>3, ZenonT(40) DEF Waits, TimePasses, callVars
<1>4. ASSUME NEW t \in Readers, Ends(t) PROVE SameCalls /\ UNCHANGED pipeVars
  BY <1>1, <1>4, ZenonT(40) DEF Ends
<1>5. ASSUME Answers \/ RWClose PROVE SameCalls /\ UNCHANGED pipeVars
  BY <1>1, <1>5, ZenonT(40) DEF Answers, RWClose
<1>6. ASSUME NEW c \in Callers, SendFails(c) PROVE PipeInv' /\ AtEnd'
  <2>1. PipeInv' /\ closed' = closed /\ data' = data /\ pc' = pc /\ out' = out
    BY <1>6, PipeKept, ZenonT(40) DEF SendFails, pipeVars
  <2>2. ~IsOpen("requests")'
    BY <1>6, <2>1, ZenonT(40) DEF SendFails, IsOpen
  <2>3. IsOpen("answers")' => (Len(data'["answers"]) + Taken("session")') % 2 = 0
    BY <2>1, ZenonT(40) DEF AtEnd, IsOpen, Taken
  <2> QED
    BY <2>1, <2>2, <2>3, ZenonT(40) DEF AtEnd
<1>7. ASSUME NEW t \in Readers, Reads(t) \/ Resumes(t) PROVE PipeInv' /\ AtEnd'
  <2>1. SameCalls /\ (Read(t, on[t], 2) \/ ReadResumes(t))
    BY <1>1, <1>7, ZenonT(40) DEF Reads, Resumes, callVars
  <2>2. PipeInv' /\ closed' = closed /\ \A u \in Readers : IsOpen(on[u]) => EndKept(u)
    BY <2>1, ReadInv, ZenonT(40)
  <2>3. on' = on
    BY <2>2, ZenonT(40) DEF PipeInv, PipeTypes
  <2>4. \A u \in Readers : IsOpen(on[u])' => IsOpen(on[u]) /\ EndKept(u)
    BY <2>2, <2>3, ZenonT(40) DEF IsOpen
  <2> QED
    BY <2>1, <2>2, <2>4, EndsInv, ZenonT(40)
<1>8. ASSUME RWCloses PROVE PipeInv' /\ AtEnd'
  <2>1. SameCalls /\ Close(Head(closing))
    BY <1>1, <1>8, ZenonT(40) DEF RWCloses
  <2>2. PipeInv' /\ \A u \in Readers : EndKept(u) /\ (IsOpen(on[u])' => IsOpen(on[u]))
    BY <2>1, CloseInv, ZenonT(40)
  <2> QED
    BY <2>1, <2>2, EndsInv, ZenonT(40)
<1>9. ASSUME Spurious PROVE PipeInv' /\ AtEnd'
  <2>1. SameCalls
    BY <1>1, <1>9, ZenonT(40) DEF Spurious, callVars
  <2>2. ASSUME NEW t \in Readers, WakesSpuriously(t) PROVE PipeInv' /\ AtEnd'
    <3>1. PipeInv' /\ closed' = closed /\ \A u \in Readers : EndKept(u)
      BY <2>2, WakesInv, ZenonT(40)
    <3>2. \A u \in Readers : IsOpen(on[u])' => IsOpen(on[u])
      BY <2>2, <3>1, ZenonT(40) DEF WakesSpuriously, IsOpen
    <3> QED
      BY <2>1, <3>1, <3>2, EndsInv, ZenonT(40)
  <2>3. ASSUME UNCHANGED pipeVars PROVE PipeInv' /\ AtEnd'
    BY <2>1, <2>3, QuietInv, ZenonT(40)
  <2> QED
    BY <1>9, <2>2, <2>3, ZenonT(40) DEF Spurious
<1>10. ASSUME SameCalls, UNCHANGED pipeVars PROVE PipeInv' /\ AtEnd'
  BY <1>10, QuietInv, ZenonT(40)
<1> HIDE DEF SameCalls
<1>11. ASSUME NEW c \in Callers, Send(c) \/ CallerSteps(c) \/ TimePasses(c)
       PROVE  PipeInv' /\ AtEnd'
  <2>1. CASE SendHeader(c)
    BY <2>1, SendHeaderInv, ZenonT(40)
  <2>2. CASE SendContent(c)
    BY <2>2, SendContentInv, ZenonT(40)
  <2> QED
    BY <1>2, <1>3, <1>6, <1>10, <1>11, <2>1, <2>2, ZenonT(40) DEF CallerSteps
<1>12. "session" \in Readers /\ "peer" \in Readers
  BY ThreadsAssumption, ZenonT(40)
<1>13. CASE SessionSteps \/ PeerSteps
  BY <1>4, <1>5, <1>7, <1>10, <1>12, <1>13, PeerAnswersInv, ZenonT(40) DEF SessionSteps,
     PeerSteps
<1> QED
  BY <1>5, <1>8, <1>9, <1>10, <1>11, <1>13, ZenonT(40) DEF Next
-----------------------------------------------------------------------------
LEMMA InvHolds == Spec => []Inv
<1>1. Inv /\ [Next]_vars => Inv'
  <2> SUFFICES ASSUME Inv, [Next]_vars PROVE Inv'
    BY ZenonT(40)
  <2>1. CASE Next
    BY <2>1, CallsInv, FuturesInv, PipesInv, ZenonT(40) DEF Inv
  <2>2. CASE UNCHANGED vars
    <3>1. UNCHANGED pipeVars /\ UNCHANGED futureVars
      BY <2>2, ZenonT(40) DEF vars
    <3>2. cpc' = cpc /\ round' = round /\ sendMutex' = sendMutex
      BY <2>2, ZenonT(40) DEF vars, callVars
    <3>3. CallTypes' /\ Calls'
      BY <3>2, ZenonT(40) DEF Inv, CallTypes, Calls
    <3>4. PipeInv' /\ AtEnd'
      BY <3>1, <3>2, QuietInv, ZenonT(40) DEF Inv
    <3> QED
      BY <3>1, <3>3, <3>4, FutureKept, ZenonT(40) DEF Inv
  <2> QED
    BY <2>1, <2>2, ZenonT(40)
<1> QED
  BY <1>1, InitInv, PTL DEF Spec

(* No wakeup is lost, for any number of callers and requests: a reader     *)
(* sleeps only on an open, empty pipe, although write() notifies only when *)
(* it found the deque empty (io.cpp:69-76), and a thread sleeps in a wait  *)
(* only while the value is not set (future.h:161-175).                     *)
THEOREM SleepersAreWoken == Spec => []NobodySleepsInVain
  BY InvHolds, PTL DEF Inv, PipeInv, FutureInv, NobodySleepsInVain

(* A read() that fills its buffer yields one whole message: sendMutex      *)
(* keeps the two writes of a message together, and the loop of read()      *)
(* puts them together again wherever it was interrupted (io.cpp:42-59).    *)
THEOREM MessagesAreWhole == Spec => []ReadsWhole
  BY InvHolds, PTL DEF Inv, PipeInv

(* A future, and a wait that succeeds, yields the answer to the caller's   *)
(* own request, or the error of send() (session.h:418-437).                *)
THEOREM FutureGetsOwnAnswer == Spec => []OwnAnswer
  BY InvHolds, PTL DEF Inv, FutureInv
=============================================================================
