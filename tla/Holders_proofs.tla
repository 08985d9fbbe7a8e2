---------------------------- MODULE Holders_proofs ---------------------------
(***************************************************************************)
(* any, function and variant: values in buffers and on the heap.           *)
(*                                                                         *)
(* A picture s gives what every variable and temporary shows, in the middle *)
(* of a call as well as between calls. For each class, memory and members  *)
(* are a picture or they are not; each function of a class leads from one  *)
(* picture to the next, and what the picture becomes is what OptionalValue *)
(* says.                                                                   *)
(***************************************************************************)
EXTENDS MCValues, Heap_proofs

(* Where the variables and temporaries have their buffers.                 *)
Slots == Variables \cup {Temp, Spare}

-----------------------------------------------------------------------------
(* Each class has the memory, the calls and the places of Holder.          *)
LEMMA AnyHeap ==
  /\ \A m, b, f, t : A!Slice(m, b, f, t) = Slice(m, b, f, t)
  /\ \A m, ok : A!Require(m, ok) = Require(m, ok)
  /\ \A m, b, f, s : A!Put(m, b, f, s) = Put(m, b, f, s)
  /\ \A s : A!AllRaw(s) = AllRaw(s)
  /\ \A s : A!AllLive(s) = AllLive(s)
  /\ \A m : A!Allocated(m) = Allocated(m)
  /\ A!Memories = Memories
BY DEF A!Slice, Slice, A!InBlock, InBlock, A!Require, Require, A!Fault, Fault, A!Put, Put,
       A!AllRaw, AllRaw, A!AllLive, AllLive, A!Allocated, Allocated, A!Memories, Memories,
       A!Cells, Cells

LEMMA AnyCells ==
  /\ \A m, b, n : A!Allocate(m, b, n) = Allocate(m, b, n)
  /\ \A m, b, n : A!Deallocate(m, b, n) = Deallocate(m, b, n)
  /\ \A m, b, f, s : A!Construct(m, b, f, s) = Construct(m, b, f, s)
  /\ \A m, b, f, t : A!Destroy(m, b, f, t) = Destroy(m, b, f, t)
  /\ \A m, b, f, t : A!MoveFrom(m, b, f, t) = MoveFrom(m, b, f, t)
  /\ \A m, a : A!Readable(m, a) = Readable(m, a)
  /\ \A m, a : A!Read(m, a) = Read(m, a)
  /\ \A m : A!FreeNodes(m) = FreeNodes(m)
  /\ \A b : A!Value(b) = Value(b)
  /\ \A m, o : A!At(m, o) = At(m, o)
BY AnyHeap
   DEF A!Allocate, Allocate, A!Deallocate, Deallocate, A!Construct, Construct,
       A!Destroy, Destroy, A!MoveFrom, MoveFrom, A!Readable, Readable, A!Read, Read,
       A!ReadFrom, ReadFrom, A!FreeNodes, FreeNodes, A!Free, Free, A!Fault, Fault,
       A!Value, Value, A!Ref, Ref, A!At, At

LEMMA AnyHolder ==
  /\ \A m, b, a : A!ConstructIn(m, b, a) = ConstructIn(m, b, a)
  /\ \A m, b : A!DestroyIn(m, b) = DestroyIn(m, b)
  /\ \A m : A!NewNode(m) = NewNode(m)
  /\ \A m, b : A!AllocateOne(m, b) = AllocateOne(m, b)
  /\ \A m, b, a : A!NewValue(m, b, a) = NewValue(m, b, a)
  /\ \A m, b : A!Unused(m, b) = Unused(m, b)
  /\ \A m, b : A!DeleteValue(m, b) = DeleteValue(m, b)
  /\ \A r, v, x : A!Born(r, v, x) = Born(r, v, x)
  /\ \A r, v : A!Dead(r, v) = Dead(r, v)
  /\ \A x : A!Kind(x) = Kind(x)
  /\ A!Kinds = Kinds
  /\ A!Now = Now
  /\ A!Given = Given
  /\ A!Room = Room
<1>1. \A m, b, a : A!ConstructIn(m, b, a) = ConstructIn(m, b, a)
  BY AnyHeap, AnyCells DEF A!ConstructIn, ConstructIn
<1>2. \A m, b : A!DestroyIn(m, b) = DestroyIn(m, b)
  BY AnyCells DEF A!DestroyIn, DestroyIn
<1>3. \A m : A!NewNode(m) = NewNode(m)
  BY AnyCells DEF A!NewNode, NewNode
<1>4. \A m, b : A!AllocateOne(m, b) = AllocateOne(m, b)
  BY AnyCells DEF A!AllocateOne, AllocateOne
<1>5. /\ \A m, b, a : A!NewValue(m, b, a) = NewValue(m, b, a)
      /\ \A m, b : A!Unused(m, b) = Unused(m, b)
      /\ \A m, b : A!DeleteValue(m, b) = DeleteValue(m, b)
  BY AnyCells, <1>1, <1>2, <1>4
     DEF A!NewValue, NewValue, A!Unused, Unused, A!DeleteValue, DeleteValue
<1>6. /\ \A r, v, x : A!Born(r, v, x) = Born(r, v, x)
      /\ \A r, v : A!Dead(r, v) = Dead(r, v)
  BY AnyCells DEF A!Born, Born, A!Dead, Dead, A!At, At
<1>7. A!Given = Given
  BY AnyHeap, AnyCells DEF A!Given, Given, A!Held, Held
<1>8. A!Room = Room
  BY AnyCells DEF A!Room, Room
<1>9. (\A x : A!Kind(x) = Kind(x)) /\ A!Kinds = Kinds /\ A!Now = Now
  BY DEF A!Kind, Kind, A!Kinds, Kinds, A!Now, Now, A!At, At
<1>. QED BY <1>1, <1>2, <1>3, <1>4, <1>5, <1>6, <1>7, <1>8, <1>9

LEMMA FunctionHeap ==
  /\ \A m, b, f, t : F!Slice(m, b, f, t) = Slice(m, b, f, t)
  /\ \A m, ok : F!Require(m, ok) = Require(m, ok)
  /\ \A m, b, f, s : F!Put(m, b, f, s) = Put(m, b, f, s)
  /\ \A s : F!AllRaw(s) = AllRaw(s)
  /\ \A s : F!AllLive(s) = AllLive(s)
  /\ \A m : F!Allocated(m) = Allocated(m)
  /\ F!Memories = Memories
BY DEF F!Slice, Slice, F!InBlock, InBlock, F!Require, Require, F!Fault, Fault, F!Put, Put,
       F!AllRaw, AllRaw, F!AllLive, AllLive, F!Allocated, Allocated, F!Memories, Memories,
       F!Cells, Cells

LEMMA FunctionCells ==
  /\ \A m, b, n : F!Allocate(m, b, n) = Allocate(m, b, n)
  /\ \A m, b, n : F!Deallocate(m, b, n) = Deallocate(m, b, n)
  /\ \A m, b, f, s : F!Construct(m, b, f, s) = Construct(m, b, f, s)
  /\ \A m, b, f, t : F!Destroy(m, b, f, t) = Destroy(m, b, f, t)
  /\ \A m, b, f, t : F!MoveFrom(m, b, f, t) = MoveFrom(m, b, f, t)
  /\ \A m, a : F!Readable(m, a) = Readable(m, a)
  /\ \A m, a : F!Read(m, a) = Read(m, a)
  /\ \A m : F!FreeNodes(m) = FreeNodes(m)
  /\ \A b : F!Value(b) = Value(b)
  /\ \A m, o : F!At(m, o) = At(m, o)
BY FunctionHeap
   DEF F!Allocate, Allocate, F!Deallocate, Deallocate, F!Construct, Construct,
       F!Destroy, Destroy, F!MoveFrom, MoveFrom, F!Readable, Readable, F!Read, Read,
       F!ReadFrom, ReadFrom, F!FreeNodes, FreeNodes, F!Free, Free, F!Fault, Fault,
       F!Value, Value, F!Ref, Ref, F!At, At

LEMMA FunctionHolder ==
  /\ \A m, b, a : F!ConstructIn(m, b, a) = ConstructIn(m, b, a)
  /\ \A m, b : F!DestroyIn(m, b) = DestroyIn(m, b)
  /\ \A m : F!NewNode(m) = NewNode(m)
  /\ \A m, b : F!AllocateOne(m, b) = AllocateOne(m, b)
  /\ \A m, b, a : F!NewValue(m, b, a) = NewValue(m, b, a)
  /\ \A m, b : F!Unused(m, b) = Unused(m, b)
  /\ \A m, b : F!DeleteValue(m, b) = DeleteValue(m, b)
  /\ \A r, v, x : F!Born(r, v, x) = Born(r, v, x)
  /\ \A r, v : F!Dead(r, v) = Dead(r, v)
  /\ \A x : F!Kind(x) = Kind(x)
  /\ F!Kinds = Kinds
  /\ F!Now = Now
  /\ F!Given = Given
  /\ F!Room = Room
<1>1. \A m, b, a : F!ConstructIn(m, b, a) = ConstructIn(m, b, a)
  BY FunctionHeap, FunctionCells DEF F!ConstructIn, ConstructIn
<1>2. \A m, b : F!DestroyIn(m, b) = DestroyIn(m, b)
  BY FunctionCells DEF F!DestroyIn, DestroyIn
<1>3. \A m : F!NewNode(m) = NewNode(m)
  BY FunctionCells DEF F!NewNode, NewNode
<1>4. \A m, b : F!AllocateOne(m, b) = AllocateOne(m, b)
  BY FunctionCells DEF F!AllocateOne, AllocateOne
<1>5. /\ \A m, b, a : F!NewValue(m, b, a) = NewValue(m, b, a)
      /\ \A m, b : F!Unused(m, b) = Unused(m, b)
      /\ \A m, b : F!DeleteValue(m, b) = DeleteValue(m, b)
  BY FunctionCells, <1>1, <1>2, <1>4
     DEF F!NewValue, NewValue, F!Unused, Unused, F!DeleteValue, DeleteValue
<1>6. /\ \A r, v, x : F!Born(r, v, x) = Born(r, v, x)
      /\ \A r, v : F!Dead(r, v) = Dead(r, v)
  BY FunctionCells DEF F!Born, Born, F!Dead, Dead, F!At, At
<1>7. F!Given = Given
  BY FunctionHeap, FunctionCells DEF F!Given, Given, F!Held, Held
<1>8. F!Room = Room
  BY FunctionCells DEF F!Room, Room
<1>9. (\A x : F!Kind(x) = Kind(x)) /\ F!Kinds = Kinds /\ F!Now = Now
  BY DEF F!Kind, Kind, F!Kinds, Kinds, F!Now, Now, F!At, At
<1>. QED BY <1>1, <1>2, <1>3, <1>4, <1>5, <1>6, <1>7, <1>8, <1>9

LEMMA VariantHeap ==
  /\ \A m, b, f, t : V!Slice(m, b, f, t) = Slice(m, b, f, t)
  /\ \A m, ok : V!Require(m, ok) = Require(m, ok)
  /\ \A m, b, f, s : V!Put(m, b, f, s) = Put(m, b, f, s)
  /\ \A s : V!AllRaw(s) = AllRaw(s)
  /\ \A s : V!AllLive(s) = AllLive(s)
  /\ \A m : V!Allocated(m) = Allocated(m)
  /\ V!Memories = Memories
BY DEF V!Slice, Slice, V!InBlock, InBlock, V!Require, Require, V!Fault, Fault, V!Put, Put,
       V!AllRaw, AllRaw, V!AllLive, AllLive, V!Allocated, Allocated, V!Memories, Memories,
       V!Cells, Cells

LEMMA VariantCells ==
  /\ \A m, b, n : V!Allocate(m, b, n) = Allocate(m, b, n)
  /\ \A m, b, n : V!Deallocate(m, b, n) = Deallocate(m, b, n)
  /\ \A m, b, f, s : V!Construct(m, b, f, s) = Construct(m, b, f, s)
  /\ \A m, b, f, t : V!Destroy(m, b, f, t) = Destroy(m, b, f, t)
  /\ \A m, b, f, t : V!MoveFrom(m, b, f, t) = MoveFrom(m, b, f, t)
  /\ \A m, a : V!Readable(m, a) = Readable(m, a)
  /\ \A m, a : V!Read(m, a) = Read(m, a)
  /\ \A m : V!FreeNodes(m) = FreeNodes(m)
  /\ \A b : V!Value(b) = Value(b)
  /\ \A m, o : V!At(m, o) = At(m, o)
BY VariantHeap
   DEF V!Allocate, Allocate, V!Deallocate, Deallocate, V!Construct, Construct,
       V!Destroy, Destroy, V!MoveFrom, MoveFrom, V!Readable, Readable, V!Read, Read,
       V!ReadFrom, ReadFrom, V!FreeNodes, FreeNodes, V!Free, Free, V!Fault, Fault,
       V!Value, Value, V!Ref, Ref, V!At, At

LEMMA VariantHolder ==
  /\ \A m, b, a : V!ConstructIn(m, b, a) = ConstructIn(m, b, a)
  /\ \A m, b : V!DestroyIn(m, b) = DestroyIn(m, b)
  /\ \A m : V!NewNode(m) = NewNode(m)
  /\ \A m, b : V!AllocateOne(m, b) = AllocateOne(m, b)
  /\ \A m, b, a : V!NewValue(m, b, a) = NewValue(m, b, a)
  /\ \A m, b : V!Unused(m, b) = Unused(m, b)
  /\ \A m, b : V!DeleteValue(m, b) = DeleteValue(m, b)
  /\ \A r, v, x : V!Born(r, v, x) = Born(r, v, x)
  /\ \A r, v : V!Dead(r, v) = Dead(r, v)
  /\ \A x : V!Kind(x) = Kind(x)
  /\ V!Kinds = Kinds
  /\ V!Now = Now
  /\ V!Given = Given
  /\ V!Room = Room
<1>1. \A m, b, a : V!ConstructIn(m, b, a) = ConstructIn(m, b, a)
  BY VariantHeap, VariantCells DEF V!ConstructIn, ConstructIn
<1>2. \A m, b : V!DestroyIn(m, b) = DestroyIn(m, b)
  BY VariantCells DEF V!DestroyIn, DestroyIn
<1>3. \A m : V!NewNode(m) = NewNode(m)
  BY VariantCells DEF V!NewNode, NewNode
<1>4. \A m, b : V!AllocateOne(m, b) = AllocateOne(m, b)
  BY VariantCells DEF V!AllocateOne, AllocateOne
<1>5. /\ \A m, b, a : V!NewValue(m, b, a) = NewValue(m, b, a)
      /\ \A m, b : V!Unused(m, b) = Unused(m, b)
      /\ \A m, b : V!DeleteValue(m, b) = DeleteValue(m, b)
  BY VariantCells, <1>1, <1>2, <1>4
     DEF V!NewValue, NewValue, V!Unused, Unused, V!DeleteValue, DeleteValue
<1>6. /\ \A r, v, x : V!Born(r, v, x) = Born(r, v, x)
      /\ \A r, v : V!Dead(r, v) = Dead(r, v)
  BY VariantCells DEF V!Born, Born, V!Dead, Dead, V!At, At
<1>7. V!Given = Given
  BY VariantHeap, VariantCells DEF V!Given, Given, V!Held, Held
<1>8. V!Room = Room
  BY VariantCells DEF V!Room, Room
<1>9. (\A x : V!Kind(x) = Kind(x)) /\ V!Kinds = Kinds /\ V!Now = Now
  BY DEF V!Kind, Kind, V!Kinds, Kinds, V!Now, Now, V!At, At
<1>. QED BY <1>1, <1>2, <1>3, <1>4, <1>5, <1>6, <1>7, <1>8, <1>9

LEMMA UniquePtrHeap ==
  /\ \A m, b, f, t : U!Slice(m, b, f, t) = Slice(m, b, f, t)
  /\ \A m, ok : U!Require(m, ok) = Require(m, ok)
  /\ \A m, b, f, s : U!Put(m, b, f, s) = Put(m, b, f, s)
  /\ \A s : U!AllRaw(s) = AllRaw(s)
  /\ \A s : U!AllLive(s) = AllLive(s)
  /\ \A m : U!Allocated(m) = Allocated(m)
  /\ U!Memories = Memories
BY DEF U!Slice, Slice, U!InBlock, InBlock, U!Require, Require, U!Fault, Fault, U!Put, Put,
       U!AllRaw, AllRaw, U!AllLive, AllLive, U!Allocated, Allocated, U!Memories, Memories,
       U!Cells, Cells

LEMMA UniquePtrCells ==
  /\ \A m, b, n : U!Allocate(m, b, n) = Allocate(m, b, n)
  /\ \A m, b, n : U!Deallocate(m, b, n) = Deallocate(m, b, n)
  /\ \A m, b, f, s : U!Construct(m, b, f, s) = Construct(m, b, f, s)
  /\ \A m, b, f, t : U!Destroy(m, b, f, t) = Destroy(m, b, f, t)
  /\ \A m, b, f, t : U!MoveFrom(m, b, f, t) = MoveFrom(m, b, f, t)
  /\ \A m, a : U!Readable(m, a) = Readable(m, a)
  /\ \A m, a : U!Read(m, a) = Read(m, a)
  /\ \A m : U!FreeNodes(m) = FreeNodes(m)
  /\ \A b : U!Value(b) = Value(b)
  /\ \A m, o : U!At(m, o) = At(m, o)
BY UniquePtrHeap
   DEF U!Allocate, Allocate, U!Deallocate, Deallocate, U!Construct, Construct,
       U!Destroy, Destroy, U!MoveFrom, MoveFrom, U!Readable, Readable, U!Read, Read,
       U!ReadFrom, ReadFrom, U!FreeNodes, FreeNodes, U!Free, Free, U!Fault, Fault,
       U!Value, Value, U!Ref, Ref, U!At, At

LEMMA UniquePtrHolder ==
  /\ \A m, b, a : U!ConstructIn(m, b, a) = ConstructIn(m, b, a)
  /\ \A m, b : U!DestroyIn(m, b) = DestroyIn(m, b)
  /\ \A m : U!NewNode(m) = NewNode(m)
  /\ \A m, b : U!AllocateOne(m, b) = AllocateOne(m, b)
  /\ \A m, b, a : U!NewValue(m, b, a) = NewValue(m, b, a)
  /\ \A m, b : U!Unused(m, b) = Unused(m, b)
  /\ \A m, b : U!DeleteValue(m, b) = DeleteValue(m, b)
  /\ \A r, v, x : U!Born(r, v, x) = Born(r, v, x)
  /\ \A r, v : U!Dead(r, v) = Dead(r, v)
  /\ \A x : U!Kind(x) = Kind(x)
  /\ U!Kinds = Kinds
  /\ U!Now = Now
  /\ U!Given = Given
  /\ U!Room = Room
<1>1. \A m, b, a : U!ConstructIn(m, b, a) = ConstructIn(m, b, a)
  BY UniquePtrHeap, UniquePtrCells DEF U!ConstructIn, ConstructIn
<1>2. \A m, b : U!DestroyIn(m, b) = DestroyIn(m, b)
  BY UniquePtrCells DEF U!DestroyIn, DestroyIn
<1>3. \A m : U!NewNode(m) = NewNode(m)
  BY UniquePtrCells DEF U!NewNode, NewNode
<1>4. \A m, b : U!AllocateOne(m, b) = AllocateOne(m, b)
  BY UniquePtrCells DEF U!AllocateOne, AllocateOne
<1>5. /\ \A m, b, a : U!NewValue(m, b, a) = NewValue(m, b, a)
      /\ \A m, b : U!Unused(m, b) = Unused(m, b)
      /\ \A m, b : U!DeleteValue(m, b) = DeleteValue(m, b)
  BY UniquePtrCells, <1>1, <1>2, <1>4
     DEF U!NewValue, NewValue, U!Unused, Unused, U!DeleteValue, DeleteValue
<1>6. /\ \A r, v, x : U!Born(r, v, x) = Born(r, v, x)
      /\ \A r, v : U!Dead(r, v) = Dead(r, v)
  BY UniquePtrCells DEF U!Born, Born, U!Dead, Dead, U!At, At
<1>7. U!Given = Given
  BY UniquePtrHeap, UniquePtrCells DEF U!Given, Given, U!Held, Held
<1>8. U!Room = Room
  BY UniquePtrCells DEF U!Room, Room
<1>9. (\A x : U!Kind(x) = Kind(x)) /\ U!Kinds = Kinds /\ U!Now = Now
  BY DEF U!Kind, Kind, U!Kinds, Kinds, U!Now, Now, U!At, At
<1>. QED BY <1>1, <1>2, <1>3, <1>4, <1>5, <1>6, <1>7, <1>8, <1>9

-----------------------------------------------------------------------------
(* Memory m with c in block b.                                             *)
With(m, b, c) == [m EXCEPT !.cells[b] = c]

(* The contents of a place, and a function changed at one point.           *)
One(x)           == <<x>>
Nothing          == <<>>
Changed(f, v, x) == [f EXCEPT ![v] = x]

LEMMA OneCell ==
  ASSUME NEW x
  PROVE  /\ Len(One(x)) = 1 /\ One(x)[1] = x /\ DOMAIN One(x) = 1 .. 1
         /\ One(x) # Nothing
         /\ x \in Cells => One(x) \in Seq(Cells)
         /\ \A y : One(x) = One(y) => x = y
BY DEF One, Nothing

LEMMA NoCell == Nothing \in Seq(Cells) /\ Len(Nothing) = 0
BY DEF Nothing

LEMMA RawIsCell == Raw \in Cells /\ Moved \in Cells /\ Moved # Raw
BY CellAssumption DEF Cells

LEMMA ChangedAt ==
  ASSUME NEW S, NEW T, NEW f \in [S -> T], NEW v \in S, NEW x \in T
  PROVE  /\ Changed(f, v, x) \in [S -> T]
         /\ Changed(f, v, x)[v] = x
         /\ \A w \in S : w # v => Changed(f, v, x)[w] = f[w]
BY DEF Changed

LEMMA WithCells ==
  ASSUME NEW m \in Memories, NEW b \in Blocks, NEW c \in Seq(Cells)
  PROVE  /\ With(m, b, c) \in Memories
         /\ With(m, b, c).fault = m.fault
         /\ With(m, b, c).cells[b] = c
         /\ \A d \in Blocks : d # b => With(m, b, c).cells[d] = m.cells[d]
<1>1. Replaced(m, With(m, b, c), b, c)
  BY ReplaceCells DEF With
<1>2. With(m, b, c).cells = [m.cells EXCEPT ![b] = c]
  BY DEF With, Memories
<1>. QED BY <1>1, <1>2 DEF Replaced

LEMMA WithRaw ==
  ASSUME NEW m \in Memories, NEW b \in Blocks
  PROVE  \A c \in Blocks : c # b => With(m, b, One(Raw)).cells[c] = m.cells[c]
<1>1. One(Raw) \in Seq(Cells)
  BY RawIsCell, OneCell
<1>. QED BY <1>1, WithCells

(* Two memories with the same cells are the same memory.                   *)
LEMMA SameMemory ==
  ASSUME NEW m \in Memories, NEW n \in Memories, m.fault = n.fault,
         \A b \in Blocks : m.cells[b] = n.cells[b]
  PROVE  m = n
<1>1. m.cells = n.cells
  BY DEF Memories
<1>. QED BY <1>1 DEF Memories

LEMMA OneElement ==
  ASSUME NEW s \in Seq(Cells), Len(s) = 1
  PROVE  s = <<s[1]>>
OBVIOUS

(* An operation that overwrites the one cell of a block.                   *)
LEMMA OverwrittenPlace ==
  ASSUME NEW m \in Memories, NEW n, NEW b \in Blocks, NEW x \in Cells, NEW y \in Cells,
         m.cells[b] = One(x), Overwritten(m, n, b, 0, One(y))
  PROVE  n = With(m, b, One(y))
<1>1. n \in Memories /\ n.fault = m.fault /\ Len(n.cells[b]) = 1
  BY OneCell DEF Overwritten
<1>2. n.cells[b][1] = y
  BY OneCell DEF Overwritten
<1>3. n.cells[b] = One(y)
  BY <1>1, <1>2, OneElement DEF Memories, One
<1>4. \A c \in Blocks : c # b => n.cells[c] = m.cells[c]
  BY DEF Overwritten
<1>. QED BY <1>1, <1>3, <1>4, OneCell DEF With, Memories
(* What the operations do to a block of one cell.                          *)
LEMMA AllocatesPlace ==
  ASSUME NEW m \in Memories, NEW b \in Blocks
  PROVE  Allocate(m, b, 1) = With(m, b, One(Raw))
<1>1. [i \in 1 .. 1 |-> Raw] = One(Raw)
  BY DEF One
<1>. QED BY <1>1 DEF Allocate, Require, With

LEMMA DeallocatesPlace ==
  ASSUME NEW m \in Memories, NEW b \in Blocks, m.cells[b] = One(Raw)
  PROVE  Deallocate(m, b, 1) = With(m, b, Nothing)
BY OneCell DEF Deallocate, Allocated, Require, AllRaw, With, Nothing

LEMMA ConstructsPlace ==
  ASSUME NEW m \in Memories, NEW b \in Blocks, NEW x \in Cells, m.cells[b] = One(Raw)
  PROVE  Construct(m, b, 0, One(x)) = With(m, b, One(x))
<1>1. Raw \in Cells
  BY DEF Cells
<1>2. 0 \in Nat /\ One(x) \in Seq(Cells) /\ Len(One(x)) = 1 /\ 0 + 1 <= Len(m.cells[b])
  <2>1. One(x) \in Seq(Cells) /\ Len(One(x)) = 1
    BY OneCell
  <2>2. Len(m.cells[b]) = 1
    BY OneCell
  <2> QED BY <2>1, <2>2
<1>3. \A i \in 0 + 1 .. 0 + Len(One(x)) : m.cells[b][i] = Raw
  BY OneCell, <1>2
<1>4. Overwritten(m, Construct(m, b, 0, One(x)), b, 0, One(x))
  BY <1>2, <1>3, ConstructOverwrites
<1>. QED BY <1>1, <1>4, OverwrittenPlace

LEMMA DestroysPlace ==
  ASSUME NEW m \in Memories, NEW b \in Blocks, NEW x \in Cells \ {Raw}, m.cells[b] = One(x)
  PROVE  /\ Destroy(m, b, 0, 1) = With(m, b, One(Raw))
         /\ MoveFrom(m, b, 0, 1) = With(m, b, One(Moved))
<1>1. Raw \in Cells /\ Moved \in Cells
  BY DEF Cells
<1>2. 0 \in Nat /\ 1 \in Nat /\ 0 <= 1 /\ 1 <= Len(m.cells[b])
  BY OneCell
<1>3. \A i \in 0 + 1 .. 1 : m.cells[b][i] # Raw
  BY OneCell
<1>4. /\ Overwritten(m, Destroy(m, b, 0, 1), b, 0, [i \in 1 .. 1 - 0 |-> Raw])
      /\ Overwritten(m, MoveFrom(m, b, 0, 1), b, 0, [i \in 1 .. 1 - 0 |-> Moved])
  BY <1>2, <1>3, DestroyOverwrites, MoveFromOverwrites
<1>5. [i \in 1 .. 1 - 0 |-> Raw] = One(Raw) /\ [i \in 1 .. 1 - 0 |-> Moved] = One(Moved)
  BY DEF One
<1>6. Overwritten(m, Destroy(m, b, 0, 1), b, 0, One(Raw))
  BY <1>4, <1>5
<1>7. Overwritten(m, MoveFrom(m, b, 0, 1), b, 0, One(Moved))
  BY <1>4, <1>5
<1>. QED BY <1>1, <1>6, <1>7, OverwrittenPlace

(* What a is read as: a value, or the object in the place it refers to.    *)
Reads(m, a, x) == Readable(m, a) /\ Read(m, a) = x /\ x \in Cells \ {Raw}

LEMMA ReadsPlace ==
  ASSUME NEW m \in Memories, NEW b \in Blocks, NEW x \in Cells \ {Raw}, m.cells[b] = One(x),
         Value(b) \notin Values
  PROVE  Reads(m, Value(b), x)
<1>1. Value(b)[1] = b /\ Value(b)[2] = 0
  BY DEF Value, Ref
<1>2. ReadFrom(m, Value(b)) = Slice(m, b, 0, 1)
  BY <1>1 DEF ReadFrom
<1>3. PICK i \in Nat, j \in Nat : i = 0 /\ j = 1
  OBVIOUS
<1> DEFINE s == Slice(m, b, i, j)
<1>4. /\ DOMAIN s = 1 .. j - i
      /\ \A k \in 1 .. j - i : s[k] = m.cells[b][i + k]
  <2>1. /\ m \in Memories /\ b \in Blocks /\ i \in Nat /\ j \in Nat
        /\ i <= j /\ j <= Len(m.cells[b])
    BY <1>3, OneCell
  <2>2. DOMAIN Slice(m, b, i, j) = 1 .. j - i
    BY ONLY <2>1, SliceCells
  <2>3. \A k \in 1 .. j - i : Slice(m, b, i, j)[k] = m.cells[b][i + k]
    BY ONLY <2>1, SliceCells
  <2> QED BY <2>2, <2>3
<1>5. DOMAIN s = 1 .. 1 /\ s[1] = m.cells[b][1]
  BY <1>3, <1>4
<1>6. s[1] = x
  BY <1>5, OneCell
<1> HIDE DEF s
<1>7. s # Nothing /\ AllLive(s)
  <2>1. s # Nothing
    BY <1>5 DEF Nothing
  <2>2. AllLive(s)
    BY <1>5, <1>6 DEF AllLive
  <2> QED BY <2>1, <2>2
<1>. QED BY <1>2, <1>3, <1>6, <1>7 DEF Reads, Readable, Read, s, Nothing

LEMMA ReadsValue ==
  ASSUME NEW m, NEW x \in Values
  PROVE  Reads(m, x, x)
BY CellAssumption DEF Reads, Readable, Read, Cells

(* The operations of Holder.                                               *)
LEMMA ConstructsIn ==
  ASSUME NEW m \in Memories, NEW b \in Blocks, NEW a, NEW x, Reads(m, a, x),
         m.cells[b] = One(Raw)
  PROVE  ConstructIn(m, b, a) = With(m, b, One(x))
<1>1. ConstructIn(m, b, a) = Construct(m, b, 0, One(x)) /\ x \in Cells
  BY DEF ConstructIn, Reads, Require, One
<1>. QED BY <1>1, ConstructsPlace

LEMMA DestroysIn ==
  ASSUME NEW m \in Memories, NEW b \in Blocks, NEW x \in Cells \ {Raw}, m.cells[b] = One(x)
  PROVE  DestroyIn(m, b) = With(m, b, One(Raw))
BY DestroysPlace DEF DestroyIn

LEMMA WithTwice ==
  ASSUME NEW m \in Memories, NEW b \in Blocks, NEW c \in Seq(Cells), NEW d \in Seq(Cells)
  PROVE  /\ With(With(m, b, c), b, d) = With(m, b, d)
         /\ m.cells[b] = c => With(m, b, c) = m
<1>1. /\ With(m, b, c) \in Memories /\ With(m, b, d) \in Memories
      /\ With(m, b, c).fault = m.fault /\ With(m, b, d).fault = m.fault
      /\ With(m, b, c).cells[b] = c /\ With(m, b, d).cells[b] = d
      /\ \A e \in Blocks : e # b => With(m, b, c).cells[e] = m.cells[e]
      /\ \A e \in Blocks : e # b => With(m, b, d).cells[e] = m.cells[e]
  BY WithCells
<1>2. /\ With(With(m, b, c), b, d) \in Memories
      /\ With(With(m, b, c), b, d).fault = m.fault
      /\ With(With(m, b, c), b, d).cells[b] = d
      /\ \A e \in Blocks : e # b => With(With(m, b, c), b, d).cells[e] = m.cells[e]
  BY <1>1, WithCells
<1>3. With(With(m, b, c), b, d) = With(m, b, d)
  BY <1>1, <1>2, SameMemory
<1>4. m.cells[b] = c => With(m, b, c) = m
  BY <1>1, SameMemory
<1>. QED BY <1>3, <1>4
-----------------------------------------------------------------------------
(* Values in buffers and on the heap. P says where the value of each slot  *)
(* is: nowhere, in the slot's buffer, or in a node that is no other's.     *)
Pictures == [Slots -> Values \cup {Moved, Null, Gone}]
Places   == [Slots -> Blocks \cup {Null, Gone}]

Placed(m, v, p, x) ==
  \/ p = Gone /\ x = Gone /\ m.cells[v] = Nothing
  \/ p = Null /\ x = Null /\ m.cells[v] = One(Raw)
  \/ p = v /\ x \in Small /\ m.cells[v] = One(x)
  \/ p \in Nodes /\ x \in Values \ Small /\ m.cells[v] = One(Raw) /\ m.cells[p] = One(x)

Shape(m, P, s) ==
  /\ m \in Memories /\ ~m.fault
  /\ P \in Places /\ s \in Pictures
  /\ \A v \in Slots : Placed(m, v, P[v], s[v])
  /\ \A v, w \in Slots : P[v] \in Nodes /\ P[v] = P[w] => v = w
  /\ \A n \in Nodes : m.cells[n] = Nothing \/ \E v \in Slots : P[v] = n

LEMMA SlotsAndNodes ==
  /\ Slots \subseteq Blocks /\ Nodes \subseteq Blocks /\ Slots \cap Nodes = {}
  /\ Blocks = Slots \cup Nodes
  /\ Variables \subseteq Slots /\ Temp \in Slots /\ Spare \in Slots /\ Temp # Spare
  /\ Temp \notin Variables /\ Spare \notin Variables
BY HolderAssumption DEF Slots

(* What a slot shows says where its value is.                              *)
LEMMA ShapeOf ==
  ASSUME ToldApart, NEW m, NEW P, NEW s, Shape(m, P, s), NEW v \in Slots
  PROVE  /\ m \in Memories /\ v \in Blocks
         /\ P[v] = Gone <=> s[v] = Gone
         /\ P[v] = Null <=> s[v] = Null
         /\ P[v] = v <=> s[v] \in Small
         /\ P[v] \in Nodes <=> s[v] \in Values \ Small
         /\ s[v] \in Values <=> s[v] \notin {Gone, Null}
         /\ s[v] = Gone => m.cells[v] = Nothing
         /\ s[v] # Gone /\ s[v] \notin Small => m.cells[v] = One(Raw)
         /\ s[v] = Null => m.cells[v] = One(Raw)
         /\ s[v] \in Values => m.cells[P[v]] = One(s[v]) /\ P[v] \in Blocks
         /\ ~m.fault
<1>1. Placed(m, v, P[v], s[v]) /\ m \in Memories /\ ~m.fault
  BY DEF Shape
<1>2. v \in Blocks /\ v \notin Nodes /\ Null \notin Blocks /\ Gone \notin Blocks \cup {Null}
  BY SlotsAndNodes, CellAssumption DEF ToldApart
<1>3. Gone \notin Values /\ Null \notin Values /\ Small \subseteq Values /\ Nodes \subseteq Blocks
  BY SlotsAndNodes, HolderAssumption DEF ToldApart
<1>. QED BY <1>1, <1>2, <1>3 DEF Placed

(* One slot changes, with its buffer and its nodes before and after.       *)
LEMMA ShapeChanges ==
  ASSUME ToldApart, NEW m, NEW P, NEW s, Shape(m, P, s),
         NEW n \in Memories, ~n.fault, NEW v \in Slots, NEW p, NEW x,
         Placed(n, v, p, x),
         \A c \in Blocks : c # v /\ c # p /\ c # P[v] => n.cells[c] = m.cells[c],
         p \in Nodes => p = P[v] \/ m.cells[p] = Nothing,
         P[v] \in Nodes /\ P[v] # p => n.cells[P[v]] = Nothing
  PROVE  Shape(n, Changed(P, v, p), Changed(s, v, x))
<1> DEFINE Q == Changed(P, v, p)
           t == Changed(s, v, x)
<1>1. /\ P \in Places /\ s \in Pictures
      /\ \A w \in Slots : Placed(m, w, P[w], s[w])
      /\ \A u, w \in Slots : P[u] \in Nodes /\ P[u] = P[w] => u = w
      /\ \A c \in Nodes : m.cells[c] = Nothing \/ \E w \in Slots : P[w] = c
  BY DEF Shape
<1>2. /\ Slots \subseteq Blocks /\ Nodes \subseteq Blocks /\ Slots \cap Nodes = {}
      /\ Null \notin Blocks /\ Gone \notin Blocks \cup {Null}
  BY SlotsAndNodes, CellAssumption DEF ToldApart
<1>3. p \in Blocks \cup {Null, Gone} /\ x \in Values \cup {Moved, Null, Gone}
  BY <1>2, HolderAssumption DEF Placed
<1>4. /\ Q \in Places /\ t \in Pictures /\ Q[v] = p /\ t[v] = x
      /\ \A w \in Slots : w # v => Q[w] = P[w] /\ t[w] = s[w]
  <2>1. Q \in Places /\ Q[v] = p /\ \A w \in Slots : w # v => Q[w] = P[w]
    BY <1>1, <1>3 DEF Places, Changed
  <2>2. t \in Pictures /\ t[v] = x /\ \A w \in Slots : w # v => t[w] = s[w]
    BY <1>1, <1>3 DEF Pictures, Changed
  <2> QED BY <2>1, <2>2
<1> HIDE DEF Q, t
<1>5. ASSUME NEW w \in Slots, w # v, P[w] \in Nodes PROVE P[w] # p /\ P[w] # P[v] /\ P[w] # v
  <2>1. P[w] # P[v] /\ P[w] # v
    BY <1>1, <1>2, <1>5
  <2>2. m.cells[P[w]] # Nothing
    BY <1>1, <1>2, <1>5, OneCell DEF Placed
  <2> QED BY <1>5, <2>1, <2>2
<1>6. ASSUME NEW w \in Slots PROVE Placed(n, w, Q[w], t[w])
  <2>1. CASE w = v
    BY <1>4, <2>1
  <2>2. CASE w # v
    <3>1. w # p /\ w # P[v]
      <4>1. p \in {Gone, Null, v} \cup Nodes
        BY DEF Placed
      <4>2. P[v] \in {Gone, Null, v} \cup Nodes
        BY <1>1 DEF Placed
      <4> QED BY <1>2, <2>2, <4>1, <4>2
    <3>2. n.cells[w] = m.cells[w]
      BY <1>2, <2>2, <3>1
    <3>3. P[w] \in Nodes => n.cells[P[w]] = m.cells[P[w]]
      BY <1>2, <1>5, <2>2
    <3>4. Placed(m, w, P[w], s[w])
      BY <1>1
    <3> QED BY <1>4, <2>2, <3>2, <3>3, <3>4 DEF Placed
  <2> QED BY <2>1, <2>2
<1>7. ASSUME NEW u \in Slots, NEW w \in Slots, Q[u] \in Nodes, Q[u] = Q[w] PROVE u = w
  BY <1>1, <1>4, <1>5, <1>7
<1>8. ASSUME NEW c \in Nodes PROVE n.cells[c] = Nothing \/ \E w \in Slots : Q[w] = c
  <2>1. CASE c = p
    BY <1>4, <2>1
  <2>2. CASE c # p /\ c = P[v]
    BY <2>2
  <2>3. CASE c # p /\ c # P[v]
    <3>1. c # v /\ n.cells[c] = m.cells[c]
      BY <1>2, <2>3
    <3>2. CASE m.cells[c] # Nothing
      <4>1. PICK w \in Slots : P[w] = c
        BY <1>1, <3>2
      <4> QED BY <1>4, <2>3, <4>1
    <3> QED BY <3>1, <3>2
  <2> QED BY <2>1, <2>2, <2>3
<1>9. n \in Memories /\ ~n.fault
  OBVIOUS
<1>. QED BY <1>4, <1>6, <1>7, <1>8, <1>9 DEF Shape, Q, t

(* a is the value x, or refers to a place that holds x.                    *)
Names(m, a, x) ==
  /\ x \in Cells \ {Raw}
  /\ \/ a \in Values /\ a = x
     \/ \E b \in Blocks : a = Value(b) /\ m.cells[b] = One(x)

LEMMA NamesReads ==
  ASSUME ToldApart, NEW m \in Memories, NEW a, NEW x, Names(m, a, x)
  PROVE  Reads(m, a, x)
<1>1. CASE a \in Values /\ a = x
  BY <1>1, ReadsValue
<1>2. CASE \E b \in Blocks : a = Value(b) /\ m.cells[b] = One(x)
  <2>1. PICK b \in Blocks : a = Value(b) /\ m.cells[b] = One(x)
    BY <1>2
  <2>2. Value(b) \notin Values /\ x \in Cells \ {Raw}
    BY DEF ToldApart, Names
  <2> QED BY <2>1, <2>2, ReadsPlace
<1>. QED BY <1>1, <1>2 DEF Names

LEMMA NamesStill ==
  ASSUME NEW m, NEW n, NEW a, NEW x, Names(m, a, x),
         \A b \in Blocks : m.cells[b] = One(x) => n.cells[b] = m.cells[b]
  PROVE  Names(n, a, x)
BY DEF Names

LEMMA PlaceNamed ==
  ASSUME ToldApart, NEW m, NEW P, NEW s, Shape(m, P, s), NEW v \in Slots, s[v] \in Values
  PROVE  Names(m, Value(P[v]), s[v]) /\ s[v] \in Cells \ {Raw}
<1>1. P[v] \in Blocks /\ m.cells[P[v]] = One(s[v])
  BY ShapeOf
<1>2. s[v] \in Cells \ {Raw}
  BY CellAssumption DEF Cells
<1>. QED BY <1>1, <1>2 DEF Names

(* The nodes that are free.                                                *)
LEMMA FreeNode ==
  ASSUME NEW m
  PROVE  /\ \A b : b \in FreeNodes(m) <=> b \in Nodes /\ m.cells[b] = Nothing
         /\ FreeNodes(m) # {} => NewNode(m) \in FreeNodes(m)
BY SlotsAndNodes DEF FreeNodes, Free, Allocated, NewNode, Nothing

(* A slot begins and ends.                                                 *)
LEMMA ShapeBorn ==
  ASSUME ToldApart, NEW m, NEW P, NEW s, Shape(m, P, s), NEW v \in Slots, s[v] = Gone
  PROVE  /\ Allocate(m, v, 1) = With(m, v, One(Raw))
         /\ Shape(Allocate(m, v, 1), Changed(P, v, Null), Changed(s, v, Null))
<1>1. m \in Memories /\ v \in Blocks /\ P[v] = Gone /\ m.cells[v] = Nothing /\ ~m.fault
  BY ShapeOf
<1>2. One(Raw) \in Seq(Cells) /\ Nothing \in Seq(Cells)
  BY RawIsCell, OneCell, NoCell
<1> DEFINE n == With(m, v, One(Raw))
<1>3. Allocate(m, v, 1) = n
  BY <1>1, AllocatesPlace
<1>4. /\ n \in Memories /\ ~n.fault /\ n.cells[v] = One(Raw)
      /\ \A c \in Blocks : c # v => n.cells[c] = m.cells[c]
  BY <1>1, <1>2, WithCells
<1> HIDE DEF n
<1>5. Null \notin Nodes /\ Gone \notin Nodes
  BY SlotsAndNodes, CellAssumption DEF ToldApart
<1>6. Placed(n, v, Null, Null)
  BY <1>4 DEF Placed
<1>7. Shape(n, Changed(P, v, Null), Changed(s, v, Null))
  BY <1>1, <1>4, <1>5, <1>6, ShapeChanges
<1>. QED BY <1>3, <1>7 DEF n

LEMMA ShapeDead ==
  ASSUME ToldApart, NEW m, NEW P, NEW s, Shape(m, P, s), NEW v \in Slots, s[v] = Null
  PROVE  /\ Deallocate(m, v, 1) = With(m, v, Nothing)
         /\ Shape(Deallocate(m, v, 1), Changed(P, v, Gone), Changed(s, v, Gone))
<1>1. /\ m \in Memories /\ v \in Blocks /\ P[v] = Null /\ m.cells[v] = One(Raw)
      /\ ~m.fault
  BY ShapeOf
<1>2. One(Raw) \in Seq(Cells) /\ Nothing \in Seq(Cells)
  BY RawIsCell, OneCell, NoCell
<1> DEFINE n == With(m, v, Nothing)
<1>3. Deallocate(m, v, 1) = n
  BY <1>1, DeallocatesPlace
<1>4. /\ n \in Memories /\ ~n.fault /\ n.cells[v] = Nothing
      /\ \A c \in Blocks : c # v => n.cells[c] = m.cells[c]
  BY <1>1, <1>2, WithCells
<1> HIDE DEF n
<1>5. Null \notin Nodes /\ Gone \notin Nodes
  BY SlotsAndNodes, CellAssumption DEF ToldApart
<1>6. Placed(n, v, Gone, Gone)
  BY <1>4 DEF Placed
<1>7. Shape(n, Changed(P, v, Gone), Changed(s, v, Gone))
  BY <1>1, <1>4, <1>5, <1>6, ShapeChanges
<1>. QED BY <1>3, <1>7 DEF n

(* A slot gets a value of its own, in the buffer or in a free node.        *)
LEMMA ShapeSmall ==
  ASSUME ToldApart, NEW m, NEW P, NEW s, Shape(m, P, s), NEW v \in Slots, s[v] = Null,
         NEW a, NEW x \in Small, Names(m, a, x)
  PROVE  Shape(ConstructIn(m, v, a), Changed(P, v, v), Changed(s, v, x))
<1>1. /\ m \in Memories /\ v \in Blocks /\ P[v] = Null /\ m.cells[v] = One(Raw)
      /\ ~m.fault
  BY ShapeOf
<1>2. One(x) \in Seq(Cells)
  BY OneCell DEF Names
<1> DEFINE n == With(m, v, One(x))
<1>3. ConstructIn(m, v, a) = n
  BY <1>1, NamesReads, ConstructsIn
<1>4. /\ n \in Memories /\ ~n.fault /\ n.cells[v] = One(x)
      /\ \A c \in Blocks : c # v => n.cells[c] = m.cells[c]
  BY <1>1, <1>2, WithCells
<1> HIDE DEF n
<1>5. Null \notin Nodes /\ v \notin Nodes
  BY SlotsAndNodes, CellAssumption
<1>6. Placed(n, v, v, x)
  BY <1>4 DEF Placed
<1>7. Shape(n, Changed(P, v, v), Changed(s, v, x))
  BY <1>1, <1>4, <1>5, <1>6, ShapeChanges
<1>. QED BY <1>3, <1>7

LEMMA ShapeLarge ==
  ASSUME ToldApart, NEW m, NEW P, NEW s, Shape(m, P, s), NEW v \in Slots, s[v] = Null,
         NEW a, NEW x \in Values \ Small, Names(m, a, x), NEW b \in FreeNodes(m)
  PROVE  Shape(NewValue(m, b, a), Changed(P, v, b), Changed(s, v, x))
<1>1. /\ m \in Memories /\ v \in Blocks /\ P[v] = Null /\ m.cells[v] = One(Raw)
      /\ ~m.fault
  BY ShapeOf
<1>2. b \in Nodes /\ b \in Blocks /\ m.cells[b] = Nothing
  BY FreeNode, SlotsAndNodes
<1>3. One(x) \in Seq(Cells) /\ One(Raw) \in Seq(Cells)
  BY RawIsCell, OneCell DEF Names
<1> DEFINE k == With(m, b, One(Raw))
           n == With(k, b, One(x))
<1>4. /\ k \in Memories /\ ~k.fault /\ k.cells[b] = One(Raw)
      /\ \A c \in Blocks : c # b => k.cells[c] = m.cells[c]
  BY <1>1, <1>2, <1>3, WithCells
<1>5. AllocateOne(m, b) = k
  BY <1>1, <1>2, AllocatesPlace DEF AllocateOne
<1> HIDE DEF k
<1>6. Names(k, a, x)
  <2>1. \A c \in Blocks : m.cells[c] = One(x) => k.cells[c] = m.cells[c]
    BY <1>2, <1>4, OneCell
  <2> QED BY <2>1, NamesStill
<1>7. NewValue(m, b, a) = n
  BY <1>2, <1>4, <1>5, <1>6, NamesReads, ConstructsIn DEF NewValue
<1>8. /\ n \in Memories /\ ~n.fault /\ n.cells[b] = One(x)
      /\ \A c \in Blocks : c # b => n.cells[c] = m.cells[c]
  BY <1>2, <1>3, <1>4, WithCells
<1> HIDE DEF n
<1>9. Null \notin Nodes /\ v \notin Nodes /\ v # b
  BY <1>2, SlotsAndNodes, CellAssumption
<1>10. Placed(n, v, b, x)
  BY <1>1, <1>2, <1>8, <1>9 DEF Placed
<1>11. Shape(n, Changed(P, v, b), Changed(s, v, x))
  BY <1>1, <1>2, <1>8, <1>9, <1>10, ShapeChanges
<1>. QED BY <1>7, <1>11

(* A node that is allocated and freed again.                               *)
LEMMA UnusedNode ==
  ASSUME NEW m \in Memories, NEW b \in FreeNodes(m)
  PROVE  Unused(m, b) = m
<1>1. b \in Blocks /\ m.cells[b] = Nothing
  BY FreeNode, SlotsAndNodes
<1>2. Nothing \in Seq(Cells) /\ One(Raw) \in Seq(Cells)
  BY RawIsCell, OneCell, NoCell
<1>3. AllocateOne(m, b) = With(m, b, One(Raw))
  BY <1>1, AllocatesPlace DEF AllocateOne
<1>4. With(m, b, One(Raw)) \in Memories /\ With(m, b, One(Raw)).cells[b] = One(Raw)
  BY <1>1, <1>2, WithCells
<1>5. Unused(m, b) = With(With(m, b, One(Raw)), b, Nothing)
  BY <1>1, <1>3, <1>4, DeallocatesPlace DEF Unused
<1>. QED BY <1>1, <1>2, <1>5, WithTwice

(* The value of a slot goes.                                               *)
LEMMA ShapeDropped ==
  ASSUME ToldApart, NEW m, NEW P, NEW s, Shape(m, P, s), NEW v \in Slots, s[v] \in Small
  PROVE  /\ DestroyIn(m, v) = With(m, v, One(Raw))
         /\ Shape(DestroyIn(m, v), Changed(P, v, Null), Changed(s, v, Null))
<1>1. s[v] \in Values /\ s[v] \in Cells \ {Raw}
  BY HolderAssumption, CellAssumption DEF Cells
<1>2. /\ m \in Memories /\ v \in Blocks /\ P[v] = v /\ m.cells[v] = One(s[v])
      /\ ~m.fault
  BY <1>1, ShapeOf
<1>3. One(Raw) \in Seq(Cells) /\ Nothing \in Seq(Cells)
  BY RawIsCell, OneCell, NoCell
<1> DEFINE n == With(m, v, One(Raw))
<1>4. DestroyIn(m, v) = n
  BY <1>1, <1>2, DestroysIn
<1>5. /\ n \in Memories /\ ~n.fault /\ n.cells[v] = One(Raw)
      /\ \A c \in Blocks : c # v => n.cells[c] = m.cells[c]
  BY <1>2, <1>3, WithCells
<1> HIDE DEF n
<1>6. Null \notin Nodes /\ v \notin Nodes
  BY SlotsAndNodes, CellAssumption
<1>7. Placed(n, v, Null, Null)
  BY <1>5 DEF Placed
<1>8. Shape(n, Changed(P, v, Null), Changed(s, v, Null))
  BY <1>2, <1>5, <1>6, <1>7, ShapeChanges
<1>. QED BY <1>4, <1>8 DEF n

LEMMA ShapeDeleted ==
  ASSUME ToldApart, NEW m, NEW P, NEW s, Shape(m, P, s), NEW v \in Slots,
         s[v] \in Values \ Small
  PROVE  /\ Shape(DeleteValue(m, P[v]), Changed(P, v, Null), Changed(s, v, Null))
         /\ FreeNodes(m) \subseteq FreeNodes(DeleteValue(m, P[v]))
<1> DEFINE b == P[v]
<1>1. s[v] \in Values /\ s[v] \in Cells \ {Raw}
  BY CellAssumption DEF Cells
<1>2. /\ m \in Memories /\ v \in Blocks /\ b \in Nodes /\ b \in Blocks
      /\ m.cells[b] = One(s[v]) /\ m.cells[v] = One(Raw) /\ ~m.fault
  <2>1. s[v] # Gone /\ s[v] \notin Small
    BY DEF ToldApart
  <2> QED BY <1>1, <2>1, ShapeOf
<1> HIDE DEF b
<1>3. One(Raw) \in Seq(Cells) /\ Nothing \in Seq(Cells)
  BY RawIsCell, OneCell, NoCell
<1> DEFINE k == With(m, b, One(Raw))
           n == With(k, b, Nothing)
<1>4. /\ k \in Memories /\ ~k.fault /\ k.cells[b] = One(Raw)
      /\ \A c \in Blocks : c # b => k.cells[c] = m.cells[c]
  BY <1>2, <1>3, WithCells
<1>5. DestroyIn(m, b) = k
  BY <1>1, <1>2, DestroysIn
<1> HIDE DEF k
<1>6. DeleteValue(m, b) = n
  BY <1>2, <1>4, <1>5, DeallocatesPlace DEF DeleteValue
<1>7. /\ n \in Memories /\ ~n.fault /\ n.cells[b] = Nothing
      /\ \A c \in Blocks : c # b => n.cells[c] = m.cells[c]
  BY <1>2, <1>3, <1>4, WithCells
<1> HIDE DEF n
<1>8. Null \notin Nodes /\ v \notin Nodes /\ v # b
  BY <1>2, SlotsAndNodes, CellAssumption
<1>9. Placed(n, v, Null, Null)
  BY <1>2, <1>7, <1>8 DEF Placed
<1>10. Shape(n, Changed(P, v, Null), Changed(s, v, Null))
  BY <1>2, <1>7, <1>8, <1>9, ShapeChanges DEF b
<1>11. FreeNodes(m) \subseteq FreeNodes(n)
  BY <1>7, FreeNode, SlotsAndNodes
<1>. QED BY <1>6, <1>10, <1>11 DEF b

(* Two slots exchange their nodes.                                         *)
LEMMA ShapeExchanged ==
  ASSUME ToldApart, NEW m, NEW P, NEW s, Shape(m, P, s), NEW v \in Slots, NEW w \in Slots,
         v # w, P[v] \in Nodes \cup {Null}, P[w] \in Nodes \cup {Null}
  PROVE  Shape(m, Changed(Changed(P, v, P[w]), w, P[v]), Changed(Changed(s, v, s[w]), w, s[v]))
<1> DEFINE Q == Changed(Changed(P, v, P[w]), w, P[v])
           t == Changed(Changed(s, v, s[w]), w, s[v])
<1>1. /\ P \in Places /\ s \in Pictures
      /\ \A u \in Slots : Placed(m, u, P[u], s[u])
      /\ \A u, y \in Slots : P[u] \in Nodes /\ P[u] = P[y] => u = y
      /\ \A c \in Nodes : m.cells[c] = Nothing \/ \E y \in Slots : P[y] = c
  BY DEF Shape
<1>2. /\ Q \in Places /\ t \in Pictures
      /\ Q[v] = P[w] /\ Q[w] = P[v] /\ t[v] = s[w] /\ t[w] = s[v]
      /\ \A u \in Slots \ {v, w} : Q[u] = P[u] /\ t[u] = s[u]
  BY <1>1 DEF Places, Pictures, Changed
<1> HIDE DEF Q, t
<1>3. Null \notin Blocks /\ Gone \notin Blocks \cup {Null} /\ Slots \cap Nodes = {}
      /\ Slots \subseteq Blocks /\ Nodes \subseteq Blocks
  BY SlotsAndNodes, CellAssumption DEF ToldApart
<1>4. \A u \in Slots : Placed(m, u, Q[u], t[u])
  <2>1. Placed(m, v, P[v], s[v]) /\ Placed(m, w, P[w], s[w])
    BY <1>1
  <2>2. Placed(m, v, P[w], s[w]) /\ Placed(m, w, P[v], s[v])
    BY <1>3, <2>1 DEF Placed
  <2> QED BY <1>1, <1>2, <2>2
<1>5. \A u, y \in Slots : Q[u] \in Nodes /\ Q[u] = Q[y] => u = y
  BY <1>1, <1>2
<1>6. \A c \in Nodes : m.cells[c] = Nothing \/ \E y \in Slots : Q[y] = c
  <2> SUFFICES ASSUME NEW c \in Nodes, NEW y \in Slots, P[y] = c
               PROVE  \E u \in Slots : Q[u] = c
    BY <1>1
  <2>1. CASE y = v
    BY <1>2, <2>1
  <2>2. CASE y = w
    BY <1>2, <2>2
  <2>3. CASE y \notin {v, w}
    BY <1>2, <2>3
  <2> QED BY <2>1, <2>2, <2>3
<1>. QED BY <1>1, <1>2, <1>4, <1>5, <1>6 DEF Shape, Q, t
-----------------------------------------------------------------------------
(* The state of a call in the middle of it.                                *)
Becomes(s, t, v, x) ==
  t \in Pictures /\ t[v] = x /\ \A w \in Slots : w # v => t[w] = s[w]

Exchanged(s, t, v, w) ==
  /\ t \in Pictures /\ t[v] = s[w] /\ t[w] = s[v]
  /\ \A u \in Slots : u # v /\ u # w => t[u] = s[u]

(* What could be read can be read, and free nodes are free still.          *)
Keeps(m, n) ==
  /\ FreeNodes(m) \subseteq FreeNodes(n)
  /\ \A a, x : Names(m, a, x) => Names(n, a, x)

LEMMA BecomesChanged ==
  ASSUME NEW s \in Pictures, NEW v \in Slots, NEW x \in Values \cup {Moved, Null, Gone}
  PROVE  Becomes(s, Changed(s, v, x), v, x)
BY DEF Becomes, Pictures, Changed

LEMMA BornDead ==
  ASSUME NEW r, NEW S, r.o \in [Blocks -> S], NEW v \in Blocks, NEW x
  PROVE  /\ Born(r, v, x) = At(Allocate(r.m, v, 1), Changed(r.o, v, x))
         /\ Dead(r, v) = At(Deallocate(r.m, v, 1), Changed(r.o, v, Gone))
<1>1. /\ [b \in Blocks |-> IF b = v THEN x ELSE r.o[b]] = Changed(r.o, v, x)
      /\ [b \in Blocks |-> IF b = v THEN Gone ELSE r.o[b]] = Changed(r.o, v, Gone)
  BY DEF Changed
<1>. QED BY <1>1 DEF Born, Dead

LEMMA StateOf ==
  ASSUME NEW m, NEW o
  PROVE  /\ At(m, o).m = m /\ At(m, o).o = o
         /\ At(m, o) = At(At(m, o).m, At(m, o).o)
BY DEF At

-----------------------------------------------------------------------------
(* any: the handler says where the value is.                               *)
AnyPlace(x, v) ==
  IF x = Gone THEN Gone
  ELSE IF x.h = Null THEN Null ELSE IF x.h = "small" THEN v ELSE x.ptr
AnyPlaces(o) == [v \in Slots |-> AnyPlace(o[v], v)]

AnyMember(x) == x \in A!Members \cup {Gone} /\ (x \in A!Members /\ x.h = "large" => x.ptr \in Nodes)

HoldsAny(r, s) ==
  /\ r = At(r.m, r.o)
  /\ r.o \in [Blocks -> A!Members \cup {Gone}]
  /\ \A b \in Blocks : AnyMember(r.o[b])
  /\ \A b \in Nodes : r.o[b] = Gone
  /\ Shape(r.m, AnyPlaces(r.o), s)

LEMMA AnyMembers ==
  ASSUME ToldApart, NEW x \in A!Members
  PROVE  /\ x = [h |-> x.h, ptr |-> x.ptr]
         /\ x.h \in {"small", "large", Null} /\ x.ptr \in Nodes \cup {Null} /\ x # Gone
         /\ Null # "small" /\ Null # "large"
         /\ [x EXCEPT !.h = Null] = [h |-> Null, ptr |-> x.ptr]
BY AnyHolder DEF ToldApart, A!Members, A!Kinds, Kinds

(* What v shows says what its members are.                                 *)
LEMMA AnyOf ==
  ASSUME ToldApart, NEW r, NEW s, HoldsAny(r, s), NEW v \in Slots
  PROVE  /\ v \in Blocks /\ r.m \in Memories /\ ~r.m.fault
         /\ s \in Pictures /\ AnyPlaces(r.o)[v] = AnyPlace(r.o[v], v)
         /\ s[v] = Gone <=> r.o[v] = Gone
         /\ s[v] # Gone => r.o[v] \in A!Members
         /\ s[v] # Gone => (s[v] = Null <=> r.o[v].h = Null)
         /\ s[v] # Gone => (s[v] \in Small <=> r.o[v].h = "small")
         /\ s[v] # Gone => (s[v] \in Values \ Small <=> r.o[v].h = "large")
         /\ s[v] \in Values <=> s[v] \notin {Gone, Null}
         /\ s[v] \in Values => A!Place(r, v) = AnyPlaces(r.o)[v]
<1>1. v \in Blocks /\ v \notin Nodes /\ AnyMember(r.o[v])
  BY SlotsAndNodes DEF HoldsAny
<1>2. Shape(r.m, AnyPlaces(r.o), s)
  BY DEF HoldsAny
<1> DEFINE p == AnyPlaces(r.o)[v]
<1>3. /\ r.m \in Memories /\ ~r.m.fault
      /\ p = Gone <=> s[v] = Gone
      /\ p = Null <=> s[v] = Null
      /\ p = v <=> s[v] \in Small
      /\ p \in Nodes <=> s[v] \in Values \ Small
      /\ s[v] \in Values <=> s[v] \notin {Gone, Null}
  BY <1>2, ShapeOf
<1>4. s \in Pictures
  BY <1>2 DEF Shape
<1>5. p = AnyPlace(r.o[v], v)
  BY DEF AnyPlaces
<1> HIDE DEF p
<1>6. Gone \notin Blocks \cup {Null} /\ Null \notin Blocks /\ Nodes \subseteq Blocks
  BY SlotsAndNodes, CellAssumption DEF ToldApart
<1>7. CASE r.o[v] = Gone
  <2>1. p = Gone
    BY <1>5, <1>7 DEF AnyPlace
  <2> QED BY <1>1, <1>3, <1>4, <1>5, <1>7, <2>1 DEF p
<1>8. CASE r.o[v] # Gone
  <2>1. r.o[v] \in A!Members
    BY <1>1, <1>8 DEF AnyMember
  <2>2. r.o[v].h \in {"small", "large", Null} /\ Null # "small" /\ Null # "large"
    BY <2>1, AnyMembers
  <2>3. CASE r.o[v].h = Null
    <3>1. p = Null
      BY <1>5, <1>8, <2>3 DEF AnyPlace
    <3> QED BY <1>1, <1>3, <1>4, <1>5, <1>6, <1>8, <2>1, <2>2, <2>3, <3>1, HolderAssumption
            DEF p, ToldApart
  <2>4. CASE r.o[v].h = "small"
    <3>1. p = v
      BY <1>5, <1>8, <2>2, <2>4 DEF AnyPlace
    <3> QED BY <1>1, <1>3, <1>4, <1>5, <1>6, <1>8, <2>1, <2>2, <2>4, <3>1 DEF p, A!Place
  <2>5. CASE r.o[v].h = "large"
    <3>1. p = r.o[v].ptr /\ p \in Nodes
      BY <1>1, <1>5, <1>8, <2>1, <2>2, <2>5 DEF AnyPlace, AnyMember
    <3> QED BY <1>1, <1>3, <1>4, <1>5, <1>6, <1>8, <2>1, <2>2, <2>5, <3>1 DEF p, A!Place
  <2> QED BY <2>2, <2>3, <2>4, <2>5
<1>. QED BY <1>7, <1>8

(* The members of one slot change together with the memory.                *)
LEMMA AnyStep ==
  ASSUME ToldApart, NEW r, NEW s, HoldsAny(r, s), NEW v \in Slots, NEW x, AnyMember(x),
         NEW n, NEW t, Shape(n, Changed(AnyPlaces(r.o), v, AnyPlace(x, v)), t)
  PROVE  HoldsAny(At(n, Changed(r.o, v, x)), t)
<1>1. /\ v \in Blocks /\ v \notin Nodes
      /\ r.o \in [Blocks -> A!Members \cup {Gone}] /\ x \in A!Members \cup {Gone}
      /\ \A b \in Blocks : AnyMember(r.o[b])
      /\ \A b \in Nodes : r.o[b] = Gone
  BY SlotsAndNodes DEF HoldsAny, AnyMember
<1> DEFINE o == Changed(r.o, v, x)
<1>2. /\ o \in [Blocks -> A!Members \cup {Gone}] /\ o[v] = x
      /\ \A b \in Blocks : b # v => o[b] = r.o[b]
  BY <1>1 DEF Changed
<1> HIDE DEF o
<1>3. AnyPlaces(o) = Changed(AnyPlaces(r.o), v, AnyPlace(x, v))
  <2>1. \A w \in Slots : w \in Blocks
    BY SlotsAndNodes
  <2>2. \A w \in Slots : AnyPlace(o[w], w) = IF w = v THEN AnyPlace(x, v) ELSE AnyPlace(r.o[w], w)
    BY <1>2, <2>1
  <2> QED BY <2>2 DEF AnyPlaces, Changed
<1>4. Nodes \subseteq Blocks
  BY SlotsAndNodes
<1>5. /\ \A b \in Blocks : AnyMember(o[b])
      /\ \A b \in Nodes : o[b] = Gone
  BY <1>1, <1>2, <1>4
<1>6. At(n, o) = At(At(n, o).m, At(n, o).o) /\ At(n, o).m = n /\ At(n, o).o = o
  BY StateOf
<1>7. HoldsAny(At(n, o), t)
  BY <1>2, <1>3, <1>5, <1>6 DEF HoldsAny
<1>. QED BY <1>7 DEF o

LEMMA AnyNew ==
  ASSUME ToldApart, NEW r, NEW s, HoldsAny(r, s), NEW v \in Slots, s[v] = Gone
  PROVE  /\ \E t : HoldsAny(A!New(r, v), t) /\ Becomes(s, t, v, Null)
         /\ Keeps(r.m, A!New(r, v).m)
<1> DEFINE n == Allocate(r.m, v, 1)
           x == A!NoMember
           t == Changed(s, v, Null)
<1>1. /\ v \in Blocks /\ v \notin Nodes /\ r.m \in Memories /\ s \in Pictures
      /\ r.o \in [Blocks -> A!Members \cup {Gone}]
      /\ Shape(r.m, AnyPlaces(r.o), s) /\ r.m.cells[v] = Nothing
  <2>1. v \in Blocks /\ r.m \in Memories /\ s \in Pictures
    BY AnyOf
  <2>2. r.o \in [Blocks -> A!Members \cup {Gone}] /\ Shape(r.m, AnyPlaces(r.o), s)
    BY DEF HoldsAny
  <2>3. r.m.cells[v] = Nothing
    BY <2>2, ShapeOf
  <2> QED BY <2>1, <2>2, <2>3, SlotsAndNodes
<1>2. AnyMember(x) /\ AnyPlace(x, v) = Null
  BY AnyHolder, SlotsAndNodes, CellAssumption
     DEF AnyMember, AnyPlace, A!NoMember, A!Members, ToldApart, A!Kinds, Kinds
<1>3. A!New(r, v) = At(n, Changed(r.o, v, x))
  BY <1>1, AnyHolder, BornDead DEF A!New
<1>4. n = With(r.m, v, One(Raw)) /\ Shape(n, Changed(AnyPlaces(r.o), v, Null), t)
  BY <1>1, ShapeBorn
<1> HIDE DEF n, x, t
<1>5. HoldsAny(A!New(r, v), t)
  BY <1>2, <1>3, <1>4, AnyStep
<1>6. Becomes(s, t, v, Null)
  BY <1>1, BecomesChanged DEF t
<1>7. Keeps(r.m, A!New(r, v).m)
  <2>1. A!New(r, v).m = n
    BY <1>3, StateOf
  <2>2. \A c \in Blocks : c # v => n.cells[c] = r.m.cells[c]
    BY <1>1, <1>4, WithRaw
  <2>3. FreeNodes(r.m) \subseteq FreeNodes(n)
    BY <1>1, <2>2, FreeNode, SlotsAndNodes
  <2>4. ASSUME NEW a, NEW y, Names(r.m, a, y) PROVE Names(n, a, y)
    <3>1. \A c \in Blocks : r.m.cells[c] = One(y) => n.cells[c] = r.m.cells[c]
      BY <1>1, <2>2, OneCell
    <3> QED BY <2>4, <3>1, NamesStill
  <2> QED BY <2>1, <2>3, <2>4 DEF Keeps
<1>. QED BY <1>5, <1>6, <1>7

LEMMA AnyDead ==
  ASSUME ToldApart, NEW r, NEW s, HoldsAny(r, s), NEW v \in Slots, s[v] = Null
  PROVE  \E t : HoldsAny(Dead(r, v), t) /\ Becomes(s, t, v, Gone)
<1> DEFINE n == Deallocate(r.m, v, 1)
           t == Changed(s, v, Gone)
<1>1. /\ v \in Blocks /\ s \in Pictures
      /\ r.o \in [Blocks -> A!Members \cup {Gone}]
      /\ Shape(r.m, AnyPlaces(r.o), s)
  BY AnyOf DEF HoldsAny
<1>2. AnyMember(Gone) /\ AnyPlace(Gone, v) = Gone
  BY DEF AnyMember, AnyPlace, ToldApart
<1>3. Dead(r, v) = At(n, Changed(r.o, v, Gone))
  BY <1>1, BornDead
<1>4. Shape(n, Changed(AnyPlaces(r.o), v, Gone), t)
  BY <1>1, ShapeDead
<1> HIDE DEF n, t
<1>5. HoldsAny(Dead(r, v), t)
  BY <1>2, <1>3, <1>4, AnyStep
<1>6. Becomes(s, t, v, Gone)
  BY <1>1, BecomesChanged DEF t
<1>. QED BY <1>5, <1>6

LEMMA AnyHandler ==
  ASSUME ToldApart, NEW r, NEW s, HoldsAny(r, s), NEW v \in Slots, s[v] # Gone, NEW h, NEW n
  PROVE  /\ A!SetHandler([r EXCEPT !.m = n], v, h)
              = At(n, Changed(r.o, v, [h |-> h, ptr |-> r.o[v].ptr]))
         /\ A!SetHandler(r, v, h) = At(r.m, Changed(r.o, v, [h |-> h, ptr |-> r.o[v].ptr]))
<1>1. r.o[v] \in A!Members /\ r = At(r.m, r.o)
  BY AnyOf DEF HoldsAny
<1>2. [r EXCEPT !.m = n] = At(n, r.o)
  BY <1>1 DEF At
<1>3. [r.o EXCEPT ![v].h = h] = Changed(r.o, v, [h |-> h, ptr |-> r.o[v].ptr])
  <2>1. r.o[v] = [h |-> r.o[v].h, ptr |-> r.o[v].ptr]
    BY <1>1, AnyMembers
  <2>2. [r.o[v] EXCEPT !.h = h] = [h |-> h, ptr |-> r.o[v].ptr]
    BY <2>1
  <2>3. [r.o EXCEPT ![v].h = h] = [r.o EXCEPT ![v] = [r.o[v] EXCEPT !.h = h]]
    OBVIOUS
  <2> QED BY <2>2, <2>3 DEF Changed
<1>4. ASSUME NEW m PROVE A!SetHandler(At(m, r.o), v, h) = At(m, [r.o EXCEPT ![v].h = h])
  BY DEF A!SetHandler, At
<1>. QED BY <1>1, <1>2, <1>3, <1>4

LEMMA AnyCreate ==
  ASSUME ToldApart, NEW r, NEW s, HoldsAny(r, s), NEW v \in Slots, s[v] = Null,
         NEW a, NEW x \in Values, Names(r.m, a, x), x \in Small \/ FreeNodes(r.m) # {}
  PROVE  \E t : HoldsAny(A!Create(r, v, a), t) /\ Becomes(s, t, v, x)
<1> DEFINE t == Changed(s, v, x)
           b == NewNode(r.m)
<1>1. /\ v \in Blocks /\ s \in Pictures /\ r.m \in Memories
      /\ r.o \in [Blocks -> A!Members \cup {Gone}]
      /\ Shape(r.m, AnyPlaces(r.o), s) /\ s[v] # Gone
  BY AnyOf DEF HoldsAny, ToldApart
<1>2. A!Read(r.m, a) = x
  BY <1>1, NamesReads, AnyCells DEF Reads
<1>3. Becomes(s, t, v, x)
  BY <1>1, BecomesChanged
<1> HIDE DEF t, b
<1>4. Null # "small" /\ Null # "large" /\ r.o[v] \in A!Members /\ r.o[v].ptr \in Nodes \cup {Null}
  BY <1>1, AnyOf, AnyMembers DEF ToldApart, Kinds
<1>5. CASE x \in Small
  <2> DEFINE y == [h |-> "small", ptr |-> r.o[v].ptr]
             n == ConstructIn(r.m, v, a)
  <2>1. A!Create(r, v, a) = At(n, Changed(r.o, v, y))
    <3>1. A!Kind(x) = "small"
      BY <1>5, AnyHolder DEF Kind
    <3>2. A!Create(r, v, a) = A!SetHandler([r EXCEPT !.m = A!ConstructIn(@, v, a)], v, "small")
      BY <1>2, <3>1 DEF A!Create
    <3>3. [r EXCEPT !.m = A!ConstructIn(@, v, a)] = [r EXCEPT !.m = n]
      BY AnyHolder
    <3> QED BY <1>1, <3>2, <3>3, AnyHandler
  <2>2. AnyMember(y) /\ AnyPlace(y, v) = v
    BY <1>4, AnyHolder DEF AnyMember, AnyPlace, A!Members, A!Kinds, Kinds, ToldApart
  <2>3. Shape(n, Changed(AnyPlaces(r.o), v, v), t)
    BY <1>1, <1>5, ShapeSmall DEF t
  <2> HIDE DEF y, n
  <2>4. HoldsAny(A!Create(r, v, a), t)
    BY <2>1, <2>2, <2>3, AnyStep
  <2> QED BY <1>3, <2>4
<1>6. CASE x \notin Small
  <2> DEFINE y == [h |-> "large", ptr |-> b]
             n == NewValue(r.m, b, a)
  <2>1. A!Create(r, v, a) = At(n, Changed(r.o, v, y))
    <3>1. A!Kind(x) = "large"
      BY <1>6, AnyHolder DEF Kind
    <3>2. A!Create(r, v, a)
            = A!At(A!NewValue(r.m, A!NewNode(r.m), a),
                   [r.o EXCEPT ![v] = [h |-> "large", ptr |-> A!NewNode(r.m)]])
      BY <1>2, <3>1 DEF A!Create
    <3> QED BY <3>2, AnyHolder, AnyCells DEF Changed, b
  <2>2. b \in FreeNodes(r.m) /\ b \in Nodes
    BY <1>6, FreeNode DEF b
  <2>3. AnyMember(y) /\ AnyPlace(y, v) = b
    BY <1>4, <2>2, AnyHolder DEF AnyMember, AnyPlace, A!Members, A!Kinds, Kinds, ToldApart
  <2>4. Shape(n, Changed(AnyPlaces(r.o), v, b), t)
    BY <1>1, <1>6, <2>2, ShapeLarge DEF t
  <2> HIDE DEF y, n
  <2>5. HoldsAny(A!Create(r, v, a), t)
    BY <2>1, <2>3, <2>4, AnyStep
  <2> QED BY <1>3, <2>5
<1>. QED BY <1>5, <1>6

LEMMA AnyCreateFails ==
  ASSUME ToldApart, NEW r, NEW s, HoldsAny(r, s), NEW v, NEW a, FreeNodes(r.m) # {}
  PROVE  A!CreateFails(r, v, a) = r
<1>1. r.m \in Memories /\ r = At(r.m, r.o)
  BY DEF HoldsAny, Shape
<1>2. A!Unused(r.m, A!NewNode(r.m)) = r.m
  BY <1>1, FreeNode, UnusedNode, AnyHolder
<1>3. [r EXCEPT !.m = A!Unused(@, A!NewNode(@))] = r
  BY <1>1, <1>2 DEF At
<1>. QED BY <1>3 DEF A!CreateFails

LEMMA AnyDestroy ==
  ASSUME ToldApart, NEW r, NEW s, HoldsAny(r, s), NEW v \in Slots, s[v] \in Values
  PROVE  /\ \E t : HoldsAny(A!DestroyValue(r, v), t) /\ Becomes(s, t, v, Null)
         /\ FreeNodes(r.m) \subseteq FreeNodes(A!DestroyValue(r, v).m)
<1> DEFINE t == Changed(s, v, Null)
           b == AnyPlaces(r.o)[v]
           y == [h |-> Null, ptr |-> r.o[v].ptr]
           n == IF b = v THEN DestroyIn(r.m, v) ELSE DeleteValue(r.m, b)
<1>1. /\ v \in Blocks /\ v \notin Nodes /\ s \in Pictures /\ r.m \in Memories
      /\ Shape(r.m, AnyPlaces(r.o), s) /\ s[v] # Gone /\ s[v] # Null
      /\ A!Place(r, v) = b /\ r.o[v] \in A!Members
  <2>1. v \notin Nodes /\ Shape(r.m, AnyPlaces(r.o), s)
    BY SlotsAndNodes DEF HoldsAny
  <2>2. s[v] # Gone /\ s[v] # Null
    BY DEF ToldApart
  <2> QED BY <2>1, <2>2, AnyOf
<1>2. b = v <=> s[v] \in Small
  BY <1>1, ShapeOf
<1>3. AnyMember(y) /\ AnyPlace(y, v) = Null
  BY <1>1, AnyMembers, AnyHolder
     DEF AnyMember, AnyPlace, A!Members, A!Kinds, Kinds, ToldApart
<1>4. A!DestroyValue(r, v) = At(n, Changed(r.o, v, y))
  <2>1. A!DestroyValue(r, v)
          = A!SetHandler([r EXCEPT !.m = IF b = v THEN A!DestroyIn(r.m, b)
                                         ELSE A!DeleteValue(r.m, b)], v, Null)
    BY <1>1 DEF A!DestroyValue
  <2>2. (IF b = v THEN A!DestroyIn(r.m, b) ELSE A!DeleteValue(r.m, b)) = n
    BY AnyHolder
  <2>3. A!SetHandler([r EXCEPT !.m = n], v, Null) = At(n, Changed(r.o, v, y))
    BY <1>1, AnyHandler
  <2> QED BY <2>1, <2>2, <2>3
<1>5. /\ Shape(n, Changed(AnyPlaces(r.o), v, Null), t)
      /\ FreeNodes(r.m) \subseteq FreeNodes(n)
  <2>1. CASE s[v] \in Small
    <3>1. DestroyIn(r.m, v) = With(r.m, v, One(Raw))
      BY <1>1, <2>1, ShapeDropped
    <3>2. Shape(n, Changed(AnyPlaces(r.o), v, Null), t)
      BY <1>1, <1>2, <2>1, ShapeDropped
    <3>3. \A c \in Blocks : c # v => n.cells[c] = r.m.cells[c]
      BY <1>1, <1>2, <2>1, <3>1, WithRaw
    <3>4. FreeNodes(r.m) \subseteq FreeNodes(n)
      BY <1>1, <3>3, FreeNode, SlotsAndNodes
    <3> QED BY <3>2, <3>4
  <2>2. CASE s[v] \in Values \ Small
    BY <1>1, <1>2, <2>2, ShapeDeleted
  <2> QED BY <2>1, <2>2
<1> HIDE DEF n, y, t
<1>6. HoldsAny(A!DestroyValue(r, v), t)
  BY <1>3, <1>4, <1>5, AnyStep
<1>7. Becomes(s, t, v, Null)
  BY <1>1, BecomesChanged DEF t
<1>8. A!DestroyValue(r, v).m = n
  BY <1>4, StateOf
<1>. QED BY <1>5, <1>6, <1>7, <1>8

(* The value of v goes over to w, which has none.                          *)
LEMMA AnyMove ==
  ASSUME ToldApart, NEW r, NEW s, HoldsAny(r, s), NEW v \in Slots, NEW w \in Slots, v # w,
         s[v] \in Values, s[w] = Null
  PROVE  \E t : HoldsAny(A!MoveValue(r, v, w), t) /\ Exchanged(s, t, v, w)
<1>1. /\ s \in Pictures /\ r.m \in Memories /\ v \in Blocks /\ w \in Blocks
      /\ v \notin Nodes /\ w \notin Nodes /\ s[v] # Gone /\ s[w] # Gone
      /\ r = At(r.m, r.o) /\ r.o \in [Blocks -> A!Members \cup {Gone}]
      /\ r.o[v] \in A!Members /\ r.o[w] \in A!Members /\ r.o[w].h = Null
      /\ Shape(r.m, AnyPlaces(r.o), s)
  <2>1. s[v] # Gone /\ s[w] # Gone /\ s[v] # Null
    BY DEF ToldApart
  <2>2. /\ s \in Pictures /\ r.m \in Memories /\ v \in Blocks /\ r.o[v] \in A!Members
    BY <2>1, AnyOf
  <2>3. /\ w \in Blocks /\ r.o[w] \in A!Members /\ r.o[w].h = Null
    BY <2>1, AnyOf
  <2>4. /\ r = At(r.m, r.o) /\ r.o \in [Blocks -> A!Members \cup {Gone}]
        /\ Shape(r.m, AnyPlaces(r.o), s)
    BY DEF HoldsAny
  <2> QED BY <2>1, <2>2, <2>3, <2>4, SlotsAndNodes
<1>2. CASE s[v] \in Small
  <2> DEFINE moved == A!Create(r, w, Value(v))
  <2>1. r.o[v].h = "small" /\ AnyPlaces(r.o)[v] = v
    BY <1>1, <1>2, AnyOf, ShapeOf
  <2>2. Names(r.m, Value(v), s[v])
    BY <1>1, <2>1, PlaceNamed
  <2>3. PICK k : HoldsAny(moved, k) /\ Becomes(s, k, w, s[v])
    BY <1>2, <2>2, AnyCreate
  <2> HIDE DEF moved
  <2>4. k \in Pictures /\ k[v] = s[v] /\ k[w] = s[v]
    BY <2>3 DEF Becomes
  <2> DEFINE dropped == With(moved.m, v, One(Moved))
             after   == [moved EXCEPT !.m = A!MoveFrom(@, v, 0, 1)]
  <2>5. /\ moved = At(moved.m, moved.o) /\ moved.m \in Memories /\ ~moved.m.fault
        /\ Shape(moved.m, AnyPlaces(moved.o), k)
        /\ A!Place(moved, v) = v /\ moved.m.cells[v] = One(k[v]) /\ k[v] \in Cells \ {Raw}
    <3>1. Shape(moved.m, AnyPlaces(moved.o), k) /\ moved = At(moved.m, moved.o)
      BY <2>3 DEF HoldsAny
    <3>2. k[v] \in Values /\ k[v] \in Small
      BY <1>2, <2>4
    <3>3. A!Place(moved, v) = AnyPlaces(moved.o)[v]
      BY <2>3, <3>2, AnyOf
    <3>4. AnyPlaces(moved.o)[v] = v
      BY <3>1, <3>2, ShapeOf
    <3>5. /\ moved.m.cells[AnyPlaces(moved.o)[v]] = One(k[v])
          /\ moved.m \in Memories /\ ~moved.m.fault
      BY <3>1, <3>2, ShapeOf
    <3>6. k[v] \in Cells \ {Raw}
      BY <3>2, CellAssumption DEF Cells
    <3> QED BY <3>1, <3>3, <3>4, <3>5, <3>6
  <2>6. MoveFrom(moved.m, v, 0, 1) = dropped
    BY <1>1, <2>5, DestroysPlace
  <2>7. after = At(dropped, moved.o)
    <3>1. [moved EXCEPT !.m = A!MoveFrom(@, v, 0, 1)] = At(A!MoveFrom(moved.m, v, 0, 1), moved.o)
      BY <2>5 DEF At
    <3> QED BY <2>6, <3>1, AnyCells
  <2>8. DestroyIn(dropped, v) = DestroyIn(moved.m, v)
    <3>1. One(Moved) \in Seq(Cells) /\ One(Raw) \in Seq(Cells) /\ Moved \in Cells \ {Raw}
      BY OneCell, RawIsCell
    <3>2. dropped \in Memories /\ dropped.cells[v] = One(Moved)
      BY <1>1, <2>5, <3>1, WithCells
    <3>3. DestroyIn(moved.m, v) = With(moved.m, v, One(Raw))
      BY <1>1, <2>5, DestroysIn
    <3> HIDE DEF dropped
    <3>4. DestroyIn(dropped, v) = With(dropped, v, One(Raw))
      BY <1>1, <3>1, <3>2, DestroysIn
    <3> USE DEF dropped
    <3>5. With(dropped, v, One(Raw)) = With(moved.m, v, One(Raw))
      BY <1>1, <2>5, <3>1, WithTwice
    <3> QED BY <3>3, <3>4, <3>5
  <2>9. A!DestroyValue(after, v) = A!DestroyValue(moved, v)
    <3> HIDE DEF after, dropped
    <3>1. after.o = moved.o /\ after.m = dropped
      BY <2>7, StateOf
    <3>2. A!Place(after, v) = v
      BY <2>5, <3>1 DEF A!Place
    <3>3. A!DestroyValue(after, v)
            = A!SetHandler([after EXCEPT !.m = A!DestroyIn(after.m, v)], v, Null)
      BY <3>2 DEF A!DestroyValue
    <3>4. A!DestroyValue(moved, v)
            = A!SetHandler([moved EXCEPT !.m = A!DestroyIn(moved.m, v)], v, Null)
      BY <2>5 DEF A!DestroyValue
    <3>5. A!DestroyIn(after.m, v) = A!DestroyIn(moved.m, v)
      BY <2>8, <3>1, AnyHolder
    <3>6. [after EXCEPT !.m = A!DestroyIn(moved.m, v)] = [moved EXCEPT !.m = A!DestroyIn(moved.m, v)]
      BY <2>5, <2>7 DEF At
    <3> QED BY <3>3, <3>4, <3>5, <3>6
  <2>10. A!MoveValue(r, v, w) = A!DestroyValue(moved, v)
    BY <2>1, <2>9, AnyCells DEF A!MoveValue, moved
  <2>11. PICK t : HoldsAny(A!DestroyValue(moved, v), t) /\ Becomes(k, t, v, Null)
    BY <2>3, <2>4, AnyDestroy
  <2>12. Exchanged(s, t, v, w)
    BY <2>3, <2>11 DEF Becomes, Exchanged
  <2> QED BY <2>10, <2>11, <2>12
<1>3. CASE s[v] \notin Small
  <2> DEFINE x == [h |-> Null, ptr |-> r.o[v].ptr]
             o == Changed(Changed(r.o, w, r.o[v]), v, x)
             P == AnyPlaces(r.o)
             t == Changed(Changed(s, v, s[w]), w, s[v])
  <2>1. r.o[v].h = "large" /\ r.o[v].h # "small" /\ AnyMember(r.o[v])
    BY <1>1, <1>3, AnyOf DEF HoldsAny
  <2>2. A!MoveValue(r, v, w) = At(r.m, o)
    <3>1. A!MoveValue(r, v, w) = A!SetHandler(A!At(r.m, [r.o EXCEPT ![w] = r.o[v]]), v, Null)
      BY <2>1 DEF A!MoveValue
    <3>2. A!At(r.m, [r.o EXCEPT ![w] = r.o[v]]) = At(r.m, Changed(r.o, w, r.o[v]))
      BY AnyCells DEF Changed
    <3>3. A!SetHandler(At(r.m, Changed(r.o, w, r.o[v])), v, Null) = At(r.m, o)
      <4>1. Changed(r.o, w, r.o[v])[v] = r.o[v] /\ v \in DOMAIN Changed(r.o, w, r.o[v])
        BY <1>1 DEF Changed
      <4>2. [r.o[v] EXCEPT !.h = Null] = x
        BY <1>1, AnyMembers
      <4>3. [Changed(r.o, w, r.o[v]) EXCEPT ![v].h = Null] = o
        BY <4>1, <4>2 DEF Changed
      <4> QED BY <4>3 DEF A!SetHandler, At
    <3> QED BY <3>1, <3>2, <3>3
  <2>3. /\ x \in A!Members /\ AnyMember(x) /\ AnyPlace(x, v) = Null
        /\ AnyPlace(r.o[v], w) = P[v] /\ P[w] = Null /\ P[v] \in Nodes
    <3>1. x \in A!Members /\ x # Gone /\ Null # "large" /\ Null # "small" /\ r.o[v] # Gone
      BY <1>1, AnyMembers, AnyHolder DEF A!Members, A!Kinds, Kinds, ToldApart
    <3>2. AnyPlaces(r.o)[v] = AnyPlace(r.o[v], v) /\ AnyPlaces(r.o)[w] = AnyPlace(r.o[w], w)
      BY <1>1 DEF AnyPlaces
    <3>3. P[v] \in Nodes /\ P[w] = Null
      BY <1>1, <1>3, ShapeOf
    <3> QED BY <1>1, <2>1, <3>1, <3>2, <3>3 DEF AnyMember, AnyPlace
  <2>4. Shape(r.m, Changed(Changed(P, v, P[w]), w, P[v]), t)
    BY <1>1, <2>3, ShapeExchanged
  <2>5. /\ o \in [Blocks -> A!Members \cup {Gone}] /\ o[v] = x /\ o[w] = r.o[v]
        /\ \A b \in Blocks : b # v /\ b # w => o[b] = r.o[b]
    BY <1>1, <2>3 DEF Changed
  <2>6. AnyPlaces(o) = Changed(Changed(P, v, P[w]), w, P[v])
    <3>1. \A u \in Slots : u \in Blocks
      BY SlotsAndNodes
    <3>2. P = [u \in Slots |-> AnyPlace(r.o[u], u)]
      BY DEF AnyPlaces
    <3> HIDE DEF P, o, x
    <3>3. \A u \in Slots : AnyPlace(o[u], u) = IF u = w THEN P[v] ELSE IF u = v THEN P[w] ELSE P[u]
      BY <2>3, <2>5, <3>1, <3>2
    <3> QED BY <3>2, <3>3 DEF AnyPlaces, Changed
  <2>7. /\ \A b \in Blocks : AnyMember(o[b])
        /\ \A b \in Nodes : o[b] = Gone
    <3>1. /\ \A b \in Blocks : AnyMember(r.o[b])
          /\ \A b \in Nodes : r.o[b] = Gone /\ b \in Blocks
      BY SlotsAndNodes DEF HoldsAny
    <3> HIDE DEF o, x
    <3> QED BY <1>1, <2>1, <2>3, <2>5, <3>1
  <2>8. Exchanged(s, t, v, w)
    BY <1>1 DEF Exchanged, Changed, Pictures
  <2> HIDE DEF o, t, x, P
  <2>9. HoldsAny(At(r.m, o), t)
    BY <2>4, <2>5, <2>6, <2>7, StateOf DEF HoldsAny
  <2> QED BY <2>2, <2>8, <2>9
<1>. QED BY <1>2, <1>3

LEMMA AnyMoveOf ==
  ASSUME ToldApart, NEW r, NEW s, HoldsAny(r, s), NEW v \in Slots, NEW w \in Slots, v # w,
         s[v] # Gone, s[w] = Null
  PROVE  \E t : HoldsAny(A!MoveOf(r, v, w), t) /\ Exchanged(s, t, v, w)
<1>1. s \in Pictures /\ (s[v] = Null <=> r.o[v].h = Null) /\ (s[v] \in Values <=> s[v] # Null)
  BY AnyOf
<1>2. CASE s[v] = Null
  <2>1. A!MoveOf(r, v, w) = r
    BY <1>1, <1>2 DEF A!MoveOf
  <2>2. Exchanged(s, s, v, w)
    BY <1>1, <1>2 DEF Exchanged
  <2> QED BY <2>1, <2>2
<1>3. CASE s[v] # Null
  <2>1. A!MoveOf(r, v, w) = A!MoveValue(r, v, w)
    BY <1>1, <1>3 DEF A!MoveOf
  <2> QED BY <1>1, <1>3, <2>1, AnyMove
<1>. QED BY <1>2, <1>3

LEMMA AnyReset ==
  ASSUME ToldApart, NEW r, NEW s, HoldsAny(r, s), NEW v \in Slots, s[v] # Gone
  PROVE  /\ \E t : HoldsAny(A!ResetOf(r, v), t) /\ Becomes(s, t, v, Null)
         /\ FreeNodes(r.m) \subseteq FreeNodes(A!ResetOf(r, v).m)
<1>1. s \in Pictures /\ (s[v] = Null <=> r.o[v].h = Null) /\ (s[v] \in Values <=> s[v] # Null)
  BY AnyOf
<1>2. CASE s[v] = Null
  <2>1. A!ResetOf(r, v) = r
    BY <1>1, <1>2 DEF A!ResetOf
  <2>2. Becomes(s, s, v, Null)
    BY <1>1, <1>2 DEF Becomes
  <2> QED BY <2>1, <2>2
<1>3. CASE s[v] # Null
  <2>1. A!ResetOf(r, v) = A!DestroyValue(r, v)
    BY <1>1, <1>3 DEF A!ResetOf
  <2> QED BY <1>1, <1>3, <2>1, AnyDestroy
<1>. QED BY <1>2, <1>3

LEMMA AnyDestructed ==
  ASSUME ToldApart, NEW r, NEW s, HoldsAny(r, s), NEW v \in Slots, s[v] # Gone
  PROVE  \E t : HoldsAny(A!Destructed(r, v), t) /\ Becomes(s, t, v, Gone)
<1>1. PICK k : HoldsAny(A!ResetOf(r, v), k) /\ Becomes(s, k, v, Null)
  BY AnyReset
<1>2. PICK t : HoldsAny(Dead(A!ResetOf(r, v), v), t) /\ Becomes(k, t, v, Gone)
  BY <1>1, AnyDead DEF Becomes
<1>3. A!Destructed(r, v) = Dead(A!ResetOf(r, v), v)
  BY AnyHolder DEF A!Destructed
<1>4. Becomes(s, t, v, Gone)
  BY <1>1, <1>2 DEF Becomes
<1>. QED BY <1>2, <1>3, <1>4

LEMMA AnySwap ==
  ASSUME ToldApart, NEW r, NEW s, HoldsAny(r, s), NEW v \in Slots, NEW w \in Slots,
         s[v] # Gone, s[w] # Gone, s[Spare] = Gone
  PROVE  \E t : HoldsAny(A!SwapOf(r, v, w), t) /\ Exchanged(s, t, v, w)
<1>1. /\ s \in Pictures
      /\ (s[v] = Null <=> r.o[v].h = Null) /\ (s[v] \in Values <=> s[v] # Null)
      /\ (s[w] = Null <=> r.o[w].h = Null) /\ (s[w] \in Values <=> s[w] # Null)
      /\ Spare \in Slots /\ Null \notin Values /\ Gone \notin Values
  BY AnyOf, SlotsAndNodes DEF ToldApart
<1>2. CASE v = w
  <2>1. A!SwapOf(r, v, w) = r
    BY <1>2 DEF A!SwapOf
  <2>2. Exchanged(s, s, v, w)
    BY <1>1, <1>2 DEF Exchanged
  <2> QED BY <2>1, <2>2
<1>3. CASE v # w /\ s[v] # Null /\ s[w] # Null
  <2> DEFINE born == A!New(r, Spare)
             out  == A!MoveValue(born, w, Spare)
             over == A!MoveValue(out, v, w)
             back == A!MoveValue(over, Spare, v)
  <2>1. PICK s1 : HoldsAny(born, s1) /\ Becomes(s, s1, Spare, Null)
    BY <1>1, AnyNew
  <2>2. s1[v] = s[v] /\ s1[w] = s[w] /\ s1[Spare] = Null
    BY <2>1 DEF Becomes
  <2> HIDE DEF born
  <2>3. PICK s2 : HoldsAny(out, s2) /\ Exchanged(s1, s2, w, Spare)
    BY <1>1, <1>3, <2>1, <2>2, AnyMove
  <2>4. s2[Spare] = s[w] /\ s2[w] = Null /\ s2[v] = s[v]
    BY <1>1, <1>3, <2>2, <2>3 DEF Exchanged
  <2> HIDE DEF out
  <2>5. PICK s3 : HoldsAny(over, s3) /\ Exchanged(s2, s3, v, w)
    BY <1>1, <1>3, <2>3, <2>4, AnyMove
  <2>6. s3[Spare] = s[w] /\ s3[w] = s[v] /\ s3[v] = Null
    BY <1>1, <1>3, <2>4, <2>5 DEF Exchanged
  <2> HIDE DEF over
  <2>7. PICK s4 : HoldsAny(back, s4) /\ Exchanged(s3, s4, Spare, v)
    BY <1>1, <1>3, <2>5, <2>6, AnyMove
  <2>8. s4[Spare] = Null /\ s4[v] = s[w] /\ s4[w] = s[v]
    BY <1>1, <1>3, <2>6, <2>7 DEF Exchanged
  <2> HIDE DEF back
  <2>9. PICK t : HoldsAny(A!Destructed(back, Spare), t) /\ Becomes(s4, t, Spare, Gone)
    BY <1>1, <2>7, <2>8, AnyDestructed DEF ToldApart
  <2>10. Exchanged(s, t, v, w)
    BY <1>1, <1>3, <2>1, <2>3, <2>5, <2>7, <2>8, <2>9 DEF Exchanged, Becomes
  <2>11. A!SwapOf(r, v, w) = A!Destructed(back, Spare)
    BY <1>1, <1>3 DEF A!SwapOf, back, over, out, born
  <2> QED BY <2>9, <2>10, <2>11
<1>4. CASE v # w /\ s[v] # Null /\ s[w] = Null
  <2>1. A!SwapOf(r, v, w) = A!MoveValue(r, v, w)
    BY <1>1, <1>4 DEF A!SwapOf
  <2> QED BY <1>1, <1>4, <2>1, AnyMove
<1>5. CASE v # w /\ s[v] = Null
  <2>1. A!SwapOf(r, v, w) = A!MoveOf(r, w, v)
    BY <1>1, <1>5 DEF A!SwapOf
  <2>2. PICK t : HoldsAny(A!MoveOf(r, w, v), t) /\ Exchanged(s, t, w, v)
    BY <1>5, AnyMoveOf
  <2>3. Exchanged(s, t, v, w)
    BY <2>2 DEF Exchanged
  <2> QED BY <2>1, <2>2, <2>3
<1>. QED BY <1>2, <1>3, <1>4, <1>5

(* v gets what the temporary holds, and the temporary goes.                *)
LEMMA AnySwapIn ==
  ASSUME ToldApart, NEW r, NEW s, HoldsAny(r, s), NEW v \in Variables,
         s[v] # Gone, s[Temp] # Gone, s[Spare] = Gone
  PROVE  \E t : /\ HoldsAny(A!SwapIn(r, v), t)
                /\ t \in Pictures /\ t[v] = s[Temp] /\ t[Temp] = Gone
                /\ \A u \in Slots : u # v /\ u # Temp => t[u] = s[u]
<1>1. v \in Slots /\ Temp \in Slots /\ v # Temp
  BY SlotsAndNodes
<1>2. PICK k : HoldsAny(A!SwapOf(r, Temp, v), k) /\ Exchanged(s, k, Temp, v)
  BY <1>1, AnySwap
<1>3. k[Temp] # Gone
  BY <1>2 DEF Exchanged
<1>4. PICK t : HoldsAny(A!Destructed(A!SwapOf(r, Temp, v), Temp), t) /\ Becomes(k, t, Temp, Gone)
  BY <1>1, <1>2, <1>3, AnyDestructed
<1>5. /\ t \in Pictures /\ t[v] = s[Temp] /\ t[Temp] = Gone
      /\ \A u \in Slots : u # v /\ u # Temp => t[u] = s[u]
  BY <1>1, <1>2, <1>4 DEF Becomes, Exchanged
<1>. QED BY <1>4, <1>5 DEF A!SwapIn

LEMMA AnyCopy ==
  ASSUME ToldApart, NEW r, NEW s, HoldsAny(r, s), NEW v \in Slots, NEW w \in Slots,
         s[v] = Null, s[w] # Gone, FreeNodes(r.m) # {}
  PROVE  \E t : HoldsAny(A!CopyOf(r, w, v), t) /\ Becomes(s, t, v, s[w])
<1>1. /\ s \in Pictures
      /\ (s[w] = Null <=> r.o[w].h = Null) /\ (s[w] \in Values <=> s[w] # Null)
  BY AnyOf
<1>2. CASE s[w] = Null
  <2>1. A!CopyOf(r, w, v) = r
    BY <1>1, <1>2 DEF A!CopyOf
  <2>2. Becomes(s, s, v, s[w])
    BY <1>1, <1>2 DEF Becomes
  <2> QED BY <2>1, <2>2
<1>3. CASE s[w] # Null
  <2>1. A!CopyOf(r, w, v) = A!Create(r, v, Value(A!Place(r, w)))
    BY <1>1, <1>3, AnyCells DEF A!CopyOf
  <2>2. A!Place(r, w) = AnyPlaces(r.o)[w] /\ Shape(r.m, AnyPlaces(r.o), s)
    BY <1>1, <1>3, AnyOf DEF HoldsAny
  <2>3. Names(r.m, Value(A!Place(r, w)), s[w])
    BY <1>1, <1>3, <2>2, PlaceNamed
  <2> QED BY <1>1, <1>3, <2>1, <2>3, AnyCreate
<1>. QED BY <1>2, <1>3

-----------------------------------------------------------------------------
(* A step of OptionalValue, on pictures.                                   *)
Said(what, x, threw) == call' = <<what, x, threw>>

Seen(s)    == [v \in Variables |-> s[v]]
Settled(s) == s \in Pictures /\ s[Temp] = Gone /\ s[Spare] = Gone

Keeping(s, t) ==
  (\E x : Said("keep", x, FALSE)) /\ \A u \in Variables : t[u] = s[u]
Refusing(s, t) ==
  /\ \E what \in {"construct", "copy", "set"} : \E x : Said(what, x, TRUE)
  /\ \A u \in Variables : t[u] = s[u]
Beginning(s, t, v) ==
  /\ Said("construct", t[v], FALSE) /\ s[v] = Gone
  /\ \A u \in Variables : u # v => t[u] = s[u]
Ending(s, t, v) ==
  /\ \E x : Said("destroy", x, FALSE)
  /\ s[v] # Gone /\ t[v] = Gone
  /\ \A u \in Variables : u # v => t[u] = s[u]
Setting(s, t, v) ==
  /\ Said("set", t[v], FALSE) /\ s[v] # Gone
  /\ \A u \in Variables : u # v => t[u] = s[u]
Losing(s, t, v) ==
  /\ \E x : Said("replace", x, TRUE)
  /\ s[v] # Gone /\ t[v] = Null
  /\ \A u \in Variables : u # v => t[u] = s[u]
Copying(s, t, v, w) ==
  /\ \E x : Said("copy", x, FALSE)
  /\ s[w] # Gone /\ t[v] = s[w]
  /\ \A u \in Variables : u # v => t[u] = s[u]
Taking(s, t, v, w) ==
  /\ \E x : Said("take", x, FALSE)
  /\ s[w] # Gone /\ t[v] = s[w] /\ (v # w => t[w] \in {Null, Moved, s[w]})
  /\ \A u \in Variables : u # v /\ u # w => t[u] = s[u]
Exchanging(s, t, v, w) ==
  /\ \E x : Said("swap", x, FALSE)
  /\ s[v] # Gone /\ s[w] # Gone /\ t[v] = s[w] /\ t[w] = s[v]
  /\ \A u \in Variables : u # v /\ u # w => t[u] = s[u]

Outcome(s, t) ==
  \/ Keeping(s, t) \/ Refusing(s, t)
  \/ \E v \in Variables :
       \/ Beginning(s, t, v) \/ Ending(s, t, v) \/ Setting(s, t, v) \/ Losing(s, t, v)
       \/ \E w \in Variables : Copying(s, t, v, w) \/ Taking(s, t, v, w) \/ Exchanging(s, t, v, w)

CallNames == {"keep", "construct", "destroy", "copy", "take", "swap", "set", "replace"}

LEMMA SaysCall ==
  ASSUME NEW what, NEW x, NEW threw, Said(what, x, threw)
  PROVE  call'[1] = what /\ call'[2] = x /\ call'[3] = threw
BY DEF Said

(* What happens to the pictures is what a step of OptionalValue does.      *)
LEMMA OutcomeIsOptional ==
  ASSUME NEW s, NEW t, Outcome(s, t), shown = Seen(s), shown' = Seen(t)
  PROVE  Optionals!OptNext /\ call'[1] \in CallNames
<1>1. \A v \in Variables : shown[v] = s[v] /\ shown'[v] = t[v]
  BY DEF Seen
<1>2. CASE Keeping(s, t)
  <2>1. PICK x : Said("keep", x, FALSE)
    BY <1>2 DEF Keeping
  <2>2. call'[1] = "keep" /\ call'[3] = FALSE
    BY <2>1, SaysCall
  <2>3. \A h \in Variables : shown'[h] = shown[h]
    BY <1>1, <1>2 DEF Keeping
  <2> QED BY <2>2, <2>3
          DEF Optionals!OptNext, Optionals!Keep, Optionals!Returned, Optionals!Others, CallNames
<1>3. CASE Refusing(s, t)
  <2>1. PICK what \in {"construct", "copy", "set"} : \E x : Said(what, x, TRUE)
    BY <1>3 DEF Refusing
  <2>2. call'[1] = what /\ call'[3] = TRUE
    BY <2>1, SaysCall
  <2>3. \A h \in Variables : shown'[h] = shown[h]
    BY <1>1, <1>3 DEF Refusing
  <2> QED BY <2>2, <2>3
          DEF Optionals!OptNext, Optionals!Refuse, Optionals!Threw, Optionals!Others, CallNames
<1>4. ASSUME NEW v \in Variables, Beginning(s, t, v)
      PROVE  Optionals!OptNext /\ call'[1] \in CallNames
  <2>1. call'[1] = "construct" /\ call'[2] = shown'[v] /\ call'[3] = FALSE
    <3>1. Said("construct", t[v], FALSE)
      BY <1>4 DEF Beginning
    <3>2. call'[1] = "construct" /\ call'[2] = t[v] /\ call'[3] = FALSE
      BY <3>1, SaysCall
    <3> QED BY <1>1, <3>2
  <2>2. shown[v] = Gone /\ \A h \in Variables \ {v} : shown'[h] = shown[h]
    BY <1>1, <1>4 DEF Beginning
  <2>3. Optionals!Begin(v)
    BY <2>1, <2>2
       DEF Optionals!Begin, Optionals!Returned, Optionals!Others, Optionals!Lives, Optionals!Brought
  <2> QED BY <2>1, <2>3 DEF Optionals!OptNext, CallNames
<1>5. ASSUME NEW v \in Variables, Ending(s, t, v)
      PROVE  Optionals!OptNext /\ call'[1] \in CallNames
  <2>1. call'[1] = "destroy" /\ call'[3] = FALSE
    BY <1>5, SaysCall DEF Ending
  <2>2. /\ shown[v] # Gone /\ shown'[v] = Gone
        /\ \A h \in Variables \ {v} : shown'[h] = shown[h]
    BY <1>1, <1>5 DEF Ending
  <2>3. Optionals!End(v)
    BY <2>1, <2>2 DEF Optionals!End, Optionals!Returned, Optionals!Others, Optionals!Lives
  <2> QED BY <2>1, <2>3 DEF Optionals!OptNext, CallNames
<1>6. ASSUME NEW v \in Variables, Setting(s, t, v)
      PROVE  Optionals!OptNext /\ call'[1] \in CallNames
  <2>1. call'[1] = "set" /\ call'[2] = shown'[v] /\ call'[3] = FALSE
    <3>1. Said("set", t[v], FALSE)
      BY <1>6 DEF Setting
    <3>2. call'[1] = "set" /\ call'[2] = t[v] /\ call'[3] = FALSE
      BY <3>1, SaysCall
    <3> QED BY <1>1, <3>2
  <2>2. shown[v] # Gone /\ \A h \in Variables \ {v} : shown'[h] = shown[h]
    BY <1>1, <1>6 DEF Setting
  <2>3. Optionals!Set(v)
    BY <2>1, <2>2
       DEF Optionals!Set, Optionals!Returned, Optionals!Others, Optionals!Lives, Optionals!Brought
  <2> QED BY <2>1, <2>3 DEF Optionals!OptNext, CallNames
<1>7. ASSUME NEW v \in Variables, Losing(s, t, v)
      PROVE  Optionals!OptNext /\ call'[1] \in CallNames
  <2>1. call'[1] = "replace" /\ call'[3] = TRUE
    BY <1>7, SaysCall DEF Losing
  <2>2. /\ shown[v] # Gone /\ shown'[v] = Null
        /\ \A h \in Variables \ {v} : shown'[h] = shown[h]
    BY <1>1, <1>7 DEF Losing
  <2>3. Optionals!LoseValue(v)
    BY <2>1, <2>2 DEF Optionals!LoseValue, Optionals!Threw, Optionals!Others, Optionals!Lives
  <2> QED BY <2>1, <2>3 DEF Optionals!OptNext, CallNames
<1>8. ASSUME NEW v \in Variables, NEW w \in Variables, Copying(s, t, v, w)
      PROVE  Optionals!OptNext /\ call'[1] \in CallNames
  <2>1. call'[1] = "copy" /\ call'[3] = FALSE
    <3>1. PICK x : Said("copy", x, FALSE)
      BY <1>8 DEF Copying
    <3> QED BY <3>1, SaysCall
  <2>2. /\ shown[w] # Gone /\ shown'[v] = shown[w]
        /\ \A h \in Variables \ {v} : shown'[h] = shown[h]
    BY <1>1, <1>8 DEF Copying
  <2>3. Optionals!Copy(v, w)
    BY <2>1, <2>2 DEF Optionals!Copy, Optionals!Returned, Optionals!Others, Optionals!Lives
  <2> QED BY <2>1, <2>3 DEF Optionals!OptNext, CallNames
<1>9. ASSUME NEW v \in Variables, NEW w \in Variables, Taking(s, t, v, w)
      PROVE  Optionals!OptNext /\ call'[1] \in CallNames
  <2>1. call'[1] = "take" /\ call'[3] = FALSE
    <3>1. PICK x : Said("take", x, FALSE)
      BY <1>9 DEF Taking
    <3> QED BY <3>1, SaysCall
  <2>2. /\ shown[w] # Gone /\ shown'[v] = shown[w]
        /\ v # w => shown'[w] \in {Null, Moved, shown[w]}
        /\ \A h \in Variables \ {v, w} : shown'[h] = shown[h]
    BY <1>1, <1>9 DEF Taking
  <2>3. Optionals!Take(v, w)
    BY <2>1, <2>2 DEF Optionals!Take, Optionals!Returned, Optionals!Others, Optionals!Lives
  <2> QED BY <2>1, <2>3 DEF Optionals!OptNext, CallNames
<1>10. ASSUME NEW v \in Variables, NEW w \in Variables, Exchanging(s, t, v, w)
       PROVE  Optionals!OptNext /\ call'[1] \in CallNames
  <2>1. call'[1] = "swap" /\ call'[3] = FALSE
    <3>1. PICK x : Said("swap", x, FALSE)
      BY <1>10 DEF Exchanging
    <3> QED BY <3>1, SaysCall
  <2>2. /\ shown[v] # Gone /\ shown[w] # Gone /\ shown'[v] = shown[w] /\ shown'[w] = shown[v]
        /\ \A h \in Variables \ {v, w} : shown'[h] = shown[h]
    BY <1>1, <1>10 DEF Exchanging
  <2>3. Optionals!Exchange(v, w)
    BY <2>1, <2>2 DEF Optionals!Exchange, Optionals!Returned, Optionals!Others, Optionals!Lives
  <2> QED BY <2>1, <2>3 DEF Optionals!OptNext, CallNames
<1>. QED BY <1>2, <1>3, <1>4, <1>5, <1>6, <1>7, <1>8, <1>9, <1>10 DEF Outcome

(* What a call is given is a value, or a reference to one that is held.    *)
LEMMA GivenNamed ==
  ASSUME ToldApart, NEW P, NEW s, Shape(mem, P, s), NEW a \in Given
  PROVE  \E x \in Values : Names(mem, a, x) /\ Read(mem, a) = x
<1>1. ASSUME NEW x \in Values, Names(mem, a, x) PROVE Read(mem, a) = x
  BY <1>1, NamesReads DEF Reads, Shape
<1>2. CASE a \in Values
  <2>1. Names(mem, a, a)
    BY <1>2, CellAssumption DEF Names, Cells
  <2> QED BY <1>1, <1>2, <2>1
<1>3. CASE a \notin Values
  <2>1. PICK b \in Blocks : a = Value(b) /\ mem.cells[b] # Nothing /\ mem.cells[b][1] \in Values
    BY <1>3 DEF Given, Held, Allocated, Nothing
  <2>2. Raw \notin Values /\ One(Raw)[1] = Raw
    BY OneCell, CellAssumption
  <2>3. \E x \in Values : mem.cells[b] = One(x)
    <3>1. CASE b \in Slots
      <4>1. Placed(mem, b, P[b], s[b])
        BY <3>1 DEF Shape
      <4> QED BY <2>1, <2>2, <4>1, HolderAssumption DEF Placed
    <3>2. CASE b \in Nodes
      <4>1. PICK v \in Slots : P[v] = b
        BY <2>1, <3>2 DEF Shape
      <4>2. Placed(mem, v, P[v], s[v])
        BY DEF Shape
      <4>3. b # v /\ b # Gone /\ b # Null
        BY <3>2, SlotsAndNodes, CellAssumption DEF ToldApart
      <4> QED BY <4>1, <4>2, <4>3 DEF Placed
    <3> QED BY <3>1, <3>2, SlotsAndNodes
  <2>4. PICK x \in Values : mem.cells[b] = One(x)
    BY <2>3
  <2>5. Names(mem, a, x)
    BY <2>1, <2>4, CellAssumption DEF Names, Cells
  <2> QED BY <1>1, <2>5
<1>. QED BY <1>2, <1>3

-----------------------------------------------------------------------------
(* The calls of any.                                                       *)
AnyAfter(s) ==
  \E t : HoldsAny(At(mem', obj'), t) /\ Settled(t) /\ Outcome(s, t)

LEMMA AnyEnded ==
  ASSUME NEW s, NEW r, NEW t, HoldsAny(r, t), NEW what, NEW x, NEW threw,
         A!Ends(r, what, x, threw)
  PROVE  HoldsAny(At(mem', obj'), t) /\ Said(what, x, threw)
<1>1. mem' = r.m /\ obj' = r.o /\ Said(what, x, threw)
  BY DEF A!Ends, Said
<1>2. At(mem', obj') = r
  BY <1>1 DEF HoldsAny
<1>. QED BY <1>1, <1>2

LEMMA AnyStart ==
  ASSUME ToldApart, NEW s, HoldsAny(Now, s), Settled(s), NEW v \in Variables
  PROVE  /\ Now.m = mem /\ Now.o = obj /\ s \in Pictures
         /\ v \in Slots /\ v # Temp /\ v # Spare /\ Temp \in Slots /\ Spare \in Slots
         /\ s[Temp] = Gone /\ s[Spare] = Gone /\ Temp # Spare
         /\ A!Unborn(v) => s[v] = Gone
         /\ A!Alive(v) => s[v] # Gone
         /\ A!Room => FreeNodes(mem) # {}
         /\ A!Now = Now
<1>1. Now.m = mem /\ Now.o = obj
  BY StateOf DEF Now
<1>2. v \in Slots /\ v # Temp /\ v # Spare /\ Temp \in Slots /\ Spare \in Slots /\ Temp # Spare
  BY SlotsAndNodes
<1>3. s[v] = Gone <=> obj[v] = Gone
  BY <1>1, <1>2, AnyOf
<1>4. A!Now = Now /\ A!Room = Room
  BY AnyHolder
<1>. QED BY <1>1, <1>2, <1>3, <1>4 DEF Settled, A!Unborn, A!Alive, Room

LEMMA AnyMade ==
  ASSUME ToldApart, NEW r, NEW s, HoldsAny(r, s), NEW u \in Slots, s[u] = Gone,
         NEW a, NEW x \in Values, Names(r.m, a, x), FreeNodes(r.m) # {}
  PROVE  \E t : HoldsAny(A!Create(A!New(r, u), u, a), t) /\ Becomes(s, t, u, x)
<1>1. PICK k : HoldsAny(A!New(r, u), k) /\ Becomes(s, k, u, Null)
  BY AnyNew
<1>2. Keeps(r.m, A!New(r, u).m)
  BY AnyNew
<1>3. Names(A!New(r, u).m, a, x) /\ FreeNodes(A!New(r, u).m) # {}
  BY <1>2 DEF Keeps
<1>4. k[u] = Null
  BY <1>1 DEF Becomes
<1>5. PICK t : HoldsAny(A!Create(A!New(r, u), u, a), t) /\ Becomes(k, t, u, x)
  BY <1>1, <1>3, <1>4, AnyCreate
<1>6. Becomes(s, t, u, x)
  BY <1>1, <1>5 DEF Becomes
<1>. QED BY <1>5, <1>6

LEMMA AnyNotMade ==
  ASSUME ToldApart, NEW r, NEW s, HoldsAny(r, s), NEW u \in Slots, s[u] = Gone,
         NEW a, FreeNodes(r.m) # {}
  PROVE  \E t : HoldsAny(A!Dead(A!CreateFails(A!New(r, u), u, a), u), t) /\ Becomes(s, t, u, Gone)
<1>1. PICK k : HoldsAny(A!New(r, u), k) /\ Becomes(s, k, u, Null)
  BY AnyNew
<1>2. Keeps(r.m, A!New(r, u).m)
  BY AnyNew
<1>3. A!CreateFails(A!New(r, u), u, a) = A!New(r, u)
  <2>1. FreeNodes(A!New(r, u).m) # {}
    BY <1>2 DEF Keeps
  <2> QED BY <1>1, <2>1, AnyCreateFails
<1>4. k[u] = Null
  BY <1>1 DEF Becomes
<1>5. PICK t : HoldsAny(Dead(A!New(r, u), u), t) /\ Becomes(k, t, u, Gone)
  BY <1>1, <1>4, AnyDead
<1>6. Becomes(s, t, u, Gone)
  BY <1>1, <1>5 DEF Becomes
<1>. QED BY <1>3, <1>5, <1>6, AnyHolder

LEMMA AnyCopied ==
  ASSUME ToldApart, NEW r, NEW s, HoldsAny(r, s), NEW u \in Slots, s[u] = Gone,
         NEW w \in Slots, s[w] # Gone, FreeNodes(r.m) # {}
  PROVE  \E t : HoldsAny(A!CopyOf(A!New(r, u), w, u), t) /\ Becomes(s, t, u, s[w])
<1>1. PICK k : HoldsAny(A!New(r, u), k) /\ Becomes(s, k, u, Null)
  BY AnyNew
<1>2. Keeps(r.m, A!New(r, u).m)
  BY AnyNew
<1>3. FreeNodes(A!New(r, u).m) # {}
  BY <1>2 DEF Keeps
<1>4. k[u] = Null /\ k[w] = s[w]
  BY <1>1 DEF Becomes
<1>5. PICK t : HoldsAny(A!CopyOf(A!New(r, u), w, u), t) /\ Becomes(k, t, u, k[w])
  BY <1>1, <1>3, <1>4, AnyCopy
<1>6. Becomes(s, t, u, s[w])
  BY <1>1, <1>4, <1>5 DEF Becomes
<1>. QED BY <1>5, <1>6

LEMMA AnyTaken ==
  ASSUME ToldApart, NEW r, NEW s, HoldsAny(r, s), NEW u \in Slots, s[u] = Gone,
         NEW w \in Slots, s[w] # Gone
  PROVE  \E t : /\ HoldsAny(A!MoveOf(A!New(r, u), w, u), t)
                /\ t \in Pictures /\ t[u] = s[w] /\ t[w] = Null
                /\ \A c \in Slots : c # u /\ c # w => t[c] = s[c]
<1>1. PICK k : HoldsAny(A!New(r, u), k) /\ Becomes(s, k, u, Null)
  BY AnyNew
<1>2. k[u] = Null /\ k[w] = s[w] /\ u # w
  BY <1>1 DEF Becomes
<1>3. PICK t : HoldsAny(A!MoveOf(A!New(r, u), w, u), t) /\ Exchanged(k, t, w, u)
  BY <1>1, <1>2, AnyMoveOf
<1>4. /\ t \in Pictures /\ t[u] = s[w] /\ t[w] = Null
      /\ \A c \in Slots : c # u /\ c # w => t[c] = s[c]
  BY <1>1, <1>2, <1>3 DEF Becomes, Exchanged
<1>. QED BY <1>3, <1>4

(* The value of w that a copy reads.                                       *)
LEMMA AnyGivenHeld ==
  ASSUME ToldApart, NEW s, HoldsAny(Now, s), NEW a \in A!Given
  PROVE  \E x \in Values : Names(Now.m, a, x) /\ A!Read(mem, a) = x
<1>1. Shape(mem, AnyPlaces(Now.o), s) /\ Now.m = mem
  BY StateOf DEF HoldsAny, Now
<1>. QED BY <1>1, GivenNamed, AnyHolder, AnyCells

LEMMA AnyDefaultConstruct ==
  ASSUME ToldApart, NEW s, HoldsAny(Now, s), Settled(s), NEW v \in Variables,
         A!DefaultConstruct(v)
  PROVE  AnyAfter(s)
<1>1. s[v] = Gone /\ A!Ends(A!New(Now, v), "construct", Null, FALSE)
  BY AnyStart DEF A!DefaultConstruct
<1>2. PICK t : HoldsAny(A!New(Now, v), t) /\ Becomes(s, t, v, Null)
  BY <1>1, AnyStart, AnyNew
<1>3. HoldsAny(At(mem', obj'), t) /\ Said("construct", Null, FALSE)
  BY <1>1, <1>2, AnyEnded
<1>4. Settled(t) /\ Beginning(s, t, v)
  BY <1>1, <1>2, <1>3, SlotsAndNodes DEF Settled, Becomes, Beginning
<1>. QED BY <1>3, <1>4 DEF AnyAfter, Outcome

LEMMA AnyValueConstruct ==
  ASSUME ToldApart, NEW s, HoldsAny(Now, s), Settled(s), NEW v \in Variables, NEW a \in A!Given,
         A!ValueConstruct(v, a)
  PROVE  AnyAfter(s)
<1>1. PICK x \in Values : Names(Now.m, a, x) /\ A!Read(mem, a) = x
  BY AnyGivenHeld
<1>2. /\ s[v] = Gone /\ v \in Slots /\ FreeNodes(Now.m) # {}
      /\ \/ A!Ends(A!Create(A!New(Now, v), v, a), "construct", x, FALSE)
         \/ A!Ends(A!Dead(A!CreateFails(A!New(Now, v), v, a), v), "construct", x, TRUE)
  BY <1>1, AnyStart DEF A!ValueConstruct
<1>3. CASE A!Ends(A!Create(A!New(Now, v), v, a), "construct", x, FALSE)
  <2>1. PICK t : HoldsAny(A!Create(A!New(Now, v), v, a), t) /\ Becomes(s, t, v, x)
    BY <1>1, <1>2, AnyMade
  <2>2. HoldsAny(At(mem', obj'), t) /\ Said("construct", x, FALSE)
    BY <1>3, <2>1, AnyEnded
  <2>3. Settled(t) /\ Beginning(s, t, v)
    BY <1>2, <2>1, <2>2, SlotsAndNodes DEF Settled, Becomes, Beginning
  <2> QED BY <2>2, <2>3 DEF AnyAfter, Outcome
<1>4. CASE A!Ends(A!Dead(A!CreateFails(A!New(Now, v), v, a), v), "construct", x, TRUE)
  <2>1. PICK t : /\ HoldsAny(A!Dead(A!CreateFails(A!New(Now, v), v, a), v), t)
                 /\ Becomes(s, t, v, Gone)
    BY <1>2, AnyNotMade
  <2>2. HoldsAny(At(mem', obj'), t) /\ Said("construct", x, TRUE)
    BY <1>4, <2>1, AnyEnded
  <2>3. Settled(t) /\ Refusing(s, t)
    BY <1>2, <2>1, <2>2, SlotsAndNodes DEF Settled, Becomes, Refusing
  <2> QED BY <2>2, <2>3 DEF AnyAfter, Outcome
<1>. QED BY <1>2, <1>3, <1>4

LEMMA AnyValueAssign ==
  ASSUME ToldApart, NEW s, HoldsAny(Now, s), Settled(s), NEW v \in Variables, NEW a \in A!Given,
         A!ValueAssign(v, a)
  PROVE  AnyAfter(s)
<1>1. PICK x \in Values : Names(Now.m, a, x) /\ A!Read(mem, a) = x
  BY AnyGivenHeld
<1>2. /\ s[v] # Gone /\ s[Temp] = Gone /\ Temp \in Slots /\ v # Temp /\ FreeNodes(Now.m) # {}
      /\ \/ A!Ends(A!SwapIn(A!Create(A!New(Now, Temp), Temp, a), v), "set", x, FALSE)
         \/ A!Ends(A!Dead(A!CreateFails(A!New(Now, Temp), Temp, a), Temp), "set", x, TRUE)
  BY <1>1, AnyStart DEF A!ValueAssign
<1>3. CASE A!Ends(A!SwapIn(A!Create(A!New(Now, Temp), Temp, a), v), "set", x, FALSE)
  <2>1. PICK k : HoldsAny(A!Create(A!New(Now, Temp), Temp, a), k) /\ Becomes(s, k, Temp, x)
    BY <1>1, <1>2, AnyMade
  <2>2. k[v] # Gone /\ k[Temp] = x /\ k[Temp] # Gone /\ k[Spare] = Gone
    BY <1>2, <2>1, SlotsAndNodes DEF Becomes, Settled, ToldApart
  <2>3. PICK t : /\ HoldsAny(A!SwapIn(A!Create(A!New(Now, Temp), Temp, a), v), t)
                 /\ t \in Pictures /\ t[v] = k[Temp] /\ t[Temp] = Gone
                 /\ \A u \in Slots : u # v /\ u # Temp => t[u] = k[u]
    BY <2>1, <2>2, AnySwapIn
  <2>4. HoldsAny(At(mem', obj'), t) /\ Said("set", x, FALSE)
    BY <1>3, <2>3, AnyEnded
  <2>5. Settled(t) /\ Setting(s, t, v)
    BY <1>2, <2>1, <2>2, <2>3, <2>4, SlotsAndNodes DEF Settled, Becomes, Setting
  <2> QED BY <2>4, <2>5 DEF AnyAfter, Outcome
<1>4. CASE A!Ends(A!Dead(A!CreateFails(A!New(Now, Temp), Temp, a), Temp), "set", x, TRUE)
  <2>1. PICK t : /\ HoldsAny(A!Dead(A!CreateFails(A!New(Now, Temp), Temp, a), Temp), t)
                 /\ Becomes(s, t, Temp, Gone)
    BY <1>2, AnyNotMade
  <2>2. HoldsAny(At(mem', obj'), t) /\ Said("set", x, TRUE)
    BY <1>4, <2>1, AnyEnded
  <2>3. Settled(t) /\ Refusing(s, t)
    BY <1>2, <2>1, <2>2, SlotsAndNodes DEF Settled, Becomes, Refusing
  <2> QED BY <2>2, <2>3 DEF AnyAfter, Outcome
<1>. QED BY <1>2, <1>3, <1>4

LEMMA AnyCopyConstruct ==
  ASSUME ToldApart, NEW s, HoldsAny(Now, s), Settled(s), NEW v \in Variables,
         NEW w \in Variables, A!CopyConstruct(v, w)
  PROVE  AnyAfter(s)
<1>1. /\ s[v] = Gone /\ s[w] # Gone /\ v \in Slots /\ w \in Slots /\ FreeNodes(Now.m) # {}
      /\ \/ A!Ends(A!CopyOf(A!New(Now, v), w, v), "copy", Null, FALSE)
         \/ \E a : A!Ends(A!Dead(A!CreateFails(A!New(Now, v), v, a), v), "copy", Null, TRUE)
  BY AnyStart DEF A!CopyConstruct
<1>2. CASE A!Ends(A!CopyOf(A!New(Now, v), w, v), "copy", Null, FALSE)
  <2>1. PICK t : HoldsAny(A!CopyOf(A!New(Now, v), w, v), t) /\ Becomes(s, t, v, s[w])
    BY <1>1, AnyCopied
  <2>2. HoldsAny(At(mem', obj'), t) /\ Said("copy", Null, FALSE)
    BY <1>2, <2>1, AnyEnded
  <2>3. Settled(t) /\ Copying(s, t, v, w)
    BY <1>1, <2>1, <2>2, SlotsAndNodes DEF Settled, Becomes, Copying
  <2> QED BY <2>2, <2>3 DEF AnyAfter, Outcome
<1>3. ASSUME NEW a,
             A!Ends(A!Dead(A!CreateFails(A!New(Now, v), v, a), v), "copy", Null, TRUE)
      PROVE  AnyAfter(s)
  <2>1. PICK t : /\ HoldsAny(A!Dead(A!CreateFails(A!New(Now, v), v, a), v), t)
                 /\ Becomes(s, t, v, Gone)
    BY <1>1, AnyNotMade
  <2>2. HoldsAny(At(mem', obj'), t) /\ Said("copy", Null, TRUE)
    BY <1>3, <2>1, AnyEnded
  <2>3. Settled(t) /\ Refusing(s, t)
    BY <1>1, <2>1, <2>2, SlotsAndNodes DEF Settled, Becomes, Refusing
  <2> QED BY <2>2, <2>3 DEF AnyAfter, Outcome
<1>. QED BY <1>1, <1>2, <1>3

LEMMA AnyMoveConstruct ==
  ASSUME ToldApart, NEW s, HoldsAny(Now, s), Settled(s), NEW v \in Variables,
         NEW w \in Variables, A!MoveConstruct(v, w)
  PROVE  AnyAfter(s)
<1>1. /\ s[v] = Gone /\ s[w] # Gone /\ v \in Slots /\ w \in Slots
      /\ A!Ends(A!MoveOf(A!New(Now, v), w, v), "take", Null, FALSE)
  BY AnyStart DEF A!MoveConstruct
<1>2. PICK t : /\ HoldsAny(A!MoveOf(A!New(Now, v), w, v), t)
               /\ t \in Pictures /\ t[v] = s[w] /\ t[w] = Null
               /\ \A c \in Slots : c # v /\ c # w => t[c] = s[c]
  BY <1>1, AnyTaken
<1>3. HoldsAny(At(mem', obj'), t) /\ Said("take", Null, FALSE)
  BY <1>1, <1>2, AnyEnded
<1>4. Settled(t) /\ Taking(s, t, v, w)
  BY <1>1, <1>2, <1>3, SlotsAndNodes DEF Settled, Taking
<1>. QED BY <1>3, <1>4 DEF AnyAfter, Outcome

LEMMA AnyDestruct ==
  ASSUME ToldApart, NEW s, HoldsAny(Now, s), Settled(s), NEW v \in Variables, A!Destruct(v)
  PROVE  AnyAfter(s)
<1>1. s[v] # Gone /\ v \in Slots /\ A!Ends(A!Destructed(Now, v), "destroy", Null, FALSE)
  BY AnyStart DEF A!Destruct
<1>2. PICK t : HoldsAny(A!Destructed(Now, v), t) /\ Becomes(s, t, v, Gone)
  BY <1>1, AnyDestructed
<1>3. HoldsAny(At(mem', obj'), t) /\ Said("destroy", Null, FALSE)
  BY <1>1, <1>2, AnyEnded
<1>4. Settled(t) /\ Ending(s, t, v)
  BY <1>1, <1>2, <1>3, SlotsAndNodes DEF Settled, Becomes, Ending
<1>. QED BY <1>3, <1>4 DEF AnyAfter, Outcome

LEMMA AnyCopyAssign ==
  ASSUME ToldApart, NEW s, HoldsAny(Now, s), Settled(s), NEW v \in Variables,
         NEW w \in Variables, A!CopyAssign(v, w)
  PROVE  AnyAfter(s)
<1>1. /\ s[v] # Gone /\ s[w] # Gone /\ v \in Slots /\ w \in Slots /\ FreeNodes(Now.m) # {}
      /\ s[Temp] = Gone /\ Temp \in Slots /\ v # Temp /\ w # Temp
      /\ \/ A!Ends(A!SwapIn(A!CopyOf(A!New(Now, Temp), w, Temp), v), "copy", Null, FALSE)
         \/ \E a : A!Ends(A!Dead(A!CreateFails(A!New(Now, Temp), Temp, a), Temp),
                          "copy", Null, TRUE)
  BY AnyStart DEF A!CopyAssign
<1>2. CASE A!Ends(A!SwapIn(A!CopyOf(A!New(Now, Temp), w, Temp), v), "copy", Null, FALSE)
  <2>1. PICK k : HoldsAny(A!CopyOf(A!New(Now, Temp), w, Temp), k) /\ Becomes(s, k, Temp, s[w])
    BY <1>1, AnyCopied
  <2>2. k[v] # Gone /\ k[Temp] = s[w] /\ k[Temp] # Gone /\ k[Spare] = Gone
    BY <1>1, <2>1, SlotsAndNodes DEF Becomes, Settled
  <2>3. PICK t : /\ HoldsAny(A!SwapIn(A!CopyOf(A!New(Now, Temp), w, Temp), v), t)
                 /\ t \in Pictures /\ t[v] = k[Temp] /\ t[Temp] = Gone
                 /\ \A u \in Slots : u # v /\ u # Temp => t[u] = k[u]
    BY <2>1, <2>2, AnySwapIn
  <2>4. HoldsAny(At(mem', obj'), t) /\ Said("copy", Null, FALSE)
    BY <1>2, <2>3, AnyEnded
  <2>5. Settled(t) /\ Copying(s, t, v, w)
    BY <1>1, <2>1, <2>2, <2>3, <2>4, SlotsAndNodes DEF Settled, Becomes, Copying
  <2> QED BY <2>4, <2>5 DEF AnyAfter, Outcome
<1>3. ASSUME NEW a,
             A!Ends(A!Dead(A!CreateFails(A!New(Now, Temp), Temp, a), Temp), "copy", Null, TRUE)
      PROVE  AnyAfter(s)
  <2>1. PICK t : /\ HoldsAny(A!Dead(A!CreateFails(A!New(Now, Temp), Temp, a), Temp), t)
                 /\ Becomes(s, t, Temp, Gone)
    BY <1>1, AnyNotMade
  <2>2. HoldsAny(At(mem', obj'), t) /\ Said("copy", Null, TRUE)
    BY <1>3, <2>1, AnyEnded
  <2>3. Settled(t) /\ Refusing(s, t)
    BY <1>1, <2>1, <2>2, SlotsAndNodes DEF Settled, Becomes, Refusing
  <2> QED BY <2>2, <2>3 DEF AnyAfter, Outcome
<1>. QED BY <1>1, <1>2, <1>3

LEMMA AnyMoveAssign ==
  ASSUME ToldApart, NEW s, HoldsAny(Now, s), Settled(s), NEW v \in Variables,
         NEW w \in Variables, A!MoveAssign(v, w)
  PROVE  AnyAfter(s)
<1>1. /\ s[v] # Gone /\ s[w] # Gone /\ v \in Slots /\ w \in Slots
      /\ s[Temp] = Gone /\ Temp \in Slots /\ v # Temp /\ w # Temp /\ s[Spare] = Gone
      /\ A!Ends(A!SwapIn(A!MoveOf(A!New(Now, Temp), w, Temp), v), "take", Null, FALSE)
  BY AnyStart DEF A!MoveAssign
<1>2. PICK k : /\ HoldsAny(A!MoveOf(A!New(Now, Temp), w, Temp), k)
               /\ k \in Pictures /\ k[Temp] = s[w] /\ k[w] = Null
               /\ \A c \in Slots : c # Temp /\ c # w => k[c] = s[c]
  BY <1>1, AnyTaken
<1>3. k[v] # Gone /\ k[Temp] = s[w] /\ k[Temp] # Gone /\ k[Spare] = Gone
  BY <1>1, <1>2, SlotsAndNodes DEF ToldApart
<1>4. PICK t : /\ HoldsAny(A!SwapIn(A!MoveOf(A!New(Now, Temp), w, Temp), v), t)
               /\ t \in Pictures /\ t[v] = k[Temp] /\ t[Temp] = Gone
               /\ \A u \in Slots : u # v /\ u # Temp => t[u] = k[u]
  BY <1>2, <1>3, AnySwapIn
<1>5. HoldsAny(At(mem', obj'), t) /\ Said("take", Null, FALSE)
  BY <1>1, <1>4, AnyEnded
<1>6. Settled(t) /\ Taking(s, t, v, w)
  BY <1>1, <1>2, <1>3, <1>4, <1>5, SlotsAndNodes DEF Settled, Taking
<1>. QED BY <1>5, <1>6 DEF AnyAfter, Outcome

LEMMA AnyEmplace ==
  ASSUME ToldApart, NEW s, HoldsAny(Now, s), Settled(s), NEW v \in Variables,
         NEW x \in Values, A!Emplace(v, x)
  PROVE  AnyAfter(s)
<1>1. /\ s[v] # Gone /\ v \in Slots /\ FreeNodes(Now.m) # {}
      /\ \/ A!Ends(A!Create(A!ResetOf(Now, v), v, x), "set", x, FALSE)
         \/ A!Ends(A!CreateFails(A!ResetOf(Now, v), v, x), "replace", x, TRUE)
  BY AnyStart DEF A!Emplace
<1>2. PICK k : HoldsAny(A!ResetOf(Now, v), k) /\ Becomes(s, k, v, Null)
  BY <1>1, AnyReset
<1>3. FreeNodes(A!ResetOf(Now, v).m) # {}
  <2>1. FreeNodes(Now.m) \subseteq FreeNodes(A!ResetOf(Now, v).m)
    BY <1>1, AnyReset
  <2> QED BY <1>1, <2>1
<1>4. CASE A!Ends(A!Create(A!ResetOf(Now, v), v, x), "set", x, FALSE)
  <2>1. Names(A!ResetOf(Now, v).m, x, x)
    BY CellAssumption DEF Names, Cells
  <2>2. k[v] = Null
    BY <1>2 DEF Becomes
  <2>3. PICK t : HoldsAny(A!Create(A!ResetOf(Now, v), v, x), t) /\ Becomes(k, t, v, x)
    BY <1>1, <1>2, <1>3, <2>1, <2>2, AnyCreate
  <2>4. HoldsAny(At(mem', obj'), t) /\ Said("set", x, FALSE)
    BY <1>4, <2>3, AnyEnded
  <2>5. Settled(t) /\ Setting(s, t, v)
    BY <1>1, <1>2, <2>3, <2>4, SlotsAndNodes DEF Settled, Becomes, Setting
  <2> QED BY <2>4, <2>5 DEF AnyAfter, Outcome
<1>5. CASE A!Ends(A!CreateFails(A!ResetOf(Now, v), v, x), "replace", x, TRUE)
  <2>1. A!CreateFails(A!ResetOf(Now, v), v, x) = A!ResetOf(Now, v)
    BY <1>2, <1>3, AnyCreateFails
  <2>2. HoldsAny(At(mem', obj'), k) /\ Said("replace", x, TRUE)
    BY <1>2, <1>5, <2>1, AnyEnded
  <2>3. Settled(k) /\ Losing(s, k, v)
    BY <1>1, <1>2, <2>2, SlotsAndNodes DEF Settled, Becomes, Losing
  <2> QED BY <2>2, <2>3 DEF AnyAfter, Outcome
<1>. QED BY <1>1, <1>4, <1>5

LEMMA AnyResetCall ==
  ASSUME ToldApart, NEW s, HoldsAny(Now, s), Settled(s), NEW v \in Variables, A!Reset(v)
  PROVE  AnyAfter(s)
<1>1. s[v] # Gone /\ v \in Slots /\ A!Ends(A!ResetOf(Now, v), "set", Null, FALSE)
  BY AnyStart DEF A!Reset
<1>2. PICK t : HoldsAny(A!ResetOf(Now, v), t) /\ Becomes(s, t, v, Null)
  BY <1>1, AnyReset
<1>3. HoldsAny(At(mem', obj'), t) /\ Said("set", Null, FALSE)
  BY <1>1, <1>2, AnyEnded
<1>4. Settled(t) /\ Setting(s, t, v)
  BY <1>1, <1>2, <1>3, SlotsAndNodes DEF Settled, Becomes, Setting
<1>. QED BY <1>3, <1>4 DEF AnyAfter, Outcome

LEMMA AnySwapCall ==
  ASSUME ToldApart, NEW s, HoldsAny(Now, s), Settled(s), NEW v \in Variables,
         NEW w \in Variables, A!Swap(v, w)
  PROVE  AnyAfter(s)
<1>1. /\ s[v] # Gone /\ s[w] # Gone /\ v \in Slots /\ w \in Slots /\ s[Spare] = Gone
      /\ A!Ends(A!SwapOf(Now, v, w), "swap", Null, FALSE)
  BY AnyStart DEF A!Swap
<1>2. PICK t : HoldsAny(A!SwapOf(Now, v, w), t) /\ Exchanged(s, t, v, w)
  BY <1>1, AnySwap
<1>3. HoldsAny(At(mem', obj'), t) /\ Said("swap", Null, FALSE)
  BY <1>1, <1>2, AnyEnded
<1>4. Settled(t) /\ Exchanging(s, t, v, w)
  BY <1>1, <1>2, <1>3, SlotsAndNodes DEF Settled, Exchanged, Exchanging
<1>. QED BY <1>3, <1>4 DEF AnyAfter, Outcome

LEMMA AnyNext ==
  ASSUME ToldApart, NEW s, HoldsAny(Now, s), Settled(s), A!Next
  PROVE  AnyAfter(s)
<1>1. PICK v \in Variables :
        \/ A!DefaultConstruct(v) \/ A!Destruct(v) \/ A!Reset(v)
        \/ \E a \in A!Given : A!ValueConstruct(v, a) \/ A!ValueAssign(v, a)
        \/ \E x \in Values : A!Emplace(v, x)
        \/ \E w \in Variables :
             \/ A!CopyConstruct(v, w) \/ A!MoveConstruct(v, w)
             \/ A!CopyAssign(v, w) \/ A!MoveAssign(v, w) \/ A!Swap(v, w)
  BY DEF A!Next
<1>2. CASE A!DefaultConstruct(v) \/ A!Destruct(v) \/ A!Reset(v)
  BY <1>2, AnyDefaultConstruct, AnyDestruct, AnyResetCall
<1>3. ASSUME NEW a \in A!Given, A!ValueConstruct(v, a) \/ A!ValueAssign(v, a)
      PROVE  AnyAfter(s)
  BY <1>3, AnyValueConstruct, AnyValueAssign
<1>4. ASSUME NEW x \in Values, A!Emplace(v, x) PROVE AnyAfter(s)
  BY <1>4, AnyEmplace
<1>5. ASSUME NEW w \in Variables,
             \/ A!CopyConstruct(v, w) \/ A!MoveConstruct(v, w)
             \/ A!CopyAssign(v, w) \/ A!MoveAssign(v, w) \/ A!Swap(v, w)
      PROVE  AnyAfter(s)
  BY <1>5, AnyCopyConstruct, AnyMoveConstruct, AnyCopyAssign, AnyMoveAssign, AnySwapCall
<1>. QED BY <1>1, <1>2, <1>3, <1>4, <1>5

(* What the properties say of a variable of class any.                     *)
LEMMA AnyShows ==
  ASSUME ToldApart, NEW r, NEW s, HoldsAny(r, s), NEW v \in Slots, r.o[v] # Gone
  PROVE  A!Shows(r, v) = s[v]
<1>1. /\ r.m \in Memories /\ (s[v] = Null <=> r.o[v].h = Null)
      /\ s[v] # Gone /\ (s[v] \in Values <=> s[v] # Null)
  BY AnyOf
<1>2. CASE s[v] = Null
  BY <1>1, <1>2 DEF A!Shows
<1>3. CASE s[v] # Null
  <2>1. A!Cast(r, v, r.o[v].h) = A!Place(r, v)
    BY DEF A!Cast
  <2>2. A!Place(r, v) = AnyPlaces(r.o)[v] /\ Shape(r.m, AnyPlaces(r.o), s)
    BY <1>1, <1>3, AnyOf DEF HoldsAny
  <2>3. Names(r.m, Value(A!Place(r, v)), s[v])
    BY <1>1, <1>3, <2>2, PlaceNamed
  <2>4. Read(r.m, Value(A!Place(r, v))) = s[v]
    BY <1>1, <2>3, NamesReads DEF Reads
  <2> QED BY <1>1, <1>3, <2>1, <2>4, AnyCells DEF A!Shows
<1>. QED BY <1>2, <1>3

-----------------------------------------------------------------------------
(* function: f_ is the place itself.                                       *)
FunctionPlaces(o) == [v \in Slots |-> o[v]]

HoldsFunction(r, s) ==
  /\ r = At(r.m, r.o)
  /\ r.o \in [Blocks -> Blocks \cup {Null, Gone}]
  /\ \A b \in Nodes : r.o[b] = Gone
  /\ Shape(r.m, FunctionPlaces(r.o), s)

(* A value in the buffer of v goes to the buffer of w, whose node or       *)
(* nothing is v's then.                                                    *)
LEMMA ShapeSwapped ==
  ASSUME ToldApart, NEW m, NEW P, NEW s, Shape(m, P, s), NEW v \in Slots, NEW w \in Slots,
         v # w, P[v] = v, P[w] \in Nodes \cup {Null}
  PROVE  Shape(DestroyIn(ConstructIn(m, w, Value(v)), v),
               Changed(Changed(P, v, P[w]), w, w), Changed(Changed(s, v, s[w]), w, s[v]))
<1> DEFINE Q == Changed(Changed(P, v, P[w]), w, w)
           t == Changed(Changed(s, v, s[w]), w, s[v])
           k == With(m, w, One(s[v]))
           n == With(k, v, One(Raw))
<1>1. /\ P \in Places /\ s \in Pictures /\ m \in Memories /\ ~m.fault
      /\ \A u \in Slots : Placed(m, u, P[u], s[u])
      /\ \A u, y \in Slots : P[u] \in Nodes /\ P[u] = P[y] => u = y
      /\ \A c \in Nodes : m.cells[c] = Nothing \/ \E y \in Slots : P[y] = c
  BY DEF Shape
<1>2. /\ v \in Blocks /\ w \in Blocks /\ v \notin Nodes /\ w \notin Nodes
      /\ Slots \cap Nodes = {} /\ Slots \subseteq Blocks /\ Nodes \subseteq Blocks
      /\ Null \notin Blocks /\ Gone \notin Blocks \cup {Null}
  BY SlotsAndNodes, CellAssumption DEF ToldApart
<1>3. /\ s[v] \in Small /\ s[v] \in Values /\ m.cells[v] = One(s[v]) /\ m.cells[w] = One(Raw)
      /\ s[w] \in Values \cup {Null}
  <2>1. Placed(m, v, P[v], s[v]) /\ Placed(m, w, P[w], s[w])
    BY <1>1
  <2> QED BY <1>2, <2>1, HolderAssumption DEF Placed
<1>4. s[v] \in Cells \ {Raw} /\ One(s[v]) \in Seq(Cells) /\ One(Raw) \in Seq(Cells)
  BY <1>3, CellAssumption, RawIsCell, OneCell DEF Cells
<1>5. ConstructIn(m, w, Value(v)) = k
  <2>1. Names(m, Value(v), s[v])
    BY <1>2, <1>3, <1>4 DEF Names
  <2> QED BY <1>1, <1>2, <1>3, <2>1, NamesReads, ConstructsIn
<1>6. /\ k \in Memories /\ ~k.fault /\ k.cells[w] = One(s[v])
      /\ \A c \in Blocks : c # w => k.cells[c] = m.cells[c]
  <2>1. PICK x : x = s[v]
    OBVIOUS
  <2>2. One(x) \in Seq(Cells)
    BY <1>4, <2>1
  <2>3. /\ With(m, w, One(x)) \in Memories /\ With(m, w, One(x)).fault = m.fault
        /\ With(m, w, One(x)).cells[w] = One(x)
        /\ \A c \in Blocks : c # w => With(m, w, One(x)).cells[c] = m.cells[c]
    BY <1>1, <1>2, <2>2, WithCells
  <2> QED BY <1>1, <2>1, <2>3
<1> HIDE DEF k
<1>7. DestroyIn(k, v) = n
  BY <1>2, <1>3, <1>4, <1>6, DestroysIn
<1>8. /\ n \in Memories /\ ~n.fault /\ n.cells[w] = One(s[v]) /\ n.cells[v] = One(Raw)
      /\ \A c \in Blocks : c # v /\ c # w => n.cells[c] = m.cells[c]
  <2>1. /\ n \in Memories /\ n.fault = k.fault /\ n.cells[v] = One(Raw)
        /\ \A c \in Blocks : c # v => n.cells[c] = k.cells[c]
    BY <1>2, <1>4, <1>6, WithCells
  <2> QED BY <1>2, <1>6, <2>1
<1> HIDE DEF n
<1>9. /\ Q \in Places /\ t \in Pictures
      /\ Q[v] = P[w] /\ Q[w] = w /\ t[v] = s[w] /\ t[w] = s[v]
      /\ \A u \in Slots \ {v, w} : Q[u] = P[u] /\ t[u] = s[u]
  BY <1>1, <1>2 DEF Places, Pictures, Changed
<1> HIDE DEF Q, t
<1>10. \A u \in Slots : Placed(n, u, Q[u], t[u])
  <2>1. Placed(n, w, w, s[v])
    BY <1>3, <1>8 DEF Placed
  <2>2. Placed(n, v, P[w], s[w])
    <3>1. Placed(m, w, P[w], s[w])
      BY <1>1
    <3>2. P[w] \in Nodes => n.cells[P[w]] = m.cells[P[w]]
      BY <1>2, <1>8
    <3> QED BY <1>2, <1>8, <3>1, <3>2 DEF Placed
  <2>3. ASSUME NEW u \in Slots, u # v, u # w PROVE Placed(n, u, P[u], s[u])
    <3>1. Placed(m, u, P[u], s[u])
      BY <1>1
    <3>2. n.cells[u] = m.cells[u]
      BY <1>2, <1>8, <2>3
    <3>3. P[u] \in Nodes => n.cells[P[u]] = m.cells[P[u]]
      BY <1>2, <1>8
    <3> QED BY <3>1, <3>2, <3>3 DEF Placed
  <2> QED BY <1>9, <2>1, <2>2, <2>3
<1>11. \A u, y \in Slots : Q[u] \in Nodes /\ Q[u] = Q[y] => u = y
  BY <1>1, <1>2, <1>9
<1>12. \A c \in Nodes : n.cells[c] = Nothing \/ \E y \in Slots : Q[y] = c
  <2> SUFFICES ASSUME NEW c \in Nodes, n.cells[c] # Nothing PROVE \E y \in Slots : Q[y] = c
    OBVIOUS
  <2>1. PICK y \in Slots : P[y] = c
    BY <1>1, <1>2, <1>8
  <2>2. CASE y = w
    BY <1>9, <2>1, <2>2
  <2>3. CASE y # w
    BY <1>2, <1>9, <2>1, <2>3
  <2> QED BY <2>2, <2>3
<1>13. Shape(n, Q, t)
  BY <1>8, <1>9, <1>10, <1>11, <1>12 DEF Shape
<1>. QED BY <1>5, <1>7, <1>13 DEF Q, t

LEMMA FunctionOf ==
  ASSUME ToldApart, NEW r, NEW s, HoldsFunction(r, s), NEW v \in Slots
  PROVE  /\ v \in Blocks /\ v \notin Nodes /\ r.m \in Memories /\ s \in Pictures
         /\ FunctionPlaces(r.o)[v] = r.o[v]
         /\ r.o[v] = Gone <=> s[v] = Gone
         /\ r.o[v] = Null <=> s[v] = Null
         /\ r.o[v] = v <=> s[v] \in Small
         /\ r.o[v] \in Nodes <=> s[v] \in Values \ Small
         /\ s[v] \in Values <=> s[v] \notin {Gone, Null}
<1>1. Shape(r.m, FunctionPlaces(r.o), s)
  BY DEF HoldsFunction
<1>2. FunctionPlaces(r.o)[v] = r.o[v]
  BY DEF FunctionPlaces
<1>3. s \in Pictures /\ v \in Blocks /\ v \notin Nodes
  BY <1>1, SlotsAndNodes DEF Shape
<1> DEFINE p == FunctionPlaces(r.o)[v]
<1>4. /\ r.m \in Memories
      /\ p = Gone <=> s[v] = Gone
      /\ p = Null <=> s[v] = Null
      /\ p = v <=> s[v] \in Small
      /\ p \in Nodes <=> s[v] \in Values \ Small
      /\ s[v] \in Values <=> s[v] \notin {Gone, Null}
  BY <1>1, ShapeOf
<1> HIDE DEF p
<1>. QED BY <1>2, <1>3, <1>4 DEF p

LEMMA FunctionStep ==
  ASSUME NEW r, NEW s, HoldsFunction(r, s), NEW v \in Slots, NEW x \in Blocks \cup {Null, Gone},
         NEW n, NEW t, Shape(n, Changed(FunctionPlaces(r.o), v, x), t)
  PROVE  HoldsFunction(At(n, Changed(r.o, v, x)), t)
<1>1. /\ v \in Blocks /\ v \notin Nodes /\ Slots \subseteq Blocks
      /\ r.o \in [Blocks -> Blocks \cup {Null, Gone}]
      /\ \A b \in Nodes : r.o[b] = Gone /\ b \in Blocks
  BY SlotsAndNodes DEF HoldsFunction
<1> DEFINE o == Changed(r.o, v, x)
<1>2. /\ o \in [Blocks -> Blocks \cup {Null, Gone}] /\ o[v] = x
      /\ \A b \in Blocks : b # v => o[b] = r.o[b]
  BY <1>1 DEF Changed
<1> HIDE DEF o
<1>3. FunctionPlaces(o) = Changed(FunctionPlaces(r.o), v, x)
  BY <1>1, <1>2 DEF FunctionPlaces, Changed
<1>4. \A b \in Nodes : o[b] = Gone
  BY <1>1, <1>2
<1>5. HoldsFunction(At(n, o), t)
  BY <1>2, <1>3, <1>4, StateOf DEF HoldsFunction
<1>. QED BY <1>5 DEF o

LEMMA FunctionStepTwo ==
  ASSUME NEW r, NEW s, HoldsFunction(r, s), NEW v \in Slots, NEW w \in Slots,
         NEW x \in Blocks \cup {Null, Gone}, NEW y \in Blocks \cup {Null, Gone}, NEW n, NEW t,
         Shape(n, Changed(Changed(FunctionPlaces(r.o), v, x), w, y), t)
  PROVE  HoldsFunction(At(n, Changed(Changed(r.o, v, x), w, y)), t)
<1>1. /\ v \in Blocks /\ v \notin Nodes /\ w \in Blocks /\ w \notin Nodes
      /\ Slots \subseteq Blocks
      /\ r.o \in [Blocks -> Blocks \cup {Null, Gone}]
      /\ \A b \in Nodes : r.o[b] = Gone /\ b \in Blocks
  BY SlotsAndNodes DEF HoldsFunction
<1> DEFINE o == Changed(Changed(r.o, v, x), w, y)
<1>2. /\ o \in [Blocks -> Blocks \cup {Null, Gone}] /\ o[w] = y /\ (v # w => o[v] = x)
      /\ \A b \in Blocks : b # v /\ b # w => o[b] = r.o[b]
  BY <1>1 DEF Changed
<1> HIDE DEF o
<1>3. FunctionPlaces(o) = Changed(Changed(FunctionPlaces(r.o), v, x), w, y)
  BY <1>1, <1>2 DEF FunctionPlaces, Changed
<1>4. \A b \in Nodes : o[b] = Gone
  BY <1>1, <1>2
<1>5. HoldsFunction(At(n, o), t)
  BY <1>2, <1>3, <1>4, StateOf DEF HoldsFunction
<1>. QED BY <1>5 DEF o

LEMMA FunctionPoint ==
  ASSUME NEW r, NEW s, HoldsFunction(r, s), NEW v, NEW b, NEW n
  PROVE  /\ F!Point([r EXCEPT !.m = n], v, b) = At(n, Changed(r.o, v, b))
         /\ F!Point(r, v, b) = At(r.m, Changed(r.o, v, b))
<1>1. r = At(r.m, r.o)
  BY DEF HoldsFunction
<1>2. [r EXCEPT !.m = n] = At(n, r.o)
  BY <1>1 DEF At
<1>3. ASSUME NEW m PROVE F!Point(At(m, r.o), v, b) = At(m, Changed(r.o, v, b))
  BY DEF F!Point, At, Changed
<1>. QED BY <1>1, <1>2, <1>3

LEMMA PointTwice ==
  ASSUME NEW m, NEW o, NEW v, NEW b
  PROVE  F!Point(At(m, o), v, b) = At(m, Changed(o, v, b))
BY DEF F!Point, At, Changed

LEMMA FunctionNew ==
  ASSUME ToldApart, NEW r, NEW s, HoldsFunction(r, s), NEW v \in Slots, s[v] = Gone
  PROVE  /\ \E t : HoldsFunction(F!New(r, v), t) /\ Becomes(s, t, v, Null)
         /\ Keeps(r.m, F!New(r, v).m)
<1> DEFINE n == Allocate(r.m, v, 1)
           t == Changed(s, v, Null)
<1>1. /\ v \in Blocks /\ v \notin Nodes /\ r.m \in Memories /\ s \in Pictures
      /\ r.o \in [Blocks -> Blocks \cup {Null, Gone}]
      /\ Shape(r.m, FunctionPlaces(r.o), s) /\ r.m.cells[v] = Nothing
  <2>1. v \in Blocks /\ v \notin Nodes /\ r.m \in Memories /\ s \in Pictures
    BY FunctionOf
  <2>2. r.o \in [Blocks -> Blocks \cup {Null, Gone}] /\ Shape(r.m, FunctionPlaces(r.o), s)
    BY DEF HoldsFunction
  <2>3. r.m.cells[v] = Nothing
    BY <2>2, ShapeOf
  <2> QED BY <2>1, <2>2, <2>3
<1>2. F!New(r, v) = At(n, Changed(r.o, v, Null))
  BY <1>1, FunctionHolder, BornDead DEF F!New, F!Empty
<1>3. n = With(r.m, v, One(Raw)) /\ Shape(n, Changed(FunctionPlaces(r.o), v, Null), t)
  BY <1>1, ShapeBorn
<1> HIDE DEF n, t
<1>4. HoldsFunction(F!New(r, v), t)
  BY <1>2, <1>3, FunctionStep
<1>5. Becomes(s, t, v, Null)
  BY <1>1, BecomesChanged DEF t
<1>6. Keeps(r.m, F!New(r, v).m)
  <2>1. F!New(r, v).m = n
    BY <1>2, StateOf
  <2>2. \A c \in Blocks : c # v => n.cells[c] = r.m.cells[c]
    BY <1>1, <1>3, WithRaw
  <2>3. FreeNodes(r.m) \subseteq FreeNodes(n)
    BY <1>1, <2>2, FreeNode, SlotsAndNodes
  <2>4. ASSUME NEW a, NEW y, Names(r.m, a, y) PROVE Names(n, a, y)
    <3>1. \A c \in Blocks : r.m.cells[c] = One(y) => n.cells[c] = r.m.cells[c]
      BY <1>1, <2>2, OneCell
    <3> QED BY <2>4, <3>1, NamesStill
  <2> QED BY <2>1, <2>3, <2>4 DEF Keeps
<1>. QED BY <1>4, <1>5, <1>6

LEMMA FunctionDead ==
  ASSUME ToldApart, NEW r, NEW s, HoldsFunction(r, s), NEW v \in Slots, s[v] = Null
  PROVE  \E t : HoldsFunction(F!Dead(r, v), t) /\ Becomes(s, t, v, Gone)
<1> DEFINE n == Deallocate(r.m, v, 1)
           t == Changed(s, v, Gone)
<1>1. /\ v \in Blocks /\ s \in Pictures
      /\ r.o \in [Blocks -> Blocks \cup {Null, Gone}]
      /\ Shape(r.m, FunctionPlaces(r.o), s)
  BY FunctionOf DEF HoldsFunction
<1>2. F!Dead(r, v) = At(n, Changed(r.o, v, Gone))
  BY <1>1, BornDead, FunctionHolder
<1>3. Shape(n, Changed(FunctionPlaces(r.o), v, Gone), t)
  BY <1>1, ShapeDead
<1> HIDE DEF n, t
<1>4. HoldsFunction(F!Dead(r, v), t)
  BY <1>2, <1>3, FunctionStep
<1>5. Becomes(s, t, v, Gone)
  BY <1>1, BecomesChanged DEF t
<1>. QED BY <1>4, <1>5

LEMMA FunctionCreate ==
  ASSUME ToldApart, NEW r, NEW s, HoldsFunction(r, s), NEW v \in Slots, s[v] = Null,
         NEW a, NEW x \in Values, Names(r.m, a, x), x \in Small \/ FreeNodes(r.m) # {}
  PROVE  \E t : HoldsFunction(F!Create(r, v, a), t) /\ Becomes(s, t, v, x)
<1> DEFINE t == Changed(s, v, x)
           b == NewNode(r.m)
<1>1. /\ v \in Blocks /\ v \notin Nodes /\ s \in Pictures /\ r.m \in Memories
      /\ Shape(r.m, FunctionPlaces(r.o), s)
  BY FunctionOf DEF HoldsFunction
<1>2. F!Read(r.m, a) = x
  BY <1>1, NamesReads, FunctionCells DEF Reads
<1>3. Becomes(s, t, v, x)
  BY <1>1, BecomesChanged
<1> HIDE DEF t, b
<1>4. CASE x \in Small
  <2> DEFINE n == ConstructIn(r.m, v, a)
  <2>1. F!Create(r, v, a) = At(n, Changed(r.o, v, v))
    <3>1. F!Create(r, v, a) = F!Point([r EXCEPT !.m = F!ConstructIn(r.m, v, a)], v, v)
      BY <1>2, <1>4 DEF F!Create
    <3> QED BY <3>1, FunctionHolder, FunctionPoint
  <2>2. Shape(n, Changed(FunctionPlaces(r.o), v, v), t)
    BY <1>1, <1>4, ShapeSmall DEF t
  <2> HIDE DEF n
  <2>3. HoldsFunction(F!Create(r, v, a), t)
    BY <1>1, <2>1, <2>2, FunctionStep
  <2> QED BY <1>3, <2>3
<1>5. CASE x \notin Small
  <2> DEFINE n == NewValue(r.m, b, a)
  <2>1. b \in FreeNodes(r.m) /\ b \in Nodes /\ b \in Blocks
    BY <1>5, FreeNode, SlotsAndNodes DEF b
  <2>2. F!Create(r, v, a) = At(n, Changed(r.o, v, b))
    <3>1. F!NewNode(r.m) = b /\ b # v
      BY <1>1, <2>1, FunctionHolder DEF b
    <3>2. F!Create(r, v, a) = F!Point([r EXCEPT !.m = F!NewValue(r.m, b, a)], v, b)
      BY <1>2, <1>5, <3>1 DEF F!Create
    <3> QED BY <3>2, FunctionHolder, FunctionPoint
  <2>3. Shape(n, Changed(FunctionPlaces(r.o), v, b), t)
    BY <1>1, <1>5, <2>1, ShapeLarge DEF t
  <2> HIDE DEF n
  <2>4. HoldsFunction(F!Create(r, v, a), t)
    BY <2>1, <2>2, <2>3, FunctionStep
  <2> QED BY <1>3, <2>4
<1>. QED BY <1>4, <1>5

LEMMA FunctionCreateFails ==
  ASSUME ToldApart, NEW r, NEW s, HoldsFunction(r, s), FreeNodes(r.m) # {}
  PROVE  /\ \A v, a : F!CreateFails(r, v, a) = r
         /\ [r EXCEPT !.m = F!Unused(@, F!NewNode(@))] = r
<1>1. r.m \in Memories /\ r = At(r.m, r.o)
  BY DEF HoldsFunction, Shape
<1>2. F!Unused(r.m, F!NewNode(r.m)) = r.m
  BY <1>1, FreeNode, UnusedNode, FunctionHolder
<1>3. [r EXCEPT !.m = F!Unused(@, F!NewNode(@))] = r
  BY <1>1, <1>2 DEF At
<1>. QED BY <1>3 DEF F!CreateFails

LEMMA FunctionClear ==
  ASSUME ToldApart, NEW r, NEW s, HoldsFunction(r, s), NEW v \in Slots, s[v] # Gone
  PROVE  /\ \E t : HoldsFunction(F!Clear(r, v), t) /\ Becomes(s, t, v, Null)
         /\ FreeNodes(r.m) \subseteq FreeNodes(F!Clear(r, v).m)
<1> DEFINE t == Changed(s, v, Null)
           b == r.o[v]
           n == IF b = v THEN DestroyIn(r.m, v)
                ELSE IF b # Null THEN DeleteValue(r.m, b) ELSE r.m
<1>1. /\ v \in Blocks /\ v \notin Nodes /\ s \in Pictures /\ r.m \in Memories
      /\ Shape(r.m, FunctionPlaces(r.o), s) /\ FunctionPlaces(r.o)[v] = b
      /\ (b = v <=> s[v] \in Small) /\ (b = Null <=> s[v] = Null)
      /\ (s[v] \in Values <=> s[v] # Null) /\ Null # v
  BY FunctionOf, CellAssumption DEF HoldsFunction
<1>2. F!Clear(r, v) = At(n, Changed(r.o, v, Null))
  <2>1. F!Clear(r, v)
          = F!Point([r EXCEPT !.m = IF b = v THEN F!DestroyIn(r.m, v)
                                    ELSE IF b # Null THEN F!DeleteValue(r.m, b) ELSE r.m],
                    v, Null)
    BY DEF F!Clear, F!InBuffer, F!Empty
  <2>2. (IF b = v THEN F!DestroyIn(r.m, v)
         ELSE IF b # Null THEN F!DeleteValue(r.m, b) ELSE r.m) = n
    BY FunctionHolder
  <2>3. F!Point([r EXCEPT !.m = n], v, Null) = At(n, Changed(r.o, v, Null))
    BY FunctionPoint
  <2> QED BY <2>1, <2>2, <2>3
<1>3. CASE s[v] = Null
  <2>1. n = r.m
    BY <1>1, <1>3
  <2>2. Changed(r.o, v, Null) = r.o
    BY <1>1, <1>3 DEF Changed, HoldsFunction
  <2>3. F!Clear(r, v) = r
    BY <1>2, <2>1, <2>2 DEF HoldsFunction
  <2>4. Becomes(s, s, v, Null)
    BY <1>1, <1>3 DEF Becomes
  <2> QED BY <2>3, <2>4
<1>4. CASE s[v] # Null
  <2>1. /\ Shape(n, Changed(FunctionPlaces(r.o), v, Null), t)
        /\ FreeNodes(r.m) \subseteq FreeNodes(n)
    <3>1. CASE s[v] \in Small
      <4>1. n = DestroyIn(r.m, v)
        BY <1>1, <3>1
      <4>2. DestroyIn(r.m, v) = With(r.m, v, One(Raw))
        BY <1>1, <3>1, ShapeDropped
      <4>3. Shape(n, Changed(FunctionPlaces(r.o), v, Null), t)
        BY <1>1, <3>1, <4>1, ShapeDropped
      <4> HIDE DEF n
      <4>4. \A c \in Blocks : c # v => n.cells[c] = r.m.cells[c]
        BY <1>1, <4>1, <4>2, WithRaw
      <4>5. FreeNodes(r.m) \subseteq FreeNodes(n)
        BY <1>1, <4>4, FreeNode, SlotsAndNodes
      <4> QED BY <4>3, <4>5
    <3>2. CASE s[v] \in Values \ Small
      <4>1. n = DeleteValue(r.m, FunctionPlaces(r.o)[v])
        BY <1>1, <1>4, <3>2
      <4> HIDE DEF n
      <4> QED BY <1>1, <3>2, <4>1, ShapeDeleted
    <3> QED BY <1>1, <1>4, <3>1, <3>2
  <2> HIDE DEF n, t
  <2>2. HoldsFunction(F!Clear(r, v), t)
    BY <1>2, <2>1, FunctionStep
  <2>3. Becomes(s, t, v, Null)
    BY <1>1, BecomesChanged DEF t
  <2>4. F!Clear(r, v).m = n
    BY <1>2, StateOf
  <2> QED BY <2>1, <2>2, <2>3, <2>4
<1>. QED BY <1>3, <1>4

LEMMA FunctionDestructed ==
  ASSUME ToldApart, NEW r, NEW s, HoldsFunction(r, s), NEW v \in Slots, s[v] # Gone
  PROVE  \E t : HoldsFunction(F!Destructed(r, v), t) /\ Becomes(s, t, v, Gone)
<1>1. PICK k : HoldsFunction(F!Clear(r, v), k) /\ Becomes(s, k, v, Null)
  BY FunctionClear
<1>2. PICK t : HoldsFunction(F!Dead(F!Clear(r, v), v), t) /\ Becomes(k, t, v, Gone)
  BY <1>1, FunctionDead DEF Becomes
<1>3. Becomes(s, t, v, Gone)
  BY <1>1, <1>2 DEF Becomes
<1>. QED BY <1>2, <1>3 DEF F!Destructed

LEMMA FunctionClone ==
  ASSUME ToldApart, NEW r, NEW s, HoldsFunction(r, s), NEW v \in Slots, NEW w \in Slots,
         s[v] = Null, s[w] # Gone, FreeNodes(r.m) # {}
  PROVE  \E t : HoldsFunction(F!CloneOf(r, w, v), t) /\ Becomes(s, t, v, s[w])
<1>1. /\ s \in Pictures /\ FunctionPlaces(r.o)[w] = r.o[w]
      /\ (s[w] = Null <=> r.o[w] = Null) /\ (s[w] \in Values <=> s[w] # Null)
  BY FunctionOf
<1>2. CASE s[w] = Null
  <2>1. F!CloneOf(r, w, v) = r
    BY <1>1, <1>2 DEF F!CloneOf, F!Empty
  <2>2. Becomes(s, s, v, s[w])
    BY <1>1, <1>2 DEF Becomes
  <2> QED BY <2>1, <2>2
<1>3. CASE s[w] # Null
  <2>1. F!CloneOf(r, w, v) = F!Create(r, v, Value(r.o[w]))
    BY <1>1, <1>3, FunctionCells DEF F!CloneOf, F!Empty
  <2>2. Shape(r.m, FunctionPlaces(r.o), s)
    BY DEF HoldsFunction
  <2>3. Names(r.m, Value(FunctionPlaces(r.o)[w]), s[w])
    BY <1>1, <1>3, <2>2, PlaceNamed
  <2> QED BY <1>1, <1>3, <2>1, <2>3, FunctionCreate
<1>. QED BY <1>2, <1>3

(* The callable of w goes over to v. A small one stays in w as well.       *)
LEMMA FunctionTake ==
  ASSUME ToldApart, NEW r, NEW s, HoldsFunction(r, s), NEW v \in Slots, NEW w \in Slots, v # w,
         s[v] = Null, s[w] # Gone
  PROVE  \E t : /\ HoldsFunction(F!TakeOf(r, w, v), t)
                /\ t \in Pictures /\ t[v] = s[w] /\ t[w] \in {Null, s[w]}
                /\ \A c \in Slots : c # v /\ c # w => t[c] = s[c]
<1> DEFINE P == FunctionPlaces(r.o)
<1>1. /\ s \in Pictures /\ r.m \in Memories /\ P[w] = r.o[w] /\ P[v] = r.o[v] /\ r.o[v] = Null
      /\ v \in Blocks /\ w \in Blocks
      /\ (r.o[w] = w <=> s[w] \in Small) /\ (r.o[w] = Null <=> s[w] = Null)
      /\ (r.o[w] \in Nodes <=> s[w] \in Values \ Small) /\ (s[w] \in Values <=> s[w] # Null)
  BY FunctionOf
<1>2. Shape(r.m, P, s) /\ r = At(r.m, r.o)
  BY DEF HoldsFunction
<1> HIDE DEF P
<1>3. CASE s[w] \in Small
  <2> DEFINE n == ConstructIn(r.m, v, Value(w))
             t == Changed(s, v, s[w])
  <2>1. F!TakeOf(r, w, v) = At(n, Changed(r.o, v, v))
    <3>1. F!TakeOf(r, w, v) = F!Point([r EXCEPT !.m = F!CloneTo(@, w, v)], v, v)
      BY <1>1, <1>3 DEF F!TakeOf, F!InBuffer
    <3>2. F!CloneTo(r.m, w, v) = n
      BY FunctionHolder, FunctionCells DEF F!CloneTo
    <3>3. F!Point([r EXCEPT !.m = n], v, v) = At(n, Changed(r.o, v, v))
      BY FunctionPoint
    <3> QED BY <3>1, <3>2, <3>3
  <2>2. Names(r.m, Value(w), s[w]) /\ s[w] \in Values
    BY <1>1, <1>2, <1>3, PlaceNamed, HolderAssumption
  <2>3. Shape(n, Changed(P, v, v), t)
    BY <1>2, <1>3, <2>2, ShapeSmall
  <2>4. Becomes(s, t, v, s[w])
    BY <1>1, <2>2, BecomesChanged
  <2> HIDE DEF n, t
  <2>5. HoldsFunction(F!TakeOf(r, w, v), t)
    BY <1>1, <2>1, <2>3, FunctionStep DEF P
  <2>6. /\ t \in Pictures /\ t[v] = s[w] /\ t[w] \in {Null, s[w]}
        /\ \A c \in Slots : c # v /\ c # w => t[c] = s[c]
    BY <2>4 DEF Becomes
  <2> QED BY <2>5, <2>6
<1>4. CASE s[w] \notin Small
  <2> DEFINE t == Changed(Changed(s, v, s[w]), w, s[v])
  <2>1. F!TakeOf(r, w, v) = At(r.m, Changed(Changed(r.o, v, r.o[w]), w, Null))
    <3>1. F!TakeOf(r, w, v) = F!Point(F!Point(r, v, r.o[w]), w, Null)
      BY <1>1, <1>4 DEF F!TakeOf, F!InBuffer, F!Empty
    <3>2. F!Point(r, v, r.o[w]) = At(r.m, Changed(r.o, v, r.o[w]))
      BY FunctionPoint
    <3> QED BY <3>1, <3>2, PointTwice
  <2>2. Shape(r.m, Changed(Changed(P, v, P[w]), w, P[v]), t)
    BY <1>1, <1>2, <1>4, ShapeExchanged
  <2>3. /\ t \in Pictures /\ t[v] = s[w] /\ t[w] \in {Null, s[w]}
        /\ \A c \in Slots : c # v /\ c # w => t[c] = s[c]
    BY <1>1 DEF Pictures, Changed
  <2> HIDE DEF t
  <2>4. r.o[w] \in Blocks \cup {Null, Gone}
    BY <1>1 DEF HoldsFunction
  <2>5. Shape(r.m, Changed(Changed(FunctionPlaces(r.o), v, r.o[w]), w, Null), t)
    BY <1>1, <2>2 DEF P
  <2>6. HoldsFunction(F!TakeOf(r, w, v), t)
    BY <2>1, <2>4, <2>5, FunctionStepTwo
  <2> QED BY <2>3, <2>6
<1>. QED BY <1>3, <1>4

(* Two callables in their buffers change places through a third buffer.    *)
LEMMA ShapeThreeWay ==
  ASSUME ToldApart, NEW m, NEW P, NEW s, Shape(m, P, s), NEW v \in Slots, NEW w \in Slots,
         v # w, P[v] = v, P[w] = Null
  PROVE  /\ Names(m, Value(v), s[v]) /\ s[v] \in Small
         /\ \E Q, t : /\ Shape(DestroyIn(ConstructIn(m, w, Value(v)), v), Q, t)
                      /\ Exchanged(s, t, v, w)
                      /\ Q \in Places /\ Q[v] = Null /\ Q[w] = w
                      /\ \A u \in Slots : u # v /\ u # w => Q[u] = P[u]
<1> DEFINE Q == Changed(Changed(P, v, P[w]), w, w)
           t == Changed(Changed(s, v, s[w]), w, s[v])
<1>1. P \in Places /\ s \in Pictures
  BY DEF Shape
<1>2. s[v] \in Small /\ s[v] \in Values
  BY ShapeOf, HolderAssumption
<1>3. Names(m, Value(v), s[v])
  BY <1>2, PlaceNamed
<1>4. Exchanged(s, t, v, w)
  BY <1>1 DEF Exchanged, Changed, Pictures
<1>5. /\ Q \in Places /\ Q[v] = Null /\ Q[w] = w
      /\ \A u \in Slots : u # v /\ u # w => Q[u] = P[u]
  BY <1>1, SlotsAndNodes DEF Places, Changed
<1>6. Shape(DestroyIn(ConstructIn(m, w, Value(v)), v), Q, t)
  BY ShapeSwapped
<1>. QED BY <1>2, <1>3, <1>4, <1>5, <1>6

LEMMA FunctionSwapBuffers ==
  ASSUME ToldApart, NEW r, NEW s, HoldsFunction(r, s), NEW v \in Slots, NEW w \in Slots, v # w,
         s[v] \in Small, s[w] \in Small, s[Spare] = Gone, v # Spare, w # Spare
  PROVE  \E t : HoldsFunction(F!SwapBuffers(r, v, w), t) /\ Exchanged(s, t, v, w)
<1> DEFINE P  == FunctionPlaces(r.o)
           m0 == Allocate(r.m, Spare, 1)
           m1 == DestroyIn(ConstructIn(m0, Spare, Value(v)), v)
           m2 == DestroyIn(ConstructIn(m1, v, Value(w)), w)
           m3 == DestroyIn(ConstructIn(m2, w, Value(Spare)), Spare)
           n  == Deallocate(m3, Spare, 1)
           P0 == Changed(P, Spare, Null)
           s0 == Changed(s, Spare, Null)
<1>1. /\ s \in Pictures /\ P \in Places /\ r = At(r.m, r.o) /\ Spare \in Slots
      /\ Shape(r.m, P, s)
  BY SlotsAndNodes DEF HoldsFunction, Shape
<1>2. P[v] = v /\ P[w] = w /\ P[Spare] = Gone
  BY <1>1, ShapeOf
<1>3. F!SwapBuffers(r, v, w) = At(n, r.o)
  <2>1. F!SwapBuffers(r, v, w) = [r EXCEPT !.m = n]
    BY FunctionHolder, FunctionCells DEF F!SwapBuffers, F!CloneTo, AllocateOne
  <2> HIDE DEF n
  <2> QED BY <1>1, <2>1 DEF At
<1> HIDE DEF P
<1>4. Shape(m0, P0, s0)
  BY <1>1, ShapeBorn
<1>5. /\ P0[v] = v /\ P0[w] = w /\ P0[Spare] = Null
      /\ s0[v] = s[v] /\ s0[w] = s[w] /\ s0[Spare] = Null
      /\ \A u \in Slots : u # Spare => P0[u] = P[u] /\ s0[u] = s[u]
  BY <1>1, <1>2 DEF Changed, Pictures, Places
<1> HIDE DEF P0, s0, m0
<1>6. PICK P1, s1 : /\ Shape(m1, P1, s1) /\ Exchanged(s0, s1, v, Spare)
                    /\ P1[v] = Null /\ P1[Spare] = Spare
                    /\ \A u \in Slots : u # v /\ u # Spare => P1[u] = P0[u]
  BY <1>1, <1>4, <1>5, ShapeThreeWay
<1>7. P1[w] = w /\ P1[v] = Null
  BY <1>5, <1>6
<1> HIDE DEF m1
<1>8. PICK P2, s2 : /\ Shape(m2, P2, s2) /\ Exchanged(s1, s2, w, v)
                    /\ P2[w] = Null /\ P2[v] = v
                    /\ \A u \in Slots : u # w /\ u # v => P2[u] = P1[u]
  BY <1>6, <1>7, ShapeThreeWay
<1>9. P2[Spare] = Spare /\ P2[w] = Null
  BY <1>1, <1>6, <1>8
<1> HIDE DEF m2
<1>10. PICK P3, s3 : /\ Shape(m3, P3, s3) /\ Exchanged(s2, s3, Spare, w)
                     /\ P3[Spare] = Null /\ P3[w] = w
                     /\ \A u \in Slots : u # Spare /\ u # w => P3[u] = P2[u]
  BY <1>1, <1>8, <1>9, ShapeThreeWay
<1> HIDE DEF m3
<1>11. /\ Exchanged(s0, s3, v, w) /\ s3[Spare] = Null
  <2>1. s1[v] = Null /\ s1[Spare] = s[v] /\ s1[w] = s[w]
    BY <1>5, <1>6 DEF Exchanged
  <2>2. s2[v] = s[w] /\ s2[w] = Null /\ s2[Spare] = s[v]
    BY <1>1, <1>8, <2>1 DEF Exchanged
  <2>3. s3[v] = s[w] /\ s3[w] = s[v] /\ s3[Spare] = Null
    BY <1>1, <1>10, <2>2 DEF Exchanged
  <2>4. \A u \in Slots : u # v /\ u # w /\ u # Spare => s3[u] = s0[u]
    BY <1>6, <1>8, <1>10 DEF Exchanged
  <2>5. s3 \in Pictures
    BY <1>10 DEF Exchanged
  <2> QED BY <1>5, <2>3, <2>4, <2>5 DEF Exchanged
<1> DEFINE t == Changed(s3, Spare, Gone)
<1>12. Shape(n, Changed(P3, Spare, Gone), t)
  BY <1>1, <1>10, <1>11, ShapeDead
<1>13. Changed(P3, Spare, Gone) = P
  <2>1. P3 \in Places
    BY <1>10 DEF Shape
  <2>2. \A u \in Slots : u # Spare => P3[u] = P[u]
    <3>1. \A u \in Slots : u # Spare /\ u # v /\ u # w => P3[u] = P[u]
      BY <1>5, <1>6, <1>8, <1>10
    <3>2. P3[v] = P[v] /\ P3[w] = P[w]
      BY <1>2, <1>8, <1>10
    <3> QED BY <3>1, <3>2
  <2> QED BY <1>1, <1>2, <2>1, <2>2 DEF Changed, Places
<1>14. Exchanged(s, t, v, w)
  <2>1. /\ t \in Pictures /\ t[Spare] = Gone
        /\ \A u \in Slots : u # Spare => t[u] = s3[u]
    <3>1. s3 \in Pictures
      BY <1>11 DEF Exchanged
    <3> QED BY <1>1, <3>1 DEF Changed, Pictures
  <2> HIDE DEF t
  <2> QED BY <1>5, <1>11, <2>1 DEF Exchanged
<1> HIDE DEF n, t
<1>15. HoldsFunction(At(n, r.o), t)
  BY <1>12, <1>13, StateOf DEF HoldsFunction, P
<1>. QED BY <1>3, <1>14, <1>15

LEMMA FunctionSwapBuffer ==
  ASSUME ToldApart, NEW r, NEW s, HoldsFunction(r, s), NEW v \in Slots, NEW w \in Slots, v # w,
         s[v] \in Small, s[w] \notin Small, s[w] # Gone
  PROVE  \E t : HoldsFunction(F!SwapBuffer(r, v, w), t) /\ Exchanged(s, t, v, w)
<1> DEFINE P == FunctionPlaces(r.o)
           n == DestroyIn(ConstructIn(r.m, w, Value(v)), v)
           t == Changed(Changed(s, v, s[w]), w, s[v])
<1>1. /\ s \in Pictures /\ Shape(r.m, P, s) /\ P[v] = r.o[v] /\ P[w] = r.o[w]
      /\ r.o[v] = v /\ r.o[w] \in Nodes \cup {Null} /\ v \in Blocks /\ w \in Blocks
  <2>1. s \in Pictures /\ P[v] = r.o[v] /\ r.o[v] = v /\ v \in Blocks
    BY FunctionOf
  <2>2. P[w] = r.o[w] /\ r.o[w] \in Nodes \cup {Null} /\ w \in Blocks
    BY FunctionOf
  <2> QED BY <2>1, <2>2 DEF HoldsFunction
<1> HIDE DEF P
<1>2. F!SwapBuffer(r, v, w) = At(n, Changed(Changed(r.o, v, r.o[w]), w, w))
  <2>1. F!SwapBuffer(r, v, w) = F!Point(F!Point([r EXCEPT !.m = n], v, r.o[w]), w, w)
    BY FunctionHolder, FunctionCells DEF F!SwapBuffer, F!CloneTo
  <2>2. F!Point([r EXCEPT !.m = n], v, r.o[w]) = At(n, Changed(r.o, v, r.o[w]))
    BY FunctionPoint
  <2> HIDE DEF n
  <2> QED BY <2>1, <2>2, PointTwice
<1>3. Shape(n, Changed(Changed(P, v, P[w]), w, w), t)
  BY <1>1, ShapeSwapped
<1>4. Exchanged(s, t, v, w)
  BY <1>1 DEF Exchanged, Changed, Pictures
<1> HIDE DEF n, t
<1>5. Shape(n, Changed(Changed(FunctionPlaces(r.o), v, r.o[w]), w, w), t)
  BY <1>1, <1>3 DEF P
<1>6. r.o[w] \in Blocks \cup {Null, Gone} /\ w \in Blocks \cup {Null, Gone}
  BY <1>1, SlotsAndNodes
<1>7. HoldsFunction(F!SwapBuffer(r, v, w), t)
  <2>1. HoldsFunction(At(n, Changed(Changed(r.o, v, r.o[w]), w, w)), t)
    BY <1>5, <1>6, FunctionStepTwo
  <2> QED BY <1>2, <2>1
<1>. QED BY <1>4, <1>7

LEMMA FunctionSwap ==
  ASSUME ToldApart, NEW r, NEW s, HoldsFunction(r, s), NEW v \in Slots, NEW w \in Slots,
         s[v] # Gone, s[w] # Gone, s[Spare] = Gone
  PROVE  \E t : HoldsFunction(F!SwapOf(r, v, w), t) /\ Exchanged(s, t, v, w)
<1>1. /\ s \in Pictures /\ v # Spare /\ w # Spare
      /\ r.o[v] # Gone /\ r.o[v] \in Blocks \cup {Null, Gone}
      /\ (F!InBuffer(r, v) <=> s[v] \in Small)
      /\ (~F!InBuffer(r, v) => r.o[v] \in Nodes \cup {Null})
  <2>1. r.o[v] \in Blocks \cup {Null, Gone}
    BY SlotsAndNodes DEF HoldsFunction
  <2> QED BY <2>1, FunctionOf DEF F!InBuffer
<1>2. /\ r.o[w] # Gone /\ r.o[w] \in Blocks \cup {Null, Gone}
      /\ (F!InBuffer(r, w) <=> s[w] \in Small)
      /\ (~F!InBuffer(r, w) => r.o[w] \in Nodes \cup {Null})
  <2>1. r.o[w] \in Blocks \cup {Null, Gone}
    BY SlotsAndNodes DEF HoldsFunction
  <2> QED BY <2>1, FunctionOf DEF F!InBuffer
<1>3. CASE v = w
  <2>1. F!SwapOf(r, v, w) = r
    BY <1>3 DEF F!SwapOf
  <2>2. Exchanged(s, s, v, w)
    BY <1>1, <1>3 DEF Exchanged
  <2> QED BY <2>1, <2>2
<1>4. CASE v # w /\ s[v] \in Small /\ s[w] \in Small
  <2>1. F!SwapOf(r, v, w) = F!SwapBuffers(r, v, w)
    BY <1>1, <1>2, <1>4 DEF F!SwapOf
  <2> QED BY <1>1, <1>2, <1>4, <2>1, FunctionSwapBuffers
<1>5. CASE v # w /\ s[v] \in Small /\ s[w] \notin Small
  <2>1. F!SwapOf(r, v, w) = F!SwapBuffer(r, v, w)
    BY <1>1, <1>2, <1>5 DEF F!SwapOf
  <2> QED BY <1>5, <2>1, FunctionSwapBuffer
<1>6. CASE v # w /\ s[v] \notin Small /\ s[w] \in Small
  <2>1. F!SwapOf(r, v, w) = F!SwapBuffer(r, w, v)
    BY <1>1, <1>2, <1>6 DEF F!SwapOf
  <2>2. PICK t : HoldsFunction(F!SwapBuffer(r, w, v), t) /\ Exchanged(s, t, w, v)
    BY <1>6, FunctionSwapBuffer
  <2>3. Exchanged(s, t, v, w)
    BY <2>2 DEF Exchanged
  <2> QED BY <2>1, <2>2, <2>3
<1>7. CASE v # w /\ s[v] \notin Small /\ s[w] \notin Small
  <2> DEFINE P == FunctionPlaces(r.o)
             t == Changed(Changed(s, v, s[w]), w, s[v])
  <2>1. F!SwapOf(r, v, w) = At(r.m, Changed(Changed(r.o, v, r.o[w]), w, r.o[v]))
    <3>1. F!SwapOf(r, v, w) = F!Point(F!Point(r, v, r.o[w]), w, r.o[v])
      BY <1>1, <1>2, <1>7 DEF F!SwapOf
    <3>2. F!Point(r, v, r.o[w]) = At(r.m, Changed(r.o, v, r.o[w]))
      BY FunctionPoint
    <3> QED BY <3>1, <3>2, PointTwice
  <2>2. P[v] = r.o[v] /\ P[w] = r.o[w] /\ Shape(r.m, P, s)
    BY DEF HoldsFunction, FunctionPlaces
  <2> HIDE DEF P
  <2>3. Shape(r.m, Changed(Changed(P, v, P[w]), w, P[v]), t)
    BY <1>1, <1>2, <1>7, <2>2, ShapeExchanged
  <2>4. Exchanged(s, t, v, w)
    BY <1>1, <1>7 DEF Exchanged, Changed, Pictures
  <2> HIDE DEF t
  <2>5. Shape(r.m, Changed(Changed(FunctionPlaces(r.o), v, r.o[w]), w, r.o[v]), t)
    BY <2>2, <2>3 DEF P
  <2>6. HoldsFunction(F!SwapOf(r, v, w), t)
    BY <1>1, <1>2, <2>1, <2>5, FunctionStepTwo
  <2> QED BY <2>4, <2>6
<1>. QED BY <1>3, <1>4, <1>5, <1>6, <1>7

-----------------------------------------------------------------------------
(* The calls of function.                                                  *)
FunctionAfter(s) ==
  \E t : HoldsFunction(At(mem', obj'), t) /\ Settled(t) /\ Outcome(s, t)

LEMMA FunctionEnded ==
  ASSUME NEW s, NEW r, NEW t, HoldsFunction(r, t), NEW what, NEW x, NEW threw,
         F!Ends(r, what, x, threw)
  PROVE  HoldsFunction(At(mem', obj'), t) /\ Said(what, x, threw)
<1>1. mem' = r.m /\ obj' = r.o /\ Said(what, x, threw)
  BY DEF F!Ends, Said
<1>2. At(mem', obj') = r
  BY <1>1 DEF HoldsFunction
<1>. QED BY <1>1, <1>2

LEMMA FunctionStart ==
  ASSUME ToldApart, NEW s, HoldsFunction(Now, s), Settled(s), NEW v \in Variables
  PROVE  /\ Now.m = mem /\ Now.o = obj /\ s \in Pictures
         /\ v \in Slots /\ v # Temp /\ v # Spare /\ Temp \in Slots /\ Spare \in Slots
         /\ s[Temp] = Gone /\ s[Spare] = Gone /\ Temp # Spare
         /\ F!Unborn(v) => s[v] = Gone
         /\ F!Alive(v) => s[v] # Gone
         /\ F!Room => FreeNodes(mem) # {}
         /\ F!Now = Now
<1>1. Now.m = mem /\ Now.o = obj
  BY StateOf DEF Now
<1>2. v \in Slots /\ v # Temp /\ v # Spare /\ Temp \in Slots /\ Spare \in Slots /\ Temp # Spare
  BY SlotsAndNodes
<1>3. s[v] = Gone <=> obj[v] = Gone
  BY <1>1, <1>2, FunctionOf
<1>4. F!Now = Now /\ F!Room = Room
  BY FunctionHolder
<1>. QED BY <1>1, <1>2, <1>3, <1>4 DEF Settled, F!Unborn, F!Alive, Room

LEMMA FunctionMade ==
  ASSUME ToldApart, NEW r, NEW s, HoldsFunction(r, s), NEW u \in Slots, s[u] = Gone,
         NEW a, NEW x \in Values, Names(r.m, a, x), FreeNodes(r.m) # {}
  PROVE  \E t : HoldsFunction(F!Create(F!New(r, u), u, a), t) /\ Becomes(s, t, u, x)
<1>1. PICK k : HoldsFunction(F!New(r, u), k) /\ Becomes(s, k, u, Null)
  BY FunctionNew
<1>2. Keeps(r.m, F!New(r, u).m)
  BY FunctionNew
<1>3. Names(F!New(r, u).m, a, x) /\ FreeNodes(F!New(r, u).m) # {}
  BY <1>2 DEF Keeps
<1>4. k[u] = Null
  BY <1>1 DEF Becomes
<1>5. PICK t : HoldsFunction(F!Create(F!New(r, u), u, a), t) /\ Becomes(k, t, u, x)
  BY <1>1, <1>3, <1>4, FunctionCreate
<1>6. Becomes(s, t, u, x)
  BY <1>1, <1>5 DEF Becomes
<1>. QED BY <1>5, <1>6

LEMMA FunctionNotMade ==
  ASSUME ToldApart, NEW r, NEW s, HoldsFunction(r, s), NEW u \in Slots, s[u] = Gone,
         NEW a, FreeNodes(r.m) # {}
  PROVE  \E t : /\ HoldsFunction(F!Dead(F!CreateFails(F!New(r, u), u, a), u), t)
                /\ Becomes(s, t, u, Gone)
<1>1. PICK k : HoldsFunction(F!New(r, u), k) /\ Becomes(s, k, u, Null)
  BY FunctionNew
<1>2. Keeps(r.m, F!New(r, u).m)
  BY FunctionNew
<1>3. F!CreateFails(F!New(r, u), u, a) = F!New(r, u)
  <2>1. FreeNodes(F!New(r, u).m) # {}
    BY <1>2 DEF Keeps
  <2> QED BY <1>1, <2>1, FunctionCreateFails
<1>4. k[u] = Null
  BY <1>1 DEF Becomes
<1>5. PICK t : HoldsFunction(Dead(F!New(r, u), u), t) /\ Becomes(k, t, u, Gone)
  BY <1>1, <1>4, FunctionDead, FunctionHolder
<1>6. Becomes(s, t, u, Gone)
  BY <1>1, <1>5 DEF Becomes
<1>. QED BY <1>3, <1>5, <1>6, FunctionHolder

LEMMA FunctionCopied ==
  ASSUME ToldApart, NEW r, NEW s, HoldsFunction(r, s), NEW u \in Slots, s[u] = Gone,
         NEW w \in Slots, s[w] # Gone, FreeNodes(r.m) # {}
  PROVE  \E t : HoldsFunction(F!CloneOf(F!New(r, u), w, u), t) /\ Becomes(s, t, u, s[w])
<1>1. PICK k : HoldsFunction(F!New(r, u), k) /\ Becomes(s, k, u, Null)
  BY FunctionNew
<1>2. Keeps(r.m, F!New(r, u).m)
  BY FunctionNew
<1>3. FreeNodes(F!New(r, u).m) # {}
  BY <1>2 DEF Keeps
<1>4. k[u] = Null /\ k[w] = s[w]
  BY <1>1 DEF Becomes
<1>5. PICK t : HoldsFunction(F!CloneOf(F!New(r, u), w, u), t) /\ Becomes(k, t, u, k[w])
  BY <1>1, <1>3, <1>4, FunctionClone
<1>6. Becomes(s, t, u, s[w])
  BY <1>1, <1>4, <1>5 DEF Becomes
<1>. QED BY <1>5, <1>6

(* The value of w that a copy reads.                                       *)
LEMMA FunctionGivenHeld ==
  ASSUME ToldApart, NEW s, HoldsFunction(Now, s), NEW a \in F!Given
  PROVE  \E x \in Values : Names(Now.m, a, x) /\ F!Read(mem, a) = x
<1>1. Shape(mem, FunctionPlaces(Now.o), s) /\ Now.m = mem
  BY StateOf DEF HoldsFunction, Now
<1>. QED BY <1>1, GivenNamed, FunctionHolder, FunctionCells

LEMMA FunctionDefaultConstruct ==
  ASSUME ToldApart, NEW s, HoldsFunction(Now, s), Settled(s), NEW v \in Variables,
         F!DefaultConstruct(v)
  PROVE  FunctionAfter(s)
<1>1. s[v] = Gone /\ F!Ends(F!New(Now, v), "construct", Null, FALSE)
  BY FunctionStart DEF F!DefaultConstruct, F!Empty
<1>2. PICK t : HoldsFunction(F!New(Now, v), t) /\ Becomes(s, t, v, Null)
  BY <1>1, FunctionStart, FunctionNew
<1>3. HoldsFunction(At(mem', obj'), t) /\ Said("construct", Null, FALSE)
  BY <1>1, <1>2, FunctionEnded
<1>4. Settled(t) /\ Beginning(s, t, v)
  BY <1>1, <1>2, <1>3, SlotsAndNodes DEF Settled, Becomes, Beginning
<1>. QED BY <1>3, <1>4 DEF FunctionAfter, Outcome

LEMMA FunctionValueConstruct ==
  ASSUME ToldApart, NEW s, HoldsFunction(Now, s), Settled(s), NEW v \in Variables,
         NEW a \in F!Given, F!ValueConstruct(v, a)
  PROVE  FunctionAfter(s)
<1>1. PICK x \in Values : Names(Now.m, a, x) /\ F!Read(mem, a) = x
  BY FunctionGivenHeld
<1>2. /\ s[v] = Gone /\ v \in Slots /\ FreeNodes(Now.m) # {}
      /\ \/ F!Ends(F!Create(F!New(Now, v), v, a), "construct", x, FALSE)
         \/ F!Ends(F!Dead(F!CreateFails(F!New(Now, v), v, a), v), "construct", x, TRUE)
  BY <1>1, FunctionStart DEF F!ValueConstruct, F!Empty
<1>3. CASE F!Ends(F!Create(F!New(Now, v), v, a), "construct", x, FALSE)
  <2>1. PICK t : HoldsFunction(F!Create(F!New(Now, v), v, a), t) /\ Becomes(s, t, v, x)
    BY <1>1, <1>2, FunctionMade
  <2>2. HoldsFunction(At(mem', obj'), t) /\ Said("construct", x, FALSE)
    BY <1>3, <2>1, FunctionEnded
  <2>3. Settled(t) /\ Beginning(s, t, v)
    BY <1>2, <2>1, <2>2, SlotsAndNodes DEF Settled, Becomes, Beginning
  <2> QED BY <2>2, <2>3 DEF FunctionAfter, Outcome
<1>4. CASE F!Ends(F!Dead(F!CreateFails(F!New(Now, v), v, a), v), "construct", x, TRUE)
  <2>1. PICK t : /\ HoldsFunction(F!Dead(F!CreateFails(F!New(Now, v), v, a), v), t)
                 /\ Becomes(s, t, v, Gone)
    BY <1>2, FunctionNotMade
  <2>2. HoldsFunction(At(mem', obj'), t) /\ Said("construct", x, TRUE)
    BY <1>4, <2>1, FunctionEnded
  <2>3. Settled(t) /\ Refusing(s, t)
    BY <1>2, <2>1, <2>2, SlotsAndNodes DEF Settled, Becomes, Refusing
  <2> QED BY <2>2, <2>3 DEF FunctionAfter, Outcome
<1>. QED BY <1>2, <1>3, <1>4

LEMMA FunctionNotCloned ==
  ASSUME ToldApart, NEW r, NEW s, HoldsFunction(r, s), NEW u \in Slots, s[u] = Gone,
         NEW w, FreeNodes(r.m) # {}
  PROVE  \E t : /\ HoldsFunction(F!Dead(F!CloneFails(F!New(r, u), w, u), u), t)
                /\ Becomes(s, t, u, Gone)
<1> DEFINE new == F!New(r, u)
<1>1. PICK k : HoldsFunction(new, k) /\ Becomes(s, k, u, Null)
  BY FunctionNew
<1>2. FreeNodes(new.m) # {}
  BY FunctionNew DEF Keeps
<1> HIDE DEF new
<1>3. k[u] = Null /\ u \in Blocks
  BY <1>1, SlotsAndNodes DEF Becomes
<1>4. F!Dead(F!CloneFails(new, w, u), u) = Dead(new, u)
  <2>1. CASE F!InBuffer(new, w)
    <3> DEFINE o == Changed(new.o, u, u)
    <3>1. F!CloneFails(new, w, u) = At(new.m, o)
      BY <1>1, <2>1, FunctionPoint DEF F!CloneFails
    <3>2. new.o \in [Blocks -> Blocks \cup {Null, Gone}]
      BY <1>1 DEF HoldsFunction
    <3>3. /\ o \in [Blocks -> Blocks \cup {Null, Gone}]
          /\ Changed(o, u, Gone) = Changed(new.o, u, Gone)
      BY <1>3, <3>2 DEF Changed
    <3> HIDE DEF o
    <3>4. Dead(At(new.m, o), u) = At(Deallocate(new.m, u, 1), Changed(o, u, Gone))
      <4>1. At(new.m, o).m = new.m /\ At(new.m, o).o = o
        BY StateOf
      <4>2. At(new.m, o).o \in [Blocks -> Blocks \cup {Null, Gone}]
        BY <3>3, <4>1
      <4>3. Dead(At(new.m, o), u)
              = At(Deallocate(At(new.m, o).m, u, 1), Changed(At(new.m, o).o, u, Gone))
        BY <1>3, <4>2, BornDead
      <4> QED BY <4>1, <4>3
    <3>5. Dead(new, u) = At(Deallocate(new.m, u, 1), Changed(new.o, u, Gone))
      BY <1>3, <3>2, BornDead
    <3> QED BY <3>1, <3>3, <3>4, <3>5, FunctionHolder
  <2>2. CASE ~F!InBuffer(new, w)
    <3>1. F!CloneFails(new, w, u) = new
      BY <1>1, <1>2, <2>2, FunctionCreateFails DEF F!CloneFails
    <3> QED BY <3>1, FunctionHolder
  <2> QED BY <2>1, <2>2
<1>5. PICK t : HoldsFunction(Dead(new, u), t) /\ Becomes(k, t, u, Gone)
  BY <1>1, <1>3, FunctionDead, FunctionHolder
<1>6. Becomes(s, t, u, Gone)
  BY <1>1, <1>5 DEF Becomes
<1>. QED BY <1>4, <1>5, <1>6 DEF new

LEMMA FunctionCopyConstruct ==
  ASSUME ToldApart, NEW s, HoldsFunction(Now, s), Settled(s), NEW v \in Variables,
         NEW w \in Variables, F!CopyConstruct(v, w)
  PROVE  FunctionAfter(s)
<1>1. /\ s[v] = Gone /\ s[w] # Gone /\ v \in Slots /\ w \in Slots /\ FreeNodes(Now.m) # {}
      /\ \/ F!Ends(F!CloneOf(F!New(Now, v), w, v), "copy", Null, FALSE)
         \/ F!Ends(F!Dead(F!CloneFails(F!New(Now, v), w, v), v), "copy", Null, TRUE)
  BY FunctionStart DEF F!CopyConstruct, F!Empty
<1>2. CASE F!Ends(F!CloneOf(F!New(Now, v), w, v), "copy", Null, FALSE)
  <2>1. PICK t : HoldsFunction(F!CloneOf(F!New(Now, v), w, v), t) /\ Becomes(s, t, v, s[w])
    BY <1>1, FunctionCopied
  <2>2. HoldsFunction(At(mem', obj'), t) /\ Said("copy", Null, FALSE)
    BY <1>2, <2>1, FunctionEnded
  <2>3. Settled(t) /\ Copying(s, t, v, w)
    BY <1>1, <2>1, <2>2, SlotsAndNodes DEF Settled, Becomes, Copying
  <2> QED BY <2>2, <2>3 DEF FunctionAfter, Outcome
<1>3. CASE F!Ends(F!Dead(F!CloneFails(F!New(Now, v), w, v), v), "copy", Null, TRUE)
  <2>1. PICK t : /\ HoldsFunction(F!Dead(F!CloneFails(F!New(Now, v), w, v), v), t)
                 /\ Becomes(s, t, v, Gone)
    BY <1>1, FunctionNotCloned
  <2>2. HoldsFunction(At(mem', obj'), t) /\ Said("copy", Null, TRUE)
    BY <1>3, <2>1, FunctionEnded
  <2>3. Settled(t) /\ Refusing(s, t)
    BY <1>1, <2>1, <2>2, SlotsAndNodes DEF Settled, Becomes, Refusing
  <2> QED BY <2>2, <2>3 DEF FunctionAfter, Outcome
<1>. QED BY <1>1, <1>2, <1>3

LEMMA FunctionMoveConstruct ==
  ASSUME ToldApart, NEW s, HoldsFunction(Now, s), Settled(s), NEW v \in Variables,
         NEW w \in Variables, F!MoveConstruct(v, w)
  PROVE  FunctionAfter(s)
<1>1. /\ s[v] = Gone /\ s[w] # Gone /\ v \in Slots /\ w \in Slots
      /\ F!Ends(F!TakeOf(F!New(Now, v), w, v), "take", Null, FALSE)
  BY FunctionStart DEF F!MoveConstruct, F!Empty
<1>2. PICK k : HoldsFunction(F!New(Now, v), k) /\ Becomes(s, k, v, Null)
  BY <1>1, FunctionNew
<1>3. k[v] = Null /\ k[w] = s[w] /\ v # w
  BY <1>1, <1>2 DEF Becomes
<1>4. PICK t : /\ HoldsFunction(F!TakeOf(F!New(Now, v), w, v), t)
               /\ t \in Pictures /\ t[v] = k[w] /\ t[w] \in {Null, k[w]}
               /\ \A c \in Slots : c # v /\ c # w => t[c] = k[c]
  BY <1>1, <1>2, <1>3, FunctionTake
<1>5. HoldsFunction(At(mem', obj'), t) /\ Said("take", Null, FALSE)
  BY <1>1, <1>4, FunctionEnded
<1>6. Settled(t) /\ Taking(s, t, v, w)
  BY <1>1, <1>2, <1>3, <1>4, <1>5, SlotsAndNodes DEF Settled, Taking, Becomes
<1>. QED BY <1>5, <1>6 DEF FunctionAfter, Outcome

LEMMA FunctionDestruct ==
  ASSUME ToldApart, NEW s, HoldsFunction(Now, s), Settled(s), NEW v \in Variables, F!Destruct(v)
  PROVE  FunctionAfter(s)
<1>1. s[v] # Gone /\ v \in Slots /\ F!Ends(F!Destructed(Now, v), "destroy", Null, FALSE)
  BY FunctionStart DEF F!Destruct, F!Empty
<1>2. PICK t : HoldsFunction(F!Destructed(Now, v), t) /\ Becomes(s, t, v, Gone)
  BY <1>1, FunctionDestructed
<1>3. HoldsFunction(At(mem', obj'), t) /\ Said("destroy", Null, FALSE)
  BY <1>1, <1>2, FunctionEnded
<1>4. Settled(t) /\ Ending(s, t, v)
  BY <1>1, <1>2, <1>3, SlotsAndNodes DEF Settled, Becomes, Ending
<1>. QED BY <1>3, <1>4 DEF FunctionAfter, Outcome

LEMMA FunctionCopyAssign ==
  ASSUME ToldApart, ~AssignThrows, NEW s, HoldsFunction(Now, s), Settled(s),
         NEW v \in Variables, NEW w \in Variables, F!CopyAssign(v, w)
  PROVE  FunctionAfter(s)
<1>1. /\ s[v] # Gone /\ s[w] # Gone /\ v \in Slots /\ w \in Slots /\ FreeNodes(Now.m) # {}
      /\ s \in Pictures
      /\ IF v = w THEN F!Ends(Now, "copy", Null, FALSE)
         ELSE \/ F!Ends(F!CloneOf(F!Clear(Now, v), w, v), "copy", Null, FALSE)
              \/ /\ ~F!InBuffer(Now, w)
                 /\ F!Ends(F!CloneFails(F!Clear(Now, v), w, v), "replace", Null, TRUE)
  BY FunctionStart DEF F!CopyAssign, F!Empty
<1>2. CASE v = w
  <2>1. HoldsFunction(At(mem', obj'), s) /\ Said("copy", Null, FALSE)
    BY <1>1, <1>2, FunctionEnded
  <2>2. Copying(s, s, v, w)
    BY <1>1, <1>2, <2>1 DEF Copying
  <2> QED BY <2>1, <2>2 DEF FunctionAfter, Outcome
<1>3. CASE v # w
  <2> DEFINE clear == F!Clear(Now, v)
  <2>1. PICK k : HoldsFunction(clear, k) /\ Becomes(s, k, v, Null)
    BY <1>1, FunctionClear
  <2>2. FreeNodes(clear.m) # {} /\ k[v] = Null /\ k[w] = s[w]
    <3>1. FreeNodes(Now.m) \subseteq FreeNodes(clear.m)
      BY <1>1, FunctionClear
    <3> QED BY <1>1, <1>3, <2>1, <3>1 DEF Becomes
  <2>3. \/ F!Ends(F!CloneOf(clear, w, v), "copy", Null, FALSE)
        \/ ~F!InBuffer(Now, w) /\ F!Ends(F!CloneFails(clear, w, v), "replace", Null, TRUE)
    BY <1>1, <1>3
  <2> HIDE DEF clear
  <2>4. CASE F!Ends(F!CloneOf(clear, w, v), "copy", Null, FALSE)
    <3>1. PICK t : HoldsFunction(F!CloneOf(clear, w, v), t) /\ Becomes(k, t, v, k[w])
      BY <1>1, <2>1, <2>2, FunctionClone
    <3>2. HoldsFunction(At(mem', obj'), t) /\ Said("copy", Null, FALSE)
      BY <2>4, <3>1, FunctionEnded
    <3>3. Settled(t) /\ Copying(s, t, v, w)
      BY <1>1, <2>1, <2>2, <3>1, <3>2, SlotsAndNodes DEF Settled, Becomes, Copying
    <3> QED BY <3>2, <3>3 DEF FunctionAfter, Outcome
  <2>5. CASE ~F!InBuffer(Now, w) /\ F!Ends(F!CloneFails(clear, w, v), "replace", Null, TRUE)
    <3>1. ~F!InBuffer(clear, w)
      <4>1. s[w] \notin Small
        BY <1>1, <2>5, FunctionOf DEF F!InBuffer
      <4> QED BY <1>1, <2>1, <2>2, <4>1, FunctionOf DEF F!InBuffer
    <3>2. F!CloneFails(clear, w, v) = clear
      BY <2>1, <2>2, <3>1, FunctionCreateFails DEF F!CloneFails
    <3>3. HoldsFunction(At(mem', obj'), k) /\ Said("replace", Null, TRUE)
      BY <2>1, <2>5, <3>2, FunctionEnded
    <3>4. Settled(k) /\ Losing(s, k, v)
      BY <1>1, <2>1, <3>3, SlotsAndNodes DEF Settled, Becomes, Losing
    <3> QED BY <3>3, <3>4 DEF FunctionAfter, Outcome
  <2> QED BY <2>3, <2>4, <2>5
<1>. QED BY <1>2, <1>3

LEMMA FunctionMoveAssign ==
  ASSUME ToldApart, NEW s, HoldsFunction(Now, s), Settled(s), NEW v \in Variables,
         NEW w \in Variables, F!MoveAssign(v, w)
  PROVE  FunctionAfter(s)
<1>1. /\ s[v] # Gone /\ s[w] # Gone /\ v \in Slots /\ w \in Slots
      /\ IF v = w THEN F!Ends(Now, "take", Null, FALSE)
         ELSE F!Ends(F!TakeOf(F!Clear(Now, v), w, v), "take", Null, FALSE)
  BY FunctionStart DEF F!MoveAssign, F!Empty
<1>2. CASE v = w
  <2>1. HoldsFunction(At(mem', obj'), s) /\ Said("take", Null, FALSE)
    BY <1>1, <1>2, FunctionEnded
  <2>2. Taking(s, s, v, w)
    BY <1>1, <1>2, <2>1 DEF Taking
  <2> QED BY <2>1, <2>2 DEF FunctionAfter, Outcome
<1>3. CASE v # w
  <2>1. PICK k : HoldsFunction(F!Clear(Now, v), k) /\ Becomes(s, k, v, Null)
    BY <1>1, FunctionClear
  <2>2. k[v] = Null /\ k[w] = s[w]
    BY <1>1, <1>3, <2>1 DEF Becomes
  <2>3. PICK t : /\ HoldsFunction(F!TakeOf(F!Clear(Now, v), w, v), t)
                 /\ t \in Pictures /\ t[v] = k[w] /\ t[w] \in {Null, k[w]}
                 /\ \A c \in Slots : c # v /\ c # w => t[c] = k[c]
    BY <1>1, <1>3, <2>1, <2>2, FunctionTake
  <2>4. HoldsFunction(At(mem', obj'), t) /\ Said("take", Null, FALSE)
    BY <1>1, <1>3, <2>3, FunctionEnded
  <2>5. Settled(t) /\ Taking(s, t, v, w)
    BY <1>1, <1>3, <2>1, <2>2, <2>3, <2>4, SlotsAndNodes DEF Settled, Taking, Becomes
  <2> QED BY <2>4, <2>5 DEF FunctionAfter, Outcome
<1>. QED BY <1>2, <1>3

LEMMA FunctionClearAll ==
  ASSUME ToldApart, NEW s, HoldsFunction(Now, s), Settled(s), NEW v \in Variables,
         F!ClearAll(v)
  PROVE  FunctionAfter(s)
<1>1. s[v] # Gone /\ v \in Slots /\ F!Ends(F!Clear(Now, v), "set", Null, FALSE)
  BY FunctionStart DEF F!ClearAll, F!Empty
<1>2. PICK t : HoldsFunction(F!Clear(Now, v), t) /\ Becomes(s, t, v, Null)
  BY <1>1, FunctionClear
<1>3. HoldsFunction(At(mem', obj'), t) /\ Said("set", Null, FALSE)
  BY <1>1, <1>2, FunctionEnded
<1>4. Settled(t) /\ Setting(s, t, v)
  BY <1>1, <1>2, <1>3, SlotsAndNodes DEF Settled, Becomes, Setting
<1>. QED BY <1>3, <1>4 DEF FunctionAfter, Outcome

LEMMA FunctionValueAssign ==
  ASSUME ToldApart, NEW s, HoldsFunction(Now, s), Settled(s), NEW v \in Variables,
         NEW a \in F!Given, F!ValueAssign(v, a)
  PROVE  FunctionAfter(s)
<1>1. PICK x \in Values : Names(Now.m, a, x) /\ F!Read(mem, a) = x
  BY FunctionGivenHeld
<1> DEFINE made == F!Create(F!New(Now, Temp), Temp, a)
<1>2. /\ s[v] # Gone /\ s[Temp] = Gone /\ Temp \in Slots /\ v \in Slots /\ v # Temp
      /\ Temp # Spare /\ s[Spare] = Gone /\ v # Spare /\ Spare \in Slots /\ FreeNodes(Now.m) # {}
      /\ \/ F!Ends(F!Destructed(F!SwapOf(made, Temp, v), Temp), "set", x, FALSE)
         \/ F!Ends(F!Dead(F!CreateFails(F!New(Now, Temp), Temp, a), Temp), "set", x, TRUE)
  BY <1>1, FunctionStart DEF F!ValueAssign
<1>3. PICK k : HoldsFunction(made, k) /\ Becomes(s, k, Temp, x)
  BY <1>1, <1>2, FunctionMade
<1> HIDE DEF made
<1>4. CASE F!Ends(F!Destructed(F!SwapOf(made, Temp, v), Temp), "set", x, FALSE)
  <2>1. k[v] = s[v] /\ k[v] # Gone /\ k[Temp] = x /\ k[Temp] # Gone /\ k[Spare] = Gone
    BY <1>2, <1>3 DEF Becomes, ToldApart
  <2>2. PICK j : HoldsFunction(F!SwapOf(made, Temp, v), j) /\ Exchanged(k, j, Temp, v)
    BY <1>2, <1>3, <2>1, FunctionSwap
  <2>3. j[Temp] # Gone /\ j[v] = x
    BY <2>1, <2>2 DEF Exchanged
  <2>4. PICK t : /\ HoldsFunction(F!Destructed(F!SwapOf(made, Temp, v), Temp), t)
                 /\ Becomes(j, t, Temp, Gone)
    BY <1>2, <2>2, <2>3, FunctionDestructed
  <2>5. HoldsFunction(At(mem', obj'), t) /\ Said("set", x, FALSE)
    BY <1>4, <2>4, FunctionEnded
  <2>6. t[v] = x /\ t[Temp] = Gone /\ t[Spare] = Gone /\ t \in Pictures
    BY <1>2, <2>1, <2>2, <2>3, <2>4 DEF Becomes, Exchanged
  <2>7. \A u \in Variables : u # v => t[u] = s[u]
    BY <1>3, <2>2, <2>4, SlotsAndNodes DEF Becomes, Exchanged
  <2>8. Settled(t) /\ Setting(s, t, v)
    BY <1>2, <2>5, <2>6, <2>7 DEF Settled, Setting
  <2> QED BY <2>5, <2>8 DEF FunctionAfter, Outcome
<1>5. CASE F!Ends(F!Dead(F!CreateFails(F!New(Now, Temp), Temp, a), Temp), "set", x, TRUE)
  <2>1. PICK t : /\ HoldsFunction(F!Dead(F!CreateFails(F!New(Now, Temp), Temp, a), Temp), t)
                 /\ Becomes(s, t, Temp, Gone)
    BY <1>2, FunctionNotMade
  <2>2. HoldsFunction(At(mem', obj'), t) /\ Said("set", x, TRUE)
    BY <1>5, <2>1, FunctionEnded
  <2>3. Settled(t) /\ Refusing(s, t)
    BY <1>2, <2>1, <2>2, SlotsAndNodes DEF Settled, Becomes, Refusing
  <2> QED BY <2>2, <2>3 DEF FunctionAfter, Outcome
<1>. QED BY <1>2, <1>4, <1>5

LEMMA FunctionSwapCall ==
  ASSUME ToldApart, NEW s, HoldsFunction(Now, s), Settled(s), NEW v \in Variables,
         NEW w \in Variables, F!Swap(v, w)
  PROVE  FunctionAfter(s)
<1>1. /\ s[v] # Gone /\ s[w] # Gone /\ v \in Slots /\ w \in Slots /\ s[Spare] = Gone
      /\ F!Ends(F!SwapOf(Now, v, w), "swap", Null, FALSE)
  BY FunctionStart DEF F!Swap, F!Empty
<1>2. PICK t : HoldsFunction(F!SwapOf(Now, v, w), t) /\ Exchanged(s, t, v, w)
  BY <1>1, FunctionSwap
<1>3. HoldsFunction(At(mem', obj'), t) /\ Said("swap", Null, FALSE)
  BY <1>1, <1>2, FunctionEnded
<1>4. Settled(t) /\ Exchanging(s, t, v, w)
  BY <1>1, <1>2, <1>3, SlotsAndNodes DEF Settled, Exchanged, Exchanging
<1>. QED BY <1>3, <1>4 DEF FunctionAfter, Outcome

LEMMA FunctionNext ==
  ASSUME ToldApart, ~AssignThrows, NEW s, HoldsFunction(Now, s), Settled(s), F!Next
  PROVE  FunctionAfter(s)
<1>1. PICK v \in Variables :
        \/ F!DefaultConstruct(v) \/ F!Destruct(v) \/ F!ClearAll(v)
        \/ \E a \in F!Given : F!ValueConstruct(v, a) \/ F!ValueAssign(v, a)
        \/ \E w \in Variables :
             \/ F!CopyConstruct(v, w) \/ F!MoveConstruct(v, w)
             \/ F!CopyAssign(v, w) \/ F!MoveAssign(v, w) \/ F!Swap(v, w)
  BY DEF F!Next
<1>2. CASE F!DefaultConstruct(v) \/ F!Destruct(v) \/ F!ClearAll(v)
  BY <1>2, FunctionDefaultConstruct, FunctionDestruct, FunctionClearAll
<1>3. ASSUME NEW a \in F!Given, F!ValueConstruct(v, a) \/ F!ValueAssign(v, a)
      PROVE  FunctionAfter(s)
  BY <1>3, FunctionValueConstruct, FunctionValueAssign
<1>4. ASSUME NEW w \in Variables,
             \/ F!CopyConstruct(v, w) \/ F!MoveConstruct(v, w)
             \/ F!CopyAssign(v, w) \/ F!MoveAssign(v, w) \/ F!Swap(v, w)
      PROVE  FunctionAfter(s)
  BY <1>4, FunctionCopyConstruct, FunctionMoveConstruct, FunctionCopyAssign,
     FunctionMoveAssign, FunctionSwapCall
<1>. QED BY <1>1, <1>2, <1>3, <1>4

(* What the properties say of a variable of class function.                *)
LEMMA FunctionShows ==
  ASSUME ToldApart, NEW r, NEW s, HoldsFunction(r, s), NEW v \in Slots, r.o[v] # Gone
  PROVE  F!Shows(r, v) = s[v]
<1>1. /\ r.m \in Memories /\ (s[v] = Null <=> r.o[v] = Null)
      /\ s[v] # Gone /\ (s[v] \in Values <=> s[v] # Null)
      /\ FunctionPlaces(r.o)[v] = r.o[v]
  BY FunctionOf
<1>2. CASE s[v] = Null
  BY <1>1, <1>2 DEF F!Shows, F!Empty
<1>3. CASE s[v] # Null
  <2>1. Shape(r.m, FunctionPlaces(r.o), s)
    BY DEF HoldsFunction
  <2>2. Names(r.m, Value(r.o[v]), s[v])
    BY <1>1, <1>3, <2>1, PlaceNamed
  <2>3. Read(r.m, Value(r.o[v])) = s[v]
    BY <1>1, <2>2, NamesReads DEF Reads
  <2> QED BY <1>1, <1>3, <2>3, FunctionCells DEF F!Shows, F!Empty
<1>. QED BY <1>2, <1>3

-----------------------------------------------------------------------------
(* variant: the value is in the buffer always. Null is for a buffer that   *)
(* has no object in it, in the middle of a call.                           *)
CellOf(x) == IF x = Gone THEN Nothing ELSE IF x = Null THEN One(Raw) ELSE One(x)

Filled(m, s) ==
  /\ m \in Memories /\ ~m.fault /\ s \in Pictures
  /\ \A v \in Slots : m.cells[v] = CellOf(s[v])
  /\ \A n \in Nodes : m.cells[n] = Nothing

LEMMA CellsOf ==
  ASSUME ToldApart, NEW x \in Values \cup {Moved, Null, Gone}
  PROVE  /\ CellOf(x) \in Seq(Cells)
         /\ x \in Values \cup {Moved} => CellOf(x) = One(x) /\ x \in Cells \ {Raw}
         /\ CellOf(Null) = One(Raw) /\ CellOf(Gone) = Nothing
<1>1. Gone # Null /\ Null \notin Values /\ Gone \notin Values /\ Moved # Gone /\ Moved # Null
  BY CellAssumption DEF ToldApart
<1>2. x \in Values \cup {Moved} => CellOf(x) = One(x) /\ x \in Cells \ {Raw}
  BY <1>1, RawIsCell, CellAssumption DEF CellOf, Cells
<1>3. CellOf(Null) = One(Raw) /\ CellOf(Gone) = Nothing
  BY <1>1 DEF CellOf
<1>4. CellOf(x) \in Seq(Cells)
  <2>1. CASE x \in Values \cup {Moved}
    BY <1>2, <2>1, OneCell
  <2>2. CASE x = Null
    BY <1>3, <2>2, OneCell, RawIsCell
  <2>3. CASE x = Gone
    BY <1>3, <2>3, NoCell
  <2> QED BY <2>1, <2>2, <2>3
<1>. QED BY <1>2, <1>3, <1>4

LEMMA FilledWith ==
  ASSUME ToldApart, NEW m, NEW s, Filled(m, s), NEW v \in Slots,
         NEW x \in Values \cup {Moved, Null, Gone}
  PROVE  \E t : Filled(With(m, v, CellOf(x)), t) /\ Becomes(s, t, v, x)
<1> DEFINE n == With(m, v, CellOf(x))
           t == Changed(s, v, x)
<1>1. /\ m \in Memories /\ v \in Blocks /\ v \notin Nodes /\ s \in Pictures
      /\ Slots \subseteq Blocks /\ Nodes \subseteq Blocks /\ CellOf(x) \in Seq(Cells)
  BY SlotsAndNodes, CellsOf DEF Filled
<1>2. /\ n \in Memories /\ n.fault = m.fault /\ n.cells[v] = CellOf(x)
      /\ \A b \in Blocks : b # v => n.cells[b] = m.cells[b]
  BY <1>1, WithCells
<1>3. Becomes(s, t, v, x)
  BY <1>1, BecomesChanged
<1> HIDE DEF n, t
<1>4. \A w \in Slots : n.cells[w] = CellOf(t[w])
  BY <1>1, <1>2, <1>3 DEF Filled, Becomes
<1>5. \A b \in Nodes : n.cells[b] = Nothing
  BY <1>1, <1>2 DEF Filled
<1>6. Filled(n, t)
  BY <1>2, <1>3, <1>4, <1>5 DEF Filled, Becomes
<1>. QED BY <1>3, <1>6 DEF n

(* What the operations do to the buffer of v.                              *)
LEMMA FilledOperations ==
  ASSUME ToldApart, NEW m, NEW s, Filled(m, s), NEW v \in Slots
  PROVE  /\ s[v] = Gone => Allocate(m, v, 1) = With(m, v, CellOf(Null))
         /\ s[v] = Null => Deallocate(m, v, 1) = With(m, v, CellOf(Gone))
         /\ s[v] \in Values \cup {Moved} =>
              /\ DestroyIn(m, v) = With(m, v, CellOf(Null))
              /\ MoveFrom(m, v, 0, 1) = With(m, v, CellOf(Moved))
              /\ Names(m, Value(v), s[v])
         /\ \A a, x : s[v] = Null /\ Names(m, a, x) /\ x \in Values \cup {Moved}
                        => ConstructIn(m, v, a) = With(m, v, CellOf(x))
<1>1. /\ m \in Memories /\ v \in Blocks /\ m.cells[v] = CellOf(s[v])
      /\ CellOf(Null) = One(Raw) /\ CellOf(Gone) = Nothing /\ CellOf(Moved) = One(Moved)
  BY SlotsAndNodes, CellsOf DEF Filled
<1>2. s[v] = Gone => Allocate(m, v, 1) = With(m, v, CellOf(Null))
  BY <1>1, AllocatesPlace
<1>3. s[v] = Null => Deallocate(m, v, 1) = With(m, v, CellOf(Gone))
  BY <1>1, DeallocatesPlace
<1>4. ASSUME s[v] \in Values \cup {Moved}
      PROVE  /\ DestroyIn(m, v) = With(m, v, CellOf(Null))
             /\ MoveFrom(m, v, 0, 1) = With(m, v, CellOf(Moved))
             /\ Names(m, Value(v), s[v])
  <2>1. m.cells[v] = One(s[v]) /\ s[v] \in Cells \ {Raw}
    BY <1>1, <1>4, CellsOf
  <2> QED BY <1>1, <2>1, DestroysPlace DEF DestroyIn, Names
<1>5. ASSUME NEW a, NEW x, s[v] = Null, Names(m, a, x), x \in Values \cup {Moved}
      PROVE  ConstructIn(m, v, a) = With(m, v, CellOf(x))
  <2>1. Reads(m, a, x) /\ CellOf(x) = One(x)
    BY <1>1, <1>5, NamesReads, CellsOf
  <2> QED BY <1>1, <1>5, <2>1, ConstructsIn
<1>. QED BY <1>2, <1>3, <1>4, <1>5

(* A place that is named by a is another one than the buffer of v, or the  *)
(* buffer was empty: a is named still when the buffer has changed.         *)
LEMMA FilledNames ==
  ASSUME ToldApart, NEW m, NEW s, Filled(m, s), NEW v \in Slots,
         NEW y \in Values \cup {Moved, Null, Gone}, NEW a, NEW x, Names(m, a, x),
         a # Value(v) \/ s[v] \in {Gone, Null}
  PROVE  Names(With(m, v, CellOf(y)), a, x)
<1>1. /\ m \in Memories /\ v \in Blocks /\ m.cells[v] = CellOf(s[v])
      /\ CellOf(Null) = One(Raw) /\ CellOf(Gone) = Nothing /\ CellOf(y) \in Seq(Cells)
  BY SlotsAndNodes, CellsOf DEF Filled
<1>2. CASE \E b \in Blocks : a = Value(b) /\ m.cells[b] = One(x)
  <2>1. PICK b \in Blocks : a = Value(b) /\ m.cells[b] = One(x)
    BY <1>2
  <2>2. b # v
    <3>1. One(x) # Nothing /\ One(x) # One(Raw)
      BY OneCell DEF Names
    <3> QED BY <1>1, <2>1, <3>1
  <2>3. With(m, v, CellOf(y)).cells[b] = m.cells[b]
    BY <1>1, <2>2, WithCells
  <2> QED BY <2>1, <2>3 DEF Names
<1>3. CASE a \in Values /\ a = x
  BY <1>3 DEF Names
<1>. QED BY <1>2, <1>3 DEF Names

(* Memory and lifetimes are the picture's; what index and handler are is   *)
(* said apart.                                                             *)
Pair(i, h) == [index |-> i, handler |-> h]

Loose(r, s) ==
  /\ r = At(r.m, r.o)
  /\ Filled(r.m, s)
  /\ r.o \in [Blocks -> V!Members \cup {Gone}]
  /\ \A b \in Nodes : r.o[b] = Gone
  /\ \A v \in Slots : r.o[v] = Gone <=> s[v] = Gone

(* The members of all but v are the same.                                  *)
Alike(r, q, v) == \A b \in Blocks : b # v => q.o[b] = r.o[b]

LEMMA PairMembers ==
  ASSUME ToldApart
  PROVE  /\ \A i \in Kinds, h \in Kinds \cup {Null} :
              Pair(i, h) \in V!Members /\ Pair(i, h).index = i /\ Pair(i, h).handler = h
         /\ \A x \in V!Members :
              /\ x.index \in Kinds /\ x.handler \in Kinds \cup {Null} /\ x # Gone
              /\ x = Pair(x.index, x.handler)
BY VariantHolder DEF Pair, V!Members, ToldApart

LEMMA LooseOf ==
  ASSUME ToldApart, NEW r, NEW s, Loose(r, s), NEW v \in Slots
  PROVE  /\ v \in Blocks /\ v \notin Nodes /\ s \in Pictures /\ Filled(r.m, s)
         /\ r.o \in [Blocks -> V!Members \cup {Gone}]
         /\ s[v] = Gone <=> r.o[v] = Gone
         /\ s[v] # Gone => r.o[v] \in V!Members
BY SlotsAndNodes DEF Loose, Filled

(* The members of v change together with its buffer.                       *)
LEMMA LooseStep ==
  ASSUME ToldApart, NEW r, NEW s, Loose(r, s), NEW v \in Slots,
         NEW x \in V!Members \cup {Gone}, NEW n, NEW t, Filled(n, t),
         x = Gone <=> t[v] = Gone, \A w \in Slots : w # v => (t[w] = Gone <=> s[w] = Gone)
  PROVE  /\ Loose(At(n, Changed(r.o, v, x)), t)
         /\ At(n, Changed(r.o, v, x)).o[v] = x
         /\ Alike(r, At(n, Changed(r.o, v, x)), v)
<1>1. /\ v \in Blocks /\ v \notin Nodes /\ Slots \subseteq Blocks
      /\ r.o \in [Blocks -> V!Members \cup {Gone}]
      /\ \A b \in Nodes : r.o[b] = Gone /\ b \in Blocks
  BY SlotsAndNodes DEF Loose
<1> DEFINE o == Changed(r.o, v, x)
<1>2. /\ o \in [Blocks -> V!Members \cup {Gone}] /\ o[v] = x
      /\ \A b \in Blocks : b # v => o[b] = r.o[b]
  BY <1>1 DEF Changed
<1> HIDE DEF o
<1>3. \A b \in Nodes : o[b] = Gone
  BY <1>1, <1>2
<1>4. \A w \in Slots : o[w] = Gone <=> t[w] = Gone
  BY <1>1, <1>2 DEF Loose
<1>5. Loose(At(n, o), t)
  BY <1>2, <1>3, <1>4, StateOf DEF Loose
<1>6. At(n, o).o[v] = x /\ Alike(r, At(n, o), v)
  BY <1>2, StateOf DEF Alike
<1>. QED BY <1>5, <1>6 DEF o

LEMMA VariantNew ==
  ASSUME ToldApart, NEW r, NEW s, Loose(r, s), NEW v \in Slots, s[v] = Gone, NEW i \in Kinds
  PROVE  /\ \E t : Loose(V!New(r, v, i), t) /\ Becomes(s, t, v, Null)
         /\ V!New(r, v, i).o[v] = Pair(i, Null) /\ Alike(r, V!New(r, v, i), v)
         /\ \A a, x : Names(r.m, a, x) => Names(V!New(r, v, i).m, a, x)
<1> DEFINE n == Allocate(r.m, v, 1)
<1>1. v \in Blocks /\ Filled(r.m, s) /\ r.o \in [Blocks -> V!Members \cup {Gone}]
  BY LooseOf
<1>2. V!New(r, v, i) = At(n, Changed(r.o, v, Pair(i, Null)))
  <2>1. V!New(r, v, i) = Born(r, v, Pair(i, Null))
    BY VariantHolder DEF V!New, Pair
  <2> QED BY <1>1, <2>1, BornDead
<1>3. n = With(r.m, v, CellOf(Null))
  BY <1>1, FilledOperations
<1>4. PICK t : Filled(n, t) /\ Becomes(s, t, v, Null)
  BY <1>1, <1>3, FilledWith
<1>5. \A a, x : Names(r.m, a, x) => Names(n, a, x)
  BY <1>1, <1>3, FilledNames
<1> HIDE DEF n
<1>6. Pair(i, Null) \in V!Members /\ Pair(i, Null) # Gone /\ Null # Gone
  BY PairMembers DEF ToldApart
<1>7. t[v] # Gone /\ \A w \in Slots : w # v => (t[w] = Gone <=> s[w] = Gone)
  BY <1>4, <1>6 DEF Becomes
<1>8. /\ Loose(V!New(r, v, i), t) /\ V!New(r, v, i).o[v] = Pair(i, Null)
      /\ Alike(r, V!New(r, v, i), v)
  BY <1>2, <1>4, <1>6, <1>7, LooseStep
<1>9. V!New(r, v, i).m = n
  BY <1>2, StateOf
<1>. QED BY <1>4, <1>5, <1>8, <1>9

LEMMA VariantDead ==
  ASSUME ToldApart, NEW r, NEW s, Loose(r, s), NEW v \in Slots, s[v] = Null
  PROVE  /\ \E t : Loose(V!Dead(r, v), t) /\ Becomes(s, t, v, Gone)
         /\ Alike(r, V!Dead(r, v), v)
<1> DEFINE n == Deallocate(r.m, v, 1)
<1>1. v \in Blocks /\ Filled(r.m, s) /\ r.o \in [Blocks -> V!Members \cup {Gone}]
  BY LooseOf
<1>2. V!Dead(r, v) = At(n, Changed(r.o, v, Gone))
  BY <1>1, BornDead, VariantHolder
<1>3. n = With(r.m, v, CellOf(Gone))
  BY <1>1, FilledOperations
<1>4. PICK t : Filled(n, t) /\ Becomes(s, t, v, Gone)
  BY <1>1, <1>3, FilledWith
<1> HIDE DEF n
<1>5. t[v] = Gone /\ \A w \in Slots : w # v => (t[w] = Gone <=> s[w] = Gone)
  BY <1>4 DEF Becomes
<1>6. Loose(V!Dead(r, v), t) /\ Alike(r, V!Dead(r, v), v)
  BY <1>2, <1>4, <1>5, LooseStep
<1>. QED BY <1>4, <1>6

LEMMA VariantMember ==
  ASSUME ToldApart, NEW r, NEW s, Loose(r, s), NEW v \in Slots, s[v] # Gone
  PROVE  /\ \A i \in Kinds :
              /\ Loose(V!SetIndex(r, v, i), s)
              /\ V!SetIndex(r, v, i).m = r.m
              /\ V!SetIndex(r, v, i).o[v] = Pair(i, r.o[v].handler)
              /\ Alike(r, V!SetIndex(r, v, i), v)
         /\ \A h \in Kinds \cup {Null} :
              /\ Loose(V!SetHandler(r, v, h), s)
              /\ V!SetHandler(r, v, h).m = r.m
              /\ V!SetHandler(r, v, h).o[v] = Pair(r.o[v].index, h)
              /\ Alike(r, V!SetHandler(r, v, h), v)
<1>1. /\ v \in Blocks /\ Filled(r.m, s) /\ r.o \in [Blocks -> V!Members \cup {Gone}]
      /\ r.o[v] \in V!Members /\ r.o[v].index \in Kinds /\ r.o[v].handler \in Kinds \cup {Null}
      /\ r.o[v] = Pair(r.o[v].index, r.o[v].handler)
  BY LooseOf, PairMembers
<1>2. r = At(r.m, r.o)
  BY DEF Loose
<1>3. ASSUME NEW x \in V!Members
      PROVE  /\ Loose(At(r.m, Changed(r.o, v, x)), s)
             /\ At(r.m, Changed(r.o, v, x)).o[v] = x
             /\ Alike(r, At(r.m, Changed(r.o, v, x)), v)
             /\ At(r.m, Changed(r.o, v, x)).m = r.m
  BY <1>1, <1>3, LooseStep, StateOf DEF ToldApart
<1>4. ASSUME NEW i \in Kinds
      PROVE  V!SetIndex(r, v, i) = At(r.m, Changed(r.o, v, Pair(i, r.o[v].handler)))
  <2>1. V!SetIndex(r, v, i) = At(r.m, [r.o EXCEPT ![v].index = i])
    BY <1>2 DEF V!SetIndex, At
  <2>2. [r.o[v] EXCEPT !.index = i] = Pair(i, r.o[v].handler)
    BY <1>1 DEF Pair
  <2> QED BY <2>1, <2>2 DEF Changed
<1>5. ASSUME NEW h \in Kinds \cup {Null}
      PROVE  V!SetHandler(r, v, h) = At(r.m, Changed(r.o, v, Pair(r.o[v].index, h)))
  <2>1. V!SetHandler(r, v, h) = At(r.m, [r.o EXCEPT ![v].handler = h])
    BY <1>2 DEF V!SetHandler, At
  <2>2. [r.o[v] EXCEPT !.handler = h] = Pair(r.o[v].index, h)
    BY <1>1 DEF Pair
  <2> QED BY <2>1, <2>2 DEF Changed
<1>6. ASSUME NEW i \in Kinds PROVE Pair(i, r.o[v].handler) \in V!Members
  BY <1>1, PairMembers
<1>7. ASSUME NEW h \in Kinds \cup {Null} PROVE Pair(r.o[v].index, h) \in V!Members
  BY <1>1, PairMembers
<1>. QED BY <1>3, <1>4, <1>5, <1>6, <1>7

(* The memory changes and no member does.                                  *)
LEMMA LooseMemory ==
  ASSUME ToldApart, NEW r, NEW s, Loose(r, s), NEW n, NEW t, Filled(n, t),
         \A w \in Slots : t[w] = Gone <=> s[w] = Gone
  PROVE  Loose([r EXCEPT !.m = n], t) /\ [r EXCEPT !.m = n] = At(n, r.o)
<1>1. r = At(r.m, r.o)
  BY DEF Loose
<1>2. [r EXCEPT !.m = n] = At(n, r.o)
  BY <1>1 DEF At
<1>3. Loose(At(n, r.o), t)
  BY StateOf DEF Loose
<1>. QED BY <1>2, <1>3

LEMMA VariantConstruct ==
  ASSUME ToldApart, NEW r, NEW s, Loose(r, s), NEW v \in Slots, s[v] = Null,
         NEW a, NEW x \in Values \cup {Moved}, Names(r.m, a, x)
  PROVE  LET q == [r EXCEPT !.m = V!ConstructIn(@, v, a)]
         IN q.o = r.o /\ \E t : Loose(q, t) /\ Becomes(s, t, v, x)
<1> DEFINE n == ConstructIn(r.m, v, a)
<1>1. Filled(r.m, s)
  BY DEF Loose
<1>2. n = With(r.m, v, CellOf(x))
  BY <1>1, FilledOperations
<1>3. PICK t : Filled(n, t) /\ Becomes(s, t, v, x)
  BY <1>1, <1>2, FilledWith
<1> HIDE DEF n
<1>4. \A w \in Slots : t[w] = Gone <=> s[w] = Gone
  BY <1>3 DEF Becomes, ToldApart
<1>5. Loose([r EXCEPT !.m = n], t) /\ [r EXCEPT !.m = n] = At(n, r.o)
  BY <1>3, <1>4, LooseMemory
<1>6. [r EXCEPT !.m = V!ConstructIn(@, v, a)] = At(n, r.o)
  BY <1>5, VariantHolder DEF n
<1>. QED BY <1>3, <1>5, <1>6, StateOf

(* An object that there is is destroyed, whatever its type.                *)
LEMMA VariantDestroy ==
  ASSUME ToldApart, NEW r, NEW s, Loose(r, s), NEW v \in Slots, s[v] # Gone,
         r.o[v].handler = Null <=> s[v] = Null
  PROVE  LET q == V!DestroyStorage(r, v)
         IN /\ q.o = r.o
            /\ \E t : Loose(q, t) /\ Becomes(s, t, v, Null)
            /\ \A a, x : Names(r.m, a, x) /\ a # Value(v) => Names(q.m, a, x)
<1>1. s \in Pictures /\ Filled(r.m, s)
  BY DEF Loose, Filled
<1>2. CASE s[v] = Null
  <2>1. V!DestroyStorage(r, v) = r
    BY <1>2 DEF V!DestroyStorage
  <2>2. Becomes(s, s, v, Null)
    BY <1>1, <1>2 DEF Becomes
  <2> QED BY <2>1, <2>2
<1>3. CASE s[v] # Null
  <2> DEFINE n == DestroyIn(r.m, v)
  <2>1. s[v] \in Values \cup {Moved}
    BY <1>1, <1>3 DEF Pictures
  <2>2. n = With(r.m, v, CellOf(Null))
    BY <1>1, <2>1, FilledOperations
  <2>3. PICK t : Filled(n, t) /\ Becomes(s, t, v, Null)
    BY <1>1, <2>2, FilledWith
  <2>4. \A a, x : Names(r.m, a, x) /\ a # Value(v) => Names(n, a, x)
    BY <1>1, <2>2, FilledNames
  <2> HIDE DEF n
  <2>5. \A w \in Slots : t[w] = Gone <=> s[w] = Gone
    BY <2>3 DEF Becomes, ToldApart
  <2>6. Loose([r EXCEPT !.m = n], t) /\ [r EXCEPT !.m = n] = At(n, r.o)
    BY <2>3, <2>5, LooseMemory
  <2>7. V!DestroyStorage(r, v) = At(n, r.o)
    BY <1>3, <2>6, VariantHolder DEF V!DestroyStorage, n
  <2> QED BY <2>3, <2>4, <2>6, <2>7, StateOf
<1>. QED BY <1>2, <1>3

(* A copy of the object of w takes the place of the object of v.           *)
LEMMA VariantCopy ==
  ASSUME ToldApart, NEW r, NEW s, Loose(r, s), NEW v \in Slots, NEW w \in Slots, v # w,
         s[v] # Gone, r.o[v].handler = Null <=> s[v] = Null,
         s[w] \in Values \cup {Moved}
  PROVE  LET q == V!CopyStorage(r, v, w)
         IN /\ q.o[v] = Pair(r.o[v].index, r.o[w].handler) /\ Alike(r, q, v)
            /\ \E t : Loose(q, t) /\ Becomes(s, t, v, s[w])
<1> DEFINE p == V!DestroyStorage(r, v)
           q == [p EXCEPT !.m = V!ConstructIn(@, v, Value(w))]
<1>1. PICK k : Loose(p, k) /\ Becomes(s, k, v, Null)
  BY VariantDestroy
<1>2. /\ p.o = r.o
      /\ \A a, x : Names(r.m, a, x) /\ a # Value(v) => Names(p.m, a, x)
  BY VariantDestroy
<1> HIDE DEF p
<1>3. Names(p.m, Value(w), s[w])
  <2>1. Names(r.m, Value(w), s[w])
    BY FilledOperations DEF Loose
  <2>2. Value(w) # Value(v)
    BY DEF Value, Ref
  <2> QED BY <1>2, <2>1, <2>2
<1>4. k[v] = Null /\ k[w] = s[w] /\ k[w] # Gone /\ s[w] # Gone
  BY <1>1 DEF Becomes, ToldApart
<1>5. q.o = p.o /\ \E t : Loose(q, t) /\ Becomes(k, t, v, s[w])
  BY <1>1, <1>3, <1>4, VariantConstruct
<1>6. PICK t : Loose(q, t) /\ Becomes(k, t, v, s[w])
  BY <1>5
<1> HIDE DEF q
<1>7. t[v] # Gone /\ r.o[w].handler \in Kinds \cup {Null}
  BY <1>4, <1>6, LooseOf, PairMembers DEF Becomes
<1>8. V!CopyStorage(r, v, w) = V!SetHandler(q, v, r.o[w].handler)
  BY VariantCells DEF V!CopyStorage, p, q
<1>9. /\ Loose(V!SetHandler(q, v, r.o[w].handler), t)
      /\ V!SetHandler(q, v, r.o[w].handler).o[v] = Pair(q.o[v].index, r.o[w].handler)
      /\ Alike(q, V!SetHandler(q, v, r.o[w].handler), v)
  BY <1>6, <1>7, VariantMember
<1>10. Becomes(s, t, v, s[w])
  BY <1>1, <1>6 DEF Becomes
<1>. QED BY <1>2, <1>5, <1>8, <1>9, <1>10 DEF Alike

(* The same by a move, after which the object of w has given its value     *)
(* away.                                                                   *)
LEMMA VariantMove ==
  ASSUME ToldApart, NEW r, NEW s, Loose(r, s), NEW v \in Slots, NEW w \in Slots, v # w,
         s[v] # Gone, r.o[v].handler = Null <=> s[v] = Null,
         s[w] \in Values \cup {Moved}
  PROVE  LET q == V!MoveStorage(r, v, w)
         IN /\ q.o[v] = Pair(r.o[v].index, r.o[w].handler) /\ Alike(r, q, v)
            /\ \E t : /\ Loose(q, t) /\ t[v] = s[w] /\ t[w] = Moved
                      /\ \A u \in Slots : u # v /\ u # w => t[u] = s[u]
<1> DEFINE p == V!CopyStorage(r, v, w)
           n == MoveFrom(p.m, w, 0, 1)
<1>1. PICK k : Loose(p, k) /\ Becomes(s, k, v, s[w])
  BY VariantCopy
<1>2. p.o[v] = Pair(r.o[v].index, r.o[w].handler) /\ Alike(r, p, v)
  BY VariantCopy
<1> HIDE DEF p
<1>3. k[w] = s[w] /\ Filled(p.m, k)
  BY <1>1 DEF Becomes, Loose
<1>4. n = With(p.m, w, CellOf(Moved))
  BY <1>3, FilledOperations
<1>5. PICK t : Filled(n, t) /\ Becomes(k, t, w, Moved)
  BY <1>3, <1>4, FilledWith
<1> HIDE DEF n
<1>6. \A u \in Slots : t[u] = Gone <=> k[u] = Gone
  BY <1>3, <1>5 DEF Becomes, ToldApart
<1>7. Loose([p EXCEPT !.m = n], t) /\ [p EXCEPT !.m = n] = At(n, p.o)
  BY <1>1, <1>5, <1>6, LooseMemory
<1>8. V!MoveStorage(r, v, w) = At(n, p.o)
  BY <1>7, VariantCells DEF V!MoveStorage, p, n
<1>9. /\ t[v] = s[w] /\ t[w] = Moved
      /\ \A u \in Slots : u # v /\ u # w => t[u] = s[u]
  BY <1>1, <1>5 DEF Becomes
<1>. QED BY <1>2, <1>7, <1>8, <1>9, StateOf DEF Alike

(* Between calls index and handler are the type of the object, and there   *)
(* is an object.                                                           *)
Fits(x, y) == y # Gone => y # Null /\ x.handler = x.index /\ (y \in Values => Kind(y) = x.index)

HoldsVariant(r, s) == Loose(r, s) /\ \A v \in Slots : Fits(r.o[v], s[v])

LEMMA VariantOf ==
  ASSUME ToldApart, NEW r, NEW s, HoldsVariant(r, s), NEW v \in Slots
  PROVE  /\ v \in Blocks /\ s \in Pictures /\ Loose(r, s) /\ Filled(r.m, s)
         /\ s[v] = Gone <=> r.o[v] = Gone
         /\ s[v] # Gone =>
              /\ s[v] \in Values \cup {Moved} /\ s[v] # Null
              /\ r.o[v] \in V!Members /\ r.o[v].handler = r.o[v].index
              /\ r.o[v].index \in Kinds /\ r.o[v].handler # Null
              /\ r.o[v] = Pair(r.o[v].index, r.o[v].index)
              /\ (s[v] \in Values => Kind(s[v]) = r.o[v].index)
<1>1. /\ v \in Blocks /\ s \in Pictures /\ Loose(r, s) /\ Filled(r.m, s)
      /\ s[v] = Gone <=> r.o[v] = Gone
      /\ s[v] # Gone => r.o[v] \in V!Members
  BY LooseOf DEF HoldsVariant
<1>2. ASSUME s[v] # Gone
      PROVE  /\ s[v] \in Values \cup {Moved} /\ s[v] # Null
             /\ r.o[v] \in V!Members /\ r.o[v].handler = r.o[v].index
             /\ r.o[v].index \in Kinds /\ r.o[v].handler # Null
             /\ r.o[v] = Pair(r.o[v].index, r.o[v].index)
             /\ (s[v] \in Values => Kind(s[v]) = r.o[v].index)
  <2>1. /\ s[v] # Null /\ r.o[v].handler = r.o[v].index
        /\ (s[v] \in Values => Kind(s[v]) = r.o[v].index)
    BY <1>2 DEF HoldsVariant, Fits
  <2>2. r.o[v].index \in Kinds /\ r.o[v] = Pair(r.o[v].index, r.o[v].handler)
    BY <1>1, <1>2, PairMembers
  <2> QED BY <1>1, <1>2, <2>1, <2>2 DEF Pictures, ToldApart
<1>. QED BY <1>1, <1>2

(* One variable has changed and fits.                                      *)
LEMMA VariantFits ==
  ASSUME NEW r, NEW s, HoldsVariant(r, s), NEW v \in Slots, NEW q, NEW t, Loose(q, t),
         Alike(r, q, v), \A u \in Slots : u # v => t[u] = s[u], Fits(q.o[v], t[v])
  PROVE  HoldsVariant(q, t)
<1>1. ASSUME NEW u \in Slots, u # v PROVE Fits(q.o[u], t[u])
  <2>1. q.o[u] = r.o[u] /\ t[u] = s[u] /\ Fits(r.o[u], s[u])
    BY <1>1, SlotsAndNodes DEF Alike, HoldsVariant
  <2> QED BY <2>1
<1>. QED BY <1>1 DEF HoldsVariant

(* The value a of a type that the index names is put where no object is.   *)
LEMMA VariantSetAs ==
  ASSUME ToldApart, NEW r, NEW s, Loose(r, s), NEW v \in Slots, s[v] = Null,
         NEW a, NEW x \in Values, Names(r.m, a, x), r.o[v].index = Kind(x)
  PROVE  /\ \E t : Loose(V!SetAs(r, v, a), t) /\ Becomes(s, t, v, x)
         /\ V!SetAs(r, v, a).o[v] = Pair(Kind(x), Kind(x))
         /\ Alike(r, V!SetAs(r, v, a), v)
<1> DEFINE q == [r EXCEPT !.m = V!ConstructIn(@, v, a)]
<1>1. q.o = r.o /\ \E t : Loose(q, t) /\ Becomes(s, t, v, x)
  BY VariantConstruct
<1>2. PICK t : Loose(q, t) /\ Becomes(s, t, v, x)
  BY <1>1
<1> HIDE DEF q
<1>3. V!Read(r.m, a) = x /\ r.m \in Memories
  BY NamesReads, VariantCells DEF Reads, Loose, Filled
<1>4. V!SetAs(r, v, a) = V!SetHandler(q, v, Kind(x))
  BY <1>3, VariantHolder DEF V!SetAs, q
<1>5. t[v] # Gone /\ Kind(x) \in Kinds
  BY <1>2 DEF Becomes, ToldApart, Kind, Kinds
<1>6. /\ Loose(V!SetHandler(q, v, Kind(x)), t)
      /\ V!SetHandler(q, v, Kind(x)).o[v] = Pair(q.o[v].index, Kind(x))
      /\ Alike(q, V!SetHandler(q, v, Kind(x)), v)
  BY <1>2, <1>5, VariantMember
<1>. QED BY <1>1, <1>2, <1>4, <1>6 DEF Alike

LEMMA PairFits ==
  ASSUME ToldApart, NEW i \in Kinds, NEW y, y # Null, y \in Values => Kind(y) = i
  PROVE  Fits(Pair(i, i), y)
<1>1. Pair(i, i).index = i /\ Pair(i, i).handler = i
  BY PairMembers
<1>. QED BY <1>1 DEF Fits

-----------------------------------------------------------------------------
(* The calls of variant.                                                   *)
VariantAfter(s) ==
  \E t : HoldsVariant(At(mem', obj'), t) /\ Settled(t) /\ Outcome(s, t)

LEMMA VariantEnded ==
  ASSUME NEW s, NEW r, NEW t, HoldsVariant(r, t), NEW what, NEW x, NEW threw,
         V!Ends(r, what, x, threw)
  PROVE  HoldsVariant(At(mem', obj'), t) /\ Said(what, x, threw)
<1>1. mem' = r.m /\ obj' = r.o /\ Said(what, x, threw)
  BY DEF V!Ends, Said
<1>2. At(mem', obj') = r
  BY <1>1 DEF HoldsVariant, Loose
<1>. QED BY <1>1, <1>2

LEMMA VariantStart ==
  ASSUME ToldApart, NEW s, HoldsVariant(Now, s), Settled(s), NEW v \in Variables
  PROVE  /\ Now.m = mem /\ Now.o = obj /\ s \in Pictures /\ V!Now = Now /\ Loose(Now, s)
         /\ v \in Slots /\ v # Temp /\ v # Spare /\ Temp \in Slots /\ Spare \in Slots
         /\ s[Temp] = Gone /\ s[Spare] = Gone /\ Temp # Spare
         /\ V!Unborn(v) => s[v] = Gone
         /\ V!Alive(v) =>
              /\ s[v] # Gone /\ s[v] # Null /\ s[v] \in Values \cup {Moved}
              /\ obj[v].index \in Kinds /\ obj[v].handler # Null
              /\ obj[v].handler = obj[v].index /\ obj[v] = Pair(obj[v].index, obj[v].index)
              /\ (s[v] \in Values => Kind(s[v]) = obj[v].index)
<1>1. Now.m = mem /\ Now.o = obj
  BY StateOf DEF Now
<1>2. v \in Slots /\ v # Temp /\ v # Spare /\ Temp \in Slots /\ Spare \in Slots /\ Temp # Spare
  BY SlotsAndNodes
<1>3. Loose(Now, s) /\ s \in Pictures /\ s[Temp] = Gone /\ s[Spare] = Gone
  BY DEF HoldsVariant, Settled
<1>4. V!Unborn(v) => s[v] = Gone
  BY <1>1, <1>2, VariantOf DEF V!Unborn
<1>5. ASSUME V!Alive(v)
      PROVE  /\ s[v] # Gone /\ s[v] # Null /\ s[v] \in Values \cup {Moved}
             /\ obj[v].index \in Kinds /\ obj[v].handler # Null
             /\ obj[v].handler = obj[v].index /\ obj[v] = Pair(obj[v].index, obj[v].index)
             /\ (s[v] \in Values => Kind(s[v]) = obj[v].index)
  <2>1. s[v] # Gone
    BY <1>1, <1>2, <1>5, VariantOf DEF V!Alive
  <2> QED BY <1>1, <1>2, <2>1, VariantOf
<1>. QED BY <1>1, <1>2, <1>3, <1>4, <1>5, VariantHolder

(* What a call is given, of a variant.                                     *)
LEMMA VariantGivenHeld ==
  ASSUME ToldApart, NEW s, HoldsVariant(Now, s), NEW a \in V!Given
  PROVE  \E x \in Values : Names(Now.m, a, x) /\ V!Read(mem, a) = x
<1>1. Now.m = mem /\ Filled(mem, s) /\ mem \in Memories /\ a \in Given
  BY StateOf, VariantHolder DEF HoldsVariant, Loose, Now, Filled
<1>2. ASSUME NEW x \in Values, Names(mem, a, x) PROVE V!Read(mem, a) = x
  BY <1>1, <1>2, NamesReads, VariantCells DEF Reads
<1>3. CASE a \in Values
  <2>1. Names(mem, a, a)
    BY <1>3, CellAssumption DEF Names, Cells
  <2> QED BY <1>1, <1>2, <1>3, <2>1
<1>4. CASE a \notin Values
  <2>1. PICK b \in Blocks : a = Value(b) /\ mem.cells[b] # Nothing /\ mem.cells[b][1] \in Values
    BY <1>1, <1>4 DEF Given, Held, Allocated, Nothing
  <2>2. b \in Slots
    BY <1>1, <2>1, SlotsAndNodes DEF Filled
  <2>3. mem.cells[b] = CellOf(s[b]) /\ s[b] \in Values \cup {Moved, Null, Gone}
    BY <1>1, <2>2 DEF Filled, Pictures
  <2>4. s[b] \in Values /\ mem.cells[b] = One(s[b])
    <3>1. Raw \notin Values /\ One(Raw)[1] = Raw /\ Moved \notin Values
          /\ One(Moved)[1] = Moved
      BY OneCell, CellAssumption
    <3> QED BY <2>1, <2>3, <3>1, CellsOf
  <2>5. Names(mem, a, s[b])
    BY <2>1, <2>4, CellAssumption DEF Names, Cells
  <2> QED BY <1>1, <1>2, <2>4, <2>5
<1>. QED BY <1>3, <1>4

LEMMA VariantValueConstruct ==
  ASSUME ToldApart, NEW s, HoldsVariant(Now, s), Settled(s), NEW v \in Variables,
         NEW a \in V!Given, V!ValueConstruct(v, a)
  PROVE  VariantAfter(s)
<1>1. PICK x \in Values : Names(Now.m, a, x) /\ V!Read(mem, a) = x
  BY VariantGivenHeld
<1> DEFINE new == V!New(Now, v, Kind(x))
<1>2. /\ s[v] = Gone /\ v \in Slots /\ Loose(Now, s) /\ Kind(x) \in Kinds
      /\ x # Null /\ s[Temp] = Gone /\ s[Spare] = Gone /\ v # Temp /\ v # Spare
      /\ Temp \in Slots /\ Spare \in Slots
  BY <1>1, VariantStart DEF V!ValueConstruct, ToldApart, Kind, Kinds
<1>3. \/ V!Ends(V!SetAs(new, v, a), "construct", x, FALSE)
      \/ V!Ends(V!Dead(new, v), "construct", x, TRUE)
  BY <1>1, VariantStart, VariantHolder DEF V!ValueConstruct
<1>4. PICK k : Loose(new, k) /\ Becomes(s, k, v, Null)
  BY <1>2, VariantNew
<1>5. new.o[v] = Pair(Kind(x), Null) /\ Alike(Now, new, v) /\ Names(new.m, a, x)
  BY <1>1, <1>2, VariantNew
<1>6. k[v] = Null /\ new.o[v].index = Kind(x)
  BY <1>2, <1>4, <1>5, PairMembers DEF Becomes
<1> HIDE DEF new
<1>7. CASE V!Ends(V!SetAs(new, v, a), "construct", x, FALSE)
  <2>1. PICK t : Loose(V!SetAs(new, v, a), t) /\ Becomes(k, t, v, x)
    BY <1>1, <1>2, <1>4, <1>5, <1>6, VariantSetAs
  <2>2. /\ V!SetAs(new, v, a).o[v] = Pair(Kind(x), Kind(x))
        /\ Alike(new, V!SetAs(new, v, a), v)
    BY <1>1, <1>2, <1>4, <1>5, <1>6, VariantSetAs
  <2>3. Becomes(s, t, v, x) /\ Alike(Now, V!SetAs(new, v, a), v)
    BY <1>4, <1>5, <2>1, <2>2 DEF Becomes, Alike
  <2>4. Fits(V!SetAs(new, v, a).o[v], t[v])
    BY <1>2, <2>2, <2>3, PairFits DEF Becomes
  <2>5. HoldsVariant(V!SetAs(new, v, a), t)
    BY <1>2, <2>1, <2>3, <2>4, VariantFits DEF Becomes
  <2>6. HoldsVariant(At(mem', obj'), t) /\ Said("construct", x, FALSE)
    BY <1>7, <2>5, VariantEnded
  <2>7. Settled(t) /\ Beginning(s, t, v)
    BY <1>2, <2>3, <2>6, SlotsAndNodes DEF Settled, Becomes, Beginning
  <2> QED BY <2>6, <2>7 DEF VariantAfter, Outcome
<1>8. CASE V!Ends(V!Dead(new, v), "construct", x, TRUE)
  <2>1. PICK t : Loose(V!Dead(new, v), t) /\ Becomes(k, t, v, Gone)
    BY <1>2, <1>4, <1>6, VariantDead
  <2>2. Alike(new, V!Dead(new, v), v)
    BY <1>2, <1>4, <1>6, VariantDead
  <2>3. Becomes(s, t, v, Gone) /\ Alike(Now, V!Dead(new, v), v)
    BY <1>4, <1>5, <2>1, <2>2 DEF Becomes, Alike
  <2>4. HoldsVariant(V!Dead(new, v), t)
    BY <1>2, <2>1, <2>3, VariantFits DEF Becomes, Fits
  <2>5. HoldsVariant(At(mem', obj'), t) /\ Said("construct", x, TRUE)
    BY <1>8, <2>4, VariantEnded
  <2>6. Settled(t) /\ Refusing(s, t)
    BY <1>2, <2>3, <2>5, SlotsAndNodes DEF Settled, Becomes, Refusing
  <2> QED BY <2>5, <2>6 DEF VariantAfter, Outcome
<1>. QED BY <1>3, <1>7, <1>8

LEMMA VariantDefaultConstruct ==
  ASSUME ToldApart, NEW s, HoldsVariant(Now, s), Settled(s), NEW v \in Variables,
         V!DefaultConstruct(v)
  PROVE  VariantAfter(s)
<1>1. Default \in V!Given
  BY ValuesAssumption, HolderAssumption DEF V!Given
<1>. QED BY <1>1, VariantValueConstruct DEF V!DefaultConstruct

LEMMA VariantCopyConstruct ==
  ASSUME ToldApart, NEW s, HoldsVariant(Now, s), Settled(s), NEW v \in Variables,
         NEW w \in Variables, V!CopyConstruct(v, w)
  PROVE  VariantAfter(s)
<1> DEFINE i == obj[w].index
           new == V!New(Now, v, i)
<1>1. /\ s[v] = Gone /\ v \in Slots /\ w \in Slots /\ Loose(Now, s) /\ i \in Kinds /\ v # w
      /\ s[w] # Gone /\ s[w] # Null /\ s[w] \in Values \cup {Moved}
      /\ obj[w].handler = i /\ obj[w] = Pair(i, i) /\ (s[w] \in Values => Kind(s[w]) = i)
      /\ Now.o = obj /\ V!Now = Now
      /\ s[Temp] = Gone /\ s[Spare] = Gone /\ v # Temp /\ v # Spare
      /\ Temp \in Slots /\ Spare \in Slots /\ i # Null
  BY VariantStart DEF V!CopyConstruct
<1>2. \/ V!Ends(V!CopyStorage(new, v, w), "copy", Null, FALSE)
      \/ V!Ends(V!Dead(V!CopyStorageFails(new, v, w), v), "copy", Null, TRUE)
  BY <1>1 DEF V!CopyConstruct
<1>3. PICK k : Loose(new, k) /\ Becomes(s, k, v, Null)
  BY <1>1, VariantNew
<1>4. new.o[v] = Pair(i, Null) /\ Alike(Now, new, v)
  BY <1>1, VariantNew
<1>5. /\ k[v] = Null /\ k[w] = s[w] /\ k[v] # Gone
      /\ new.o[v].index = i /\ new.o[v].handler = Null
      /\ new.o[w].handler = i
  <2>1. new.o[w] = obj[w]
    BY <1>1, <1>4, SlotsAndNodes DEF Alike
  <2>2. Null # Gone
    BY DEF ToldApart
  <2> HIDE DEF i, new
  <2> QED BY <1>1, <1>3, <1>4, <2>1, <2>2, PairMembers DEF Becomes
<1> HIDE DEF new, i
<1>6. CASE V!Ends(V!CopyStorage(new, v, w), "copy", Null, FALSE)
  <2>1. PICK t : Loose(V!CopyStorage(new, v, w), t) /\ Becomes(k, t, v, s[w])
    BY <1>1, <1>3, <1>5, VariantCopy
  <2>2. /\ V!CopyStorage(new, v, w).o[v] = Pair(i, i)
        /\ Alike(new, V!CopyStorage(new, v, w), v)
    BY <1>1, <1>3, <1>5, VariantCopy
  <2>3. Becomes(s, t, v, s[w]) /\ Alike(Now, V!CopyStorage(new, v, w), v)
    BY <1>3, <1>4, <2>1, <2>2 DEF Becomes, Alike
  <2>4. Fits(V!CopyStorage(new, v, w).o[v], t[v])
    BY <1>1, <2>2, <2>3, PairFits DEF Becomes
  <2>5. HoldsVariant(V!CopyStorage(new, v, w), t)
    BY <1>1, <2>1, <2>3, <2>4, VariantFits DEF Becomes
  <2>6. HoldsVariant(At(mem', obj'), t) /\ Said("copy", Null, FALSE)
    BY <1>6, <2>5, VariantEnded
  <2>7. Settled(t) /\ Copying(s, t, v, w)
    BY <1>1, <2>3, <2>6, SlotsAndNodes DEF Settled, Becomes, Copying
  <2> QED BY <2>6, <2>7 DEF VariantAfter, Outcome
<1>7. CASE V!Ends(V!Dead(V!CopyStorageFails(new, v, w), v), "copy", Null, TRUE)
  <2> DEFINE failed == V!CopyStorageFails(new, v, w)
  <2>1. failed = V!SetHandler(new, v, i)
    BY <1>5 DEF V!CopyStorageFails, V!DestroyStorage
  <2>2. Loose(failed, k) /\ Alike(new, failed, v)
    BY <1>1, <1>3, <1>5, <2>1, VariantMember
  <2> HIDE DEF failed
  <2>3. PICK t : Loose(V!Dead(failed, v), t) /\ Becomes(k, t, v, Gone)
    BY <1>1, <1>5, <2>2, VariantDead
  <2>4. Alike(failed, V!Dead(failed, v), v)
    BY <1>1, <1>5, <2>2, VariantDead
  <2>5. Becomes(s, t, v, Gone) /\ Alike(Now, V!Dead(failed, v), v)
    BY <1>3, <1>4, <2>2, <2>3, <2>4 DEF Becomes, Alike
  <2>6. HoldsVariant(V!Dead(failed, v), t)
    BY <1>1, <2>3, <2>5, VariantFits DEF Becomes, Fits
  <2>7. HoldsVariant(At(mem', obj'), t) /\ Said("copy", Null, TRUE)
    BY <1>7, <2>6, VariantEnded DEF failed
  <2>8. Settled(t) /\ Refusing(s, t)
    BY <1>1, <2>5, <2>7, SlotsAndNodes DEF Settled, Becomes, Refusing
  <2> QED BY <2>7, <2>8 DEF VariantAfter, Outcome
<1>. QED BY <1>2, <1>6, <1>7

LEMMA VariantMoveConstruct ==
  ASSUME ToldApart, NEW s, HoldsVariant(Now, s), Settled(s), NEW v \in Variables,
         NEW w \in Variables, V!MoveConstruct(v, w)
  PROVE  VariantAfter(s)
<1> DEFINE i == obj[w].index
           new == V!New(Now, v, i)
           q == V!MoveStorage(new, v, w)
<1>1. /\ s[v] = Gone /\ v \in Slots /\ w \in Slots /\ Loose(Now, s) /\ i \in Kinds /\ v # w
      /\ s[w] # Gone /\ s[w] # Null /\ s[w] \in Values \cup {Moved}
      /\ obj[w].handler = i /\ obj[w] = Pair(i, i) /\ (s[w] \in Values => Kind(s[w]) = i)
      /\ Now.o = obj /\ V!Now = Now
      /\ s[Temp] = Gone /\ s[Spare] = Gone /\ v # Temp /\ v # Spare /\ w # Temp /\ w # Spare
      /\ Temp \in Slots /\ Spare \in Slots /\ i # Null
  BY VariantStart DEF V!MoveConstruct
<1>2. V!Ends(q, "take", Null, FALSE)
  BY <1>1 DEF V!MoveConstruct
<1>3. PICK k : Loose(new, k) /\ Becomes(s, k, v, Null)
  BY <1>1, VariantNew
<1>4. new.o[v] = Pair(i, Null) /\ Alike(Now, new, v)
  BY <1>1, VariantNew
<1>5. /\ k[v] = Null /\ k[w] = s[w] /\ k[v] # Gone
      /\ new.o[v].index = i /\ new.o[v].handler = Null
      /\ new.o[w].handler = i /\ new.o[w] = Pair(i, i)
  <2>1. new.o[w] = obj[w]
    BY <1>1, <1>4, SlotsAndNodes DEF Alike
  <2>2. Null # Gone
    BY DEF ToldApart
  <2> HIDE DEF i, new
  <2> QED BY <1>1, <1>3, <1>4, <2>1, <2>2, PairMembers DEF Becomes
<1> HIDE DEF new, i
<1>6. PICK t : /\ Loose(q, t) /\ t[v] = s[w] /\ t[w] = Moved
               /\ \A u \in Slots : u # v /\ u # w => t[u] = k[u]
  BY <1>1, <1>3, <1>5, VariantMove
<1>7. q.o[v] = Pair(i, i) /\ Alike(new, q, v)
  BY <1>1, <1>3, <1>5, VariantMove
<1> HIDE DEF q
<1>8. \A u \in Slots : u # v /\ u # w => t[u] = s[u]
  BY <1>3, <1>6 DEF Becomes
<1>9. Fits(q.o[v], t[v]) /\ Fits(q.o[w], t[w])
  <2>1. q.o[w] = Pair(i, i)
    BY <1>1, <1>5, <1>7, SlotsAndNodes DEF Alike
  <2>2. Moved # Null /\ Moved \notin Values
    BY CellAssumption DEF ToldApart
  <2> QED BY <1>1, <1>6, <1>7, <2>1, <2>2, PairFits
<1>10. HoldsVariant(q, t)
  <2>1. ASSUME NEW u \in Slots, u # v, u # w PROVE Fits(q.o[u], t[u])
    <3>1. q.o[u] = Now.o[u] /\ t[u] = s[u] /\ Fits(Now.o[u], s[u])
      BY <1>4, <1>7, <1>8, <2>1, SlotsAndNodes DEF Alike, HoldsVariant
    <3> QED BY <3>1
  <2> QED BY <1>6, <1>9, <2>1 DEF HoldsVariant
<1>11. HoldsVariant(At(mem', obj'), t) /\ Said("take", Null, FALSE)
  BY <1>2, <1>10, VariantEnded
<1>12. Settled(t) /\ Taking(s, t, v, w)
  BY <1>1, <1>6, <1>8, <1>11, SlotsAndNodes DEF Settled, Taking, Loose, Filled
<1>. QED BY <1>11, <1>12 DEF VariantAfter, Outcome

LEMMA VariantDestruct ==
  ASSUME ToldApart, NEW s, HoldsVariant(Now, s), Settled(s), NEW v \in Variables, V!Destruct(v)
  PROVE  VariantAfter(s)
<1> DEFINE gone == V!DestroyStorage(Now, v)
<1>1. /\ s[v] # Gone /\ v \in Slots /\ Loose(Now, s) /\ Now.o[v].handler # Null /\ s[v] # Null
      /\ v # Temp /\ v # Spare /\ Temp \in Slots /\ Spare \in Slots
      /\ s[Temp] = Gone /\ s[Spare] = Gone
      /\ V!Ends(V!Dead(gone, v), "destroy", Null, FALSE)
  BY VariantStart DEF V!Destruct, V!Destructed
<1>2. gone.o = Now.o /\ \E k : Loose(gone, k) /\ Becomes(s, k, v, Null)
  BY <1>1, VariantDestroy
<1>3. PICK k : Loose(gone, k) /\ Becomes(s, k, v, Null)
  BY <1>2
<1> HIDE DEF gone
<1>4. k[v] = Null
  BY <1>3 DEF Becomes
<1>5. PICK t : Loose(V!Dead(gone, v), t) /\ Becomes(k, t, v, Gone)
  BY <1>1, <1>3, <1>4, VariantDead
<1>6. Alike(gone, V!Dead(gone, v), v)
  BY <1>1, <1>3, <1>4, VariantDead
<1>7. Becomes(s, t, v, Gone) /\ Alike(Now, V!Dead(gone, v), v)
  BY <1>2, <1>3, <1>5, <1>6 DEF Becomes, Alike
<1>8. HoldsVariant(V!Dead(gone, v), t)
  BY <1>1, <1>5, <1>7, VariantFits DEF Becomes, Fits
<1>9. HoldsVariant(At(mem', obj'), t) /\ Said("destroy", Null, FALSE)
  BY <1>1, <1>8, VariantEnded
<1>10. Settled(t) /\ Ending(s, t, v)
  BY <1>1, <1>7, <1>9, SlotsAndNodes DEF Settled, Becomes, Ending
<1>. QED BY <1>9, <1>10 DEF VariantAfter, Outcome

LEMMA VariantCopyAssign ==
  ASSUME ToldApart, ~AssignThrows, NEW s, HoldsVariant(Now, s), Settled(s),
         NEW v \in Variables, NEW w \in Variables, V!CopyAssign(v, w)
  PROVE  VariantAfter(s)
<1> DEFINE i == obj[w].index
           r == V!SetIndex(Now, v, i)
           q == V!CopyStorage(r, v, w)
<1>1. /\ s[v] # Gone /\ v \in Slots /\ w \in Slots /\ Loose(Now, s) /\ i \in Kinds
      /\ s[v] # Null /\ Now.o[v].handler # Null /\ Now.o[v].handler \in Kinds
      /\ s[w] # Gone /\ s[w] # Null /\ s[w] \in Values \cup {Moved}
      /\ obj[w].handler = i /\ obj[w] = Pair(i, i) /\ (s[w] \in Values => Kind(s[w]) = i)
      /\ Now.o = obj /\ V!Now = Now
      /\ s[Temp] = Gone /\ s[Spare] = Gone /\ v # Temp /\ v # Spare
      /\ Temp \in Slots /\ Spare \in Slots
  BY VariantStart DEF V!CopyAssign
<1>2. IF v = w THEN V!Ends(Now, "copy", Null, FALSE) ELSE V!Ends(q, "copy", Null, FALSE)
  BY <1>1 DEF V!CopyAssign
<1>3. CASE v = w
  <2>1. HoldsVariant(At(mem', obj'), s) /\ Said("copy", Null, FALSE)
    BY <1>2, <1>3, VariantEnded
  <2>2. Copying(s, s, v, w)
    BY <1>1, <1>3, <2>1 DEF Copying
  <2> QED BY <2>1, <2>2 DEF VariantAfter, Outcome
<1>4. CASE v # w
  <2>1. Loose(r, s) /\ r.o[v] = Pair(i, Now.o[v].handler) /\ Alike(Now, r, v)
    BY <1>1, VariantMember
  <2>2. r.o[v].index = i /\ r.o[v].handler # Null /\ r.o[w].handler = i
    <3>1. r.o[w] = obj[w]
      BY <1>1, <1>4, <2>1, SlotsAndNodes DEF Alike
    <3> HIDE DEF i, r
    <3> QED BY <1>1, <2>1, <3>1, PairMembers
  <2> HIDE DEF r, i
  <2>3. PICK t : Loose(q, t) /\ Becomes(s, t, v, s[w])
    BY <1>1, <1>4, <2>1, <2>2, VariantCopy
  <2>4. q.o[v] = Pair(i, i) /\ Alike(r, q, v)
    BY <1>1, <1>4, <2>1, <2>2, VariantCopy
  <2> HIDE DEF q
  <2>5. Alike(Now, q, v)
    BY <2>1, <2>4 DEF Alike
  <2>6. Fits(q.o[v], t[v])
    BY <1>1, <2>3, <2>4, PairFits DEF Becomes
  <2>7. HoldsVariant(q, t)
    BY <1>1, <2>3, <2>5, <2>6, VariantFits DEF Becomes
  <2>8. HoldsVariant(At(mem', obj'), t) /\ Said("copy", Null, FALSE)
    BY <1>2, <1>4, <2>7, VariantEnded
  <2>9. Settled(t) /\ Copying(s, t, v, w)
    BY <1>1, <2>3, <2>8, SlotsAndNodes DEF Settled, Becomes, Copying
  <2> QED BY <2>8, <2>9 DEF VariantAfter, Outcome
<1>. QED BY <1>3, <1>4

LEMMA VariantValueAssign ==
  ASSUME ToldApart, ~AssignThrows, ~AliasAssign, NEW s, HoldsVariant(Now, s), Settled(s),
         NEW v \in Variables, NEW a \in V!Given, V!ValueAssign(v, a)
  PROVE  VariantAfter(s)
<1>1. PICK x \in Values : Names(Now.m, a, x) /\ V!Read(mem, a) = x
  BY VariantGivenHeld
<1> DEFINE gone == V!DestroyStorage(Now, v)
           r == V!SetIndex(gone, v, Kind(x))
           q == V!SetAs(r, v, a)
<1>2. /\ s[v] # Gone /\ v \in Slots /\ Loose(Now, s) /\ Now.o[v].handler # Null /\ s[v] # Null
      /\ v # Temp /\ v # Spare /\ Temp \in Slots /\ Spare \in Slots
      /\ s[Temp] = Gone /\ s[Spare] = Gone /\ Kind(x) \in Kinds /\ x # Null
      /\ a # Value(v) /\ Null # Gone
  BY <1>1, VariantStart, VariantCells DEF V!ValueAssign, Kind, Kinds, ToldApart
<1>3. V!Ends(q, "set", x, FALSE)
  BY <1>1, <1>2, VariantStart, VariantHolder DEF V!ValueAssign
<1>4. /\ gone.o = Now.o /\ Names(gone.m, a, x)
      /\ \E k : Loose(gone, k) /\ Becomes(s, k, v, Null)
  BY <1>1, <1>2, VariantDestroy
<1>5. PICK k : Loose(gone, k) /\ Becomes(s, k, v, Null)
  BY <1>4
<1> HIDE DEF gone
<1>6. k[v] = Null /\ k[v] # Gone
  BY <1>2, <1>5 DEF Becomes
<1>7. /\ Loose(r, k) /\ r.m = gone.m /\ r.o[v] = Pair(Kind(x), gone.o[v].handler)
      /\ Alike(gone, r, v)
  BY <1>2, <1>5, <1>6, VariantMember
<1>8. r.o[v].index = Kind(x)
  BY <1>7 DEF Pair
<1> HIDE DEF r
<1>9. PICK t : Loose(q, t) /\ Becomes(k, t, v, x)
  BY <1>2, <1>4, <1>6, <1>7, <1>8, VariantSetAs
<1>10. q.o[v] = Pair(Kind(x), Kind(x)) /\ Alike(r, q, v)
  BY <1>2, <1>4, <1>6, <1>7, <1>8, VariantSetAs
<1> HIDE DEF q
<1>11. Becomes(s, t, v, x) /\ Alike(Now, q, v)
  BY <1>4, <1>5, <1>7, <1>9, <1>10 DEF Becomes, Alike
<1>12. Fits(q.o[v], t[v])
  BY <1>2, <1>10, <1>11, PairFits DEF Becomes
<1>13. HoldsVariant(q, t)
  BY <1>2, <1>9, <1>11, <1>12, VariantFits DEF Becomes
<1>14. HoldsVariant(At(mem', obj'), t) /\ Said("set", x, FALSE)
  BY <1>3, <1>13, VariantEnded
<1>15. Settled(t) /\ Setting(s, t, v)
  BY <1>2, <1>11, <1>14, SlotsAndNodes DEF Settled, Becomes, Setting
<1>. QED BY <1>14, <1>15 DEF VariantAfter, Outcome

LEMMA VariantSwap ==
  ASSUME ToldApart, ~AliasAssign, NEW s, HoldsVariant(Now, s), Settled(s),
         NEW v \in Variables, NEW w \in Variables, V!Swap(v, w)
  PROVE  VariantAfter(s)
<1> DEFINE i == obj[v].index
           j == obj[w].index
           r1 == V!SetIndex(Now, v, j)
           r2 == V!SetIndex(r1, w, i)
           r3 == V!New(r2, Temp, i)
           r4 == V!MoveStorage(r3, Temp, v)
           r5 == V!MoveStorage(r4, v, w)
           r6 == V!MoveStorage(r5, w, Temp)
           r7 == V!DestroyStorage(r6, Temp)
           r8 == V!Dead(r7, Temp)
<1>1. /\ s \in Pictures /\ v \in Slots /\ w \in Slots /\ v # w /\ Loose(Now, s) /\ Now.o = obj
      /\ v # Temp /\ v # Spare /\ w # Temp /\ w # Spare
      /\ Temp \in Slots /\ Spare \in Slots /\ Temp # Spare
      /\ s[Temp] = Gone /\ s[Spare] = Gone
  BY VariantStart DEF V!Swap
<1>2. /\ s[v] # Gone /\ s[v] # Null /\ s[v] \in Values \cup {Moved}
      /\ i \in Kinds /\ i # Null /\ obj[v] = Pair(i, i) /\ obj[v].handler = i
      /\ s[v] \in Values => Kind(s[v]) = i
  BY VariantStart DEF V!Swap
<1>3. /\ s[w] # Gone /\ s[w] # Null /\ s[w] \in Values \cup {Moved}
      /\ j \in Kinds /\ j # Null /\ obj[w] = Pair(j, j) /\ obj[w].handler = j
      /\ s[w] \in Values => Kind(s[w]) = j
  BY VariantStart DEF V!Swap
<1>4. V!Ends(r8, "swap", Null, FALSE)
  BY VariantStart DEF V!Swap, V!Destructed
<1> HIDE DEF i, j
<1>5. /\ v \in Blocks /\ w \in Blocks /\ Temp \in Blocks
      /\ Moved # Null /\ Moved # Gone /\ Null # Gone /\ Moved \notin Values
  BY <1>1, SlotsAndNodes, CellAssumption DEF ToldApart
<1>6. Loose(r1, s) /\ r1.o[v] = Pair(j, i) /\ Alike(Now, r1, v)
  <2>1. Loose(r1, s) /\ r1.o[v] = Pair(j, Now.o[v].handler) /\ Alike(Now, r1, v)
    <3>1. v \in Slots /\ Loose(Now, s) /\ s[v] # Gone /\ j \in Kinds
      BY <1>1, <1>2, <1>3
    <3> QED BY <3>1, VariantMember
  <2> HIDE DEF r1
  <2> QED BY <1>1, <1>2, <2>1
<1> HIDE DEF r1
<1>7. r1.o[w] = Pair(j, j) /\ r1.o[w].handler = j
  BY <1>1, <1>3, <1>5, <1>6, PairMembers DEF Alike
<1>8. Loose(r2, s) /\ r2.o[w] = Pair(i, j) /\ Alike(r1, r2, w)
  <2>1. Loose(r2, s) /\ r2.o[w] = Pair(i, r1.o[w].handler) /\ Alike(r1, r2, w)
    BY <1>1, <1>2, <1>3, <1>6, VariantMember
  <2> HIDE DEF r2
  <2> QED BY <1>7, <2>1
<1> HIDE DEF r2
<1>9. PICK s3 : Loose(r3, s3) /\ Becomes(s, s3, Temp, Null)
  BY <1>1, <1>2, <1>8, VariantNew
<1>10. r3.o[Temp] = Pair(i, Null) /\ Alike(r2, r3, Temp)
  BY <1>1, <1>2, <1>8, VariantNew
<1> HIDE DEF r3
<1>11. /\ r3.o[v] = Pair(j, i) /\ r3.o[w] = Pair(i, j)
       /\ s3[v] = s[v] /\ s3[w] = s[w] /\ s3[Temp] = Null
  BY <1>1, <1>5, <1>6, <1>8, <1>9, <1>10 DEF Alike, Becomes
<1>12. /\ r3.o[Temp].index = i /\ r3.o[Temp].handler = Null
       /\ r3.o[v].index = j /\ r3.o[v].handler = i
       /\ r3.o[w].index = i /\ r3.o[w].handler = j
  BY <1>2, <1>3, <1>10, <1>11, PairMembers
<1>13. PICK s4 : /\ Loose(r4, s4) /\ s4[Temp] = s[v] /\ s4[v] = Moved
                 /\ \A u \in Slots : u # Temp /\ u # v => s4[u] = s3[u]
  BY <1>1, <1>2, <1>5, <1>9, <1>11, <1>12, VariantMove
<1>14. r4.o[Temp] = Pair(i, i) /\ Alike(r3, r4, Temp)
  BY <1>1, <1>2, <1>5, <1>9, <1>11, <1>12, VariantMove
<1> HIDE DEF r4
<1>15. /\ s4[w] = s[w] /\ r4.o[v] = r3.o[v] /\ r4.o[w] = r3.o[w]
       /\ r4.o[Temp].handler = i
  BY <1>1, <1>2, <1>5, <1>11, <1>13, <1>14, PairMembers DEF Alike
<1>16. PICK s5 : /\ Loose(r5, s5) /\ s5[v] = s[w] /\ s5[w] = Moved
                 /\ \A u \in Slots : u # v /\ u # w => s5[u] = s4[u]
  BY <1>1, <1>2, <1>3, <1>5, <1>12, <1>13, <1>15, VariantMove
<1>17. r5.o[v] = Pair(j, j) /\ Alike(r4, r5, v)
  BY <1>1, <1>2, <1>3, <1>5, <1>12, <1>13, <1>15, VariantMove
<1> HIDE DEF r5
<1>18. /\ s5[Temp] = s[v] /\ r5.o[w] = r3.o[w] /\ r5.o[Temp].handler = i
  BY <1>1, <1>5, <1>13, <1>15, <1>16, <1>17 DEF Alike
<1>19. PICK s6 : /\ Loose(r6, s6) /\ s6[w] = s[v] /\ s6[Temp] = Moved
                 /\ \A u \in Slots : u # w /\ u # Temp => s6[u] = s5[u]
  BY <1>1, <1>2, <1>3, <1>5, <1>12, <1>16, <1>18, VariantMove
<1>20. r6.o[w] = Pair(i, i) /\ Alike(r5, r6, w)
  BY <1>1, <1>2, <1>3, <1>5, <1>12, <1>16, <1>18, VariantMove
<1> HIDE DEF r6
<1>21. r6.o[Temp].handler # Null
  BY <1>1, <1>2, <1>5, <1>18, <1>20 DEF Alike
<1>22. r7.o = r6.o /\ \E s7 : Loose(r7, s7) /\ Becomes(s6, s7, Temp, Null)
  BY <1>1, <1>5, <1>19, <1>21, VariantDestroy
<1>23. PICK s7 : Loose(r7, s7) /\ Becomes(s6, s7, Temp, Null)
  BY <1>22
<1> HIDE DEF r7
<1>24. s7[Temp] = Null
  BY <1>23 DEF Becomes
<1>25. PICK t : Loose(r8, t) /\ Becomes(s7, t, Temp, Gone)
  BY <1>1, <1>23, <1>24, VariantDead
<1>26. Alike(r7, r8, Temp)
  BY <1>1, <1>23, <1>24, VariantDead
<1> HIDE DEF r8
<1>27. t[v] = s[w] /\ t[w] = s[v] /\ t[Temp] = Gone /\ t \in Pictures
  BY <1>1, <1>16, <1>19, <1>23, <1>25 DEF Becomes
<1>28. \A u \in Slots : u # v /\ u # w => t[u] = s[u]
  <2>1. ASSUME NEW u \in Slots, u # v, u # w, u # Temp PROVE t[u] = s[u]
    BY <1>9, <1>13, <1>16, <1>19, <1>23, <1>25, <2>1 DEF Becomes
  <2> QED BY <1>1, <1>27, <2>1
<1>29. r8.o[v] = Pair(j, j) /\ r8.o[w] = Pair(i, i)
  BY <1>1, <1>5, <1>17, <1>20, <1>22, <1>26 DEF Alike
<1>30. \A u \in Slots : u # v /\ u # w /\ u # Temp => r8.o[u] = Now.o[u]
  <2>1. Slots \subseteq Blocks
    BY SlotsAndNodes
  <2> QED BY <1>6, <1>8, <1>10, <1>14, <1>17, <1>20, <1>22, <1>26, <2>1 DEF Alike
<1>31. HoldsVariant(r8, t)
  <2>1. Fits(r8.o[v], t[v]) /\ Fits(r8.o[w], t[w])
    BY <1>2, <1>3, <1>27, <1>29, PairFits
  <2>2. Fits(r8.o[Temp], t[Temp])
    BY <1>27 DEF Fits
  <2>3. ASSUME NEW u \in Slots, u # v, u # w, u # Temp PROVE Fits(r8.o[u], t[u])
    BY <1>28, <1>30, <2>3 DEF HoldsVariant
  <2> QED BY <1>25, <2>1, <2>2, <2>3 DEF HoldsVariant
<1>32. HoldsVariant(At(mem', obj'), t) /\ Said("swap", Null, FALSE)
  BY <1>4, <1>31, VariantEnded
<1>33. Settled(t) /\ Exchanging(s, t, v, w)
  BY <1>1, <1>2, <1>3, <1>27, <1>28, <1>32, SlotsAndNodes DEF Settled, Exchanging
<1>. QED BY <1>32, <1>33 DEF VariantAfter, Outcome

LEMMA VariantNext ==
  ASSUME ToldApart, ~AssignThrows, ~AliasAssign, NEW s, HoldsVariant(Now, s), Settled(s), V!Next
  PROVE  VariantAfter(s)
<1>1. PICK v \in Variables :
        \/ V!DefaultConstruct(v) \/ V!Destruct(v)
        \/ \E a \in V!Given : V!ValueConstruct(v, a) \/ V!ValueAssign(v, a)
        \/ \E w \in Variables :
             V!CopyConstruct(v, w) \/ V!MoveConstruct(v, w) \/ V!CopyAssign(v, w) \/ V!Swap(v, w)
  BY DEF V!Next
<1>2. CASE V!DefaultConstruct(v) \/ V!Destruct(v)
  BY <1>2, VariantDefaultConstruct, VariantDestruct
<1>3. ASSUME NEW a \in V!Given, V!ValueConstruct(v, a) \/ V!ValueAssign(v, a)
      PROVE  VariantAfter(s)
  BY <1>3, VariantValueConstruct, VariantValueAssign
<1>4. ASSUME NEW w \in Variables,
             V!CopyConstruct(v, w) \/ V!MoveConstruct(v, w) \/ V!CopyAssign(v, w) \/ V!Swap(v, w)
      PROVE  VariantAfter(s)
  BY <1>4, VariantCopyConstruct, VariantMoveConstruct, VariantCopyAssign, VariantSwap
<1>. QED BY <1>1, <1>2, <1>3, <1>4

(* What the properties say of a variable of class variant.                 *)
LEMMA VariantShows ==
  ASSUME ToldApart, NEW r, NEW s, HoldsVariant(r, s), NEW v \in Slots, r.o[v] # Gone
  PROVE  V!Shows(r, v) = s[v]
<1>1. Filled(r.m, s) /\ s[v] \in Values \cup {Moved} /\ r.m \in Memories
  BY VariantOf DEF Filled
<1>2. Names(r.m, Value(v), s[v])
  BY <1>1, FilledOperations
<1>3. Read(r.m, Value(v)) = s[v]
  BY <1>1, <1>2, NamesReads DEF Reads
<1>. QED BY <1>3, VariantCells DEF V!Shows
=============================================================================
