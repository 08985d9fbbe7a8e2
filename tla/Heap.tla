--------------------------------- MODULE Heap ---------------------------------
(***************************************************************************)
(* Memory as the containers see it through allocator_traits: blocks of     *)
(* cells that are allocated, constructed in, destroyed in and deallocated. *)
(*                                                                         *)
(* A memory is a record. cells[b] is the content of block b, the empty     *)
(* sequence while b is not allocated; a cell holds Raw where no object     *)
(* lives. fault says that some step so far was undefined behaviour or a    *)
(* false CIEL_PRECONDITION: touching a cell outside a block or one without *)
(* an object, constructing over an object, freeing twice, with the wrong   *)
(* size or with objects inside. Offsets count from 0, as in the code.      *)
(***************************************************************************)
EXTENDS Integers, Sequences

CONSTANTS
  Blocks,    (* what the allocator can hand out                            *)
  Values,    (* what an element can hold                                   *)
  Raw,       (* a cell without an object                                   *)
  Moved,     (* what an element holds after a move from it                 *)
  Null       (* nullptr                                                    *)

ASSUME CellAssumption ==
  /\ Raw # Moved
  /\ {Raw, Moved} \cap Values = {}
  /\ Null \notin Blocks

Cells    == Values \cup {Raw, Moved}
Memories == [cells : [Blocks -> Seq(Cells)], fault : BOOLEAN]

NoMemory == [cells |-> [b \in Blocks |-> <<>>], fault |-> FALSE]

Allocated(m) == {b \in Blocks : m.cells[b] # <<>>}
Free(m)      == Blocks \ Allocated(m)

(* The cells [from, to) of block b, and whether they exist.                *)
InBlock(m, b, from, to) ==
  b \in Blocks /\ 0 <= from /\ from <= to /\ to <= Len(m.cells[b])
Slice(m, b, from, to) ==
  IF InBlock(m, b, from, to) THEN SubSeq(m.cells[b], from + 1, to) ELSE <<>>

AllRaw(s)  == \A i \in DOMAIN s : s[i] = Raw
AllLive(s) == \A i \in DOMAIN s : s[i] # Raw

Fault(m)        == [m EXCEPT !.fault = TRUE]
Require(m, ok)  == IF ok THEN m ELSE Fault(m)

(* The cells from offset `from' on become s.                               *)
Put(m, b, from, s) ==
  IF s = <<>> THEN m
  ELSE IF ~InBlock(m, b, from, from + Len(s)) THEN Fault(m)
  ELSE [m EXCEPT !.cells[b] =
          [i \in DOMAIN @ |-> IF i - from \in DOMAIN s THEN s[i - from] ELSE @[i]]]

-----------------------------------------------------------------------------
Allocate(m, b, n) ==
  Require([m EXCEPT !.cells[b] = [i \in 1 .. n |-> Raw]], n > 0)

Deallocate(m, b, n) ==
  IF b \notin Allocated(m) THEN Fault(m)
  ELSE Require([m EXCEPT !.cells[b] = <<>>],
               Len(m.cells[b]) = n /\ AllRaw(m.cells[b]))

(* construct: objects come to life in raw cells.                           *)
Construct(m, b, from, s) ==
  Put(Require(m, AllRaw(Slice(m, b, from, from + Len(s)))), b, from, s)

(* destroy: the objects of [from, to) go, which must all live.             *)
Destroy(m, b, from, to) ==
  IF from = to THEN m
  ELSE IF from > to THEN Fault(m)
  ELSE Put(Require(m, AllLive(Slice(m, b, from, to))),
           b, from, [i \in 1 .. to - from |-> Raw])

(* Copy or move assignment to objects that live.                           *)
Assign(m, b, from, s) ==
  Put(Require(m, AllLive(Slice(m, b, from, from + Len(s)))), b, from, s)

(* The objects of [from, to) are read by a move and live on.               *)
MoveFrom(m, b, from, to) ==
  IF from = to THEN m
  ELSE Put(Require(m, AllLive(Slice(m, b, from, to))),
           b, from, [i \in 1 .. to - from |-> Moved])

-----------------------------------------------------------------------------
(* The same for cells that do not follow each other: A is a sequence of    *)
(* addresses, each a pair of a block and an offset.                        *)
IsCell(m, a) == a[1] \in Blocks /\ a[2] \in 0 .. Len(m.cells[a[1]]) - 1
Look(m, a)   == IF IsCell(m, a) THEN m.cells[a[1]][a[2] + 1] ELSE Raw
Looks(m, A)  == [i \in DOMAIN A |-> Look(m, A[i])]

Write(m, A, s) ==
  LET touched == {A[j][1] : j \in DOMAIN A}
      Cell(b, i) == LET at == {j \in DOMAIN A : A[j] = <<b, i - 1>>}
                    IN IF at = {} THEN m.cells[b][i] ELSE s[CHOOSE j \in at : TRUE]
  IN IF A = <<>> THEN m
     ELSE IF \E j \in DOMAIN A : ~IsCell(m, A[j]) THEN Fault(m)
     ELSE [m EXCEPT !.cells = [b \in Blocks |->
             IF b \in touched THEN [i \in DOMAIN @[b] |-> Cell(b, i)] ELSE @[b]]]

ConstructCells(m, A, s) == Write(Require(m, AllRaw(Looks(m, A))), A, s)
AssignCells(m, A, s)    == Write(Require(m, AllLive(Looks(m, A))), A, s)
DestroyCells(m, A)      == AssignCells(m, A, [i \in DOMAIN A |-> Raw])
MoveFromCells(m, A)     == AssignCells(m, A, [i \in DOMAIN A |-> Moved])

-----------------------------------------------------------------------------
(* An argument is a value of the client's or a reference to a cell, which  *)
(* is read when it is used and not before.                                 *)
Argument == Values \cup (Blocks \X Nat)

Ref(b, i)   == <<b, i>>
ReadFrom(m, a) == Slice(m, a[1], a[2], a[2] + 1)
Readable(m, a) ==
  a \in Values \/ (ReadFrom(m, a) # <<>> /\ AllLive(ReadFrom(m, a)))
Read(m, a)     == IF a \in Values THEN a
                  ELSE IF Readable(m, a) THEN ReadFrom(m, a)[1] ELSE Moved

(* n copies of an argument, and their construction.                        *)
Copies(m, n, a) == [i \in 1 .. n |-> Read(m, a)]
ConstructCopies(m, b, from, n, a) ==
  Construct(Require(m, n = 0 \/ Readable(m, a)), b, from, Copies(m, n, a))
ConstructCopiesIn(m, A, a) ==
  ConstructCells(Require(m, A = <<>> \/ Readable(m, a)), A, Copies(m, Len(A), a))
=============================================================================
