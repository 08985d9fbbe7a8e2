------------------------------ MODULE HeapOrder ------------------------------
(***************************************************************************)
(* The heap algorithms of algorithm_impl: the children of the element at   *)
(* offset i are at 2i + 1 and 2i + 2, and no child is greater than its     *)
(* father. An element on its way through the heap is held outside of it,   *)
(* and the others are moved over the hole that it left.                    *)
(***************************************************************************)
EXTENDS Ranges

-----------------------------------------------------------------------------
(* The greater child of i in the heap of the first len elements; the right *)
(* one only exists if it is below len.                                     *)
GreaterChild(s, len, i) ==
  LET left == 2 * i + 1
  IN IF left + 1 < len /\ Comp(Elem(s, left), Elem(s, left + 1)) THEN left + 1 ELSE left

IsLeaf(len, i) == (len - 2) \div 2 < i

RECURSIVE Sink(_, _, _, _)
Sink(s, len, hole, x) ==
  IF IsLeaf(len, hole) THEN SetTo(s, hole, x)
  ELSE LET child == GreaterChild(s, len, hole)
       IN IF Comp(Elem(s, child), x) THEN SetTo(s, hole, x)
          ELSE Sink(SetTo(s, hole, Elem(s, child)), len, child, x)

SiftDown(s, len, head) ==
  IF len < 2 \/ IsLeaf(len, head) THEN s ELSE Sink(s, len, head, Elem(s, head))

RECURSIVE Rise(_, _, _)
Rise(s, hole, x) ==
  LET father == (hole - 1) \div 2
  IN IF hole = 0 THEN SetTo(s, hole, x)
     ELSE IF Comp(Elem(s, father), x) THEN Rise(SetTo(s, hole, Elem(s, father)), father, x)
     ELSE SetTo(s, hole, x)

SiftUp(s, len) == IF len > 1 THEN Rise(s, len - 1, Elem(s, len - 1)) ELSE s

-----------------------------------------------------------------------------
PushHeap(s, len) == SiftUp(s, len)
PopHeap(s, len)  == SiftDown(IterSwap(s, 0, len - 1), len - 1, 0)

RECURSIVE MakeHeapFrom(_, _, _)
MakeHeapFrom(s, len, offset) ==
  IF offset < 0 THEN s ELSE MakeHeapFrom(SiftDown(s, len, offset), len, offset - 1)
MakeHeap(s, len) == IF len > 1 THEN MakeHeapFrom(s, len, (len - 2) \div 2) ELSE s

RECURSIVE SortHeap(_, _)
SortHeap(s, len) == IF len = 0 THEN s ELSE SortHeap(PopHeap(s, len), len - 1)

(* An element behind the middle that is not greater than the greatest one  *)
(* before it changes places with the element at the middle: the greatest   *)
(* one, which pop_heap left before the middle, goes back into the heap.    *)
RECURSIVE Select(_, _, _)
Select(s, middle, it) ==
  IF it = Len(s) THEN s
  ELSE IF Comp(Elem(s, 0), Elem(s, it)) THEN Select(s, middle, it + 1)
  ELSE Select(PushHeap(IterSwap(PopHeap(s, middle), middle, it), middle), middle, it + 1)

PartialSort(s, middle) == SortHeap(Select(MakeHeap(s, middle), middle, middle), middle)

IsHeapUntil(s) ==
  LET greater == {i \in 1 .. Len(s) - 1 : Comp(Elem(s, (i - 1) \div 2), Elem(s, i))}
  IN IF s = <<>> THEN 1 ELSE WalkUp(greater, Len(s))
=============================================================================
