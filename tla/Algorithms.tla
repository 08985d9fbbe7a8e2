------------------------------ MODULE Algorithms ------------------------------
(***************************************************************************)
(* The algorithms on a range, one after the other: what one of them leaves *)
(* is what the next one finds. A priority_queue is a range that is a heap. *)
(***************************************************************************)
EXTENDS Introsort, StableSort

CONSTANTS
  Keys,           (* the keys of the elements                              *)
  MaxLength,      (* bound: the longest range                              *)
  MaxArranged,    (* bound: the longest range that is permuted             *)
  PartialRanges,  (* is a part of the range sorted?                        *)
  EmptyRanges     (* is an empty range asked whether it is a heap?         *)

ASSUME AlgorithmsAssumption ==
  /\ Keys \subseteq Int
  /\ MaxLength \in Nat /\ MaxArranged \in Nat
  /\ PartialRanges \in BOOLEAN /\ EmptyRanges \in BOOLEAN

VARIABLES
  range,   (* the keys of the range                                        *)
  last     (* the last call: which, its argument, and its result           *)

vars == <<range, last>>

Init ==
  /\ range \in UNION {[1 .. n -> Keys] : n \in 0 .. MaxLength}
  /\ last = <<"none", 0, <<>>>>

(* The elements, marked with the places where a call finds them.           *)
Elements == [i \in DOMAIN range |-> <<range[i], i>>]
Length   == Len(range)

Leaves(op, x, t) ==
  /\ last' = <<op, x, t>>
  /\ range' = [i \in DOMAIN t |-> t[i][1]]
Returns(op, x, a) == last' = <<op, x, a>> /\ UNCHANGED range

Sorted(s) == \A i \in 2 .. Len(s) : ~Comp(s[i], s[i - 1])

-----------------------------------------------------------------------------
(* The range may be all that quicksort has left of a longer one, after as  *)
(* many cuts as it takes: depth is what remains.                           *)
Introsorts(depth) ==
  /\ Length > 0
  /\ Leaves("sort", depth, Sort(Elements, depth))

StableSorts == Leaves("stable_sort", 0, StableSorted(Elements))

(* An empty part is none of the ranges: its heap would be popped.          *)
PartiallySorts(middle) ==
  /\ middle = Length \/ (PartialRanges /\ middle > 0)
  /\ Leaves("partial_sort", middle, PartialSort(Elements, middle))

-----------------------------------------------------------------------------
(* priority_queue(compare, container) makes a heap; push and pop need one. *)
IsHeap == IsHeapUntil(Elements) = Length

MakesHeap == Leaves("make_heap", 0, MakeHeap(Elements, Length))

Push(x) ==
  /\ Length < MaxLength
  /\ IsHeap \/ Length = 0
  /\ Leaves("push", x, PushHeap(Append(Elements, <<x, Length + 1>>), Length + 1))

Pop ==
  /\ Length > 0
  /\ IsHeap
  /\ Leaves("pop", 0, Segment(PopHeap(Elements, Length), 0, Length - 1))

FindsHeap ==
  /\ EmptyRanges \/ Length > 0
  /\ Returns("is_heap_until", 0, IsHeapUntil(Elements))

-----------------------------------------------------------------------------
(* The element at i changes places with the one at j, and what follows it  *)
(* is turned round.                                                        *)
TurnedAt(s, i, j) == Reverse(IterSwap(s, i, j), i + 1, Len(s))

(* i is the last ascent, or descent, and j the last element beyond it.     *)
NextPermutation ==
  LET s == Elements
      ascents == {i \in 0 .. Length - 2 : Comp(Elem(s, i), Elem(s, i + 1))}
      Last    == Max(ascents)
      greater == {j \in Offsets(s) : Comp(Elem(s, Last), Elem(s, j))}
  IN /\ Length <= MaxArranged
     /\ Leaves("next_permutation", ascents # {},
               IF ascents = {} THEN Reverse(s, 0, Length) ELSE TurnedAt(s, Last, Max(greater)))

PrevPermutation ==
  LET s == Elements
      descents == {i \in 0 .. Length - 2 : Comp(Elem(s, i + 1), Elem(s, i))}
      Last     == Max(descents)
      less     == {j \in Offsets(s) : Comp(Elem(s, j), Elem(s, Last))}
  IN /\ Length <= MaxArranged
     /\ Leaves("prev_permutation", descents # {},
               IF descents = {} THEN Reverse(s, 0, Length) ELSE TurnedAt(s, Last, Max(less)))

(* The elements behind the middle change places with those before it, one  *)
(* by one; those that got behind it are rotated again.                     *)
RECURSIVE Rotated(_, _, _, _), Swapped(_, _, _, _)
Swapped(s, write, nextRead, read) ==
  LET next == IF write = nextRead THEN read ELSE nextRead
  IN IF read = Len(s) THEN Rotated(s, write, nextRead, read)
     ELSE Swapped(IterSwap(s, write, read), write + 1, next, read + 1)
Rotated(s, first, middle, end) ==
  IF first = middle \/ middle = end THEN s ELSE Swapped(s, first, first, middle)

Rotates(middle) == Leaves("rotate", middle, Rotated(Elements, 0, middle, Length))

Reverses == Leaves("reverse", 0, Reverse(Elements, 0, Length))

(* Elements that stay are moved over those that go, from the first of them.*)
RECURSIVE Compacted(_, _, _, _)
Compacted(s, to, i, x) ==
  IF i >= Len(s) THEN Segment(s, 0, to)
  ELSE IF Elem(s, i)[1] = x THEN Compacted(s, to, i + 1, x)
  ELSE Compacted(SetTo(s, to, Elem(s, i)), to + 1, i + 1, x)

Removes(x) ==
  LET found == WalkUp({i \in Offsets(range) : Elem(range, i) = x}, Length)
  IN Leaves("remove", x,
            IF found = Length THEN Elements ELSE Compacted(Elements, found, found + 1, x))

RECURSIVE Merged(_, _)
Merged(s, t) ==
  IF s = <<>> THEN t
  ELSE IF t = <<>> THEN s
  ELSE IF Comp(Head(t), Head(s)) THEN <<Head(t)>> \o Merged(s, Tail(t))
  ELSE <<Head(s)>> \o Merged(Tail(s), t)

Merges(middle) ==
  LET left  == Segment(Elements, 0, middle)
      right == Segment(Elements, middle, Length)
  IN /\ Sorted(left) /\ Sorted(right)
     /\ Leaves("merge", middle, Merged(left, right))

-----------------------------------------------------------------------------
EqualRange(x) ==
  /\ Sorted(Elements)
  /\ Returns("equal_range", x,
             <<LowerBound(Elements, 0, Length, <<x, 0>>), UpperBound(Elements, 0, Length, <<x, 0>>)>>)

(* The rest of the range by pairs: only the less one of two can be the     *)
(* least, and only the other one the greatest.                             *)
RECURSIVE Pairwise(_, _, _)
Pairwise(s, at, found) ==
  LET Better(a, b)  == IF Comp(Elem(s, a), Elem(s, b)) THEN a ELSE b
      Worse(a, b)   == IF ~Comp(Elem(s, a), Elem(s, b)) THEN a ELSE b
      less    == IF Comp(Elem(s, at + 1), Elem(s, at)) THEN at + 1 ELSE at
      greater == IF less = at THEN at + 1 ELSE at
  IN IF at >= Len(s) THEN found
     ELSE IF at + 1 = Len(s)
     THEN LET least == Better(at, found[1])
          IN <<least, IF least = at THEN found[2] ELSE Worse(at, found[2])>>
     ELSE Pairwise(s, at + 2, <<Better(less, found[1]), Worse(greater, found[2])>>)

MinMaxElement ==
  /\ Length > 0
  /\ Returns("minmax_element", 0,
       IF Length = 1 THEN <<0, 0>>
       ELSE Pairwise(Elements, 2,
              IF Comp(Elem(Elements, 1), Elem(Elements, 0)) THEN <<1, 0>> ELSE <<0, 1>>))

-----------------------------------------------------------------------------
Next ==
  \/ \E depth \in 0 .. Depth(Length) : Introsorts(depth)
  \/ StableSorts \/ MakesHeap \/ Pop \/ FindsHeap \/ Reverses
  \/ NextPermutation \/ PrevPermutation \/ MinMaxElement
  \/ \E middle \in 0 .. Length : PartiallySorts(middle) \/ Rotates(middle) \/ Merges(middle)
  \/ \E x \in Keys : Push(x) \/ Removes(x) \/ EqualRange(x)

Spec == Init /\ [][Next]_vars

-----------------------------------------------------------------------------
(* Every algorithm does what it promises, whatever the range is that the   *)
(* ones before have left: sort does not run off the range in the walks     *)
(* that have no bound, stable_sort keeps the order of equal elements       *)
(* through all merges, and a priority queue gives its greatest element.    *)
Contract == INSTANCE RangeContract

KeepsContract == Contract!ContractSpec
=============================================================================
