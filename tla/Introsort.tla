------------------------------ MODULE Introsort ------------------------------
(***************************************************************************)
(* sort: quicksort down to short ranges, heapsort for a range that was cut *)
(* too often, and one insertion sort over everything at the end. Neither   *)
(* the walks of the partition nor the insertions behind the first short    *)
(* range test for the end of the range: what was done before has to make   *)
(* sure that they stop. When one does not, no range is left.               *)
(***************************************************************************)
EXTENDS HeapOrder

CONSTANT Threshold   (* ranges of this length are left to insertion sort   *)

ASSUME ThresholdAssumption == Threshold \in Nat /\ Threshold >= 2

-----------------------------------------------------------------------------
(* x moves from i to behind the last element before i that is not greater. *)
InsertAt(s, i, d) ==
  [j \in DOMAIN s |-> IF j = d + 1 THEN s[i + 1]
                      ELSE IF j > d + 1 /\ j <= i + 1 THEN s[j - 1] ELSE s[j]]

UnguardedLinearInsert(s, i) ==
  LET stops == {j \in 0 .. i - 1 : ~Comp(Elem(s, i), Elem(s, j))}
  IN IF stops = {} THEN <<>> ELSE InsertAt(s, i, Max(stops) + 1)

LinearInsert(s, first, i) ==
  IF Comp(Elem(s, i), Elem(s, first)) THEN InsertAt(s, i, first)
  ELSE UnguardedLinearInsert(s, i)

RECURSIVE InsertionSort(_, _, _), UnguardedInsertionSort(_, _)
InsertionSort(s, i, last) ==
  IF i >= last \/ s = <<>> THEN s ELSE InsertionSort(LinearInsert(s, 0, i), i + 1, last)
UnguardedInsertionSort(s, i) ==
  IF i >= Len(s) THEN s ELSE UnguardedInsertionSort(UnguardedLinearInsert(s, i), i + 1)

FinalInsertionSort(s) ==
  IF Len(s) > Threshold
  THEN UnguardedInsertionSort(InsertionSort(s, 1, Threshold), Threshold)
  ELSE InsertionSort(s, 1, Len(s))

-----------------------------------------------------------------------------
(* Mutant: the greatest of the three is taken.                             *)
MoveGreatestToFirst(s, first, mid, last) ==
  LET Greater(i, j) == IF Comp(Elem(s, i), Elem(s, j)) THEN j ELSE i
  IN IterSwap(s, first, Greater(first, Greater(mid, last)))

MoveMedianToFirst(s, first, mid, last) ==
  LET a == Elem(s, first)
      b == Elem(s, mid)
      c == Elem(s, last)
      median == IF Comp(a, b)
                THEN IF Comp(b, c) THEN mid ELSE IF Comp(a, c) THEN last ELSE first
                ELSE IF Comp(a, c) THEN first ELSE IF Comp(b, c) THEN last ELSE mid
  IN IterSwap(s, first, median)

(* The partition of [first, last) by x, and where it is cut. The walks do  *)
(* not test for an end: one that nothing stops leaves no range.            *)
RECURSIVE Partition(_, _, _, _)
Partition(s, first, last, x) ==
  LET up   == {k \in first .. Len(s) - 1 : ~Comp(Elem(s, k), x)}
      down == {k \in 0 .. last - 1 : ~Comp(x, Elem(s, k))}
  IN IF up = {} \/ down = {} THEN [range |-> <<>>, cut |-> first]
     ELSE IF Min(up) >= Max(down) THEN [range |-> s, cut |-> Min(up)]
     ELSE Partition(IterSwap(s, Min(up), Max(down)), Min(up) + 1, Max(down), x)

PartitionPivot(s, first, last) ==
  LET pivoted == MoveMedianToFirst(s, first, first + (last - first) \div 2, last - 1)
  IN Partition(pivoted, first + 1, last, Elem(pivoted, first))

RECURSIVE IntrosortLoop(_, _, _, _)
IntrosortLoop(s, first, last, depth) ==
  IF s = <<>> \/ last - first <= Threshold THEN s
  ELSE IF depth = 0
  THEN PutAt(s, first, PartialSort(Segment(s, first, last), last - first))
  ELSE LET parted == PartitionPivot(s, first, last)
           right  == IntrosortLoop(parted.range, parted.cut + 1, last, depth - 1)
       IN IntrosortLoop(right, first, parted.cut, depth - 1)

(* The number of binary digits, and how deep a range of n elements is cut. *)
BitWidth(n) == CHOOSE k \in 0 .. n : n < 2 ^ k /\ (n = 0 \/ 2 ^ (k - 1) <= n)
Depth(n)    == 2 * BitWidth(n)

Sort(s, depth) == FinalInsertionSort(IntrosortLoop(s, 0, Len(s), depth))
=============================================================================
