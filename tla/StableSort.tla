------------------------------ MODULE StableSort ------------------------------
(***************************************************************************)
(* stable_sort: the range is divided into runs, which are sorted, put on a *)
(* stack and merged with their neighbours so that the runs on the stack    *)
(* stay of balanced lengths. Merging moves the shorter one out and writes  *)
(* over both from one end, while it still reads from the longer one.       *)
(***************************************************************************)
EXTENDS Ranges

CONSTANT MinMerge   (* ranges shorter than this are sorted by insertion    *)
ASSUME MinMergeAssumption == MinMerge \in Nat /\ MinMerge >= 2

-----------------------------------------------------------------------------
(* Runs.                                                                   *)

(* Mutant: equal elements are part of a decreasing run.                    *)
EndOfNotIncreasing(s, first, last) ==
  WalkUp({i \in first + 1 .. last - 1 : Comp(Elem(s, i - 1), Elem(s, i))}, last)

(* Where the increasing run that begins at first ends, and the one that is *)
(* strictly decreasing.                                                    *)
EndOfRun(s, first, last) ==
  WalkUp({i \in first + 1 .. last - 1 : Comp(Elem(s, i), Elem(s, i - 1))}, last)
EndOfDecreasing(s, first, last) ==
  WalkUp({i \in first + 1 .. last - 1 : ~Comp(Elem(s, i), Elem(s, i - 1))}, last)

CountRun(s, first, last) ==
  LET up   == EndOfRun(s, first, last)
      down == EndOfDecreasing(s, first, last)
  IN IF first + 1 < last /\ up = first + 1
     THEN [range |-> Reverse(s, first, down), len |-> down - first]
     ELSE [range |-> s, len |-> up - first]

RECURSIVE BinaryInsertionSort(_, _, _, _)
BinaryInsertionSort(s, first, last, sorted) ==
  IF sorted >= last THEN s
  ELSE LET x   == Elem(s, sorted)
           pos == UpperBound(s, first, sorted, x)
       IN BinaryInsertionSort(
            PutAt(s, pos, <<x>> \o Segment(s, pos, sorted)), first, last, sorted + 1)

RECURSIVE Halved(_, _)
Halved(n, r)    == IF n < MinMerge THEN n + r
                   ELSE Halved(n \div 2, IF n % 2 = 1 THEN 1 ELSE r)
MinRunLength(n) == Halved(n, 0)

-----------------------------------------------------------------------------
(* Merging [f1, l1) with [f2, l2), the elements of one of them in tmp.     *)
RECURSIVE LowLoop(_, _, _, _, _), HighLoop(_, _, _, _, _)
LowLoop(s, d, tmp, f2, l2) ==
  IF tmp = <<>> THEN PutAt(s, d, Segment(s, f2, l2))
  ELSE IF f2 = l2 THEN PutAt(s, d, tmp)
  ELSE IF Comp(Elem(s, f2), Head(tmp))
  THEN LowLoop(SetTo(s, d, Elem(s, f2)), d + 1, tmp, f2 + 1, l2)
  ELSE LowLoop(SetTo(s, d, Head(tmp)), d + 1, Tail(tmp), f2, l2)

HighLoop(s, d, tmp, f1, l1) ==
  LET n == Len(tmp)
  IN IF n = 0 THEN PutAt(s, d - (l1 - f1), Segment(s, f1, l1))
     ELSE IF f1 = l1 THEN PutAt(s, d - n, tmp)
     ELSE IF Comp(tmp[n], Elem(s, l1 - 1))
     THEN HighLoop(SetTo(s, d - 1, Elem(s, l1 - 1)), d - 1, tmp, f1, l1 - 1)
     ELSE HighLoop(SetTo(s, d - 1, tmp[n]), d - 1, SubSeq(tmp, 1, n - 1), f1, l1)

MergeLow(s, f1, l1, f2, l2)  == LowLoop(s, f1, Segment(s, f1, l1), f2, l2)
MergeHigh(s, f1, l1, f2, l2) == HighLoop(s, l2, Segment(s, f2, l2), f1, l1)

(* What of the left run is in place already, and of the right one.         *)
GallopLeft(s, f1, l1, f2) ==
  WalkUp({i \in f1 .. l1 - 1 : Comp(Elem(s, f2), Elem(s, i))}, l1)
GallopRight(s, l1, f2, l2) ==
  WalkDown({i \in f2 .. l2 - 1 : Comp(Elem(s, i), Elem(s, l1 - 1))}, f2) + 1

(* A state of the sort: the range, and the runs that wait to be merged.    *)
State(s, pending) == [range |-> s, pending |-> pending]

(* The runs at n and n + 1 of the stack become one.                        *)
MergeAt(t, n) ==
  LET left  == t.pending[n + 1]
      right == t.pending[n + 2]
      f1 == GallopLeft(t.range, left.first, left.first + left.len, right.first)
      l1 == left.first + left.len
      l2 == GallopRight(t.range, l1, right.first, right.first + right.len)
      merged == IF l1 - f1 <= l2 - right.first
                THEN MergeLow(t.range, f1, l1, right.first, l2)
                ELSE MergeHigh(t.range, f1, l1, right.first, l2)
      both == [left EXCEPT !.len = @ + right.len]
  IN State(merged, SubSeq(t.pending, 1, n) \o <<both>> \o
                   SubSeq(t.pending, n + 3, Len(t.pending)))

LenAt(t, n) == t.pending[n + 1].len

(* Until no run is as short as the next ones.                              *)
RECURSIVE Balance(_), MergeRest(_)
Balance(t) ==
  LET n == Len(t.pending) - 2
      left == n > 0 /\ LenAt(t, n - 1) <= LenAt(t, n) + LenAt(t, n + 1)
  IN IF n < 0 THEN t
     ELSE IF left
     THEN Balance(MergeAt(t, IF LenAt(t, n - 1) < LenAt(t, n + 1) THEN n - 1 ELSE n))
     ELSE IF LenAt(t, n) <= LenAt(t, n + 1) THEN Balance(MergeAt(t, n))
     ELSE t

MergeRest(t) ==
  LET n == Len(t.pending) - 2
  IN IF n < 0 THEN t
     ELSE MergeRest(MergeAt(t, IF n > 0 /\ LenAt(t, n - 1) < LenAt(t, n + 1)
                               THEN n - 1 ELSE n))

(* One more run is found, or made long enough, and pushed.                 *)
RECURSIVE PushRuns(_, _, _)
PushRuns(t, it, minLen) ==
  LET last   == Len(t.range)
      found  == CountRun(t.range, it, last)
      forced == IF last - it < minLen THEN last - it ELSE minLen
      len    == IF found.len < forced THEN forced ELSE found.len
      sorted == BinaryInsertionSort(found.range, it, it + len, it + found.len)
      pushed == State(sorted, Append(t.pending, [first |-> it, len |-> len]))
  IN IF it = last THEN t ELSE PushRuns(Balance(pushed), it + len, minLen)

SortByRuns(s) == MergeRest(PushRuns(State(s, <<>>), 0, MinRunLength(Len(s)))).range

SortShort(s) ==
  LET found == CountRun(s, 0, Len(s))
  IN BinaryInsertionSort(found.range, 0, Len(s), found.len)

StableSorted(s) ==
  IF Len(s) < 2 THEN s ELSE IF Len(s) < MinMerge THEN SortShort(s) ELSE SortByRuns(s)
=============================================================================
