-------------------------------- MODULE Ranges --------------------------------
(***************************************************************************)
(* Ranges of elements as the algorithms see them. An element is a pair of  *)
(* its key, which is all that comp looks at, and the place where it was    *)
(* when the algorithm began. Offsets count from 0, as in the code.         *)
(***************************************************************************)
EXTENDS Integers, Sequences, FiniteSets, FiniteSetsExt

Comp(a, b)      == a[1] < b[1]
Elem(s, i)      == s[i + 1]
SetTo(s, i, x)  == SubSeq(s, 1, i) \o <<x>> \o SubSeq(s, i + 2, Len(s))
IterSwap(s, i, j) == SetTo(SetTo(s, i, Elem(s, j)), j, Elem(s, i))
Segment(s, first, last) == SubSeq(s, first + 1, last)

(* The elements of t from offset d on.                                     *)
PutAt(s, d, t) == SubSeq(s, 1, d) \o t \o SubSeq(s, d + Len(t) + 1, Len(s))

(* Where a walk that tests for the end of its range stops: at the first or *)
(* the last of the offsets that stop it, or else behind the end.           *)
WalkUp(stops, last)    == IF stops = {} THEN last ELSE Min(stops)
WalkDown(stops, first) == IF stops = {} THEN first - 1 ELSE Max(stops)

Reverse(s, first, last) ==
  [i \in DOMAIN s |-> IF i > first /\ i <= last THEN s[first + last + 1 - i] ELSE s[i]]

(* lower_bound and upper_bound halve what is left of the range.            *)
RECURSIVE Bisect(_, _, _, _)
Bisect(s, first, count, goesOn) ==
  IF count = 0 THEN first
  ELSE LET step == count \div 2
       IN IF first + step \in goesOn THEN Bisect(s, first + step + 1, count - step - 1, goesOn)
          ELSE Bisect(s, first, step, goesOn)

Offsets(s) == 0 .. Len(s) - 1

LowerBound(s, first, last, x) ==
  Bisect(s, first, last - first, {i \in Offsets(s) : Comp(Elem(s, i), x)})
UpperBound(s, first, last, x) ==
  Bisect(s, first, last - first, {i \in Offsets(s) : ~Comp(x, Elem(s, i))})
=============================================================================
