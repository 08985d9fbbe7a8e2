---------------------------- MODULE RangeContract ----------------------------
(***************************************************************************)
(* What the algorithms promise, by what their results are and not by how   *)
(* they come about. The elements of a result are pairs of a key and the    *)
(* place, counted from 1, where the element was before.                    *)
(***************************************************************************)
EXTENDS Integers, Sequences, FiniteSets

CONSTANTS Keys

VARIABLES
  range,   (* the keys of the range                                        *)
  last     (* the last call: which, its argument, and its result           *)

contractVars == <<range, last>>

Did(op)  == last'[1] = op
Argument == last'[2]
Result   == last'[3]
KeysOf(t) == [i \in DOMAIN t |-> t[i][1]]

Tagged(s) == [i \in DOMAIN s |-> <<s[i], i>>]
Was       == Tagged(range)

Ascending(s)    == \A i, j \in DOMAIN s : i < j => s[i] <= s[j]
HeapOrdered(s)  == \A i \in DOMAIN s : i > 1 => s[i] <= s[i \div 2]
ElementsOf(t)   == {t[i] : i \in DOMAIN t}
SameElements(t, u) == Len(t) = Len(u) /\ ElementsOf(t) = ElementsOf(u)
InOrder(t) == \A i, j \in DOMAIN t : i < j =>
                t[i][1] < t[j][1] \/ (t[i][1] = t[j][1] /\ t[i][2] < t[j][2])

(* The result is the range from now on, or only an answer.                 *)
Becomes(t) == range' = KeysOf(t)
Answers(a) == Result = a /\ UNCHANGED range

-----------------------------------------------------------------------------
Sort ==
  /\ Did("sort")
  /\ SameElements(Result, Was) /\ Ascending(KeysOf(Result)) /\ Becomes(Result)

(* Equal elements keep their order.                                        *)
StableSort ==
  /\ Did("stable_sort")
  /\ SameElements(Result, Was) /\ InOrder(Result) /\ Becomes(Result)

MakeHeap ==
  /\ Did("make_heap")
  /\ SameElements(Result, Was) /\ HeapOrdered(KeysOf(Result)) /\ Becomes(Result)

(* push of a priority queue.                                               *)
Push ==
  /\ Did("push")
  /\ SameElements(Result, Append(Was, <<Argument, Len(range) + 1>>))
  /\ HeapOrdered(KeysOf(Result)) /\ Becomes(Result)

(* Its pop takes away a greatest element.                                  *)
Pop ==
  /\ Did("pop")
  /\ \E i \in DOMAIN Was :
       /\ \A j \in DOMAIN range : range[j] <= range[i]
       /\ ElementsOf(Result) = ElementsOf(Was) \ {Was[i]}
  /\ Len(Result) = Len(range) - 1
  /\ HeapOrdered(KeysOf(Result)) /\ Becomes(Result)

(* The first `Argument' elements are the least ones, in their order.       *)
PartialSort ==
  /\ Did("partial_sort")
  /\ SameElements(Result, Was)
  /\ LET keys == KeysOf(Result)
     IN \A i, j \in DOMAIN keys : i < j /\ i <= Argument => keys[i] <= keys[j]
  /\ Becomes(Result)

IsHeapUntil ==
  /\ Did("is_heap_until")
  /\ Answers(CHOOSE n \in 0 .. Len(range) :
       /\ HeapOrdered(SubSeq(range, 1, n))
       /\ n = Len(range) \/ ~HeapOrdered(SubSeq(range, 1, n + 1)))

(* The arrangements of the same keys come one after the other in           *)
(* lexicographic order, and the last one is followed by the first one.     *)
Precedes(s, t) ==
  \E i \in DOMAIN s : s[i] < t[i] /\ \A j \in 1 .. i - 1 : s[j] = t[j]
Count(s, k)  == Cardinality({i \in DOMAIN s : s[i] = k})
Arrangements ==
  {s \in [1 .. Len(range) -> Keys] : \A k \in Keys : Count(s, k) = Count(range, k)}

NextPermutation ==
  /\ Did("next_permutation")
  /\ Argument = \E s \in Arrangements : Precedes(range, s)
  /\ SameElements(Result, Was) /\ Becomes(Result)
  /\ IF Argument THEN /\ Precedes(range, range')
                      /\ ~\E s \in Arrangements : Precedes(range, s) /\ Precedes(s, range')
     ELSE ~\E s \in Arrangements : Precedes(s, range')

PrevPermutation ==
  /\ Did("prev_permutation")
  /\ Argument = \E s \in Arrangements : Precedes(s, range)
  /\ SameElements(Result, Was) /\ Becomes(Result)
  /\ IF Argument THEN /\ Precedes(range', range)
                      /\ ~\E s \in Arrangements : Precedes(range', s) /\ Precedes(s, range)
     ELSE ~\E s \in Arrangements : Precedes(range', s)

(* The elements from the middle on come first.                             *)
Rotate ==
  /\ Did("rotate")
  /\ Result = SubSeq(Was, Argument + 1, Len(range)) \o SubSeq(Was, 1, Argument)
  /\ Becomes(Result)

Reverse ==
  /\ Did("reverse")
  /\ Result = [i \in DOMAIN range |-> Was[Len(range) + 1 - i]]
  /\ Becomes(Result)

(* The elements that stay, in their order.                                 *)
Remove ==
  /\ Did("remove")
  /\ Result = SelectSeq(Was, LAMBDA e : e[1] # Argument)
  /\ Becomes(Result)

(* The parts before and after the offset become one.                       *)
Merge ==
  /\ Did("merge")
  /\ SameElements(Result, Was) /\ InOrder(Result) /\ Becomes(Result)

(* How many elements are less than the argument, and how many not greater. *)
EqualRange ==
  /\ Did("equal_range")
  /\ Answers(<<Cardinality({i \in DOMAIN range : range[i] < Argument}),
               Cardinality({i \in DOMAIN range : range[i] <= Argument})>>)

(* The first least element, and the last greatest one, by offset.          *)
Least    == {i \in DOMAIN range : \A j \in DOMAIN range : range[i] <= range[j]}
Greatest == {i \in DOMAIN range : \A j \in DOMAIN range : range[j] <= range[i]}

MinMaxElement ==
  /\ Did("minmax_element")
  /\ Answers(<<(CHOOSE i \in Least : \A j \in Least : i <= j) - 1,
               (CHOOSE i \in Greatest : \A j \in Greatest : j <= i) - 1>>)

ContractNext ==
  \/ Sort \/ StableSort \/ PartialSort
  \/ MakeHeap \/ Push \/ Pop \/ IsHeapUntil
  \/ NextPermutation \/ PrevPermutation \/ Rotate \/ Reverse \/ Remove
  \/ Merge \/ EqualRange \/ MinMaxElement

ContractSpec == [][ContractNext]_contractVars
=============================================================================
