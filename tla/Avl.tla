--------------------------------- MODULE Avl ---------------------------------
(***************************************************************************)
(* ciel::avl, and ciel::set and ciel::map above it.                        *)
(*                                                                         *)
(* A node has the pointers left_, right_ and parent_ and its height_; the  *)
(* dummy root of a tree, which is its end(), has only left_ and is written *)
(* with the name of the variable. Functions are operators from a heap of   *)
(* nodes and trees to the next one, pointer by pointer as in the code; a   *)
(* member function is one action with all its outcomes: it completes, or   *)
(* the allocation or construction of a node throws in it.                  *)
(***************************************************************************)
EXTENDS Integers, Sequences, FiniteSets

LOCAL SE == INSTANCE SequencesExt

CONSTANTS
  Trees,        (* variables of type avl; also their dummy roots             *)
  Keys,         (* comp_ is < on them                                        *)
  Mapped,       (* what map associates with a key; one value for set         *)
  Copies,       (* how many nodes there can be of each key                   *)
  Null,         (* nullptr                                                   *)
  Gone,         (* a variable outside its lifetime                           *)
  EmptyRanges,  (* whether forward ranges may be empty                       *)
  MaxRange,     (* bound: elements a call brings along                       *)
  MaxLost       (* bound: nodes lost                                         *)

ASSUME TreeAssumption ==
  /\ Keys \subseteq Int /\ Mapped # {}
  /\ Copies \in Nat \ {0} /\ MaxRange \in Nat /\ MaxLost \in Nat
  /\ EmptyRanges \in BOOLEAN

VARIABLES
  heap,    (* the nodes and the trees                                        *)
  call     (* the last call: what, with which elements, whether it threw     *)

vars == <<heap, call>>

(* A node keeps its key, so its address is written with it.                 *)
Nodes    == Keys \X (1 .. Copies)
Key(n)   == n[1]
Elements == Keys \X Mapped
Calls    == {"construct", "destroy", "assign", "insert", "insert all", "put",
             "erase", "keep", "take", "swap"}

TypeOK ==
  /\ heap.live \subseteq Nodes
  /\ heap.left \in [Nodes \cup Trees -> Nodes \cup {Null}]
  /\ heap.right \in [Nodes -> Nodes \cup {Null}]
  /\ heap.parent \in [Nodes -> Nodes \cup Trees \cup {Null}]
  /\ heap.height \in [Nodes -> Nat]
  /\ heap.value \in [Nodes -> Mapped]
  /\ heap.start \in [Trees -> Nodes \cup Trees \cup {Gone}]
  /\ heap.size \in [Trees -> Nat]
  /\ heap.lost \in Nat /\ heap.fault \in BOOLEAN
  /\ call \in Calls \X (SUBSET Elements) \X BOOLEAN

NoValue == CHOOSE v \in Mapped : TRUE

Init ==
  /\ heap = [live   |-> {},
             left   |-> [p \in Nodes \cup Trees |-> Null],
             right  |-> [n \in Nodes |-> Null],
             parent |-> [n \in Nodes |-> Null],
             height |-> [n \in Nodes |-> 0],
             value  |-> [n \in Nodes |-> NoValue],
             start  |-> [t \in Trees |-> Gone],
             size   |-> [t \in Trees |-> 0],
             lost   |-> 0,
             fault  |-> FALSE]
  /\ call = <<"keep", {}, FALSE>>

-----------------------------------------------------------------------------
(* Nodes.                                                                  *)
Opposite(side) == IF side = "left" THEN "right" ELSE "left"

IsLeftChild(h, n) == h.left[h.parent[n]] = n
SideOf(h, n)      == IF IsLeftChild(h, n) THEN "left" ELSE "right"

Height(h, n)   == IF n = Null THEN 0 ELSE h.height[n]
Higher(i, j)   == IF i > j THEN i ELSE j
Balance(h, n)  == Height(h, h.left[n]) - Height(h, h.right[n])
Adjusted(h, n) ==
  [h EXCEPT !.height[n] = 1 + Higher(Height(h, h.left[n]), Height(h, h.right[n]))]

(* n, which may be null, becomes the child of p on one side.               *)
Linked(h, p, side, n) ==
  LET down == [h EXCEPT ![side][p] = n]
  IN IF n = Null THEN down ELSE [down EXCEPT !.parent[n] = p]

(* m takes the place of n below the parent of n.                           *)
Replaced(h, n, m) == Linked(h, h.parent[n], SideOf(h, n), m)

RECURSIVE Outermost(_, _, _)
Outermost(h, n, side) ==
  IF h[side][n] = Null THEN n ELSE Outermost(h, h[side][n], side)

(* The parent of the first node from n upwards that is a left child, or    *)
(* that is not.                                                            *)
RECURSIVE Above(_, _, _)
Above(h, n, left) ==
  IF IsLeftChild(h, n) = left THEN h.parent[n] ELSE Above(h, h.parent[n], left)

(* operator++ and operator-- of the iterator.                              *)
Successor(h, n) ==
  IF h.right[n] # Null THEN Outermost(h, h.right[n], "left") ELSE Above(h, n, TRUE)
Predecessor(h, n) ==
  IF h.left[n] # Null THEN Outermost(h, h.left[n], "right") ELSE Above(h, n, FALSE)

(* A subtree in order.                                                     *)
RECURSIVE InOrder(_, _)
InOrder(h, n) ==
  IF n = Null THEN <<>> ELSE InOrder(h, h.left[n]) \o <<n>> \o InOrder(h, h.right[n])

NodesOf(h, t)    == InOrder(h, h.left[t])
NodeSet(h, t)    == {NodesOf(h, t)[i] : i \in DOMAIN NodesOf(h, t)}
ElementsOf(h, N) == {<<Key(n), h.value[n]>> : n \in N}

-----------------------------------------------------------------------------
(* Allocation.                                                             *)
Allocatable(h, k) == \E i \in 1 .. Copies : <<k, i>> \notin h.live
NewNode(h, k) ==
  <<k, CHOOSE i \in 1 .. Copies :
         <<k, i>> \notin h.live /\ \A j \in 1 .. i - 1 : <<k, j>> \in h.live>>

(* allocate_and_construct_node, for NewNode(h, e[1]).                      *)
Allocated(h, t, e) ==
  LET n == NewNode(h, e[1])
  IN [h EXCEPT !.live = @ \cup {n}, !.height[n] = 1, !.value[n] = e[2], !.size[t] = @ + 1]

Freed(h, N) ==
  [h EXCEPT !.live   = @ \ N,
            !.left   = [p \in DOMAIN @ |-> IF p \in N THEN Null ELSE @[p]],
            !.right  = [n \in Nodes |-> IF n \in N THEN Null ELSE @[n]],
            !.parent = [n \in Nodes |-> IF n \in N THEN Null ELSE @[n]],
            !.height = [n \in Nodes |-> IF n \in N THEN 0 ELSE @[n]],
            !.value  = [n \in Nodes |-> IF n \in N THEN NoValue ELSE @[n]],
            !.fault  = @ \/ ~(N \subseteq h.live)]

(* Mutant: start_ is null as the root is.                                  *)
ClearedToNull(h, t) ==
  [Freed(h, NodeSet(h, t)) EXCEPT !.left[t] = Null, !.start[t] = Null, !.size[t] = 0]

(* clear.                                                                  *)
Cleared(h, t) ==
  [Freed(h, NodeSet(h, t)) EXCEPT !.left[t] = Null, !.start[t] = t, !.size[t] = 0]

-----------------------------------------------------------------------------
(* Balance.                                                                *)

(* Mutant: the grandchild that changes sides keeps its parent.             *)
RotatedForgettingParent(h, head, side) ==
  LET new   == h[side][head]
      inner == h[Opposite(side)][new]
      up    == Linked([Replaced(h, head, new) EXCEPT ![side][head] = inner],
                      new, Opposite(side), head)
  IN IF new = Null THEN [h EXCEPT !.fault = TRUE]
     ELSE Adjusted(Adjusted(up, head), new)

(* right_rotate for "left", left_rotate for "right": the child of head on  *)
(* that side takes its place. There has to be one.                         *)
Rotated(h, head, side) ==
  LET new   == h[side][head]
      inner == h[Opposite(side)][new]
      up    == Linked(Linked(Replaced(h, head, new), head, side, inner),
                      new, Opposite(side), head)
  IN IF new = Null THEN [h EXCEPT !.fault = TRUE]
     ELSE Adjusted(Adjusted(up, head), new)

(* The child of head on that side is rotated first.                        *)
DoublyRotated(h, head, side) ==
  LET bent == Rotated(h, h[side][head], Opposite(side))
  IN IF bent.fault THEN bent ELSE Rotated(bent, head, side)

HeavySide(b) == IF b > 1 THEN "left" ELSE "right"

(* The loops at the end of insert_node_at: from the parent of n upwards.   *)
RECURSIVE Grown(_, _, _, _)
Grown(h, t, n, new) ==
  LET up   == h.parent[n]
      g    == Adjusted(h, up)
      side == HeavySide(Balance(g, up))
      c    == g[side][up]
      straight == IF side = "left" THEN Key(new) < Key(c) ELSE Key(c) < Key(new)
      r    == IF straight THEN Rotated(g, up, side) ELSE DoublyRotated(g, up, side)
  IN IF up = t \/ h.fault THEN h
     ELSE IF Balance(g, up) \in -1 .. 1 THEN Grown(g, t, up, new)
     ELSE IF r.fault THEN r
     ELSE Grown(r, t, r.parent[up], new)

(* The loop at the end of destroy_and_deallocate_node: from n upwards.     *)
RECURSIVE Shrunk(_, _, _)
Shrunk(h, t, n) ==
  LET g    == Adjusted(h, n)
      side == HeavySide(Balance(g, n))
      c    == g[side][n]
      straight == Height(g, g[side][c]) >= Height(g, g[Opposite(side)][c])
      r    == IF straight THEN Rotated(g, n, side) ELSE DoublyRotated(g, n, side)
  IN IF n = t \/ h.fault THEN h
     ELSE IF Balance(g, n) \in -1 .. 1 THEN Shrunk(g, t, g.parent[n])
     ELSE IF r.fault THEN r
     ELSE Shrunk(r, t, r.parent[r.parent[n]])

-----------------------------------------------------------------------------
(* insert_node_at: new becomes the predecessor of pos.                     *)
Placed(h, t, pos, new) ==
  LET last == Outermost(h, h.left[pos], "right")
      in   == IF h.left[pos] # Null THEN Linked(h, last, "right", new)
              ELSE [Linked(h, pos, "left", new) EXCEPT
                      !.start[t] = IF pos = @ THEN new ELSE @]
  IN Grown(in, t, new, new)

(* Mutant: after the replacement by its predecessor the place of the       *)
(* predecessor is not rebalanced.                                          *)
UnlinkedKeepingHeights(h, t, n) ==
  LET l == h.left[n]
      p == Predecessor(h, n)
      under == h.parent[p]
      out == Linked(h, under, "right", h.left[p])
  IN IF l # Null /\ h.right[n] # Null THEN
       IF IsLeftChild(h, p)
       THEN [h |-> Linked(Replaced(h, n, p), p, "right", h.right[n]), up |-> h.parent[n]]
       ELSE [h |-> Linked(Linked(Replaced(out, n, p), p, "left", out.left[n]),
                          p, "right", h.right[n]),
             up |-> p]
     ELSE [h |-> Replaced(h, n, IF l # Null THEN l ELSE h.right[n]), up |-> h.parent[n]]

(* A node that has both children is replaced by its predecessor. What to   *)
(* rebalance from is the lowest place that changed.                        *)
Unlinked(h, t, n) ==
  LET l == h.left[n]
      r == h.right[n]
      p == Predecessor(h, n)
      under == h.parent[p]
  IN IF l # Null /\ r # Null THEN
       IF IsLeftChild(h, p)
       THEN [h |-> Linked(Replaced(h, n, p), p, "right", r), up |-> p]
       ELSE LET out == Linked(h, under, "right", h.left[p])
            IN [h |-> Linked(Linked(Replaced(out, n, p), p, "left", out.left[n]), p, "right", r),
                up |-> under]
     ELSE [h |-> Replaced(h, n, IF l # Null THEN l ELSE r), up |-> h.parent[n]]

(* destroy_and_deallocate_node: a node without a parent was never linked.  *)
Destroyed(h, t, n) ==
  LET moved == IF n = h.start[t] THEN [h EXCEPT !.start[t] = Successor(h, n)] ELSE h
      out   == Unlinked(moved, t, n)
      rest  == IF h.parent[n] = Null THEN h ELSE Shrunk(out.h, t, out.up)
  IN [Freed(rest, {n}) EXCEPT !.size[t] = @ - 1]

-----------------------------------------------------------------------------
(* Search.                                                                 *)
(* Mutant: lower_bound leaves an equal element behind.                     *)
RECURSIVE DescentPastEqual(_, _, _, _, _)
DescentPastEqual(h, n, k, res, upper) ==
  IF n = Null THEN res
  ELSE IF k < Key(n) THEN DescentPastEqual(h, h.left[n], k, n, upper)
       ELSE DescentPastEqual(h, h.right[n], k, res, upper)

RECURSIVE Descent(_, _, _, _, _)
Descent(h, n, k, res, upper) ==
  IF n = Null THEN res
  ELSE IF (IF upper THEN k < Key(n) ELSE ~(Key(n) < k))
       THEN Descent(h, h.left[n], k, n, upper)
       ELSE Descent(h, h.right[n], k, res, upper)

LowerBound(h, t, k) == Descent(h, h.left[t], k, t, FALSE)
UpperBound(h, t, k) == Descent(h, h.left[t], k, t, TRUE)

(* find: end() when there is none.                                         *)
Find(h, t, k) ==
  LET lb == LowerBound(h, t, k) IN IF lb # t /\ ~(k < Key(lb)) THEN lb ELSE t
Contains(h, t, k) == Find(h, t, k) # t

(* count_multi.                                                            *)
RECURSIVE CountFrom(_, _, _, _)
CountFrom(h, t, k, n) ==
  LET next == Successor(h, n)
  IN 1 + (IF next # t /\ ~(k < Key(next)) THEN CountFrom(h, t, k, next) ELSE 0)
Count(h, t, k) == IF Contains(h, t, k) THEN CountFrom(h, t, k, Find(h, t, k)) ELSE 0

RightUniquePlace(h, t, pos, k) ==
  /\ pos = t \/ k < Key(pos)
  /\ pos = h.start[t] \/ Key(Predecessor(h, pos)) < k

RightMultiPlace(h, t, pos, k) ==
  /\ pos = t \/ ~(Key(pos) < k)
  /\ pos = h.start[t] \/ ~(k < Key(Predecessor(h, pos)))

-----------------------------------------------------------------------------
(* Insertion of a new node before pos, unless its key is there.            *)
Inserted(h, t, pos, e) ==
  LET new == NewNode(h, e[1])
      all == Allocated(h, t, e)
  IN IF RightUniquePlace(all, t, pos, e[1]) THEN Placed(all, t, pos, new)
     ELSE Destroyed(all, t, new)

(* emplace_unique.                                                         *)
Emplaced(h, t, e) == Inserted(h, t, LowerBound(h, t, e[1]), e)

(* Mutant: the hint is trusted.                                            *)
EmplacedAtHintBlindly(h, t, hint, e) == Inserted(h, t, hint, e)

(* emplace_unique_hint.                                                    *)
EmplacedAtHint(h, t, hint, e) ==
  Inserted(h, t, IF RightMultiPlace(h, t, hint, e[1]) THEN hint ELSE LowerBound(h, t, e[1]), e)

(* The position for the next element of a sorted range.                    *)
RECURSIVE Forward(_, _, _, _)
Forward(h, t, pos, k) ==
  IF RightMultiPlace(h, t, pos, k) THEN pos ELSE Forward(h, t, Successor(h, pos), k)

IsSorted(s) == \A i \in 1 .. Len(s) - 1 : ~(s[i + 1][1] < s[i][1])

(* range_insert_unique, range_insert_multi: what the first n elements of s *)
(* have done. Those of a sorted forward range look for their places from   *)
(* the one before, and its first element is looked at before the loop      *)
(* asks whether there is one.                                              *)
Joins(h, t, pos, e, multi) == multi \/ RightUniquePlace(h, t, pos, e[1])
Added(h, t, pos, e)        == Placed(Allocated(h, t, e), t, pos, NewNode(h, e[1]))

InsertedAll(h, t, s, n, forward, multi) ==
  LET along == IsSorted(s) /\ forward
      Step(r, e) ==
        LET pos == IF along THEN Forward(r.h, t, r.pos, e[1]) ELSE LowerBound(r.h, t, e[1])
        IN [h |-> IF Joins(r.h, t, pos, e, multi) THEN Added(r.h, t, pos, e) ELSE r.h,
            pos |-> pos]
      begin == IF n = 0 THEN t ELSE LowerBound(h, t, s[1][1])
  IN IF along /\ s = <<>> THEN [h EXCEPT !.fault = TRUE]
     ELSE SE!FoldLeft(Step, [h |-> h, pos |-> begin], SubSeq(s, 1, n)).h

-----------------------------------------------------------------------------
Unborn(t) == ~heap.fault /\ heap.start[t] = Gone
Alive(t)  == ~heap.fault /\ heap.start[t] # Gone

(* The inputs: sequences of at most MaxRange elements.                     *)
Ranges      == UNION {[1 .. n -> Elements] : n \in 0 .. MaxRange}
Brought(s)  == {s[i] : i \in DOMAIN s}
InBound(s, forward) ==
  /\ \A i \in DOMAIN s : Allocatable(heap, s[i][1])
  /\ s # <<>> \/ ~forward \/ EmptyRanges
Sequence(h, t) == [i \in DOMAIN NodesOf(h, t) |->
                     <<Key(NodesOf(h, t)[i]), h.value[NodesOf(h, t)[i]]>>]

Completes(new, what, S) == heap' = new /\ call' = <<what, S, FALSE>>
Throws(new, what, S)    == heap' = new /\ call' = <<what, S, TRUE>>

Born(h, t)   == [h EXCEPT !.start[t] = t]
Dead(h, t)   == [Cleared(h, t) EXCEPT !.start[t] = Gone]

(* When an insertion of a constructor throws, the destructor does not run  *)
(* and the nodes so far are lost; they are not heard of again.             *)
Abandoned(h, t) == [Dead(h, t) EXCEPT !.lost = @ + h.size[t]]

ConstructFrom(t, s, forward, multi) ==
  /\ Unborn(t) /\ InBound(s, forward)
  /\ LET Done(n) == InsertedAll(Born(heap, t), t, s, n, forward, multi)
     IN \/ Completes(Done(Len(s)), "construct", Brought(s))
        \/ \E n \in 0 .. Len(s) - 1 :
             /\ heap.lost + n <= MaxLost
             /\ Throws(Abandoned(Done(n), t), "construct", {})

(* The default constructor.                                                *)
Construct(t) == Unborn(t) /\ Completes(Born(heap, t), "construct", {})

(* The constructors from a range.                                          *)
ConstructRange(t, s, forward) == ConstructFrom(t, s, forward, FALSE)

CopyConstruct(t, u) == Alive(u) /\ ConstructFrom(t, Sequence(heap, u), TRUE, TRUE)

(* Mutant: the source keeps its root.                                      *)
TakenTwice(h, t, u) ==
  LET root  == h.left[u]
      taken == [h EXCEPT !.left[t] = root, !.size[t] = h.size[u], !.size[u] = 0,
                         !.start[t] = IF h.size[u] # 0 THEN h.start[u] ELSE t,
                         !.start[u] = u]
  IN IF root = Null THEN taken ELSE [taken EXCEPT !.parent[root] = t]

(* The nodes of u go over to t, whose own are gone.                        *)
Taken(h, t, u) ==
  LET root  == h.left[u]
      taken == [h EXCEPT !.left[t] = root, !.left[u] = Null,
                         !.size[t] = h.size[u], !.size[u] = 0,
                         !.start[t] = IF h.size[u] # 0 THEN h.start[u] ELSE t,
                         !.start[u] = u]
  IN IF root = Null THEN taken ELSE [taken EXCEPT !.parent[root] = t]

MoveConstruct(t, u) ==
  Unborn(t) /\ Alive(u) /\ Completes(Taken(heap, t, u), "take", {})

Destruct(t) == Alive(t) /\ Completes(Dead(heap, t), "destroy", {})

Clear(t) == Alive(t) /\ Completes(Cleared(heap, t), "assign", {})

(* Mutant: assignment does not clear.                                      *)
ReassignJoining(t, s, multi) ==
  LET Done(n) == InsertedAll(heap, t, s, n, TRUE, FALSE)
  IN /\ Alive(t) /\ InBound(s, TRUE)
     /\ \/ Completes(Done(Len(s)), "assign", Brought(s))
        \/ \E n \in 0 .. Len(s) - 1 : Throws(Done(n), "assign", Brought(s))

(* Assignment: clear, then insert.                                         *)
Reassign(t, s, multi) ==
  LET Done(n) == InsertedAll(Cleared(heap, t), t, s, n, TRUE, multi)
  IN /\ Alive(t) /\ InBound(s, TRUE)
     /\ \/ Completes(Done(Len(s)), "assign", Brought(s))
        \/ \E n \in 0 .. Len(s) - 1 : Throws(Done(n), "assign", Brought(s))

CopyAssign(t, u) == t # u /\ Alive(u) /\ Reassign(t, Sequence(heap, u), TRUE)

(* set::operator=, map::operator= of a list.                               *)
AssignList(t, s) == Reassign(t, s, FALSE)

MoveAssign(t, u) ==
  /\ t # u /\ Alive(t) /\ Alive(u)
  /\ Completes(Taken(Cleared(heap, t), t, u), "take", {})

(* The roots are exchanged and get their new parents.                      *)
Swap(t, u) ==
  /\ Alive(t) /\ Alive(u)
  /\ LET Relinked(h, v) ==
           IF h.left[v] = Null THEN h ELSE [h EXCEPT !.parent[h.left[v]] = v]
         Begin(v, w) == IF heap.left[w] # Null THEN heap.start[w] ELSE v
         crossed == [heap EXCEPT !.left[t] = heap.left[u], !.left[u] = heap.left[t],
                                 !.start[t] = Begin(t, u), !.start[u] = Begin(u, t),
                                 !.size[t] = heap.size[u], !.size[u] = heap.size[t]]
     IN Completes(Relinked(Relinked(crossed, t), u), "swap", {})

-----------------------------------------------------------------------------
(* Insertion.                                                              *)

Emplace(t, e) ==
  /\ Alive(t)
  /\ \/ Allocatable(heap, e[1]) /\ Completes(Emplaced(heap, t, e), "insert", {e})
     \/ Throws(heap, "insert", {e})

EmplaceHint(t, hint, e) ==
  /\ Alive(t) /\ hint \in NodeSet(heap, t) \cup {t}
  /\ \/ /\ Allocatable(heap, e[1])
        /\ Completes(EmplacedAtHint(heap, t, hint, e), "insert", {e})
     \/ Throws(heap, "insert", {e})

RangeInsert(t, s, forward) ==
  /\ Alive(t) /\ InBound(s, forward)
  /\ LET Done(n) == InsertedAll(heap, t, s, n, forward, FALSE)
     IN \/ Completes(Done(Len(s)), "insert", Brought(s))
        \/ \E n \in 0 .. Len(s) - 1 : Throws(Done(n), "insert all", Brought(s))

(* map::try_emplace and operator[], whose value is the default one.        *)
TryEmplace(t, e) ==
  /\ Alive(t)
  /\ \/ Contains(heap, t, e[1]) /\ Completes(heap, "insert", {e})
     \/ ~Contains(heap, t, e[1]) /\ Emplace(t, e)

(* map::insert_or_assign: the assignment of the value may throw as well.   *)
InsertOrAssign(t, e) ==
  /\ Alive(t)
  /\ \/ /\ Contains(heap, t, e[1])
        /\ \/ Completes([heap EXCEPT !.value[Find(heap, t, e[1])] = e[2]], "put", {e})
           \/ Throws(heap, "put", {e})
     \/ ~Contains(heap, t, e[1]) /\ Emplace(t, e)

-----------------------------------------------------------------------------
(* Removal.                                                                *)

(* erase(first, last): first++ is evaluated before its node goes.          *)
RECURSIVE ErasedBetween(_, _, _, _)
ErasedBetween(h, t, first, last) ==
  IF first = last \/ h.fault THEN h
  ELSE ErasedBetween(Destroyed(h, t, first), t, Successor(h, first), last)

(* N are the nodes the caller names.                                       *)
Erases(t, first, last, N) ==
  Completes(ErasedBetween(heap, t, first, last), "erase", ElementsOf(heap, N))

EraseRange(t, i, j) ==
  /\ Alive(t)
  /\ LET s == Append(NodesOf(heap, t), t)
     IN i <= j /\ j <= Len(s) /\ Erases(t, s[i], s[j], Brought(SubSeq(s, i, j - 1)))

(* erase of a key: the elements of its equal_range.                        *)
EraseKey(t, k) ==
  /\ Alive(t)
  /\ Erases(t, LowerBound(heap, t, k), UpperBound(heap, t, k),
            {n \in NodeSet(heap, t) : Key(n) = k})

(* erase_if.                                                               *)
EraseIf(t, K) ==
  /\ Alive(t)
  /\ LET out == SelectSeq(NodesOf(heap, t), LAMBDA n : Key(n) \in K)
         new == SE!FoldLeft(LAMBDA h, n : Destroyed(h, t, n), heap, out)
     IN Completes(new, "erase", ElementsOf(heap, Brought(out)))

-----------------------------------------------------------------------------
Lifetime(t) ==
  \/ Destruct(t) \/ Construct(t)
  \/ \E s \in Ranges, forward \in BOOLEAN : ConstructRange(t, s, forward)
  \/ \E u \in Trees : CopyConstruct(t, u) \/ MoveConstruct(t, u)

Assignment(t) ==
  \/ Clear(t)
  \/ \E s \in Ranges : AssignList(t, s)
  \/ \E u \in Trees : CopyAssign(t, u) \/ MoveAssign(t, u) \/ Swap(t, u)

Insertion(t) ==
  \/ \E e \in Elements, hint \in Nodes \cup Trees : EmplaceHint(t, hint, e)
  \/ \E e \in Elements : Emplace(t, e) \/ TryEmplace(t, e) \/ InsertOrAssign(t, e)
  \/ \E s \in Ranges, forward \in BOOLEAN : RangeInsert(t, s, forward)

Removal(t) ==
  \/ \E i, j \in 1 .. Cardinality(Nodes) + 1 : EraseRange(t, i, j)
  \/ \E k \in Keys : EraseKey(t, k)
  \/ \E K \in SUBSET Keys : EraseIf(t, K)

Next == \E t \in Trees : Lifetime(t) \/ Assignment(t) \/ Insertion(t) \/ Removal(t)

Spec == Init /\ [][Next]_vars

-----------------------------------------------------------------------------
Living == {t \in Trees : Alive(t)}

(* No node is freed twice and no rotation follows a null pointer; every    *)
(* node is in one tree, which has counted it; only constructors that threw *)
(* have lost nodes.                                                        *)
NodesOwned ==
  /\ ~heap.fault
  /\ \A t \in Living : /\ NodeSet(heap, t) \subseteq heap.live
                       /\ Len(NodesOf(heap, t)) = heap.size[t]
  /\ \A t, u \in Living : t # u => NodeSet(heap, t) \cap NodeSet(heap, u) = {}
  /\ heap.live = UNION {NodeSet(heap, t) : t \in Living}

(* The stored heights are the heights, and those of the children of a node *)
(* differ by one at most: insert_node_at and destroy_and_deallocate_node   *)
(* take care of height_ and balance, from the place of the change upwards. *)
RECURSIVE Depth(_, _)
Depth(h, n) ==
  IF n = Null THEN 0 ELSE 1 + Higher(Depth(h, h.left[n]), Depth(h, h.right[n]))
Balanced ==
  /\ ~heap.fault
  /\ \A t \in Living : \A n \in NodeSet(heap, t) :
       /\ heap.height[n] = Depth(heap, n)
       /\ Balance(heap, n) \in -1 .. 1

(* Iterating from begin() visits the elements by ascending keys and ends   *)
(* at end(), from where the way back is the same: whatever rotations did   *)
(* to parents, children and start_.                                        *)
WaysAgree(t, way) ==
  /\ heap.start[t] = way[1]
  /\ \A i \in 1 .. Len(way) - 1 :
       /\ Successor(heap, way[i]) = way[i + 1]
       /\ Predecessor(heap, way[i + 1]) = way[i]
IterationOrder ==
  \A t \in Living :
    LET s == NodesOf(heap, t)
    IN /\ \A i \in 1 .. Len(s) - 1 :
            Key(s[i]) < Key(s[i + 1])
       /\ WaysAgree(t, Append(s, t))

(* lower_bound, upper_bound, find and count agree with their definitions   *)
(* on the sequence of the elements.                                        *)
SearchExact ==
  \A t \in Living : \A k \in Keys :
    LET s == NodesOf(heap, t)
        First(P) == IF P = {} THEN t ELSE s[CHOOSE i \in P : \A j \in P : i <= j]
    IN /\ LowerBound(heap, t, k) = First({i \in DOMAIN s : Key(s[i]) >= k})
       /\ UpperBound(heap, t, k) = First({i \in DOMAIN s : Key(s[i]) > k})
       /\ Find(heap, t, k) = First({i \in DOMAIN s : Key(s[i]) = k})
       /\ Count(heap, t, k) = Cardinality({i \in DOMAIN s : Key(s[i]) = k})

-----------------------------------------------------------------------------
(* What a tree of unique keys shows is a map.                              *)
Shown(t) == IF heap.start[t] = Gone THEN Gone ELSE ElementsOf(heap, NodeSet(heap, t))

Map == INSTANCE KeyMap WITH
         Containers <- Trees,
         contents   <- [t \in Trees |-> Shown(t)]

(* Every call does to the map what it promises, whatever throws in it.     *)
ImplementsMap == Map!MapSpec
=============================================================================
