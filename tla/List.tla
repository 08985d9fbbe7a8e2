--------------------------------- MODULE List ---------------------------------
(***************************************************************************)
(* ciel::list: nodes in a ring that closes in end_node_, a member of the   *)
(* list itself. The nodes next to it hold its address, so that moving a    *)
(* list means mending other objects' pointers, and an empty list holds its *)
(* own address.                                                            *)
(*                                                                         *)
(* A node is a block of three cells: its value, prev_ and next_. The       *)
(* address of a list's end_node_ is the variable. The state of a call is   *)
(* the memory and all variables.                                           *)
(***************************************************************************)
EXTENDS Container
LOCAL INSTANCE FiniteSets
LOCAL INSTANCE FiniteSetsExt

CONSTANT MoveEmpty     (* may an empty list be moved from, or swapped?      *)

Address == Blocks \cup Objects
Lists   == [prev : Address, next : Address, size : Int]

TypeOK ==
  /\ \A b \in Allocated(mem) :
       /\ Len(mem.cells[b]) = 3
       /\ mem.cells[b][1] \in Values /\ mem.cells[b][2] \in Address
       /\ mem.cells[b][3] \in Address
  /\ obj \in [Objects -> Lists \cup {Gone}]
  /\ CallOK

Now == At(mem, obj)

-----------------------------------------------------------------------------
(* Links.                                                                  *)

NextOf(r, a) == IF a \in Objects THEN r.o[a].next ELSE Look(r.m, <<a, 2>>)
PrevOf(r, a) == IF a \in Objects THEN r.o[a].prev ELSE Look(r.m, <<a, 1>>)

SetNext(r, a, b) ==
  IF a \in Objects THEN [r EXCEPT !.o[a].next = b]
  ELSE [r EXCEPT !.m = AssignCells(@, <<<<a, 2>>>>, <<b>>)]
SetPrev(r, a, b) ==
  IF a \in Objects THEN [r EXCEPT !.o[a].prev = b]
  ELSE [r EXCEPT !.m = AssignCells(@, <<<<a, 1>>>>, <<b>>)]

(* The addresses met on the way from a to b, without b. A way that does    *)
(* not come to b never ends.                                               *)
Hops(r, a) ==
  LET hop[i \in 0 .. Cardinality(Blocks)] ==
        IF i = 0 THEN a
        ELSE LET before == hop[i - 1] IN IF before \in Address THEN NextOf(r, before) ELSE Raw
  IN hop
Comes(r, a, b) == LET hop == Hops(r, a) IN \E i \in DOMAIN hop : hop[i] = b
Way(r, a, b)   ==
  LET hop == Hops(r, a)
  IN [i \in 1 .. Min({j \in DOMAIN hop : hop[j] = b}) |-> hop[i - 1]]

Nodes(r, v)  == Way(r, r.o[v].next, v)
Node(r, v, i) == Hops(r, r.o[v].next)[i]

-----------------------------------------------------------------------------
(* Private functions.                                                      *)

FreeNode(m, b) == Deallocate(Destroy(m, b, 0, 3), b, 3)

FreeNodes(m, way) ==
  LET freed[i \in 0 .. Len(way)] == IF i = 0 THEN m ELSE FreeNode(freed[i - 1], way[i])
  IN freed[Len(way)]

(* Mutant: the node behind the range still points back into it.            *)
UnlinkOneWay(r, v, a, b) ==
  LET before == PrevOf(r, a)
      way    == Way(r, a, b)
      counted == [r EXCEPT !.o[v].size = @ - Len(way)]
  IN IF ~Comes(r, a, b) THEN At(Fault(r.m), r.o)
     ELSE SetNext([counted EXCEPT !.m = FreeNodes(@, way)], before, b)

(* alloc_range_destroy_and_deallocate: the nodes of [a, b) go.             *)
Unlink(r, v, a, b) ==
  LET before == PrevOf(r, a)
      way    == Way(r, a, b)
      counted == [r EXCEPT !.o[v].size = @ - Len(way)]
  IN IF ~Comes(r, a, b) THEN At(Fault(r.m), r.o)
     ELSE SetPrev(SetNext([counted EXCEPT !.m = FreeNodes(@, way)], before, b), b, before)

(* One node before pos.                                                    *)
Link(r, v, pos, x) ==
  LET b == NewBlock(r.m)
      before == PrevOf(r, pos)
      m == Construct(Allocate(r.m, b, 3), b, 0, <<x, before, pos>>)
      counted == [r EXCEPT !.m = m, !.o[v].size = @ + 1]
  IN SetPrev(SetNext(counted, before, b), pos, b)

(* alloc_range_allocate_and_construct: the elements of s before pos; left  *)
(* at a throw after k of them, those are taken out again.                  *)
LinkAll(r, v, pos, s) ==
  LET linked[i \in 0 .. Len(s)] == IF i = 0 THEN r ELSE Link(linked[i - 1], v, pos, s[i])
  IN linked[Len(s)]

LinkFails(r, v, pos, s, k) ==
  LET before == PrevOf(r, pos)
      linked == LinkAll(r, v, pos, SubSeq(s, 1, k))
  IN Unlink(linked, v, NextOf(linked, before), pos)

Clear(r, v) == Unlink(r, v, r.o[v].next, v)

(* Bound: every element takes a block.                                     *)
Fits(r, n) == n <= Cardinality(Free(r.m))

Ends(r, c) == mem' = r.m /\ obj' = r.o /\ call' = c

(* The elements of s go before pos in r, or one of them throws.            *)
Links(r, v, pos, s, what, at) ==
  /\ Fits(r, Len(s))
  /\ \/ Ends(LinkAll(r, v, pos, s), Brought(what, at, s))
     \/ \E k \in 0 .. Len(s) - 1 : Ends(LinkFails(r, v, pos, s, k), Threw(what))

-----------------------------------------------------------------------------
(* Lifetime.                                                               *)

NoNodes(v) == [prev |-> v, next |-> v, size |-> 0]
Born(r, v) == [r EXCEPT !.o = [@ EXCEPT ![v] = NoNodes(v)]]
Dead(r, v) == [r EXCEPT !.o = [@ EXCEPT ![v] = Gone]]

DefaultConstruct(v) ==
  /\ Unborn(v)
  /\ Ends(Born(Now, v), Made("construct"))

(* A constructor that is left at a throw leaves no object.                 *)
ConstructRange(v, s) ==
  /\ Unborn(v)
  /\ Fits(Now, Len(s))
  /\ \/ Ends(LinkAll(Born(Now, v), v, v, s), Brought("construct", 0, s))
     \/ \E k \in 0 .. Len(s) - 1 :
          Ends(Dead(LinkFails(Born(Now, v), v, v, s, k), v), Threw("construct"))

Contents(r, v) ==
  LET nodes == Nodes(r, v)
  IN IF ~Comes(r, r.o[v].next, v) THEN <<Moved>>
     ELSE [i \in DOMAIN nodes |-> Look(r.m, <<nodes[i], 0>>)]

CopyConstruct(v, w) ==
  /\ Alive(w)
  /\ ConstructRange(v, Contents(Now, w))

(* The ring of w closes in v from now on: end_node_ is copied, and the     *)
(* nodes at its two ends get its new address.                              *)
Adopt(r, v, w) ==
  LET copied == [r EXCEPT !.o = [@ EXCEPT ![v] = r.o[w]]]
      first  == SetPrev(copied, NextOf(copied, v), v)
      last   == SetNext(first, PrevOf(first, v), v)
  IN [last EXCEPT !.o = [@ EXCEPT ![w] = NoNodes(w)]]

MoveConstruct(v, w) ==
  /\ Unborn(v) /\ Alive(w)
  /\ MoveEmpty \/ obj[w].size > 0
  /\ Ends(Adopt(Now, v, w), Made("take"))

Destruct(v) ==
  /\ Alive(v)
  /\ Ends(Dead(Clear(Now, v), v), Made("destroy"))

-----------------------------------------------------------------------------
(* Assignment.                                                             *)

AssignRange(v, s) ==
  /\ Alive(v)
  /\ Links(Clear(Now, v), v, v, s, "assign", 0)

CopyAssign(v, w) ==
  /\ Alive(w)
  /\ v # w
  /\ AssignRange(v, Contents(Now, w))

MoveAssign(v, w) ==
  /\ Alive(v) /\ Alive(w)
  /\ v # w
  /\ MoveEmpty \/ obj[w].size > 0
  /\ Ends(Adopt(Clear(Now, v), v, w), Made("take"))

(* The end nodes are exchanged and then their neighbours are told.         *)
Swap(v, w) ==
  /\ Alive(v) /\ Alive(w)
  /\ MoveEmpty \/ (obj[v].size > 0 /\ obj[w].size > 0)
  /\ LET swapped == At(mem, [obj EXCEPT ![v] = obj[w], ![w] = obj[v]])
         Told(r, a) == LET first == SetPrev(r, NextOf(r, a), a)
                       IN SetNext(first, PrevOf(first, a), a)
     IN Ends(Told(Told(swapped, v), w), Made("swap"))

-----------------------------------------------------------------------------
(* Insertion and removal; pos counts from begin().                         *)

InsertAt(v, pos, s) ==
  /\ Alive(v)
  /\ pos <= obj[v].size
  /\ Links(Now, v, Node(Now, v, pos), s, "insert", pos)

EmplaceBack(v, x) ==
  /\ Alive(v)
  /\ Links(Now, v, v, <<x>>, "insert", obj[v].size)

EmplaceFront(v, x) ==
  /\ Alive(v)
  /\ Links(Now, v, obj[v].next, <<x>>, "insert", 0)

Resize(v, n, x) ==
  /\ Alive(v)
  /\ LET size == obj[v].size
     IN IF size >= n
        THEN Ends(Unlink(Now, v, Node(Now, v, n), v), Cut(n, size))
        ELSE Links(Now, v, v, [i \in 1 .. n - size |-> x], "insert", size)

Erase(v, first, last) ==
  /\ Alive(v)
  /\ first <= last /\ last <= obj[v].size
  /\ Ends(Unlink(Now, v, Node(Now, v, first), Node(Now, v, last)), Cut(first, last))

PopBack(v) ==
  /\ Alive(v)
  /\ obj[v].size > 0
  /\ Ends(Unlink(Now, v, obj[v].prev, v), Cut(obj[v].size - 1, obj[v].size))

PopFront(v) ==
  /\ Alive(v)
  /\ obj[v].size > 0
  /\ Ends(Unlink(Now, v, obj[v].next, NextOf(Now, obj[v].next)), Cut(0, 1))

ClearAll(v) ==
  /\ Alive(v)
  /\ Ends(Clear(Now, v), Cut(0, obj[v].size))

-----------------------------------------------------------------------------
Lifetime(v) ==
  \/ DefaultConstruct(v)
  \/ Destruct(v)
  \/ \E s \in Ranges : ConstructRange(v, s)
  \/ \E w \in Objects : CopyConstruct(v, w) \/ MoveConstruct(v, w)

Assignment(v) ==
  \/ \E s \in Ranges : AssignRange(v, s)
  \/ \E w \in Objects : CopyAssign(v, w) \/ MoveAssign(v, w) \/ Swap(v, w)

Insertion(v) ==
  \/ \E x \in Values :
       \/ EmplaceBack(v, x) \/ EmplaceFront(v, x)
       \/ \E n \in 0 .. MaxCapacity : Resize(v, n, x)
  \/ \E s \in Ranges, pos \in 0 .. MaxCapacity : InsertAt(v, pos, s)

Removal(v) ==
  \/ ClearAll(v) \/ PopBack(v) \/ PopFront(v)
  \/ \E first, last \in 0 .. MaxCapacity : Erase(v, first, last)

Next == \E v \in Objects :
  Lifetime(v) \/ Assignment(v) \/ Insertion(v) \/ Removal(v)

Spec == Init /\ [][Next]_vars

-----------------------------------------------------------------------------
(* Both ways round, the ring of v leads through size_ nodes back to v.     *)
InPlace(v) ==
  /\ Comes(Now, obj[v].next, v)
  /\ LET ring == <<v>> \o Nodes(Now, v)
     IN /\ obj[v].size = Len(ring) - 1
        /\ \A i \in DOMAIN ring :
             /\ i > 1 => Look(mem, <<ring[i], 0>>) \in Values
             /\ PrevOf(Now, ring[i]) = ring[IF i = 1 THEN Len(ring) ELSE i - 1]

Storage(v) ==
  LET hop == Hops(Now, obj[v].next) IN {hop[i] : i \in DOMAIN hop} \cap Blocks
=============================================================================
