----------------------------- MODULE ForwardList -----------------------------
(***************************************************************************)
(* ciel::forward_list: nodes behind before_begin_, the last one's next_ is *)
(* null. No node points back, so that lists move by their first pointer,   *)
(* and everything happens behind a position.                               *)
(*                                                                         *)
(* A node is a block of two cells: its value and next_. The address of a   *)
(* list's before_begin_ is the variable. The state of a call is the memory *)
(* and all variables.                                                      *)
(***************************************************************************)
EXTENDS Container
LOCAL INSTANCE FiniteSets
LOCAL INSTANCE FiniteSetsExt

Links == Blocks \cup {Null}
Lists == [next : Links]

TypeOK ==
  /\ \A b \in Allocated(mem) :
       Len(mem.cells[b]) = 2 /\ mem.cells[b][1] \in Values /\ mem.cells[b][2] \in Links
  /\ obj \in [Objects -> Lists \cup {Gone}]
  /\ CallOK

Now == At(mem, obj)

-----------------------------------------------------------------------------
NextOf(r, a) == IF a \in Objects THEN r.o[a].next ELSE Look(r.m, <<a, 1>>)

SetNext(r, a, b) ==
  IF a \in Objects THEN [r EXCEPT !.o[a].next = b]
  ELSE [r EXCEPT !.m = AssignCells(@, <<<<a, 1>>>>, <<b>>)]

(* before_begin_, the nodes and null, by position: node i is hop i.        *)
Hops(r, a) ==
  LET hop[i \in 0 .. Cardinality(Blocks) + 1] ==
        IF i = 0 THEN a
        ELSE LET before == hop[i - 1]
             IN IF before \in Blocks \cup Objects THEN NextOf(r, before) ELSE Null
  IN hop

(* The nodes behind a and before b, which comes after it.                  *)
Between(r, a, b) ==
  LET hop == Hops(r, a)
  IN [i \in 1 .. Min({j \in DOMAIN hop : j > 0 /\ hop[j] = b}) - 1 |-> hop[i]]

Nodes(r, v)    == Between(r, v, Null)
Size(r, v)     == Len(Nodes(r, v))
Contents(r, v) ==
  LET nodes == Nodes(r, v) IN [i \in DOMAIN nodes |-> Look(r.m, <<nodes[i], 0>>)]

-----------------------------------------------------------------------------
(* Private functions.                                                      *)

FreeNode(m, b) == Deallocate(Destroy(m, b, 0, 2), b, 2)

(* alloc_range_destroy_and_deallocate: the nodes of (a, b) go.             *)
Unlink(r, a, b) ==
  LET way == Between(r, a, b)
      freed[i \in 0 .. Len(way)] == IF i = 0 THEN r.m ELSE FreeNode(freed[i - 1], way[i])
  IN SetNext(At(Require(freed[Len(way)], a # b), r.o), a, b)

(* alloc_range_allocate_and_construct: the elements of s behind pos.       *)
LinkAll(r, pos, s) ==
  LET after == NextOf(r, pos)
      Link(q, before, x) ==
        LET b == NewBlock(q.m)
            m == Construct(Allocate(q.m, b, 2), b, 0, <<x, after>>)
        IN [at |-> b, r |-> SetNext(At(m, q.o), before, b)]
      linked[i \in 0 .. Len(s)] ==
        IF i = 0 THEN [at |-> pos, r |-> r]
        ELSE LET q == linked[i - 1] IN Link(q.r, q.at, s[i])
  IN linked[Len(s)].r

(* Left at a throw after k of them, those are taken out again.             *)
LinkFails(r, pos, s, k) == Unlink(LinkAll(r, pos, SubSeq(s, 1, k)), pos, NextOf(r, pos))

(* Bound: every element takes a block.                                     *)
Fits(r, n) == n <= Cardinality(Free(r.m))

Ends(r, c) == mem' = r.m /\ obj' = r.o /\ call' = c

(* The elements of s go behind pos in r, or one of them throws.            *)
InsertsAfter(r, pos, s, what, at) ==
  /\ Fits(r, Len(s))
  /\ \/ Ends(LinkAll(r, pos, s), Brought(what, at, s))
     \/ \E k \in 0 .. Len(s) - 1 : Ends(LinkFails(r, pos, s, k), Threw(what))

-----------------------------------------------------------------------------
(* Lifetime.                                                               *)

Clear(r, v)     == Unlink(r, v, Null)
Becomes(r, v, o) == [r EXCEPT !.o = [@ EXCEPT ![v] = o]]
Born(r, v)      == Becomes(r, v, [next |-> Null])

DefaultConstruct(v) ==
  /\ Unborn(v)
  /\ Ends(Born(Now, v), Made("construct"))

ConstructRange(v, s) ==
  /\ Unborn(v)
  /\ Fits(Now, Len(s))
  /\ \/ Ends(LinkAll(Born(Now, v), v, s), Brought("construct", 0, s))
     \/ \E k \in 0 .. Len(s) - 1 :
          Ends(Becomes(LinkFails(Born(Now, v), v, s, k), v, Gone), Threw("construct"))

CopyConstruct(v, w) ==
  /\ Alive(w)
  /\ ConstructRange(v, Contents(Now, w))

Adopt(r, v, w) == Born(Becomes(r, v, r.o[w]), w)

MoveConstruct(v, w) ==
  /\ Unborn(v) /\ Alive(w)
  /\ Ends(Adopt(Now, v, w), Made("take"))

Destruct(v) ==
  /\ Alive(v)
  /\ Ends(Becomes(Clear(Now, v), v, Gone), Made("destroy"))

-----------------------------------------------------------------------------
(* Assignment.                                                             *)

AssignRange(v, s) ==
  /\ Alive(v)
  /\ InsertsAfter(Clear(Now, v), v, s, "assign", 0)

CopyAssign(v, w) ==
  /\ Alive(w)
  /\ v # w
  /\ AssignRange(v, Contents(Now, w))

MoveAssign(v, w) ==
  /\ Alive(v) /\ Alive(w)
  /\ v # w
  /\ Ends(Adopt(Clear(Now, v), v, w), Made("take"))

Swap(v, w) ==
  /\ Alive(v) /\ Alive(w)
  /\ Ends(At(mem, [obj EXCEPT ![v] = obj[w], ![w] = obj[v]]), Made("swap"))

-----------------------------------------------------------------------------
(* Insertion and removal, behind the element pos or behind before_begin(). *)

InsertAfter(v, pos, s) ==
  /\ Alive(v)
  /\ pos <= Size(Now, v)
  /\ InsertsAfter(Now, Hops(Now, v)[pos], s, "insert", pos)

EmplaceFront(v, x) ==
  /\ Alive(v)
  /\ InsertsAfter(Now, v, <<x>>, "insert", 0)

Resize(v, n, x) ==
  /\ Alive(v)
  /\ LET size == Size(Now, v)
     IN IF size >= n
        THEN Ends(Unlink(Now, Hops(Now, v)[n], Null), Cut(n, size))
        ELSE InsertsAfter(Now, Hops(Now, v)[size], [i \in 1 .. n - size |-> x], "insert", size)

(* erase_after of one element, and of those between two positions.         *)
EraseAfter(v, pos) ==
  /\ Alive(v)
  /\ pos <= Size(Now, v)
  /\ LET at == Hops(Now, v)[pos]
     IN IF NextOf(Now, at) = Null THEN Ends(Now, Cut(pos, pos))
        ELSE Ends(Unlink(Now, at, NextOf(Now, NextOf(Now, at))), Cut(pos, pos + 1))

EraseBetween(v, first, last) ==
  /\ Alive(v)
  /\ first < last /\ last <= Size(Now, v) + 1
  /\ Ends(Unlink(Now, Hops(Now, v)[first], Hops(Now, v)[last]), Cut(first, last - 1))

PopFront(v) ==
  /\ Alive(v)
  /\ obj[v].next # Null
  /\ Ends(Unlink(Now, v, NextOf(Now, obj[v].next)), Cut(0, 1))

ClearAll(v) ==
  /\ Alive(v)
  /\ Ends(Clear(Now, v), Cut(0, Size(Now, v)))

-----------------------------------------------------------------------------
Lifetime(v) ==
  \/ DefaultConstruct(v)
  \/ Destruct(v)
  \/ \E s \in Ranges : ConstructRange(v, s)
  \/ \E w \in Objects : CopyConstruct(v, w) \/ MoveConstruct(v, w)

Assignment(v) ==
  \/ \E s \in Ranges : AssignRange(v, s)
  \/ \E w \in Objects : CopyAssign(v, w) \/ MoveAssign(v, w) \/ Swap(v, w)

Insertion(v) ==
  \/ \E x \in Values :
       EmplaceFront(v, x) \/ \E n \in 0 .. MaxCapacity : Resize(v, n, x)
  \/ \E s \in Ranges, pos \in 0 .. MaxCapacity : InsertAfter(v, pos, s)

Removal(v) ==
  \/ ClearAll(v) \/ PopFront(v)
  \/ \E pos \in 0 .. MaxCapacity :
       EraseAfter(v, pos) \/ \E last \in 0 .. MaxCapacity : EraseBetween(v, pos, last)

Next == \E v \in Objects :
  Lifetime(v) \/ Assignment(v) \/ Insertion(v) \/ Removal(v)

Spec == Init /\ [][Next]_vars

-----------------------------------------------------------------------------
(* The chain of v ends, and every node in it holds a value.                *)
InPlace(v) ==
  /\ LET hop == Hops(Now, v) IN \E i \in DOMAIN hop : hop[i] = Null
  /\ \A i \in DOMAIN Contents(Now, v) : Contents(Now, v)[i] \in Values

Storage(v) == LET hop == Hops(Now, v) IN {hop[i] : i \in DOMAIN hop} \cap Blocks
=============================================================================
