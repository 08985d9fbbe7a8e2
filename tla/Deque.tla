-------------------------------- MODULE Deque --------------------------------
(***************************************************************************)
(* ciel::deque: the map is a split_buffer of blocks. An empty deque has    *)
(* none, which is what its begin() and end() and the functions that grow   *)
(* it have to look out for.                                                *)
(***************************************************************************)
EXTENDS Subarrays

Lost(r) == At(Fault(r.m), r.o)

(* A constructor delegates to deque(alloc): a throw from its body runs the *)
(* destructor.                                                             *)
Delegated(r) == At(Release(r), Gone)

-----------------------------------------------------------------------------
(* Lifetime.                                                               *)

DefaultConstruct(v) ==
  /\ Unborn(v)
  /\ Completes(v, At(mem, NoBlock), "construct")

(* From a count and from a forward range: all blocks first.                *)
ConstructRange(v, s) ==
  /\ Unborn(v)
  /\ BackFits(NoBlock, Len(s))
  /\ LET none == At(mem, NoBlock)
         Map(k) == Times(k, AddBack, none)
         n == Len(s) \div N + 1
     IN IF s = <<>> THEN Completes(v, none, "construct")
        ELSE \/ Brings(v, Extended(Map(n), s), "construct", 0, s)
             \/ \E k \in 0 .. n - 1 : Throws(v, Delegated(Map(k)), "construct")
             \/ \E k \in 0 .. Len(s) - 1 :
                  Throws(v, Delegated(ExtendFails(Map(n), s, k)), "construct")

ConstructInput(v, s) ==
  /\ Unborn(v)
  /\ BackFits(NoBlock, Len(s))
  /\ LET Added(k) == EmplacedAll(At(mem, NoBlock), SubSeq(s, 1, k))
     IN \/ Brings(v, Added(Len(s)), "construct", 0, s)
        \/ \E k \in 0 .. Len(s) - 1 : \E r \in EmplaceBackFails(Added(k)) :
             Throws(v, Delegated(Clear(r)), "construct")

CopyConstruct(v, w) ==
  /\ Alive(w)
  /\ ConstructRange(v, Contents(mem, obj[w]))

MoveConstruct(v, w) ==
  /\ Unborn(v) /\ Alive(w)
  /\ obj' = [obj EXCEPT ![v] = obj[w], ![w] = NoBlock]
  /\ call' = Made("take")
  /\ UNCHANGED mem

Destruct(v) ==
  /\ Alive(v)
  /\ Completes(v, At(Release(Here(v)), Gone), "destroy")

-----------------------------------------------------------------------------
(* Assignment.                                                             *)

AssignRange(v, s) ==
  /\ Alive(v)
  /\ AssignGrows(obj[v], Len(s)) => BackFits(obj[v], Len(s) - obj[v].size)
  /\ \/ Brings(v, AssignedAll(Here(v), s), "assign", 0, s)
     \/ \E r \in AssignFails(Here(v), s) : Throws(v, r, "assign")

AssignInput(v, s) ==
  /\ Alive(v)
  /\ LET empty == [Clear(Here(v)) EXCEPT !.o.begin = 0]
         Added(k) == EmplacedAll(empty, SubSeq(s, 1, k))
     IN /\ s # <<>> => BackFits(empty.o, Len(s))
        /\ \/ Brings(v, Added(Len(s)), "assign", 0, s)
           \/ \E k \in 0 .. Len(s) - 1 : \E r \in EmplaceBackFails(Added(k)) :
                Throws(v, r, "assign")

CopyAssign(v, w) ==
  /\ Alive(w)
  /\ v # w
  /\ AssignRange(v, Contents(mem, obj[w]))

(* The source gets the blocks of the target.                               *)
MoveAssign(v, w) ==
  /\ Alive(v) /\ Alive(w)
  /\ v # w
  /\ LET r == Clear(Here(v))
     IN mem' = r.m /\ obj' = [obj EXCEPT ![v] = obj[w], ![w] = r.o]
  /\ call' = Made("take")

Swap(v, w) ==
  /\ Alive(v) /\ Alive(w)
  /\ obj' = [obj EXCEPT ![v] = obj[w], ![w] = obj[v]]
  /\ call' = Made("swap")
  /\ UNCHANGED mem

ShrinkToFit(v) ==
  /\ Alive(v)
  /\ Completes(v, Shrunk(Here(v)), "keep")

-----------------------------------------------------------------------------
(* Insertion.                                                              *)

EmplaceBack(v, x) ==
  /\ Alive(v)
  /\ BackFits(obj[v], 1)
  /\ \/ Brings(v, EmplacedBack(Here(v), x), "insert", obj[v].size, <<x>>)
     \/ \E r \in EmplaceBackFails(Here(v)) : Throws(v, r, "insert")

EmplaceFront(v, x) ==
  /\ Alive(v)
  /\ FrontFits(obj[v], 1)
  /\ \/ Brings(v, EmplacedFront(Here(v), x), "insert", 0, <<x>>)
     \/ \E r \in EmplaceFrontFails(Here(v)) : Throws(v, r, "insert")

(* insert of a count, of a forward range or of one's own elements, which   *)
(* stay where they are until the new ones are there; emplace.              *)
InsertAt(v, pos, s) ==
  /\ Alive(v)
  /\ pos <= obj[v].size
  /\ IF s = <<>> THEN Brings(v, Here(v), "insert", pos, s)
     ELSE /\ IF Leftwards(obj[v], pos) THEN FrontFits(obj[v], Len(s))
             ELSE BackFits(obj[v], Len(s))
          /\ \/ Brings(v, Inserted(Here(v), pos, s), "insert", pos, s)
             \/ \E r \in InsertFails(Here(v), pos, s) : Throws(v, r, "insert")

(* insert of an input range: all at the end, then rotated into place from  *)
(* pos on, an iterator that growing the map invalidates.                   *)
InsertInput(v, pos, s) ==
  /\ Alive(v)
  /\ pos <= obj[v].size
  /\ s # <<>> => BackFits(obj[v], Len(s))
  /\ LET size == obj[v].size
         Added(k) == EmplacedAll(Here(v), SubSeq(s, 1, k))
         all == Added(Len(s))
         stays == all.o.map = obj[v].map
     IN /\ stays \/ InsertInputs
        /\ \/ Brings(v, IF stays THEN Rotate(all, pos, size, size + Len(s))
                        ELSE Lost(all), "insert", pos, s)
           \/ \E k \in 0 .. Len(s) - 1 : \E r \in EmplaceBackFails(Added(k)) :
                Throws(v, DestroyFrom(r, size), "insert")

Resize(v, n, x) ==
  /\ Alive(v)
  /\ LET size == obj[v].size
         s    == [i \in 1 .. n - size |-> x]
         e    == EnoughBack(Here(v), n - size)
     IN IF size >= n THEN Cuts(v, DestroyFrom(Here(v), n), n, size)
        ELSE /\ BackFits(obj[v], n - size)
             /\ \/ Brings(v, Extended(e, s), "insert", size, s)
                \/ \E r \in EnoughBackFails(Here(v), n - size) : Throws(v, r, "insert")
                \/ \E k \in 0 .. n - size - 1 : Throws(v, ExtendFails(e, s, k), "insert")

-----------------------------------------------------------------------------
(* Removal.                                                                *)

ClearAll(v) ==
  /\ Alive(v)
  /\ Cuts(v, Clear(Here(v)), 0, obj[v].size)

PopBack(v) ==
  /\ Alive(v)
  /\ obj[v].size > 0
  /\ Cuts(v, DestroyFrom(Here(v), obj[v].size - 1), obj[v].size - 1, obj[v].size)

PopFront(v) ==
  /\ Alive(v)
  /\ obj[v].size > 0
  /\ Cuts(v, DestroyFirst(Here(v), 1), 0, 1)

Erase(v, first, last) ==
  /\ Alive(v)
  /\ first <= last /\ last <= obj[v].size
  /\ Cuts(v, Erased(Here(v), first, last), first, last)

Remove(v, x) ==
  /\ Alive(v)
  /\ Brings(v, Removed(Here(v), x), "remove", 0, <<x>>)

-----------------------------------------------------------------------------
Lifetime(v) ==
  \/ DefaultConstruct(v)
  \/ Destruct(v)
  \/ \E s \in Ranges : ConstructRange(v, s) \/ ConstructInput(v, s)
  \/ \E w \in Objects : CopyConstruct(v, w) \/ MoveConstruct(v, w)

Assignment(v) ==
  \/ \E s \in Ranges : AssignRange(v, s) \/ AssignInput(v, s)
  \/ \E w \in Objects : CopyAssign(v, w) \/ MoveAssign(v, w) \/ Swap(v, w)
  \/ ShrinkToFit(v)

Insertion(v) ==
  \/ \E x \in Values :
       \/ EmplaceBack(v, x) \/ EmplaceFront(v, x)
       \/ \E n \in 0 .. MaxCapacity : Resize(v, n, x)
  \/ \E s \in Ranges, pos \in 0 .. MaxCapacity :
       InsertAt(v, pos, s) \/ InsertInput(v, pos, s)

Removal(v) ==
  \/ ClearAll(v) \/ PopBack(v) \/ PopFront(v)
  \/ \E first, last \in 0 .. MaxCapacity : Erase(v, first, last)
  \/ \E x \in Values : Remove(v, x)

Next == \E v \in Objects :
  Lifetime(v) \/ Assignment(v) \/ Insertion(v) \/ Removal(v)

Spec == Init /\ [][Next]_vars
=============================================================================
