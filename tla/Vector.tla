------------------------------- MODULE Vector -------------------------------
(***************************************************************************)
(* ciel::vector: one block, with the elements at its beginning.            *)
(***************************************************************************)
EXTENDS Container

(* begin is a block; end_ and end_cap_ are offsets in it. An end_ that is  *)
(* still nullptr while begin_ is not lies below every offset.              *)
NullEnd == -1
Vector  == [begin : Blocks \cup {Null}, end : Nat, cap : Nat]
Empty   == [begin |-> Null, end |-> 0, cap |-> 0]

TypeOK ==
  /\ mem \in Memories
  /\ obj \in [Objects -> Vector \cup {Gone}]
  /\ CallOK

Contents(m, o) == Slice(m, o.begin, 0, o.end)

-----------------------------------------------------------------------------
(* Private functions.                                                      *)

(* alloc_range_construct, alloc_range_construct_n: left at the throw of    *)
(* element k + 1, they destroy the k elements before it.                   *)
RangeConstructFails(m, b, from, s, k) ==
  Destroy(Construct(m, b, from, SubSeq(s, 1, k)), b, from, from + k)

(* The loops double the capacity until the new size fits.                  *)
NewCap(o, size) ==
  LET doubled[i \in 0 .. size] ==
        IF i = 0 THEN (IF o.cap = 0 THEN 1 ELSE 2 * o.cap) ELSE 2 * doubled[i - 1]
      fits == {i \in 0 .. size : doubled[i] >= size}
  IN doubled[CHOOSE i \in fits : \A j \in fits : i <= j]

Clear(r) ==
  At(Destroy(r.m, r.o.begin, 0, r.o.end),
     [r.o EXCEPT !.end = IF @ = NullEnd THEN @ ELSE 0])

(* Mutant: the storage goes with the elements in it.                       *)
ReleaseUncleared(r) ==
  IF r.o.begin = Null THEN r.m ELSE Deallocate(r.m, r.o.begin, r.o.cap)

(* The destructor, and what the others do before they let go of begin_.    *)
Release(r) ==
  IF r.o.begin = Null THEN r.m
  ELSE Deallocate(Clear(r).m, r.o.begin, r.o.cap)

(* reserve_to: the elements move to block b of n cells.                    *)
ReserveTo(r, b, n) ==
  LET s == Contents(r.m, r.o)
      m == MoveFrom(Construct(r.m, b, 0, s), r.o.begin, 0, r.o.end)
  IN At(Release(At(m, r.o)), [begin |-> b, end |-> r.o.end, cap |-> n])

(* clear_and_get_cap_no_less_than, up to its allocation.                   *)
ClearForCap(r, n) ==
  IF r.o.cap < n THEN At(Release(r), Empty) ELSE Clear(r)

AllocateCap(r, n) ==
  IF r.o.cap >= n THEN r
  ELSE LET b == NewBlock(r.m)
       IN At(Allocate(r.m, b, n), [begin |-> b, end |-> 0, cap |-> n])

(* Elements s constructed behind the last one.                             *)
Extended(r, s) ==
  At(Construct(r.m, r.o.begin, r.o.end, s), [r.o EXCEPT !.end = @ + Len(s)])

Full(o) == o.end = o.cap

(* The same with n copies of an argument.                                  *)
ExtendedBy(r, n, a) ==
  At(ConstructCopies(r.m, r.o.begin, r.o.end, n, a), [r.o EXCEPT !.end = @ + n])

(* emplace_back: when it grows, the new element is constructed before the  *)
(* old ones move, because the argument may refer to one of them.           *)
EmplacedBack(r, a) ==
  IF ~Full(r.o) THEN ExtendedBy(r, 1, a)
  ELSE LET n  == NewCap(r.o, r.o.end + 1)
           b  == NewBlock(r.m)
           m  == ConstructCopies(Allocate(r.m, b, n), b, r.o.end, 1, a)
           to == ReserveTo(At(m, r.o), b, n)
       IN [to EXCEPT !.o.end = @ + 1]

(* emplace_back left at the throw of the element.                          *)
EmplaceBackFails(r) ==
  IF ~Full(r.o) THEN r
  ELSE LET n == NewCap(r.o, r.o.end + 1)
           b == NewBlock(r.m)
       IN At(Deallocate(Allocate(r.m, b, n), b, n), r.o)

(* emplace_back of each element of s in turn.                              *)
EmplacedAll(r, s) ==
  LET step[i \in 0 .. Len(s)] ==
        IF i = 0 THEN r ELSE EmplacedBack(step[i - 1], s[i])
  IN step[Len(s)]

(* insert_n and insert of a forward range when the capacity is exceeded:   *)
(* the new elements first, then the old ones around them.                  *)
InsertGrows(r, pos, s, n) ==
  LET b    == NewBlock(r.m)
      old  == Contents(r.m, r.o)
      m1   == Construct(Allocate(r.m, b, n), b, pos, s)
      m2   == Construct(m1, b, 0, SubSeq(old, 1, pos))
      m3   == Construct(m2, b, pos + Len(s), SubSeq(old, pos + 1, Len(old)))
      m4   == MoveFrom(m3, r.o.begin, 0, r.o.end)
  IN At(Release(At(m4, r.o)),
        [begin |-> b, end |-> r.o.end + Len(s), cap |-> n])

InsertGrowsFails(r, pos, s, n, k) ==
  LET b == NewBlock(r.m)
      m == RangeConstructFails(Allocate(r.m, b, n), b, pos, s, k)
  IN At(Deallocate(m, b, n), r.o)

(* rotate(begin + pos, begin + mid, end).                                  *)
Rotate(r, pos, mid) ==
  LET s == Slice(r.m, r.o.begin, pos, mid)
      t == Slice(r.m, r.o.begin, mid, r.o.end)
  IN At(Assign(r.m, r.o.begin, pos, t \o s), r.o)

Inserted(r, pos, s) ==
  LET size == r.o.end + Len(s)
  IN IF size > r.o.cap THEN InsertGrows(r, pos, s, NewCap(r.o, size))
     ELSE Rotate(Extended(r, s), pos, r.o.end)

InsertFails(r, pos, s, k) ==
  LET size == r.o.end + Len(s)
  IN IF size > r.o.cap THEN InsertGrowsFails(r, pos, s, NewCap(r.o, size), k)
     ELSE At(RangeConstructFails(r.m, r.o.begin, r.o.end, s, k), r.o)

(* resize, assign and pop_back destroy from offset n on.                   *)
DestroyFrom(r, n) ==
  At(Destroy(r.m, r.o.begin, n, r.o.end), [r.o EXCEPT !.end = n])

-----------------------------------------------------------------------------
(* Lifetime.                                                               *)

DefaultConstruct(v) ==
  /\ Unborn(v)
  /\ Completes(v, At(mem, Empty), "construct")

(* The constructors from a count and from a forward range, which delegate  *)
(* to vector(alloc): once that is done the object exists, and a throw from *)
(* the body runs the destructor.                                           *)
Delegated(r) == At(Release(r), Gone)

ConstructRange(v, s) ==
  /\ Unborn(v)
  /\ Allocatable(Len(s))
  /\ \/ Brings(v, Extended(AllocateCap(At(mem, Empty), Len(s)), s), "construct", 0, s)
     \/ s # <<>> /\ Throws(v, Delegated(At(mem, Empty)), "construct")
     \/ /\ Constructing
        /\ \E k \in 0 .. Len(s) - 1 :
             LET r == AllocateCap(At(mem, Empty), Len(s))
                 m == RangeConstructFails(r.m, r.o.begin, 0, s, k)
                 n == Deallocate(m, r.o.begin, r.o.cap)
             IN Throws(v, Delegated(At(n, [r.o EXCEPT !.end = NullEnd])), "construct")

(* The constructor from an input range catches around emplace_back.        *)
ConstructInput(v, s) ==
  /\ Unborn(v)
  /\ Allocatable(EmplacedAll(At(mem, Empty), s).o.cap)
  /\ \/ Brings(v, EmplacedAll(At(mem, Empty), s), "construct", 0, s)
     \/ /\ Constructing
        /\ \E k \in 0 .. Len(s) - 1 :
             LET r == Clear(EmplaceBackFails(EmplacedAll(At(mem, Empty), SubSeq(s, 1, k))))
             IN Throws(v, Delegated(At(Release(r), r.o)), "construct")

CopyConstruct(v, w) ==
  /\ Alive(w)
  /\ ConstructRange(v, Contents(mem, obj[w]))

MoveConstruct(v, w) ==
  /\ Unborn(v) /\ Alive(w)
  /\ obj' = [obj EXCEPT ![v] = obj[w], ![w] = Empty]
  /\ call' = Made("take")
  /\ UNCHANGED mem

Destruct(v) ==
  /\ Alive(v)
  /\ Completes(v, At(Release(Here(v)), Gone), "destroy")

-----------------------------------------------------------------------------
(* Assignment.                                                             *)

(* assign: the elements that are there are assigned to, the others are     *)
(* constructed; a throw leaves what was assigned so far.                   *)
AssignInPlace(v, s) ==
  LET r == IF obj[v].end > Len(s) THEN DestroyFrom(Here(v), Len(s)) ELSE Here(v)
      n == r.o.end
      Assigned(k) == At(Assign(r.m, r.o.begin, 0, SubSeq(s, 1, k)), r.o)
  IN \/ Brings(v, Extended(Assigned(n), SubSeq(s, n + 1, Len(s))), "assign", 0, s)
     \/ \E k \in 0 .. n - 1 : Throws(v, Assigned(k), "assign")
     \/ \E k \in 0 .. Len(s) - n - 1 :
          Throws(v, At(RangeConstructFails(Assigned(n).m, r.o.begin, n,
                                           SubSeq(s, n + 1, Len(s)), k), r.o),
                 "assign")

AssignNew(v, s) ==
  LET old == ClearForCap(Here(v), Len(s))
      new == AllocateCap(old, Len(s))
  IN \/ Brings(v, Extended(new, s), "assign", 0, s)
     \/ Throws(v, old, "assign")
     \/ \E k \in 0 .. Len(s) - 1 :
          Throws(v, At(RangeConstructFails(new.m, new.o.begin, 0, s, k), new.o),
                 "assign")

(* assign of a count and a value or of a forward range.                    *)
AssignRange(v, s) ==
  /\ Alive(v)
  /\ IF obj[v].cap < Len(s) THEN Allocatable(Len(s)) /\ AssignNew(v, s)
     ELSE AssignInPlace(v, s)

AssignInput(v, s) ==
  /\ Alive(v)
  /\ Allocatable(EmplacedAll(Clear(Here(v)), s).o.cap)
  /\ \/ Brings(v, EmplacedAll(Clear(Here(v)), s), "assign", 0, s)
     \/ \E k \in 0 .. Len(s) - 1 :
          Throws(v, EmplaceBackFails(EmplacedAll(Clear(Here(v)), SubSeq(s, 1, k))),
                 "assign")

CopyAssign(v, w) ==
  /\ Alive(w)
  /\ v # w
  /\ AssignRange(v, Contents(mem, obj[w]))

(* Mutant: the source keeps its pointers.                                  *)
MoveAssignShares(v, w) ==
  /\ Alive(v) /\ Alive(w)
  /\ v # w
  /\ mem' = Release(Here(v))
  /\ obj' = [obj EXCEPT ![v] = obj[w]]
  /\ call' = Made("take")

MoveAssign(v, w) ==
  /\ Alive(v) /\ Alive(w)
  /\ v # w
  /\ mem' = Release(Here(v))
  /\ obj' = [obj EXCEPT ![v] = obj[w], ![w] = Empty]
  /\ call' = Made("take")

Swap(v, w) ==
  /\ Alive(v) /\ Alive(w)
  /\ obj' = [obj EXCEPT ![v] = obj[w], ![w] = obj[v]]
  /\ call' = Made("swap")
  /\ UNCHANGED mem

-----------------------------------------------------------------------------
(* Capacity.                                                               *)

Reserve(v, n) ==
  /\ Alive(v)
  /\ Allocatable(n)
  /\ IF n <= obj[v].cap THEN Completes(v, Here(v), "keep")
     ELSE LET b == NewBlock(mem)
          IN \/ Completes(v, ReserveTo(At(Allocate(mem, b, n), obj[v]), b, n), "keep")
             \/ Throws(v, Here(v), "keep")

ShrinkToFit(v) ==
  /\ Alive(v)
  /\ LET o == obj[v]
         b == NewBlock(mem)
     IN \/ Full(o) /\ Completes(v, Here(v), "keep")
        \/ /\ ~Full(o) /\ o.end = 0
           /\ Completes(v, At(Deallocate(mem, o.begin, o.cap), Empty), "keep")
        \/ /\ ~Full(o) /\ o.end # 0
           /\ \/ Completes(v, ReserveTo(At(Allocate(mem, b, o.end), o), b, o.end), "keep")
              \/ Throws(v, Here(v), "keep")

-----------------------------------------------------------------------------
(* Insertion.                                                              *)

(* The values and the references to elements a call can be given.          *)
Arguments(v) ==
  Values \cup {Ref(obj[v].begin, i) : i \in 0 .. obj[v].end - 1}

EmplaceBack(v, a) ==
  /\ Alive(v)
  /\ Full(obj[v]) => Allocatable(NewCap(obj[v], obj[v].end + 1))
  /\ \/ Brings(v, EmplacedBack(Here(v), a), "insert", obj[v].end, Copies(mem, 1, a))
     \/ Throws(v, Here(v), "insert")
     \/ Throws(v, EmplaceBackFails(Here(v)), "insert")

(* insert of elements s before pos: of a count of copies of an argument,   *)
(* of a forward range, and emplace when pos is not end().                  *)
InsertAt(v, pos, s) ==
  /\ Alive(v)
  /\ pos <= obj[v].end
  /\ LET size == obj[v].end + Len(s) IN
       size > obj[v].cap => Allocatable(NewCap(obj[v], size))
  /\ IF s = <<>> THEN Brings(v, Here(v), "insert", pos, s)
     ELSE \/ Brings(v, Inserted(Here(v), pos, s), "insert", pos, s)
          \/ Throws(v, Here(v), "insert")
          \/ \E k \in 0 .. Len(s) - 1 :
               Throws(v, InsertFails(Here(v), pos, s, k), "insert")

InsertN(v, pos, n, a) == InsertAt(v, pos, Copies(mem, n, a))

(* insert of an input range: all at the end, then rotated into place.      *)
InsertInput(v, pos, s) ==
  /\ Alive(v)
  /\ pos <= obj[v].end
  /\ LET size == obj[v].end
         Added(k) == EmplacedAll(Here(v), SubSeq(s, 1, k))
     IN /\ Allocatable(Added(Len(s)).o.cap)
        /\ \/ Brings(v, Rotate(Added(Len(s)), pos, size), "insert", pos, s)
           \/ \E k \in 0 .. Len(s) - 1 :
                Throws(v, DestroyFrom(EmplaceBackFails(Added(k)), size), "insert")

(* resize: reserve first, then construct; the argument is read last.       *)
Resize(v, n, a) ==
  /\ Alive(v)
  /\ Allocatable(n)
  /\ a \in Values \/ StaleArguments \/ n <= obj[v].cap
  /\ LET o == obj[v]
         b == NewBlock(mem)
         r == IF n > o.cap THEN ReserveTo(At(Allocate(mem, b, n), o), b, n)
              ELSE Here(v)
     IN IF o.end >= n THEN Cuts(v, DestroyFrom(Here(v), n), n, o.end)
        ELSE \/ Brings(v, ExtendedBy(r, n - o.end, a), "insert", o.end, Copies(mem, n - o.end, a))
             \/ n > o.cap /\ Throws(v, Here(v), "insert")
             \/ \E k \in 0 .. n - o.end - 1 :
                  LET s == Copies(r.m, n - o.end, a)
                  IN Throws(v, At(RangeConstructFails(r.m, r.o.begin, o.end, s, k), r.o),
                            "insert")

-----------------------------------------------------------------------------
(* Removal.                                                                *)

ClearAll(v) ==
  /\ Alive(v)
  /\ Cuts(v, Clear(Here(v)), 0, obj[v].end)

PopBack(v) ==
  /\ Alive(v)
  /\ obj[v].end > 0
  /\ Cuts(v, DestroyFrom(Here(v), obj[v].end - 1), obj[v].end - 1, obj[v].end)

(* move of s to the offset `to', then the end is destroyed.                *)
CloseUp(r, to, s) ==
  LET m == MoveFrom(r.m, r.o.begin, to, r.o.end)
  IN DestroyFrom(At(Assign(m, r.o.begin, to, s), r.o), to + Len(s))

Erase(v, first, last) ==
  /\ Alive(v)
  /\ first <= last /\ last <= obj[v].end
  /\ Cuts(v,
       IF first = last THEN Here(v)
       ELSE CloseUp(Here(v), first, Slice(mem, obj[v].begin, last, obj[v].end)),
       first, last)

(* erase(c, value) and erase_if: remove keeps the others in order.         *)
Remove(v, x) ==
  /\ Alive(v)
  /\ LET kept == Without(Contents(mem, obj[v]), x)
     IN Brings(v, CloseUp(Here(v), 0, kept), "remove", 0, <<x>>)

-----------------------------------------------------------------------------
Lifetime(v) ==
  \/ DefaultConstruct(v)
  \/ Destruct(v)
  \/ \E s \in Ranges : ConstructRange(v, s) \/ ConstructInput(v, s)
  \/ \E w \in Objects : CopyConstruct(v, w) \/ MoveConstruct(v, w)

Assignment(v) ==
  \/ \E s \in Ranges : AssignRange(v, s) \/ AssignInput(v, s)
  \/ \E w \in Objects : CopyAssign(v, w) \/ MoveAssign(v, w) \/ Swap(v, w)

Insertion(v) ==
  obj[v] # Gone /\
  \E a \in Arguments(v) :
    \/ EmplaceBack(v, a)
    \/ \E pos \in 0 .. obj[v].end, n \in 0 .. MaxRange : InsertN(v, pos, n, a)
    \/ \E n \in 0 .. MaxCapacity : Resize(v, n, a)

RangeInsertion(v) ==
  obj[v] # Gone /\
  \E s \in Ranges, pos \in 0 .. obj[v].end :
    InsertAt(v, pos, s) \/ InsertInput(v, pos, s)

Capacity(v) ==
  \/ \E n \in 0 .. MaxCapacity : Reserve(v, n)
  \/ ShrinkToFit(v)

Removal(v) ==
  obj[v] # Gone /\
  ( \/ ClearAll(v)
    \/ PopBack(v)
    \/ \E first, last \in 0 .. obj[v].end : Erase(v, first, last)
    \/ \E x \in Values : Remove(v, x) )

Next == \E v \in Objects :
  \/ Lifetime(v)
  \/ Assignment(v)
  \/ Insertion(v)
  \/ RangeInsertion(v)
  \/ Capacity(v)
  \/ Removal(v)

Spec == Init /\ [][Next]_vars

-----------------------------------------------------------------------------
(* The elements live exactly in [begin, end) of the storage of their       *)
(* vector, and none of them is one that was moved from.                    *)
InPlace(v) ==
  /\ obj[v].begin = Null => obj[v] = Empty
  /\ obj[v].begin # Null =>
       /\ obj[v].begin \in Allocated(mem)
       /\ obj[v].end <= obj[v].cap /\ obj[v].cap = Len(mem.cells[obj[v].begin])
       /\ \A i \in DOMAIN mem.cells[obj[v].begin] :
            IF i <= obj[v].end THEN mem.cells[obj[v].begin][i] \in Values
            ELSE mem.cells[obj[v].begin][i] = Raw

Storage(v) == {obj[v].begin} \ {Null}
=============================================================================
