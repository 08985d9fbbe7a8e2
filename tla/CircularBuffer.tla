---------------------------- MODULE CircularBuffer ----------------------------
(***************************************************************************)
(* ciel::circular_buffer: one block as a ring. One of its cells is always  *)
(* left free, so that begin_ = end_ means empty; what is hard is that      *)
(* every range of elements may wrap around the end of the block.           *)
(***************************************************************************)
EXTENDS Container
LOCAL INSTANCE FiniteSetsExt

CONSTANT ReserveNothing    (* may reserve(0) be called without storage?    *)

(* block is begin_cap_; begin_, end_ and end_cap_ are offsets in it.       *)
Ring  == [block : Blocks \cup {Null}, begin : Nat, end : Nat, cap : Nat]
Empty == [block |-> Null, begin |-> 0, end |-> 0, cap |-> 0]

TypeOK ==
  /\ mem \in Memories
  /\ obj \in [Objects -> Ring \cup {Gone}]
  /\ CallOK

(* The difference of iterators, as operator- takes it from their place     *)
(* before or behind begin_.                                                *)
Size(o) == IF o.end >= o.begin THEN o.end - o.begin ELSE o.end - o.begin + o.cap

Capacity(o) == IF o.block = Null THEN 0 ELSE o.cap - 1
Spare(o)    == Capacity(o) - Size(o)

(* operator+= of an iterator: n cells on, or back.                         *)
Around(o, i, n) == IF o.cap = 0 THEN i ELSE (i + n) % o.cap

(* The cells of the positions [from, to), counted from begin_; those       *)
(* before it are negative.                                                 *)
Stretch(o, from, to) ==
  [i \in 1 .. to - from |-> <<o.block, Around(o, o.begin, from + i - 1)>>]
Elements(o) == Stretch(o, 0, Size(o))

Contents(m, o) == Looks(m, Elements(o))

-----------------------------------------------------------------------------
(* Private functions.                                                      *)

(* alloc_range_construct, left at the throw of element k + 1.              *)
RangeConstructFails(m, A, s, k) ==
  LET done == SubSeq(A, 1, k)
  IN DestroyCells(ConstructCells(m, done, SubSeq(s, 1, k)), done)

Clear(r) == At(DestroyCells(r.m, Elements(r.o)), [r.o EXCEPT !.end = r.o.begin])

Release(r) ==
  IF r.o.block = Null THEN r.m ELSE Deallocate(Clear(r).m, r.o.block, r.o.cap)

(* Mutant: the elements move as if they lay behind each other.             *)
ReserveToStraight(r, b, n) ==
  LET m1 == Construct(Require(r.m, n > Size(r.o)), b, 0,
                      Slice(r.m, r.o.block, r.o.begin, r.o.end))
      m2 == MoveFromCells(m1, Elements(r.o))
  IN At(Release(At(m2, r.o)), [block |-> b, begin |-> 0, end |-> Size(r.o), cap |-> n])

(* reserve_to: the elements move to the beginning of block b.              *)
ReserveTo(r, b, n) ==
  LET m1 == Construct(Require(r.m, n > Size(r.o)), b, 0, Contents(r.m, r.o))
      m2 == MoveFromCells(m1, Elements(r.o))
  IN At(Release(At(m2, r.o)), [block |-> b, begin |-> 0, end |-> Size(r.o), cap |-> n])

(* clear_and_get_cap_no_less_than, up to its allocation.                   *)
ClearForCap(r, n) == IF r.o.cap <= n THEN At(Release(r), Empty) ELSE Clear(r)

AllocateCap(r, n) ==
  IF r.o.cap > n THEN r
  ELSE LET b == NewBlock(r.m)
       IN At(Allocate(r.m, b, n + 1), [block |-> b, begin |-> 0, end |-> 0, cap |-> n + 1])

(* Elements s constructed behind the last one, or before the first.        *)
Behind(o, n) == Stretch(o, Size(o), Size(o) + n)
Before(o, n) == Stretch(o, -n, 0)

Extended(r, s) ==
  At(ConstructCells(r.m, Behind(r.o, Len(s)), s),
     [r.o EXCEPT !.end = Around(r.o, @, Len(s))])

Preceded(r, s) ==
  At(ConstructCells(r.m, Before(r.o, Len(s)), s),
     [r.o EXCEPT !.begin = Around(r.o, @, -Len(s))])

(* The same with n copies of an argument.                                  *)
ExtendedBy(r, n, a) ==
  At(ConstructCopiesIn(r.m, Behind(r.o, n), a), [r.o EXCEPT !.end = Around(r.o, @, n)])

PrecededBy(r, n, a) ==
  At(ConstructCopiesIn(r.m, Before(r.o, n), a), [r.o EXCEPT !.begin = Around(r.o, @, -n)])

ExtendFails(r, s, k) == At(RangeConstructFails(r.m, Behind(r.o, Len(s)), s, k), r.o)

-----------------------------------------------------------------------------
(* Insertion at the ends. A new block is three times the capacity; the     *)
(* element is constructed in it before the others move, behind their place *)
(* or in the last cell.                                                    *)

Full(o)    == Size(o) = Capacity(o)
Tripled(o) == IF Capacity(o) = 0 THEN 2 ELSE 3 * Capacity(o)

EmplacedBack(r, a) ==
  LET n == Tripled(r.o)
      b == NewBlock(r.m)
      m == ConstructCopies(Allocate(r.m, b, n), b, Size(r.o), 1, a)
  IN IF ~Full(r.o) THEN ExtendedBy(r, 1, a)
     ELSE LET to == ReserveTo(At(m, r.o), b, n) IN [to EXCEPT !.o.end = @ + 1]

EmplacedFront(r, a) ==
  LET n == Tripled(r.o)
      b == NewBlock(r.m)
      m == ConstructCopies(Allocate(r.m, b, n), b, n - 1, 1, a)
  IN IF ~Full(r.o) THEN PrecededBy(r, 1, a)
     ELSE LET to == ReserveTo(At(m, r.o), b, n) IN [to EXCEPT !.o.begin = n - 1]

(* Left at the throw of the element.                                       *)
EmplaceFails(r) ==
  LET n == Tripled(r.o)
      b == NewBlock(r.m)
  IN IF ~Full(r.o) THEN r ELSE At(Deallocate(Allocate(r.m, b, n), b, n), r.o)

EmplacedAll(r, s) ==
  LET step[i \in 0 .. Len(s)] ==
        IF i = 0 THEN r ELSE EmplacedBack(step[i - 1], s[i])
  IN step[Len(s)]

-----------------------------------------------------------------------------
(* insert_n and insert of a forward range: n elements before position pos. *)

Grows(o, n) == Spare(o) < n

(* The loop triples the size of the block until it has room and one to     *)
(* spare.                                                                  *)
NewCap(o, size) ==
  LET base == IF o.cap = 0 THEN 2 ELSE 3 * o.cap
  IN Min({c \in {base * 3 ^ i : i \in 0 .. size} : c > size})

(* rotate of the positions [from, to) around mid.                          *)
Rotate(r, from, mid, to) ==
  At(AssignCells(r.m, Stretch(r.o, from, to),
                 Looks(r.m, Stretch(r.o, mid, to)) \o Looks(r.m, Stretch(r.o, from, mid))), r.o)

InsertGrows(r, pos, s, n) ==
  LET b   == NewBlock(r.m)
      old == Contents(r.m, r.o)
      m1  == Construct(Allocate(r.m, b, n), b, pos, s)
      m2  == Construct(m1, b, 0, SubSeq(old, 1, pos))
      m3  == Construct(m2, b, pos + Len(s), SubSeq(old, pos + 1, Len(old)))
      m4  == MoveFromCells(m3, Elements(r.o))
  IN At(Release(At(m4, r.o)),
        [block |-> b, begin |-> 0, end |-> Size(r.o) + Len(s), cap |-> n])

Leftwards(o, pos) == pos < Size(o) - pos

Inserted(r, pos, s) ==
  LET n == Len(s)
  IN IF Grows(r.o, n) THEN InsertGrows(r, pos, s, NewCap(r.o, Size(r.o) + n))
     ELSE IF Leftwards(r.o, pos) THEN Rotate(Preceded(r, s), 0, n, n + pos)
     ELSE Rotate(Extended(r, s), pos, Size(r.o), Size(r.o) + n)

InsertFails(r, pos, s, k) ==
  LET n == NewCap(r.o, Size(r.o) + Len(s))
      b == NewBlock(r.m)
      A == [i \in DOMAIN s |-> <<b, pos + i - 1>>]
  IN IF Grows(r.o, Len(s))
     THEN At(Deallocate(RangeConstructFails(Allocate(r.m, b, n), A, s, k), b, n), r.o)
     ELSE IF Leftwards(r.o, pos)
     THEN At(RangeConstructFails(r.m, Before(r.o, Len(s)), s, k), r.o)
     ELSE ExtendFails(r, s, k)

(* What resize, assign, pop_back and erase destroy: from position n on, or *)
(* the first n.                                                            *)
DestroyFrom(r, n) ==
  At(DestroyCells(r.m, Stretch(r.o, n, Size(r.o))), [r.o EXCEPT !.end = Around(r.o, r.o.begin, n)])

DestroyFirst(r, n) ==
  At(DestroyCells(r.m, Stretch(r.o, 0, n)), [r.o EXCEPT !.begin = Around(r.o, @, n)])

-----------------------------------------------------------------------------
(* Lifetime. Constructors delegate to circular_buffer(alloc): once that is *)
(* done the object exists, and a throw from the body runs the destructor.  *)

DefaultConstruct(v) ==
  /\ Unborn(v)
  /\ Completes(v, At(mem, Empty), "construct")

Delegated(r) == At(Release(r), Gone)

(* From a count and from a forward range; the body that catches the throw  *)
(* of an element deallocates what the destructor deallocates again.        *)
ConstructRange(v, s) ==
  /\ Unborn(v)
  /\ s # <<>> => Allocatable(Len(s) + 1)
  /\ LET new == IF s = <<>> THEN At(mem, Empty) ELSE AllocateCap(At(mem, Empty), Len(s)) IN
     \/ Brings(v, Extended(new, s), "construct", 0, s)
     \/ s # <<>> /\ Throws(v, Delegated(At(mem, Empty)), "construct")
     \/ /\ Constructing
        /\ \E k \in 0 .. Len(s) - 1 :
             LET m == Deallocate(ExtendFails(new, s, k).m, new.o.block, new.o.cap)
             IN Throws(v, Delegated(At(m, new.o)), "construct")

ConstructInput(v, s) ==
  /\ Unborn(v)
  /\ Allocatable(EmplacedAll(At(mem, Empty), s).o.cap)
  /\ \/ Brings(v, EmplacedAll(At(mem, Empty), s), "construct", 0, s)
     \/ /\ Constructing
        /\ \E k \in 0 .. Len(s) - 1 :
             LET r == Clear(EmplaceFails(EmplacedAll(At(mem, Empty), SubSeq(s, 1, k))))
             IN Throws(v, Delegated(At(Release(r), r.o)), "construct")

CopyConstruct(v, w) ==
  /\ Alive(w)
  /\ ConstructRange(v, Contents(mem, obj[w]))

MoveConstruct(v, w) ==
  /\ Unborn(v) /\ Alive(w)
  /\ obj' = [obj EXCEPT ![v] = obj[w], ![w] = Empty]
  /\ call' = Made("take")
  /\ UNCHANGED mem

Destruct(v) ==
  /\ Alive(v)
  /\ Completes(v, At(Release(Here(v)), Gone), "destroy")

-----------------------------------------------------------------------------
(* Assignment: the elements that are there are assigned to, the others are *)
(* constructed; a throw leaves what was assigned so far.                   *)

AssignInPlace(v, s) ==
  LET r == IF Size(obj[v]) > Len(s) THEN DestroyFrom(Here(v), Len(s)) ELSE Here(v)
      n == Size(r.o)
      rest == SubSeq(s, n + 1, Len(s))
      Assigned(k) == At(AssignCells(r.m, Stretch(r.o, 0, k), SubSeq(s, 1, k)), r.o)
  IN \/ Brings(v, Extended(Assigned(n), rest), "assign", 0, s)
     \/ \E k \in 0 .. n - 1 : Throws(v, Assigned(k), "assign")
     \/ \E k \in 0 .. Len(rest) - 1 : Throws(v, ExtendFails(Assigned(n), rest, k), "assign")

AssignNew(v, s) ==
  LET old == ClearForCap(Here(v), Len(s))
      new == AllocateCap(old, Len(s))
  IN \/ Brings(v, Extended(new, s), "assign", 0, s)
     \/ Throws(v, old, "assign")
     \/ \E k \in 0 .. Len(s) - 1 : Throws(v, ExtendFails(new, s, k), "assign")

AssignRange(v, s) ==
  /\ Alive(v)
  /\ IF obj[v].cap <= Len(s) THEN Allocatable(Len(s) + 1) /\ AssignNew(v, s)
     ELSE AssignInPlace(v, s)

AssignInput(v, s) ==
  /\ Alive(v)
  /\ LET Added(k) == EmplacedAll(Clear(Here(v)), SubSeq(s, 1, k))
     IN /\ Allocatable(Added(Len(s)).o.cap)
        /\ \/ Brings(v, Added(Len(s)), "assign", 0, s)
           \/ \E k \in 0 .. Len(s) - 1 : Throws(v, EmplaceFails(Added(k)), "assign")

CopyAssign(v, w) ==
  /\ Alive(w)
  /\ v # w
  /\ AssignRange(v, Contents(mem, obj[w]))

MoveAssign(v, w) ==
  /\ Alive(v) /\ Alive(w)
  /\ v # w
  /\ mem' = Release(Here(v))
  /\ obj' = [obj EXCEPT ![v] = obj[w], ![w] = Empty]
  /\ call' = Made("take")

Swap(v, w) ==
  /\ Alive(v) /\ Alive(w)
  /\ obj' = [obj EXCEPT ![v] = obj[w], ![w] = obj[v]]
  /\ call' = Made("swap")
  /\ UNCHANGED mem

-----------------------------------------------------------------------------
(* Capacity.                                                               *)

(* get_new_allocation wants more than one cell, which reserve(0) without   *)
(* storage does not ask for.                                               *)
Reserved(r, n) ==
  IF n < r.o.cap THEN r
  ELSE LET b == NewBlock(r.m)
       IN ReserveTo(At(Allocate(Require(r.m, n + 1 > 1), b, n + 1), r.o), b, n + 1)

Reserve(v, n) ==
  /\ Alive(v)
  /\ n > 0 \/ obj[v].cap > 0 \/ ReserveNothing
  /\ n >= obj[v].cap => Allocatable(n + 1)
  /\ \/ Completes(v, Reserved(Here(v), n), "keep")
     \/ n >= obj[v].cap /\ Throws(v, Here(v), "keep")

ShrinkToFit(v) ==
  /\ Alive(v)
  /\ LET o == obj[v]
         n == Size(o) + 1
         b == NewBlock(mem)
     IN IF Full(o) THEN Completes(v, Here(v), "keep")
        ELSE IF Size(o) = 0 THEN Completes(v, At(Deallocate(mem, o.block, o.cap), Empty), "keep")
        ELSE \/ Completes(v, ReserveTo(At(Allocate(mem, b, n), o), b, n), "keep")
             \/ Throws(v, Here(v), "keep")

-----------------------------------------------------------------------------
(* Insertion.                                                              *)

(* The values and the references to elements a call can be given.          *)
Arguments(v) ==
  Values \cup {Elements(obj[v])[i] : i \in DOMAIN Elements(obj[v])}

EmplaceBack(v, a) ==
  /\ Alive(v)
  /\ Full(obj[v]) => Allocatable(Tripled(obj[v]))
  /\ \/ Brings(v, EmplacedBack(Here(v), a), "insert", Size(obj[v]), Copies(mem, 1, a))
     \/ Throws(v, Here(v), "insert")
     \/ Throws(v, EmplaceFails(Here(v)), "insert")

EmplaceFront(v, a) ==
  /\ Alive(v)
  /\ Full(obj[v]) => Allocatable(Tripled(obj[v]))
  /\ \/ Brings(v, EmplacedFront(Here(v), a), "insert", 0, Copies(mem, 1, a))
     \/ Throws(v, Here(v), "insert")
     \/ Throws(v, EmplaceFails(Here(v)), "insert")

(* insert of elements s before pos, and emplace in the middle.             *)
InsertAt(v, pos, s) ==
  /\ Alive(v)
  /\ pos <= Size(obj[v])
  /\ Grows(obj[v], Len(s)) => Allocatable(NewCap(obj[v], Size(obj[v]) + Len(s)))
  /\ IF s = <<>> THEN Brings(v, Here(v), "insert", pos, s)
     ELSE \/ Brings(v, Inserted(Here(v), pos, s), "insert", pos, s)
          \/ Grows(obj[v], Len(s)) /\ Throws(v, Here(v), "insert")
          \/ \E k \in 0 .. Len(s) - 1 :
               Throws(v, InsertFails(Here(v), pos, s, k), "insert")

InsertN(v, pos, n, a) == InsertAt(v, pos, Copies(mem, n, a))

(* insert of an input range: all at the end, then rotated into place.      *)
InsertInput(v, pos, s) ==
  /\ Alive(v)
  /\ pos <= Size(obj[v])
  /\ LET size == Size(obj[v])
         Added(k) == EmplacedAll(Here(v), SubSeq(s, 1, k))
     IN /\ Allocatable(Added(Len(s)).o.cap)
        /\ \/ Brings(v, Rotate(Added(Len(s)), pos, size, size + Len(s)), "insert", pos, s)
           \/ \E k \in 0 .. Len(s) - 1 :
                Throws(v, DestroyFrom(EmplaceFails(Added(k)), size), "insert")

(* resize: reserve first, then construct; the argument is read last.       *)
Resize(v, n, a) ==
  /\ Alive(v)
  /\ a \in Values \/ StaleArguments \/ n < obj[v].cap
  /\ LET size == Size(obj[v])
         r    == Reserved(Here(v), n)
         s    == Copies(r.m, n - size, a)
     IN IF size >= n THEN Cuts(v, DestroyFrom(Here(v), n), n, size)
        ELSE /\ n >= obj[v].cap => Allocatable(n + 1)
             /\ \/ Brings(v, ExtendedBy(r, n - size, a), "insert", size,
                          Copies(mem, n - size, a))
                \/ n >= obj[v].cap /\ Throws(v, Here(v), "insert")
                \/ \E k \in 0 .. n - size - 1 : Throws(v, ExtendFails(r, s, k), "insert")

-----------------------------------------------------------------------------
(* Removal.                                                                *)

ClearAll(v) ==
  /\ Alive(v)
  /\ Cuts(v, Clear(Here(v)), 0, Size(obj[v]))

PopBack(v) ==
  /\ Alive(v)
  /\ Size(obj[v]) > 0
  /\ Cuts(v, DestroyFrom(Here(v), Size(obj[v]) - 1), Size(obj[v]) - 1, Size(obj[v]))

PopFront(v) ==
  /\ Alive(v)
  /\ Size(obj[v]) > 0
  /\ Cuts(v, DestroyFirst(Here(v), 1), 0, 1)

(* The smaller of the two halves moves over the gap.                       *)
Erased(r, first, last) ==
  LET n == Size(r.o)
      left  == Looks(r.m, Stretch(r.o, 0, first))
      right == Looks(r.m, Stretch(r.o, last, n))
  IN IF first < n - last
     THEN DestroyFirst(At(AssignCells(MoveFromCells(r.m, Stretch(r.o, 0, last)),
                                      Stretch(r.o, last - first, last), left), r.o),
                       last - first)
     ELSE DestroyFrom(At(AssignCells(MoveFromCells(r.m, Stretch(r.o, first, n)),
                                     Stretch(r.o, first, first + n - last), right), r.o),
                      first + n - last)

Erase(v, first, last) ==
  /\ Alive(v)
  /\ first <= last /\ last <= Size(obj[v])
  /\ Cuts(v, IF first = last THEN Here(v) ELSE Erased(Here(v), first, last), first, last)

-----------------------------------------------------------------------------
Lifetime(v) ==
  \/ DefaultConstruct(v)
  \/ Destruct(v)
  \/ \E s \in Ranges : ConstructRange(v, s) \/ ConstructInput(v, s)
  \/ \E w \in Objects : CopyConstruct(v, w) \/ MoveConstruct(v, w)

Assignment(v) ==
  \/ \E s \in Ranges : AssignRange(v, s) \/ AssignInput(v, s)
  \/ \E w \in Objects : CopyAssign(v, w) \/ MoveAssign(v, w) \/ Swap(v, w)

Storing(v) ==
  \/ \E n \in 0 .. MaxCapacity : Reserve(v, n)
  \/ ShrinkToFit(v)

Insertion(v) ==
  obj[v] # Gone /\
  \E a \in Arguments(v) :
    \/ EmplaceBack(v, a) \/ EmplaceFront(v, a)
    \/ \E pos \in 0 .. Size(obj[v]), n \in 0 .. MaxRange : InsertN(v, pos, n, a)
    \/ \E n \in 0 .. MaxCapacity : Resize(v, n, a)

RangeInsertion(v) ==
  \E s \in Ranges, pos \in 0 .. MaxCapacity :
    InsertAt(v, pos, s) \/ InsertInput(v, pos, s)

Removal(v) ==
  \/ ClearAll(v) \/ PopBack(v) \/ PopFront(v)
  \/ \E first, last \in 0 .. MaxCapacity : Erase(v, first, last)

Next == \E v \in Objects :
  Lifetime(v) \/ Assignment(v) \/ Storing(v) \/ Insertion(v) \/ RangeInsertion(v) \/ Removal(v)

Spec == Init /\ [][Next]_vars

-----------------------------------------------------------------------------
(* The elements live exactly in the cells from begin_ round to end_, one   *)
(* cell at least is free, and no element is one that was moved from.       *)
InPlace(v) ==
  LET o == obj[v] IN
  /\ o.block = Null => o = Empty
  /\ o.block # Null =>
       /\ o.block \in Allocated(mem) /\ o.cap = Len(mem.cells[o.block])
       /\ o.begin < o.cap /\ o.end < o.cap
       /\ \A i \in 0 .. o.cap - 1 :
            LET c == Look(mem, <<o.block, Around(o, o.begin, i)>>)
            IN IF i < Size(o) THEN c \in Values ELSE c = Raw

Storage(v) == {obj[v].block} \ {Null}
=============================================================================
