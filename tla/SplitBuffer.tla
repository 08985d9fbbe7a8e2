----------------------------- MODULE SplitBuffer -----------------------------
(***************************************************************************)
(* ciel::split_buffer: one block with the elements somewhere inside, so    *)
(* that both ends can grow. What is hard is that room at one end is made   *)
(* out of room at the other by shifting the elements over themselves.      *)
(***************************************************************************)
EXTENDS Container
LOCAL INSTANCE FiniteSetsExt

(* block is begin_cap_; begin_, end_ and end_cap_ are offsets in it.       *)
Buffer == [block : Blocks \cup {Null}, begin : Nat, end : Nat, cap : Nat]
Empty  == [block |-> Null, begin |-> 0, end |-> 0, cap |-> 0]

TypeOK ==
  /\ mem \in Memories
  /\ obj \in [Objects -> Buffer \cup {Gone}]
  /\ CallOK

Size(o)       == o.end - o.begin
FrontSpare(o) == o.begin
BackSpare(o)  == o.cap - o.end
Contents(m, o) == Slice(m, o.block, o.begin, o.end)

-----------------------------------------------------------------------------
(* Private functions.                                                      *)

RangeConstructFails(m, b, from, s, k) ==
  Destroy(Construct(m, b, from, SubSeq(s, 1, k)), b, from, from + k)

(* Mutant: all elements are assigned, those of the raw cells too.          *)
LeftShiftAssigns(r, n) ==
  LET o == r.o
  IN At(Destroy(Assign(r.m, o.block, o.begin - n, Contents(r.m, o)),
                o.block, o.end - n, o.end),
        [o EXCEPT !.begin = @ - n, !.end = @ - n])

(* left_shift_n: the first n elements are constructed in raw cells, the    *)
(* others assigned over elements that have moved already; what is left of  *)
(* the old ones goes. right_shift_n is its mirror image.                   *)
LeftShift(r, n) ==
  LET o == r.o
      s == Contents(r.m, o)
      k == Min({n, Size(o)})
      m1 == Construct(Require(r.m, FrontSpare(o) >= n), o.block, o.begin - n, SubSeq(s, 1, k))
      m2 == Assign(m1, o.block, o.begin, SubSeq(s, k + 1, Size(o)))
      m3 == Destroy(m2, o.block, Max({o.end - n, o.begin}), o.end)
  IN At(m3, [o EXCEPT !.begin = @ - n, !.end = @ - n])

RightShift(r, n) ==
  LET o == r.o
      s == Contents(r.m, o)
      k == Min({n, Size(o)})
      m1 == Construct(Require(r.m, BackSpare(o) >= n), o.block, o.end + n - k,
                      SubSeq(s, Size(o) - k + 1, Size(o)))
      m2 == Assign(m1, o.block, o.begin + n, SubSeq(s, 1, Size(o) - k))
      m3 == Destroy(m2, o.block, o.begin, Min({o.begin + n, o.end}))
  IN At(m3, [o EXCEPT !.begin = @ + n, !.end = @ + n])

Clear(r) ==
  At(Destroy(r.m, r.o.block, r.o.begin, r.o.end), [r.o EXCEPT !.end = @ - Size(r.o)])

Release(r) ==
  IF r.o.block = Null THEN r.m ELSE Deallocate(Clear(r).m, r.o.block, r.o.cap)

(* reserve_to: the elements move to the offset `to' of block b of n cells. *)
ReserveTo(r, b, n, to) ==
  LET m1 == Construct(Require(r.m, to + Size(r.o) <= n), b, to, Contents(r.m, r.o))
      m2 == MoveFrom(m1, r.o.block, r.o.begin, r.o.end)
  IN At(Release(At(m2, r.o)),
        [block |-> b, begin |-> to, end |-> to + Size(r.o), cap |-> n])

(* clear_and_get_cap_no_less_than, up to its allocation.                   *)
ClearForCap(r, n) ==
  IF r.o.cap < n THEN At(Release(r), Empty)
  ELSE At(Clear(r).m, [r.o EXCEPT !.begin = 0, !.end = 0])

AllocateCap(r, n) ==
  IF r.o.cap >= n THEN r
  ELSE LET b == NewBlock(r.m)
       IN At(Allocate(r.m, b, n), [block |-> b, begin |-> 0, end |-> 0, cap |-> n])

(* Elements s constructed behind the last one, or before the first.        *)
Extended(r, s) ==
  At(Construct(r.m, r.o.block, r.o.end, s), [r.o EXCEPT !.end = @ + Len(s)])

Preceded(r, s) ==
  At(Construct(r.m, r.o.block, r.o.begin - Len(s), s), [r.o EXCEPT !.begin = @ - Len(s)])

(* The same with n copies of an argument.                                  *)
ExtendedBy(r, n, a) ==
  At(ConstructCopies(r.m, r.o.block, r.o.end, n, a), [r.o EXCEPT !.end = @ + n])

PrecededBy(r, n, a) ==
  At(ConstructCopies(r.m, r.o.block, r.o.begin - n, n, a), [r.o EXCEPT !.begin = @ - n])

ExtendFails(r, s, k) ==
  At(RangeConstructFails(r.m, r.o.block, r.o.end, s, k), r.o)

Doubled(o) == IF o.cap = 0 THEN 1 ELSE 2 * o.cap

(* The loop doubles the capacity until the new size fits.                  *)
NewCap(o, size) ==
  Min({c \in {Doubled(o) * 2 ^ i : i \in 0 .. size} : c >= size})

-----------------------------------------------------------------------------
(* Insertion at the ends: into the room there is; or, when the other end   *)
(* has more room than there are elements, half of it is shifted over; or   *)
(* in a new block, where the element is constructed before the others move.*)

ShiftsForBack(o)  == FrontSpare(o) > Size(o)
ShiftsForFront(o) == BackSpare(o) > Size(o)

EmplacedBack(r, a) ==
  IF BackSpare(r.o) > 0 THEN ExtendedBy(r, 1, a)
  ELSE IF ShiftsForBack(r.o)
  THEN ExtendedBy(LeftShift(r, Max({FrontSpare(r.o) \div 2, 1})), 1, a)
  ELSE LET b  == NewBlock(r.m)
           m  == ConstructCopies(Allocate(r.m, b, Doubled(r.o)), b, r.o.end, 1, a)
           to == ReserveTo(At(m, r.o), b, Doubled(r.o), FrontSpare(r.o))
       IN [to EXCEPT !.o.end = @ + 1]

EmplaceBackFails(r) ==
  IF BackSpare(r.o) > 0 THEN r
  ELSE IF ShiftsForBack(r.o) THEN LeftShift(r, Max({FrontSpare(r.o) \div 2, 1}))
  ELSE LET b == NewBlock(r.m)
       IN At(Deallocate(Allocate(r.m, b, Doubled(r.o)), b, Doubled(r.o)), r.o)

EmplacedFront(r, a) ==
  LET o == r.o
      n == Doubled(o)
      b == NewBlock(r.m)
      at == n - Size(o) - BackSpare(o) - 1
      m == ConstructCopies(Allocate(r.m, b, n), b, at, 1, a)
      to == ReserveTo(At(m, o), b, n, at + 1)
  IN IF FrontSpare(o) > 0 THEN PrecededBy(r, 1, a)
     ELSE IF ShiftsForFront(o)
     THEN PrecededBy(RightShift(r, Max({BackSpare(o) \div 2, 1})), 1, a)
     ELSE [to EXCEPT !.o.begin = @ - 1]

EmplaceFrontFails(r) ==
  IF FrontSpare(r.o) > 0 THEN r
  ELSE IF ShiftsForFront(r.o) THEN RightShift(r, Max({BackSpare(r.o) \div 2, 1}))
  ELSE LET b == NewBlock(r.m)
       IN At(Deallocate(Allocate(r.m, b, Doubled(r.o)), b, Doubled(r.o)), r.o)

(* emplace_back of each element of s in turn.                              *)
EmplacedAll(r, s) ==
  LET step[i \in 0 .. Len(s)] ==
        IF i = 0 THEN r ELSE EmplacedBack(step[i - 1], s[i])
  IN step[Len(s)]

-----------------------------------------------------------------------------
(* insert_n and insert of a forward range: n elements before position pos. *)

Front(o, pos, n) ==
  /\ FrontSpare(o) >= n
  /\ pos < Size(o) - pos \/ BackSpare(o) < n

Fits(o, n) == FrontSpare(o) + BackSpare(o) >= n
Grows(o, pos, n) == ~Front(o, pos, n) /\ ~Fits(o, n)

Shifts(o, pos, n) == ~Front(o, pos, n) /\ BackSpare(o) < n /\ Fits(o, n)

(* Room at the back, with the help of the room at the front.               *)
RoomBehind(r, n) ==
  IF BackSpare(r.o) < n THEN LeftShift(r, n - BackSpare(r.o)) ELSE r

(* rotate of the positions [from, to) around mid.                          *)
Rotate(r, from, mid, to) ==
  LET b == r.o.begin
      s == Slice(r.m, r.o.block, b + from, b + mid)
      t == Slice(r.m, r.o.block, b + mid, b + to)
  IN At(Assign(r.m, r.o.block, b + from, t \o s), r.o)

InsertGrows(r, pos, s, n) ==
  LET b    == NewBlock(r.m)
      old  == Contents(r.m, r.o)
      m1   == Construct(Allocate(r.m, b, n), b, pos, s)
      m2   == Construct(m1, b, 0, SubSeq(old, 1, pos))
      m3   == Construct(m2, b, pos + Len(s), SubSeq(old, pos + 1, Len(old)))
      m4   == MoveFrom(m3, r.o.block, r.o.begin, r.o.end)
  IN At(Release(At(m4, r.o)),
        [block |-> b, begin |-> 0, end |-> Size(r.o) + Len(s), cap |-> n])

Inserted(r, pos, s) ==
  LET n == Len(s)
  IN IF Front(r.o, pos, n) THEN Rotate(Preceded(r, s), 0, n, n + pos)
     ELSE IF Fits(r.o, n)
     THEN Rotate(Extended(RoomBehind(r, n), s), pos, Size(r.o), Size(r.o) + n)
     ELSE InsertGrows(r, pos, s, NewCap(r.o, Size(r.o) + n))

InsertFails(r, pos, s, k) ==
  LET n == Len(s)
      b == NewBlock(r.m)
      c == NewCap(r.o, Size(r.o) + n)
  IN IF Front(r.o, pos, n)
     THEN At(RangeConstructFails(r.m, r.o.block, r.o.begin - n, s, k), r.o)
     ELSE IF Fits(r.o, n) THEN ExtendFails(RoomBehind(r, n), s, k)
     ELSE At(Deallocate(RangeConstructFails(Allocate(r.m, b, c), b, pos, s, k), b, c), r.o)

(* What resize, assign, pop_back and erase destroy: from position n on, or *)
(* the first n.                                                            *)
DestroyFrom(r, n) ==
  At(Destroy(r.m, r.o.block, r.o.begin + n, r.o.end), [r.o EXCEPT !.end = r.o.begin + n])

DestroyFirst(r, n) ==
  At(Destroy(r.m, r.o.block, r.o.begin, r.o.begin + n), [r.o EXCEPT !.begin = @ + n])

-----------------------------------------------------------------------------
(* Lifetime. Constructors delegate to split_buffer(alloc): once that is    *)
(* done the object exists, and a throw from the body runs the destructor.  *)

DefaultConstruct(v) ==
  /\ Unborn(v)
  /\ Completes(v, At(mem, Empty), "construct")

Delegated(r) == At(Release(r), Gone)

(* From a count and from a forward range. The body that catches the throw  *)
(* of an element deallocates with end_ still nullptr.                      *)
ConstructRange(v, s) ==
  /\ Unborn(v)
  /\ Allocatable(Len(s))
  /\ LET new == AllocateCap(At(mem, Empty), Len(s)) IN
     \/ Brings(v, Extended(new, s), "construct", 0, s)
     \/ s # <<>> /\ Throws(v, Delegated(At(mem, Empty)), "construct")
     \/ /\ Constructing
        /\ \E k \in 0 .. Len(s) - 1 :
             LET m == Deallocate(RangeConstructFails(new.m, new.o.block, 0, s, k),
                                 new.o.block, new.o.cap)
             IN Throws(v, Delegated(At(m, new.o)), "construct")

ConstructInput(v, s) ==
  /\ Unborn(v)
  /\ Allocatable(EmplacedAll(At(mem, Empty), s).o.cap)
  /\ \/ Brings(v, EmplacedAll(At(mem, Empty), s), "construct", 0, s)
     \/ /\ Constructing
        /\ \E k \in 0 .. Len(s) - 1 :
             LET r == Clear(EmplaceBackFails(EmplacedAll(At(mem, Empty), SubSeq(s, 1, k))))
             IN Throws(v, Delegated(At(Release(r), r.o)), "construct")

CopyConstruct(v, w) ==
  /\ Alive(w)
  /\ ConstructRange(v, Contents(mem, obj[w]))

MoveConstruct(v, w) ==
  /\ Unborn(v) /\ Alive(w)
  /\ obj' = [obj EXCEPT ![v] = obj[w], ![w] = Empty]
  /\ call' = Made("take")
  /\ UNCHANGED mem

Destruct(v) ==
  /\ Alive(v)
  /\ Completes(v, At(Release(Here(v)), Gone), "destroy")

-----------------------------------------------------------------------------
(* Assignment.                                                             *)

(* The elements of r are assigned to, the others are constructed; a throw  *)
(* leaves what was assigned so far.                                        *)
AssignOver(v, r, s) ==
  LET n == Size(r.o)
      Assigned(k) == At(Assign(r.m, r.o.block, r.o.begin, SubSeq(s, 1, k)), r.o)
      rest == SubSeq(s, n + 1, Len(s))
  IN \/ Brings(v, Extended(Assigned(n), rest), "assign", 0, s)
     \/ \E k \in 0 .. n - 1 : Throws(v, Assigned(k), "assign")
     \/ \E k \in 0 .. Len(rest) - 1 : Throws(v, ExtendFails(Assigned(n), rest, k), "assign")

AssignNew(v, s) ==
  LET old == ClearForCap(Here(v), Len(s))
      new == AllocateCap(old, Len(s))
  IN \/ Brings(v, Extended(new, s), "assign", 0, s)
     \/ Throws(v, old, "assign")
     \/ \E k \in 0 .. Len(s) - 1 : Throws(v, ExtendFails(new, s, k), "assign")

(* Mutant: the room at the front is not enough but used.                   *)
AssignRangeShifts(v, s) ==
  /\ Alive(v)
  /\ LET o    == obj[v]
         more == Len(s) - BackSpare(o) - Size(o)
     IN IF more > 0 THEN AssignOver(v, LeftShift(Here(v), more), s)
        ELSE IF Size(o) > Len(s) THEN AssignOver(v, DestroyFrom(Here(v), Len(s)), s)
        ELSE AssignOver(v, Here(v), s)

(* assign of a count and a value or of a forward range: elements shift to  *)
(* the left when there are not enough cells from begin_ on.                *)
AssignRange(v, s) ==
  /\ Alive(v)
  /\ LET o    == obj[v]
         more == Len(s) - BackSpare(o) - Size(o)
     IN IF more > 0
        THEN IF FrontSpare(o) >= more THEN AssignOver(v, LeftShift(Here(v), more), s)
             ELSE Allocatable(Len(s)) /\ AssignNew(v, s)
        ELSE IF Size(o) > Len(s) THEN AssignOver(v, DestroyFrom(Here(v), Len(s)), s)
        ELSE AssignOver(v, Here(v), s)

AssignInput(v, s) ==
  /\ Alive(v)
  /\ LET Added(k) == EmplacedAll(Clear(Here(v)), SubSeq(s, 1, k))
     IN /\ Allocatable(Added(Len(s)).o.cap)
        /\ \/ Brings(v, Added(Len(s)), "assign", 0, s)
           \/ \E k \in 0 .. Len(s) - 1 : Throws(v, EmplaceBackFails(Added(k)), "assign")

CopyAssign(v, w) ==
  /\ Alive(w)
  /\ v # w
  /\ AssignRange(v, Contents(mem, obj[w]))

MoveAssign(v, w) ==
  /\ Alive(v) /\ Alive(w)
  /\ v # w
  /\ mem' = Release(Here(v))
  /\ obj' = [obj EXCEPT ![v] = obj[w], ![w] = Empty]
  /\ call' = Made("take")

Swap(v, w) ==
  /\ Alive(v) /\ Alive(w)
  /\ obj' = [obj EXCEPT ![v] = obj[w], ![w] = obj[v]]
  /\ call' = Made("swap")
  /\ UNCHANGED mem

-----------------------------------------------------------------------------
(* Capacity: n cells at one end, out of those at the other or in a new     *)
(* block of at least `expected' cells.                                     *)

ReservedFront(r, n, cap) ==
  IF n <= FrontSpare(r.o) THEN r
  ELSE IF Fits(r.o, n) THEN RightShift(r, n - FrontSpare(r.o))
  ELSE LET b == NewBlock(r.m)
       IN ReserveTo(At(Allocate(r.m, b, cap), r.o), b, cap, n)

ReservedBack(r, n, cap) ==
  IF n <= BackSpare(r.o) THEN r
  ELSE IF Fits(r.o, n) THEN LeftShift(r, n - BackSpare(r.o))
  ELSE LET b == NewBlock(r.m)
       IN ReserveTo(At(Allocate(r.m, b, cap), r.o), b, cap, 0)

ReserveFrontSpare(v, n, expected) ==
  /\ Alive(v)
  /\ LET cap == Max({n + Size(obj[v]), expected})
     IN /\ Fits(obj[v], n) \/ Allocatable(cap)
        /\ \/ Completes(v, ReservedFront(Here(v), n, cap), "keep")
           \/ ~Fits(obj[v], n) /\ Throws(v, Here(v), "keep")

ReserveBackSpare(v, n, expected) ==
  /\ Alive(v)
  /\ LET cap == Max({n + Size(obj[v]), expected})
     IN /\ Fits(obj[v], n) \/ Allocatable(cap)
        /\ \/ Completes(v, ReservedBack(Here(v), n, cap), "keep")
           \/ ~Fits(obj[v], n) /\ Throws(v, Here(v), "keep")

ShrinkToFit(v) ==
  /\ Alive(v)
  /\ LET o == obj[v]
         n == Size(o)
         b == NewBlock(mem)
     IN IF o.cap = n THEN Completes(v, Here(v), "keep")
        ELSE IF n = 0 THEN Completes(v, At(Deallocate(mem, o.block, o.cap), Empty), "keep")
        ELSE \/ Completes(v, ReserveTo(At(Allocate(mem, b, n), o), b, n, 0), "keep")
             \/ Throws(v, Here(v), "keep")

-----------------------------------------------------------------------------
(* Insertion.                                                              *)

(* The values and the references to elements a call can be given.          *)
Arguments(v) ==
  Values \cup {Ref(obj[v].block, i) : i \in obj[v].begin .. obj[v].end - 1}

EmplaceBack(v, a) ==
  /\ Alive(v)
  /\ LET full == BackSpare(obj[v]) = 0
     IN /\ a \in Values \/ StaleArguments \/ ~(full /\ ShiftsForBack(obj[v]))
        /\ full /\ ~ShiftsForBack(obj[v]) => Allocatable(Doubled(obj[v]))
  /\ \/ Brings(v, EmplacedBack(Here(v), a), "insert", Size(obj[v]), Copies(mem, 1, a))
     \/ Throws(v, Here(v), "insert")
     \/ Throws(v, EmplaceBackFails(Here(v)), "insert")

EmplaceFront(v, a) ==
  /\ Alive(v)
  /\ LET full == FrontSpare(obj[v]) = 0
     IN /\ a \in Values \/ StaleArguments \/ ~(full /\ ShiftsForFront(obj[v]))
        /\ full /\ ~ShiftsForFront(obj[v]) => Allocatable(Doubled(obj[v]))
  /\ \/ Brings(v, EmplacedFront(Here(v), a), "insert", 0, Copies(mem, 1, a))
     \/ Throws(v, Here(v), "insert")
     \/ Throws(v, EmplaceFrontFails(Here(v)), "insert")

(* insert of elements s before pos, asked to insert the elements asked.    *)
Inserts(v, pos, s, asked) ==
  /\ Alive(v)
  /\ pos <= Size(obj[v])
  /\ Grows(obj[v], pos, Len(s)) => Allocatable(NewCap(obj[v], Size(obj[v]) + Len(s)))
  /\ IF s = <<>> THEN Brings(v, Here(v), "insert", pos, asked)
     ELSE \/ Brings(v, Inserted(Here(v), pos, s), "insert", pos, asked)
          \/ Grows(obj[v], pos, Len(s)) /\ Throws(v, Here(v), "insert")
          \/ \E k \in 0 .. Len(s) - 1 :
               Throws(v, InsertFails(Here(v), pos, s, k), "insert")

InsertAt(v, pos, s) == Inserts(v, pos, s, s)

(* insert of n copies, and emplace in the middle: the argument is read     *)
(* when the elements have been shifted.                                    *)
InsertN(v, pos, n, a) ==
  LET shifts == Shifts(obj[v], pos, n)
      read   == IF shifts THEN RoomBehind(Here(v), n).m ELSE mem
  IN /\ a \in Values \/ StaleArguments \/ ~shifts
     /\ Inserts(v, pos, Copies(read, n, a), Copies(mem, n, a))

(* insert of an input range: all at the end, then rotated into place.      *)
InsertInput(v, pos, s) ==
  /\ Alive(v)
  /\ pos <= Size(obj[v])
  /\ LET size == Size(obj[v])
         Added(k) == EmplacedAll(Here(v), SubSeq(s, 1, k))
     IN /\ Allocatable(Added(Len(s)).o.cap)
        /\ \/ Brings(v, Rotate(Added(Len(s)), pos, size, size + Len(s)), "insert", pos, s)
           \/ \E k \in 0 .. Len(s) - 1 :
                Throws(v, DestroyFrom(EmplaceBackFails(Added(k)), size), "insert")

(* resize: reserve_back_spare first, then construct; the argument is read  *)
(* last.                                                                   *)
Resize(v, n, a) ==
  /\ Alive(v)
  /\ a \in Values \/ StaleArguments \/ n - Size(obj[v]) <= BackSpare(obj[v])
  /\ LET size == Size(obj[v])
         r    == ReservedBack(Here(v), n - size, n)
         s    == Copies(r.m, n - size, a)
     IN IF size >= n THEN Cuts(v, DestroyFrom(Here(v), n), n, size)
        ELSE /\ Fits(obj[v], n - size) \/ Allocatable(n)
             /\ \/ Brings(v, ExtendedBy(r, n - size, a), "insert", size,
                          Copies(mem, n - size, a))
                \/ ~Fits(obj[v], n - size) /\ Throws(v, Here(v), "insert")
                \/ \E k \in 0 .. n - size - 1 : Throws(v, ExtendFails(r, s, k), "insert")

-----------------------------------------------------------------------------
(* Removal.                                                                *)

ClearAll(v) ==
  /\ Alive(v)
  /\ Cuts(v, Clear(Here(v)), 0, Size(obj[v]))

PopBack(v) ==
  /\ Alive(v)
  /\ Size(obj[v]) > 0
  /\ Cuts(v, DestroyFrom(Here(v), Size(obj[v]) - 1), Size(obj[v]) - 1, Size(obj[v]))

PopFront(v) ==
  /\ Alive(v)
  /\ Size(obj[v]) > 0
  /\ Cuts(v, DestroyFirst(Here(v), 1), 0, 1)

(* The smaller of the two halves moves over the gap.                       *)
Erased(r, first, last) ==
  LET b == r.o.begin
      left  == Slice(r.m, r.o.block, b, b + first)
      right == Slice(r.m, r.o.block, b + last, r.o.end)
  IN IF first < Size(r.o) - last
     THEN DestroyFirst(At(Assign(MoveFrom(r.m, r.o.block, b, b + last),
                                 r.o.block, b + last - first, left), r.o),
                       last - first)
     ELSE DestroyFrom(At(Assign(MoveFrom(r.m, r.o.block, b + first, r.o.end),
                                r.o.block, b + first, right), r.o),
                      first + Len(right))

Erase(v, first, last) ==
  /\ Alive(v)
  /\ first <= last /\ last <= Size(obj[v])
  /\ Cuts(v, IF first = last THEN Here(v) ELSE Erased(Here(v), first, last), first, last)

-----------------------------------------------------------------------------
Lifetime(v) ==
  \/ DefaultConstruct(v)
  \/ Destruct(v)
  \/ \E s \in Ranges : ConstructRange(v, s) \/ ConstructInput(v, s)
  \/ \E w \in Objects : CopyConstruct(v, w) \/ MoveConstruct(v, w)

Assignment(v) ==
  \/ \E s \in Ranges : AssignRange(v, s) \/ AssignInput(v, s)
  \/ \E w \in Objects : CopyAssign(v, w) \/ MoveAssign(v, w) \/ Swap(v, w)

Capacity(v) ==
  \/ \E n, expected \in 0 .. MaxCapacity :
       ReserveFrontSpare(v, n, expected) \/ ReserveBackSpare(v, n, expected)
  \/ ShrinkToFit(v)

Insertion(v) ==
  obj[v] # Gone /\
  \E a \in Arguments(v) :
    \/ EmplaceBack(v, a) \/ EmplaceFront(v, a)
    \/ \E pos \in 0 .. Size(obj[v]), n \in 0 .. MaxRange : InsertN(v, pos, n, a)
    \/ \E n \in 0 .. MaxCapacity : Resize(v, n, a)

RangeInsertion(v) ==
  \E s \in Ranges, pos \in 0 .. MaxCapacity :
    InsertAt(v, pos, s) \/ InsertInput(v, pos, s)

Removal(v) ==
  \/ ClearAll(v) \/ PopBack(v) \/ PopFront(v)
  \/ \E first, last \in 0 .. MaxCapacity : Erase(v, first, last)

Next == \E v \in Objects :
  Lifetime(v) \/ Assignment(v) \/ Capacity(v) \/ Insertion(v) \/ RangeInsertion(v) \/ Removal(v)

Spec == Init /\ [][Next]_vars

-----------------------------------------------------------------------------
(* The elements live exactly in [begin_, end_) of the storage, whichever   *)
(* way they were shifted, and none of them is one that was moved from.     *)
InPlace(v) ==
  LET o == obj[v] IN
  /\ o.block = Null => o = Empty
  /\ o.block # Null =>
       /\ o.block \in Allocated(mem) /\ o.cap = Len(mem.cells[o.block])
       /\ o.begin <= o.end /\ o.end <= o.cap
       /\ \A i \in DOMAIN mem.cells[o.block] :
            IF o.begin < i /\ i <= o.end THEN mem.cells[o.block][i] \in Values
            ELSE mem.cells[o.block][i] = Raw

Storage(v) == {obj[v].block} \ {Null}
=============================================================================
