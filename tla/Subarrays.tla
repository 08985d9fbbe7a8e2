------------------------------ MODULE Subarrays ------------------------------
(***************************************************************************)
(* What the two deques have in common: the elements lie in a row of blocks *)
(* of SubarraySize cells each, the map, from cell begin_offset_ of the     *)
(* first block on. Growing adds blocks, or turns the map: a block without  *)
(* elements goes from one end to the other. Elements never move for it.    *)
(* The lines are those of ciel::deque; ciel::deprecated::deque has the     *)
(* same functions over a list of blocks.                                   *)
(***************************************************************************)
EXTENDS Container
LOCAL INSTANCE FiniteSets
LOCAL INSTANCE FiniteSetsExt

CONSTANTS
  SubarraySize,
  InsertInputs     (* may an input range be inserted where pos is lost?    *)

N == SubarraySize

Deques  == [map : Seq(Blocks), begin : Nat, size : Nat]
NoBlock == [map |-> <<>>, begin |-> 0, size |-> 0]

TypeOK ==
  /\ mem \in Memories
  /\ obj \in [Objects -> Deques \cup {Gone}]
  /\ CallOK

Capacity(o)  == IF o.map = <<>> THEN 0 ELSE Len(o.map) * N - 1
BackSpare(o) == Capacity(o) - o.begin - o.size

(* The cells of the positions [from, to), counted from begin().            *)
Cell(o, k) == IF k \in 0 .. Len(o.map) * N - 1 THEN <<o.map[k \div N + 1], k % N>>
              ELSE <<Null, 0>>
Stretch(o, from, to) == [i \in 1 .. to - from |-> Cell(o, o.begin + from + i - 1)]
Elements(o)          == Stretch(o, 0, o.size)
Contents(m, o)       == Looks(m, Elements(o))


-----------------------------------------------------------------------------
(* The map.                                                                *)

AddBack(r) ==
  LET b == NewBlock(r.m)
  IN At(Allocate(r.m, b, N), [r.o EXCEPT !.map = Append(@, b)])
AddFront(r) ==
  LET b == NewBlock(r.m)
  IN At(Allocate(r.m, b, N), [r.o EXCEPT !.map = <<b>> \o @, !.begin = @ + N])

Last(s)       == s[Len(s)]
Front(s)      == SubSeq(s, 1, Len(s) - 1)
DropFront(r)  == At(Deallocate(r.m, Head(r.o.map), N),
                    [r.o EXCEPT !.map = Tail(@), !.begin = @ - N])
DropBack(r)   == At(Deallocate(r.m, Last(r.o.map), N), [r.o EXCEPT !.map = Front(@)])
FrontToBack(r) == At(r.m, [r.o EXCEPT !.map = Append(Tail(@), Head(@)), !.begin = @ - N])
BackToFront(r) == At(r.m, [r.o EXCEPT !.map = <<Last(@)>> \o Front(@), !.begin = @ + N])

Times(n, step(_), r) ==
  LET done[i \in 0 .. n] == IF i = 0 THEN r ELSE step(done[i - 1]) IN done[n]

(* get_enough_back_spare and get_enough_front_spare: the blocks needed,    *)
(* and what n of them do. One that is taken from the other end is lost if  *)
(* the map throws when it is put in.                                       *)
Missing(o, count, spare) ==
  LET c == count + (IF o.map = <<>> THEN 1 ELSE 0)
  IN IF c > spare THEN (c - spare - 1) \div N + 1 ELSE 0

GrownBack(r, n) ==
  Times(n, LAMBDA s : IF s.o.begin >= N THEN FrontToBack(s) ELSE AddBack(s), r)
GrownFront(r, n) ==
  Times(n, LAMBDA s : IF BackSpare(s.o) >= N THEN BackToFront(s) ELSE AddFront(s), r)

EnoughBack(r, count) == GrownBack(r, Missing(r.o, count, BackSpare(r.o)))
EnoughBackFails(r, count) ==
  {LET s == GrownBack(r, n) IN IF s.o.begin >= N THEN DropFront(s) ELSE s :
     n \in 0 .. Missing(r.o, count, BackSpare(r.o)) - 1}

(* Bound: MaxCapacity elements, and what is allocated for them is in the   *)
(* memory.                                                                 *)
MapFits(n, spare) == Max({0, n - spare \div N}) <= Cardinality(Free(mem))
BackFits(o, count)  ==
  o.size + count <= MaxCapacity /\ MapFits(Missing(o, count, BackSpare(o)), o.begin)
FrontFits(o, count) ==
  o.size + count <= MaxCapacity /\ MapFits(Missing(o, count, o.begin), BackSpare(o))

(* The first block of an empty deque is entered in the middle, so that     *)
(* end() lies in it.                                                       *)
EnoughFront(r, count) ==
  LET n == Missing(r.o, count, r.o.begin)
      s == GrownFront(r, n)
      c == count + (IF r.o.map = <<>> THEN 1 ELSE 0)
  IN IF n > 0 /\ Len(s.o.map) = 1 /\ s.o.begin = N /\ s.o.size = 0
     THEN [s EXCEPT !.o.begin = Max({N \div 2, c})]
     ELSE s
EnoughFrontFails(r, count) ==
  {LET s == GrownFront(r, n) IN IF BackSpare(s.o) >= N THEN DropBack(s) ELSE s :
     n \in 0 .. Missing(r.o, count, r.o.begin) - 1}

-----------------------------------------------------------------------------
(* Elements.                                                               *)

(* alloc_range_construct, left at the throw of element k + 1.              *)
RangeConstructFails(r, A, s, k) ==
  LET done == SubSeq(A, 1, k)
  IN At(DestroyCells(ConstructCells(r.m, done, SubSeq(s, 1, k)), done), r.o)

Behind(o, n) == Stretch(o, o.size, o.size + n)
Before(o, n) == Stretch(o, -n, 0)

Extended(r, s) ==
  At(ConstructCells(Require(r.m, BackSpare(r.o) >= Len(s)), Behind(r.o, Len(s)), s),
     [r.o EXCEPT !.size = @ + Len(s)])
Preceded(r, s) ==
  At(ConstructCells(Require(r.m, r.o.begin >= Len(s)), Before(r.o, Len(s)), s),
     [r.o EXCEPT !.begin = @ - Len(s), !.size = @ + Len(s)])
ExtendFails(r, s, k)  == RangeConstructFails(r, Behind(r.o, Len(s)), s, k)
PrecedeFails(r, s, k) == RangeConstructFails(r, Before(r.o, Len(s)), s, k)

(* From position n on, or the first n.                                     *)
DestroyFrom(r, n) ==
  At(DestroyCells(r.m, Stretch(r.o, n, r.o.size)), [r.o EXCEPT !.size = n])
DestroyFirst(r, n) ==
  At(DestroyCells(r.m, Stretch(r.o, 0, n)),
     [r.o EXCEPT !.begin = @ + n, !.size = @ - n])

Clear(r)   == DestroyFrom(r, 0)
Release(r) == Times(Len(r.o.map), DropBack, Clear(r)).m

EmplacedBack(r, x)  == Extended(EnoughBack(r, 1), <<x>>)
EmplacedFront(r, x) == Preceded(EnoughFront(r, 1), <<x>>)
EmplaceBackFails(r)  == EnoughBackFails(r, 1) \cup {EnoughBack(r, 1)}
EmplaceFrontFails(r) == EnoughFrontFails(r, 1) \cup {EnoughFront(r, 1)}

EmplacedAll(r, s) ==
  LET step[i \in 0 .. Len(s)] ==
        IF i = 0 THEN r ELSE EmplacedBack(step[i - 1], s[i])
  IN step[Len(s)]

(* rotate of the positions [from, to) around mid.                          *)
Rotate(r, from, mid, to) ==
  At(AssignCells(r.m, Stretch(r.o, from, to),
                 Looks(r.m, Stretch(r.o, mid, to)) \o Looks(r.m, Stretch(r.o, from, mid))), r.o)

(* insert_n and insert of a forward range: s before position pos, at the   *)
(* end that is closer and then rotated into place.                         *)
Leftwards(o, pos) == pos < o.size - pos

(* Mutant: the left half is rotated one position short.                    *)
InsertedShort(r, pos, s) ==
  LET n == Len(s)
  IN IF Leftwards(r.o, pos)
     THEN Rotate(Preceded(EnoughFront(r, n), s), 0, n, n + Max({pos, 1}) - 1)
     ELSE Rotate(Extended(EnoughBack(r, n), s), pos, r.o.size, r.o.size + n)

Inserted(r, pos, s) ==
  LET n == Len(s)
  IN IF Leftwards(r.o, pos)
     THEN Rotate(Preceded(EnoughFront(r, n), s), 0, n, n + pos)
     ELSE Rotate(Extended(EnoughBack(r, n), s), pos, r.o.size, r.o.size + n)

InsertFails(r, pos, s) ==
  LET n == Len(s)
  IN IF Leftwards(r.o, pos)
     THEN EnoughFrontFails(r, n) \cup
          {PrecedeFails(EnoughFront(r, n), s, k) : k \in 0 .. n - 1}
     ELSE EnoughBackFails(r, n) \cup
          {ExtendFails(EnoughBack(r, n), s, k) : k \in 0 .. n - 1}

(* assign: the elements that are there are assigned to, the rest is        *)
(* constructed; a throw leaves what was assigned so far.                   *)
AssignGrows(o, n) == BackSpare(o) + o.size < n
AssignRoom(r, n)  ==
  IF AssignGrows(r.o, n) THEN EnoughBack(r, n - r.o.size)
  ELSE IF r.o.size > n THEN DestroyFrom(r, n) ELSE r
Assigned(r, s)    == At(AssignCells(r.m, Stretch(r.o, 0, Len(s)), s), r.o)

AssignedAll(r, s) ==
  LET e == AssignRoom(r, Len(s))
  IN Extended(Assigned(e, SubSeq(s, 1, e.o.size)), SubSeq(s, e.o.size + 1, Len(s)))

AssignFails(r, s) ==
  LET e == AssignRoom(r, Len(s))
      n == e.o.size
      rest == SubSeq(s, n + 1, Len(s))
  IN (IF AssignGrows(r.o, Len(s)) THEN EnoughBackFails(r, Len(s) - r.o.size) ELSE {})
     \cup {Assigned(e, SubSeq(s, 1, k)) : k \in 0 .. n - 1}
     \cup {ExtendFails(Assigned(e, SubSeq(s, 1, n)), rest, k) : k \in 0 .. Len(rest) - 1}

(* shrink_to_fit: the blocks without elements go, from the front first.    *)
Shrunk(r) ==
  LET s == Times(r.o.begin \div N, DropFront, r)
  IN Times(BackSpare(s.o) \div N, DropBack, s)

(* erase: the smaller of the two parts moves over the gap.                 *)
Erased(r, first, last) ==
  LET n == r.o.size
      gap   == last - first
      left  == Looks(r.m, Stretch(r.o, 0, first))
      right == Looks(r.m, Stretch(r.o, last, n))
  IN IF gap = 0 THEN r
     ELSE IF first < n - last
     THEN DestroyFirst(At(AssignCells(MoveFromCells(r.m, Stretch(r.o, 0, last)),
                                      Stretch(r.o, gap, last), left), r.o), gap)
     ELSE DestroyFrom(At(AssignCells(MoveFromCells(r.m, Stretch(r.o, first, n)),
                                     Stretch(r.o, first, n - gap), right), r.o), n - gap)

(* erase(c, value): remove keeps the others in order.                      *)
Removed(r, x) ==
  LET kept == Without(Contents(r.m, r.o), x)
  IN DestroyFrom(At(AssignCells(MoveFromCells(r.m, Elements(r.o)),
                                Stretch(r.o, 0, Len(kept)), kept), r.o), Len(kept))

-----------------------------------------------------------------------------
(* No cell outside the elements holds an object, no element was moved      *)
(* from, and end() lies in a block.                                        *)
InPlace(v) ==
  LET o == obj[v] IN
  /\ BackSpare(o) >= 0
  /\ \A i \in DOMAIN o.map : Len(mem.cells[o.map[i]]) = N
  /\ \A k \in 0 .. Len(o.map) * N - 1 :
       LET c == Look(mem, Cell(o, k))
       IN IF k >= o.begin /\ k < o.begin + o.size THEN c \in Values ELSE c = Raw

Storage(v) == {obj[v].map[i] : i \in DOMAIN obj[v].map}
=============================================================================
