---------------------------- MODULE Vector_proofs ----------------------------
(***************************************************************************)
(* Proofs about Vector, for any number of variables, blocks and values:    *)
(* no member function runs into undefined behaviour, and the vectors are   *)
(* the sequences that SequenceContainer promises, whatever throws.         *)
(*                                                                         *)
(* The proof follows a call from the state it begins in: a call is Sound   *)
(* when its memory shows the elements where the members say, and Local     *)
(* when it touches no storage but its own. Every private function of the   *)
(* class keeps both and does to the sequence what it should, and the       *)
(* member functions are compositions of those.                             *)
(***************************************************************************)
EXTENDS Vector, Heap_proofs

(* What the theorems assume: no element throws inside a constructor and no *)
(* argument is a reference that a reallocation invalidates, as both go     *)
(* wrong in the code; the blocks outnumber the variables, as an allocation *)
(* that finds none throws; a variable outside its lifetime is no vector.   *)
Excluded     == Constructing = FALSE /\ StaleArguments = FALSE
EnoughBlocks == \A f \in [Objects -> Blocks \cup {Null}] :
                  \E b \in Blocks : \A v \in Objects : f[v] # b
GoneOutside  == Gone \notin Vector /\ Gone \notin Seq(Values)

-----------------------------------------------------------------------------
(* The members o describe the sequence s in memory m.                      *)
Holds(m, o, s) ==
  /\ o \in Vector /\ s \in Seq(Live)
  /\ o.end = Len(s) /\ o.end <= o.cap
  /\ o.begin = Null => o = Empty
  /\ o.begin # Null =>
       /\ o.cap > 0 /\ Len(m.cells[o.begin]) = o.cap
       /\ \A i \in 1 .. o.cap : m.cells[o.begin][i] = IF i <= o.end THEN s[i] ELSE Raw

(* Whichever block is set aside, another one is not in use elsewhere.      *)
Spare(m, o) ==
  \A x \in Blocks \cup {Null} : \E b \in Blocks : b # x /\ (b # o.begin => m.cells[b] = <<>>)

Sound(r, s) ==
  /\ r.m \in Memories /\ r.m.fault = FALSE
  /\ Holds(r.m, r.o, s)
  /\ Spare(r.m, r.o)

(* From p to q only the storage of the call changes; storage it lets go of *)
(* is freed, and storage it takes was free.                                *)
Local(p, q) ==
  /\ \A c \in Blocks : c # p.o.begin /\ c # q.o.begin => q.m.cells[c] = p.m.cells[c]
  /\ q.o.begin # p.o.begin =>
       \A c \in Blocks : /\ c = p.o.begin => q.m.cells[c] = <<>>
                         /\ c = q.o.begin => p.m.cells[c] = <<>>

Leads(p, q, s) == Sound(q, s) /\ Local(p, q)

LEMMA SpareKept ==
  ASSUME NEW p, NEW q, Spare(p.m, p.o), Local(p, q)
  PROVE  Spare(q.m, q.o)
BY DEF Spare, Local

LEMMA LeadsOn ==
  ASSUME NEW p, NEW q, NEW z, NEW s, NEW t, Leads(p, q, s), Leads(q, z, t)
  PROVE  Leads(p, z, t)
<1>1. Local(p, z)
  BY DEF Leads, Local
<1>. QED BY <1>1 DEF Leads

LEMMA Leading ==
  ASSUME NEW p, NEW q, NEW s, NEW t, Sound(p, s), q.m \in Memories, q.m.fault = FALSE,
         Holds(q.m, q.o, t), Local(p, q)
  PROVE  Leads(p, q, t)
BY SpareKept DEF Leads, Sound

LEMMA NoStep ==
  ASSUME NEW r, NEW q, NEW s, Sound(r, s), q.m = r.m, q.o = r.o
  PROVE  Leads(r, q, s)
BY DEF Leads, Sound, Local

LEMMA HoldsContents ==
  ASSUME NEW m \in Memories, NEW o, NEW s, Holds(m, o, s)
  PROVE  Contents(m, o) = s
<1>0. o.end \in Nat /\ o.cap \in Nat /\ s \in Seq(Live) /\ Len(s) = o.end /\ o.end <= o.cap
  BY DEF Holds, Vector
<1>1. CASE o.begin = Null
  <2>1. o.end = 0 /\ s = <<>>
    BY <1>0, <1>1, EmptySeq DEF Holds, Empty
  <2> QED BY <2>1, EmptySlice DEF Contents
<1>2. CASE o.begin # Null
  <2>1. o.begin \in Blocks /\ Len(m.cells[o.begin]) = o.cap
    BY <1>2 DEF Holds, Vector
  <2>2. \A i \in 1 .. o.end : m.cells[o.begin][i] = s[i]
    BY <1>0, <1>2 DEF Holds
  <2>3. /\ Contents(m, o) \in Seq(Cells)
        /\ Len(Contents(m, o)) = o.end
        /\ \A i \in 1 .. o.end : Contents(m, o)[i] = m.cells[o.begin][0 + i]
    <3>1. 0 \in Nat /\ o.end \in Nat /\ 0 <= o.end /\ o.end <= Len(m.cells[o.begin])
      BY <1>0, <2>1
    <3>2. /\ Contents(m, o) \in Seq(Cells)
          /\ Len(Contents(m, o)) = o.end - 0
          /\ \A i \in 1 .. o.end - 0 : Contents(m, o)[i] = m.cells[o.begin][0 + i]
      BY <2>1, <3>1, SliceCells DEF Contents
    <3> HIDE DEF Cells
    <3> QED BY <1>0, <3>2
  <2>4. s \in Seq(Cells)
    BY <1>0, SeqMonotonic DEF Live, Cells
  <2>5. \A i \in 1 .. o.end : Contents(m, o)[i] = s[i]
    BY <1>0, <2>2, <2>3
  <2> HIDE DEF Cells
  <2> QED BY <1>0, <2>3, <2>4, <2>5, SeqEqual
<1>. QED BY <1>1, <1>2

LEMMA NewBlockIsFree ==
  ASSUME NEW r, NEW s, Sound(r, s)
  PROVE  /\ NewBlock(r.m) \in Blocks /\ r.m.cells[NewBlock(r.m)] = <<>>
         /\ NewBlock(r.m) # r.o.begin /\ NewBlock(r.m) # Null
<1>1. r.o.begin \in Blocks \cup {Null}
  BY DEF Sound, Holds, Vector
<1>2. PICK b \in Blocks : b # r.o.begin /\ r.m.cells[b] = <<>>
  BY <1>1 DEF Sound, Spare
<1>3. b \in Free(r.m)
  BY <1>2 DEF Free, Allocated
<1>4. NewBlock(r.m) \in Blocks /\ NewBlock(r.m) \in Free(r.m)
  BY <1>3 DEF NewBlock
<1>5. r.m.cells[NewBlock(r.m)] = <<>>
  BY <1>4 DEF Free, Allocated
<1>6. r.o.begin # Null => r.m.cells[r.o.begin] # <<>>
  BY EmptySeq DEF Sound, Holds, Vector
<1>. QED BY <1>4, <1>5, <1>6, CellAssumption

-----------------------------------------------------------------------------
(* Private functions.                                                      *)

LEMMA SameMemory ==
  ASSUME NEW m \in Memories, NEW n \in Memories, n.fault = m.fault,
         \A b \in Blocks : n.cells[b] = m.cells[b]
  PROVE  n = m
<1>1. /\ m.cells \in [Blocks -> Seq(Cells)] /\ n.cells \in [Blocks -> Seq(Cells)]
      /\ m = [cells |-> m.cells, fault |-> m.fault]
      /\ n = [cells |-> n.cells, fault |-> n.fault]
  BY DEF Memories
<1>2. n.cells = m.cells
  BY <1>1
<1>. QED BY <1>1, <1>2

(* clear destroys the elements and keeps the storage.                      *)
LEMMA ClearHolds ==
  ASSUME NEW r, NEW s, r.m \in Memories, Holds(r.m, r.o, s)
  PROVE  /\ Clear(r).m \in Memories /\ Clear(r).m.fault = r.m.fault
         /\ Clear(r).o = [r.o EXCEPT !.end = 0]
         /\ Holds(Clear(r).m, Clear(r).o, <<>>)
         /\ Local(r, Clear(r))
<1> DEFINE o == r.o
           m == r.m
           n == Destroy(m, o.begin, 0, o.end)
           c == [o EXCEPT !.end = 0]
<1>0. o \in Vector /\ o.end \in Nat /\ o.cap \in Nat /\ o.end <= o.cap /\ s \in Seq(Live) /\ Len(s) = o.end
  BY DEF Holds, Vector
<1>1. Clear(r).m = n /\ Clear(r).o = c
  <2>1. o.end # NullEnd
    BY <1>0 DEF NullEnd
  <2> QED BY <2>1 DEF Clear, At
<1>2. c \in Vector /\ c.begin = o.begin /\ c.cap = o.cap /\ c.end = 0
  BY <1>0 DEF Vector
<1>3. CASE o.begin = Null
  <2>1. o = Empty /\ o.end = 0
    BY <1>3 DEF Holds, Empty
  <2>2. n = m /\ c = Empty
    BY <2>1, NothingTouched DEF Empty
  <2> QED BY <1>0, <1>1, <1>2, <1>3, <2>2, EmptySeq DEF Holds, Local
<1>4. CASE o.begin # Null
  <2>1. /\ o.begin \in Blocks /\ Len(m.cells[o.begin]) = o.cap /\ o.cap > 0
        /\ \A i \in 1 .. o.cap : m.cells[o.begin][i] = IF i <= o.end THEN s[i] ELSE Raw
    BY <1>0, <1>4 DEF Holds, Vector
  <2>2. \A i \in 1 .. o.end : m.cells[o.begin][i] # Raw
    <3>1. \A i \in 1 .. o.end : s[i] \in Live
      BY <1>0, ElementOfSeq
    <3> QED BY <1>0, <2>1, <3>1, CellAssumption DEF Live
  <2>3. Overwritten(m, n, o.begin, 0, [i \in 1 .. o.end |-> Raw])
    <3>1. /\ 0 \in Nat /\ 0 <= o.end /\ o.end <= Len(m.cells[o.begin])
          /\ \A i \in 0 + 1 .. o.end : m.cells[o.begin][i] # Raw
      BY <1>0, <2>1, <2>2
    <3>2. Overwritten(m, n, o.begin, 0, [i \in 1 .. o.end - 0 |-> Raw])
      BY <1>0, <2>1, <3>1, DestroyOverwrites
    <3> QED BY <1>0, <3>2
  <2>4. Len([i \in 1 .. o.end |-> Raw]) = o.end
    BY <1>0
  <2>5. \A i \in 1 .. o.cap : n.cells[o.begin][i] = Raw
    BY <1>0, <2>1, <2>3, <2>4 DEF Overwritten
  <2>6. /\ n \in Memories /\ n.fault = m.fault /\ Len(n.cells[o.begin]) = o.cap
        /\ \A b \in Blocks : b # o.begin => n.cells[b] = m.cells[b]
    BY <2>1, <2>3 DEF Overwritten
  <2> HIDE DEF n, c, o, m
  <2>7. Holds(n, c, <<>>)
    BY <1>2, <1>4, <2>1, <2>5, <2>6, EmptySeq DEF Holds
  <2>8. Local(r, Clear(r))
    BY <1>1, <1>2, <2>6 DEF Local, o, m
  <2> QED BY <1>1, <2>6, <2>7, <2>8 DEF o, m, c
<1>. QED BY <1>3, <1>4

(* What the destructor does: the storage is free again.                    *)
LEMMA ReleaseFrees ==
  ASSUME NEW r, NEW s, r.m \in Memories, Holds(r.m, r.o, s)
  PROVE  /\ Release(r) \in Memories /\ Release(r).fault = r.m.fault
         /\ \A b \in Blocks :
              Release(r).cells[b] = IF b = r.o.begin THEN <<>> ELSE r.m.cells[b]
<1>1. CASE r.o.begin = Null
  BY <1>1, CellAssumption DEF Release
<1>2. CASE r.o.begin # Null
  <2> DEFINE b == r.o.begin
             n == Clear(r).m
  <2>1. /\ n \in Memories /\ n.fault = r.m.fault /\ Clear(r).o = [r.o EXCEPT !.end = 0]
        /\ Holds(n, Clear(r).o, <<>>) /\ Local(r, Clear(r))
    BY ClearHolds
  <2>2. /\ b \in Blocks /\ r.o.cap \in Nat /\ r.o.cap > 0 /\ Clear(r).o.begin = b
        /\ Clear(r).o.cap = r.o.cap /\ Clear(r).o.end = 0
    BY <1>2, <2>1 DEF Holds, Vector
  <2>3. Len(n.cells[b]) = r.o.cap /\ \A i \in 1 .. r.o.cap : n.cells[b][i] = Raw
    BY <1>2, <2>1, <2>2 DEF Holds
  <2>4. n.cells[b] # <<>>
    BY <2>2, <2>3, EmptySeq
  <2>5. Release(r) = Deallocate(n, b, Len(n.cells[b]))
    BY <1>2, <2>3 DEF Release
  <2> HIDE DEF n, b
  <2>6. Replaced(n, Release(r), b, <<>>)
    BY <2>1, <2>2, <2>3, <2>4, <2>5, DeallocateCells
  <2> QED BY <2>1, <2>2, <2>6 DEF Replaced, Local, n, b
<1>. QED BY <1>1, <1>2

(* A vector whose storage is overwritten in place.                         *)
LEMMA InStorage ==
  ASSUME NEW r, NEW s, Sound(r, s), r.o.begin # Null,
         NEW n, NEW from \in Nat, NEW u, Overwritten(r.m, n, r.o.begin, from, u),
         NEW t \in Seq(Live), Len(t) <= r.o.cap,
         \A i \in 1 .. r.o.cap :
           (IF from < i /\ i <= from + Len(u) THEN u[i - from]
            ELSE IF i <= r.o.end THEN s[i] ELSE Raw)
           = (IF i <= Len(t) THEN t[i] ELSE Raw),
         NEW q, q.m = n, q.o = [r.o EXCEPT !.end = Len(t)]
  PROVE  Leads(r, q, t)
<1>1. /\ r.o \in Vector /\ r.o.begin \in Blocks /\ r.o.cap \in Nat /\ r.o.cap > 0
      /\ Len(r.m.cells[r.o.begin]) = r.o.cap /\ Len(t) \in Nat
      /\ \A i \in 1 .. r.o.cap :
           r.m.cells[r.o.begin][i] = IF i <= r.o.end THEN s[i] ELSE Raw
  BY LenProperties DEF Sound, Holds, Vector
<1>2. /\ q.o \in Vector /\ q.o.begin = r.o.begin /\ q.o.cap = r.o.cap /\ q.o.end = Len(t)
  BY <1>1 DEF Vector
<1>3. \A i \in 1 .. r.o.cap : q.m.cells[q.o.begin][i] = IF i <= Len(t) THEN t[i] ELSE Raw
  BY <1>1, <1>2 DEF Overwritten
<1>4. Len(q.m.cells[q.o.begin]) = q.o.cap
  BY <1>1, <1>2 DEF Overwritten
<1>5. Holds(q.m, q.o, t)
  BY <1>1, <1>2, <1>3, <1>4 DEF Holds
<1>6. Local(r, q)
  BY <1>1, <1>2 DEF Local, Overwritten
<1>7. q.m \in Memories /\ q.m.fault = FALSE
  BY DEF Overwritten, Sound
<1>. QED BY <1>5, <1>6, <1>7, Leading

(* What is known of a sound call, with and without storage.                *)
Known(r, s) ==
  /\ r.m \in Memories /\ r.m.fault = FALSE /\ r.o \in Vector
  /\ s \in Seq(Live) /\ Len(s) = r.o.end /\ DOMAIN s = 1 .. r.o.end
  /\ r.o.end \in Nat /\ r.o.cap \in Nat /\ r.o.end <= r.o.cap
  /\ \A i \in 1 .. r.o.end : s[i] \in Live /\ s[i] # Raw
  /\ r.o.begin = Null => r.o.cap = 0 /\ r.o.end = 0 /\ s = <<>> /\ r.o = Empty
  /\ r.o.begin # Null =>
       /\ r.o.begin \in Blocks /\ r.o.cap > 0
       /\ Len(r.m.cells[r.o.begin]) = r.o.cap
       /\ \A i \in 1 .. r.o.cap :
            r.m.cells[r.o.begin][i] = IF i <= r.o.end THEN s[i] ELSE Raw

LEMMA SoundFacts ==
  ASSUME NEW r, NEW s, Sound(r, s)
  PROVE  Known(r, s)
<1>1. /\ r.m \in Memories /\ r.m.fault = FALSE /\ r.o \in Vector /\ s \in Seq(Live)
      /\ Len(s) = r.o.end /\ r.o.end <= r.o.cap
  BY DEF Sound, Holds
<1>2. r.o.end \in Nat /\ r.o.cap \in Nat /\ r.o.begin \in Blocks \cup {Null}
  BY <1>1 DEF Vector
<1>3. DOMAIN s = 1 .. r.o.end /\ \A i \in 1 .. r.o.end : s[i] \in Live /\ s[i] # Raw
  <2>1. \A i \in 1 .. Len(s) : s[i] \in Live
    BY <1>1, ElementOfSeq
  <2> QED BY <1>1, <2>1, LenProperties, CellAssumption DEF Live
<1>4. r.o.begin = Null => r.o.cap = 0 /\ r.o.end = 0 /\ s = <<>> /\ r.o = Empty
  BY <1>1, EmptySeq DEF Sound, Holds, Empty
<1>5. r.o.begin # Null =>
        /\ r.o.begin \in Blocks /\ r.o.cap > 0
        /\ Len(r.m.cells[r.o.begin]) = r.o.cap
        /\ \A i \in 1 .. r.o.cap :
             r.m.cells[r.o.begin][i] = IF i <= r.o.end THEN s[i] ELSE Raw
  BY <1>2 DEF Sound, Holds
<1>. QED BY <1>1, <1>2, <1>3, <1>4, <1>5 DEF Known

(* Elements constructed behind the last one.                               *)
LEMMA ExtendedHolds ==
  ASSUME NEW r, NEW s, Sound(r, s), NEW t \in Seq(Live), r.o.end + Len(t) <= r.o.cap
  PROVE  /\ Leads(r, Extended(r, t), s \o t)
         /\ Extended(r, t).o = [r.o EXCEPT !.end = @ + Len(t)]
<1>0. Known(r, s)
  BY SoundFacts
<1> USE <1>0 DEF Known
<1> DEFINE n == Construct(r.m, r.o.begin, r.o.end, t)
           q == Extended(r, t)
<1>1. q.m = n /\ q.o = [r.o EXCEPT !.end = r.o.end + Len(t)]
  BY DEF Extended, At
<1>2. /\ s \o t \in Seq(Live) /\ Len(t) \in Nat /\ Len(s \o t) = r.o.end + Len(t)
      /\ \A i \in 1 .. r.o.end + Len(t) :
           (s \o t)[i] = IF i <= r.o.end THEN s[i] ELSE t[i - r.o.end]
  BY ConcatProperties, LenProperties
<1>3. CASE r.o.begin = Null
  <2>1. t = <<>> /\ r.o.end = 0
    BY <1>2, <1>3, EmptySeq
  <2>2. n = r.m /\ q.o = r.o /\ s \o t = s
    BY <1>1, <1>3, <2>1, NothingTouched, ConcatEmptySeq, EmptySeq DEF Empty
  <2> QED BY <1>1, <2>2, NoStep
<1>4. CASE r.o.begin # Null
  <2>1. t \in Seq(Cells)
    BY SeqMonotonic DEF Live, Cells
  <2>2. \A i \in r.o.end + 1 .. r.o.end + Len(t) : r.m.cells[r.o.begin][i] = Raw
    <3> SUFFICES ASSUME NEW i \in r.o.end + 1 .. r.o.end + Len(t)
                 PROVE  r.m.cells[r.o.begin][i] = Raw
      OBVIOUS
    <3>1. i \in 1 .. r.o.cap /\ ~(i <= r.o.end)
      BY <1>2
    <3> QED BY <1>4, <3>1
  <2> DEFINE z == s \o t
  <2>3. Overwritten(r.m, n, r.o.begin, r.o.end, t)
    BY <1>4, <2>1, <2>2, ConstructOverwrites
  <2>4. \A i \in 1 .. r.o.cap :
          (IF r.o.end < i /\ i <= r.o.end + Len(t) THEN t[i - r.o.end]
           ELSE IF i <= r.o.end THEN s[i] ELSE Raw)
          = (IF i <= Len(z) THEN z[i] ELSE Raw)
    BY <1>2
  <2>5. r.o.end \in Nat /\ z \in Seq(Live) /\ Len(z) <= r.o.cap /\ q.o = [r.o EXCEPT !.end = Len(z)]
    BY <1>1, <1>2
  <2> HIDE DEF n, q, z
  <2>6. Leads(r, q, z)
    <3> HIDE <1>0
    <3> QED BY <1>1, <1>4, <2>3, <2>4, <2>5, InStorage
  <2> QED BY <1>1, <2>6 DEF q, z
<1>. QED BY <1>1, <1>3, <1>4

(* pop_back, resize and assign destroy the end.                            *)
LEMMA DestroyFromHolds ==
  ASSUME NEW r, NEW s, Sound(r, s), NEW k \in 0 .. r.o.end
  PROVE  /\ Leads(r, DestroyFrom(r, k), SubSeq(s, 1, k))
         /\ DestroyFrom(r, k).o = [r.o EXCEPT !.end = k]
<1>0. Known(r, s)
  BY SoundFacts
<1> USE <1>0 DEF Known
<1> DEFINE n == Destroy(r.m, r.o.begin, k, r.o.end)
           q == DestroyFrom(r, k)
           t == SubSeq(s, 1, k)
           u == [i \in 1 .. r.o.end - k |-> Raw]
<1>1. q.m = n /\ q.o = [r.o EXCEPT !.end = k]
  BY DEF DestroyFrom, At
<1>2. t \in Seq(Live) /\ Len(t) = k /\ \A i \in 1 .. k : t[i] = s[i]
  <2>1. \A i \in 1 .. k : s[i] \in Live
    OBVIOUS
  <2>2. /\ t \in Seq(Live) /\ Len(t) = IF 1 <= k THEN k - 1 + 1 ELSE 0
        /\ \A i \in 1 .. k - 1 + 1 : t[i] = s[1 + i - 1]
    BY <2>1, SubSeqProperties
  <2> QED BY <2>2
<1>3. CASE r.o.begin = Null
  <2>1. k = 0 /\ t = <<>> /\ n = r.m /\ q.o = r.o /\ s = <<>>
    BY <1>1, <1>2, <1>3, NothingTouched, EmptySeq DEF Empty
  <2> QED BY <1>1, <2>1, NoStep
<1>4. CASE r.o.begin # Null
  <2>1. \A i \in k + 1 .. r.o.end : r.m.cells[r.o.begin][i] # Raw
    BY <1>4
  <2>2. Overwritten(r.m, n, r.o.begin, k, u)
    <3>1. r.m \in Memories /\ r.o.begin \in Blocks /\ k \in Nat /\ k <= r.o.end
      BY <1>4
    <3>2. r.o.end \in Nat /\ r.o.end <= Len(r.m.cells[r.o.begin])
      BY <1>4
    <3> HIDE <1>0
    <3> QED BY <2>1, <3>1, <3>2, DestroyOverwrites
  <2>3. Len(u) = r.o.end - k
    OBVIOUS
  <2>4. \A i \in 1 .. r.o.cap :
          (IF k < i /\ i <= k + Len(u) THEN u[i - k]
           ELSE IF i <= r.o.end THEN s[i] ELSE Raw)
          = (IF i <= Len(t) THEN t[i] ELSE Raw)
    BY <1>2, <2>3
  <2>5. k \in Nat /\ Len(t) <= r.o.cap /\ q.o = [r.o EXCEPT !.end = Len(t)]
    BY <1>1, <1>2
  <2> HIDE DEF n, q, t, u
  <2>6. Leads(r, q, t)
    <3> HIDE <1>0
    <3> QED BY <1>1, <1>2, <1>4, <2>2, <2>4, <2>5, InStorage
  <2> QED BY <1>1, <2>6 DEF q, t
<1>. QED BY <1>1, <1>3, <1>4

(* Elements s[at + 1], ... overwritten by t: assign, rotate and the moves. *)
LEMMA AssignedHolds ==
  ASSUME NEW r, NEW s, Sound(r, s), NEW at \in Nat, NEW t \in Seq(Live),
         at + Len(t) <= r.o.end
  PROVE  /\ Leads(r, At(Assign(r.m, r.o.begin, at, t), r.o),
                  Splice(s, at, t, at + Len(t)))
<1>0. Known(r, s)
  BY SoundFacts
<1> USE <1>0 DEF Known
<1> DEFINE n == Assign(r.m, r.o.begin, at, t)
           q == At(n, r.o)
           z == Splice(s, at, t, at + Len(t))
<1>1. q.m = n /\ q.o = r.o
  BY DEF At
<1>2. Len(t) \in Nat /\ DOMAIN t = 1 .. Len(t) /\ t \in Seq(Cells)
  BY LenProperties, SeqMonotonic DEF Live, Cells
<1>3. /\ z \in Seq(Live) /\ Len(z) = r.o.end
      /\ \A i \in 1 .. r.o.end :
           z[i] = IF at < i /\ i <= at + Len(t) THEN t[i - at] ELSE s[i]
  <2>1. s \in Seq(Live) /\ at + Len(t) <= Len(s) /\ Len(s) = r.o.end
    OBVIOUS
  <2> HIDE <1>0
  <2>2. z \in Seq(Live)
    BY <2>1, Overlaid
  <2>3. Len(z) = Len(s)
    BY <2>1, Overlaid
  <2>4. \A i \in 1 .. Len(s) :
          z[i] = IF at < i /\ i <= at + Len(t) THEN t[i - at] ELSE s[i]
    BY <2>1, Overlaid
  <2> QED BY <2>1, <2>2, <2>3, <2>4
<1>4. CASE r.o.begin = Null
  <2>1. t = <<>> /\ n = r.m /\ z = <<>>
    BY <1>2, <1>3, <1>4, NothingTouched, EmptySeq
  <2> QED BY <1>1, <1>4, <2>1, NoStep
<1>5. CASE r.o.begin # Null
  <2>1. \A i \in at + 1 .. at + Len(t) : r.m.cells[r.o.begin][i] # Raw
    <3> SUFFICES ASSUME NEW i \in at + 1 .. at + Len(t)
                 PROVE  r.m.cells[r.o.begin][i] # Raw
      OBVIOUS
    <3>1. i \in 1 .. r.o.cap /\ i \in 1 .. r.o.end
      BY <1>2
    <3> QED BY <1>5, <3>1
  <2>2. r.o.begin \in Blocks /\ at + Len(t) <= Len(r.m.cells[r.o.begin])
    BY <1>2, <1>5
  <2>3. Overwritten(r.m, n, r.o.begin, at, t)
    <3>1. r.m \in Memories
      OBVIOUS
    <3> HIDE <1>0
    <3> QED BY <1>2, <2>1, <2>2, <3>1, AssignOverwrites
  <2>4. \A i \in 1 .. r.o.cap :
          (IF at < i /\ i <= at + Len(t) THEN t[i - at]
           ELSE IF i <= r.o.end THEN s[i] ELSE Raw)
          = (IF i <= Len(z) THEN z[i] ELSE Raw)
    <3> SUFFICES ASSUME NEW i \in 1 .. r.o.cap
                 PROVE  (IF at < i /\ i <= at + Len(t) THEN t[i - at]
                         ELSE IF i <= r.o.end THEN s[i] ELSE Raw)
                        = (IF i <= Len(z) THEN z[i] ELSE Raw)
      OBVIOUS
    <3> HIDE DEF z
    <3>1. CASE i <= r.o.end
      <4>1. i \in 1 .. r.o.end
        BY <3>1
      <4> QED BY <1>3, <3>1, <4>1
    <3>2. CASE ~(i <= r.o.end)
      BY <1>2, <1>3, <3>2
    <3> QED BY <3>1, <3>2
  <2>5. r.o.end \in Nat /\ Len(z) <= r.o.cap /\ q.o = [r.o EXCEPT !.end = Len(z)]
    BY <1>1, <1>3 DEF Vector
  <2> HIDE DEF n, q, z
  <2>6. Leads(r, q, z)
    <3> HIDE <1>0
    <3> QED BY <1>1, <1>3, <1>5, <2>3, <2>4, <2>5, InStorage
  <2> QED BY <2>6 DEF q, z, n
<1>. QED BY <1>4, <1>5

(* A throw while elements are constructed in raw cells leaves no trace.    *)
LEMMA FailureLeavesMemory ==
  ASSUME NEW m \in Memories, NEW b \in Blocks, NEW from \in Nat, NEW s \in Seq(Live),
         NEW k \in 0 .. Len(s), from + k <= Len(m.cells[b]),
         \A i \in from + 1 .. from + k : m.cells[b][i] = Raw
  PROVE  RangeConstructFails(m, b, from, s, k) = m
<1> DEFINE t == SubSeq(s, 1, k)
           n == Construct(m, b, from, t)
           u == [i \in 1 .. k |-> Raw]
           q == Destroy(n, b, from, from + k)
<1>1. t \in Seq(Live) /\ t \in Seq(Cells) /\ Len(t) = k /\ \A i \in 1 .. k : t[i] \in Live
  <2>1. 0 \in Nat /\ k \in Nat /\ 0 <= k /\ k <= Len(s)
    BY LenProperties
  <2>2. SubSeq(s, 0 + 1, k) \in Seq(Live) /\ Len(SubSeq(s, 0 + 1, k)) = k - 0
    BY <2>1, Part
  <2>3. t \in Seq(Live) /\ Len(t) = k
    BY <2>2
  <2> QED BY <2>3, SeqMonotonic, ElementOfSeq DEF Live, Cells
<1>2. k \in Nat /\ Len(m.cells[b]) \in Nat
  BY LenProperties, CellsOfBlock
<1> HIDE DEF t
<1>3. Overwritten(m, n, b, from, t)
  BY <1>1, <1>2, ConstructOverwrites
<1>4. n \in Memories /\ n.fault = m.fault /\ Len(n.cells[b]) = Len(m.cells[b])
  BY <1>3 DEF Overwritten
<1>5. \A i \in from + 1 .. from + k : n.cells[b][i] # Raw
  <2> SUFFICES ASSUME NEW i \in from + 1 .. from + k PROVE n.cells[b][i] # Raw
    OBVIOUS
  <2>1. i \in 1 .. Len(m.cells[b]) /\ from < i /\ i <= from + Len(t) /\ i - from \in 1 .. k
    BY <1>1, <1>2
  <2>2. n.cells[b][i] = t[i - from]
    BY <1>3, <2>1 DEF Overwritten
  <2> QED BY <1>1, <2>1, <2>2, CellAssumption DEF Live
<1> HIDE DEF n
<1>6. Overwritten(n, q, b, from, u)
  <2>1. from + k \in Nat /\ from <= from + k /\ from + k <= Len(n.cells[b])
    BY <1>2, <1>4
  <2>2. Overwritten(n, q, b, from, [i \in 1 .. (from + k) - from |-> Raw])
    BY <1>4, <1>5, <2>1, DestroyOverwrites
  <2>3. (from + k) - from = k
    BY <1>2
  <2> QED BY <2>2, <2>3
<1>7. Len(u) = k /\ \A i \in 1 .. k : u[i] = Raw
  BY <1>2
<1> HIDE DEF q, u
<1>8. q \in Memories /\ q.fault = m.fault /\ \A c \in Blocks : q.cells[c] = m.cells[c]
  <2>1. q \in Memories /\ q.fault = m.fault /\ Len(q.cells[b]) = Len(m.cells[b])
        /\ \A c \in Blocks : c # b => q.cells[c] = m.cells[c]
    BY <1>3, <1>4, <1>6 DEF Overwritten
  <2>2. \A i \in 1 .. Len(m.cells[b]) : q.cells[b][i] = m.cells[b][i]
    <3> SUFFICES ASSUME NEW i \in 1 .. Len(m.cells[b]) PROVE q.cells[b][i] = m.cells[b][i]
      OBVIOUS
    <3>1. CASE from < i /\ i <= from + k
      <4>1. i \in from + 1 .. from + k /\ i - from \in 1 .. k
        BY <1>2, <3>1
      <4>2. q.cells[b][i] = u[i - from]
        BY <1>4, <1>6, <1>7, <3>1 DEF Overwritten
      <4> QED BY <1>7, <4>1, <4>2
    <3>2. CASE ~(from < i /\ i <= from + k)
      <4>1. q.cells[b][i] = n.cells[b][i]
        BY <1>4, <1>6, <1>7, <3>2 DEF Overwritten
      <4>2. n.cells[b][i] = m.cells[b][i]
        BY <1>1, <1>3, <3>2 DEF Overwritten
      <4> QED BY <4>1, <4>2
    <3> QED BY <3>1, <3>2
  <2>3. q.cells[b] \in Seq(Cells) /\ m.cells[b] \in Seq(Cells)
    BY <2>1, CellsOfBlock
  <2>4. q.cells[b] = m.cells[b]
    BY <2>1, <2>2, <2>3, SeqEqual
  <2> QED BY <2>1, <2>4
<1>9. q = m
  BY <1>8, SameMemory
<1>. QED BY <1>1, <1>9 DEF RangeConstructFails, q, n, t

(* reserve_to: the elements move to block b, which may already hold more   *)
(* behind them, and the old storage is freed.                              *)
Reserved(r, q, s, b, n) ==
  /\ q.m \in Memories /\ q.m.fault = r.m.fault
  /\ q.o = [begin |-> b, end |-> r.o.end, cap |-> n]
  /\ \A c \in Blocks :
       c # b => q.m.cells[c] = IF c = r.o.begin THEN <<>> ELSE r.m.cells[c]
  /\ Len(q.m.cells[b]) = n
  /\ \A i \in 1 .. n : q.m.cells[b][i] = IF i <= r.o.end THEN s[i] ELSE r.m.cells[b][i]

(* The elements of a vector, moved from.                                   *)
LEMMA MovedOut ==
  ASSUME NEW m \in Memories, NEW o, NEW s, Holds(m, o, s)
  PROVE  LET q == MoveFrom(m, o.begin, 0, o.end)
         IN  /\ q \in Memories /\ q.fault = m.fault
             /\ \A c \in Blocks : c # o.begin => q.cells[c] = m.cells[c]
             /\ Holds(q, o, [i \in 1 .. o.end |-> Moved])
<1> DEFINE q == MoveFrom(m, o.begin, 0, o.end)
           u == [i \in 1 .. o.end |-> Moved]
<1>0. o \in Vector /\ o.end \in Nat /\ o.cap \in Nat /\ o.end <= o.cap /\ s \in Seq(Live) /\ Len(s) = o.end
  BY DEF Holds, Vector
<1>1. u \in Seq(Live) /\ Len(u) = o.end /\ \A i \in 1 .. o.end : u[i] = Moved
  <2>1. u \in [1 .. o.end -> Live]
    BY DEF Live
  <2> HIDE DEF u
  <2>2. u \in Seq(Live) /\ Len(u) = o.end
    BY <1>0, <2>1, FunctionIsSeq
  <2> QED BY <2>2 DEF u
<1>2. CASE o.begin = Null
  <2>1. o = Empty /\ o.end = 0
    BY <1>2 DEF Holds, Empty
  <2>2. q = m
    BY <2>1, NothingTouched
  <2> QED BY <1>0, <1>1, <1>2, <2>1, <2>2 DEF Holds
<1>3. CASE o.begin # Null
  <2>1. /\ o.begin \in Blocks /\ o.cap > 0 /\ Len(m.cells[o.begin]) = o.cap
        /\ \A i \in 1 .. o.cap : m.cells[o.begin][i] = IF i <= o.end THEN s[i] ELSE Raw
    BY <1>0, <1>3 DEF Holds, Vector
  <2>2. \A i \in 0 + 1 .. o.end : m.cells[o.begin][i] # Raw
    <3>1. \A i \in 1 .. o.end : s[i] \in Live
      BY <1>0, ElementOfSeq
    <3> QED BY <1>0, <2>1, <3>1, CellAssumption DEF Live
  <2>3. Overwritten(m, q, o.begin, 0, u)
    <3>1. 0 \in Nat /\ 0 <= o.end /\ o.end <= Len(m.cells[o.begin]) /\ o.end - 0 = o.end
      BY <1>0, <2>1
    <3>2. Overwritten(m, q, o.begin, 0, [i \in 1 .. o.end - 0 |-> Moved])
      BY <1>0, <2>1, <2>2, <3>1, MoveFromOverwrites
    <3> QED BY <3>1, <3>2
  <2> HIDE DEF q, u
  <2>4. /\ q \in Memories /\ q.fault = m.fault /\ Len(q.cells[o.begin]) = o.cap
        /\ \A c \in Blocks : c # o.begin => q.cells[c] = m.cells[c]
    BY <2>1, <2>3 DEF Overwritten
  <2>5. \A i \in 1 .. o.cap : q.cells[o.begin][i] = IF i <= o.end THEN u[i] ELSE Raw
    BY <1>0, <1>1, <2>1, <2>3 DEF Overwritten
  <2>6. Holds(q, o, u)
    BY <1>0, <1>1, <1>3, <2>1, <2>4, <2>5 DEF Holds
  <2> QED BY <2>4, <2>6 DEF q, u
<1>. QED BY <1>2, <1>3

LEMMA ReserveToHolds ==
  ASSUME NEW r, NEW s, r.m \in Memories, Holds(r.m, r.o, s),
         NEW b \in Blocks, b # r.o.begin, NEW n \in Nat, Len(r.m.cells[b]) = n,
         r.o.end <= n, \A i \in 1 .. r.o.end : r.m.cells[b][i] = Raw
  PROVE  Reserved(r, ReserveTo(r, b, n), s, b, n)
<1> DEFINE o  == r.o
           m1 == Construct(r.m, b, 0, s)
           m2 == MoveFrom(m1, o.begin, 0, o.end)
           u  == [i \in 1 .. o.end |-> Moved]
           m3 == Release(At(m2, o))
           q  == ReserveTo(r, b, n)
<1>1. o \in Vector /\ o.end \in Nat /\ o.cap \in Nat /\ s \in Seq(Live) /\ Len(s) = o.end
  BY DEF Holds, Vector
<1>2. q.m = m3 /\ q.o = [begin |-> b, end |-> o.end, cap |-> n]
  <2>1. Contents(r.m, r.o) = s
    BY HoldsContents
  <2> QED BY <2>1 DEF ReserveTo, At
<1>3. Overwritten(r.m, m1, b, 0, s)
  <2>1. 0 \in Nat /\ s \in Seq(Cells) /\ 0 + Len(s) <= Len(r.m.cells[b])
    BY <1>1, SeqMonotonic DEF Live, Cells
  <2>2. \A i \in 0 + 1 .. 0 + Len(s) : r.m.cells[b][i] = Raw
    BY <1>1
  <2> QED BY <2>1, <2>2, ConstructOverwrites
<1> HIDE DEF m1
<1>4. m1 \in Memories /\ m1.fault = r.m.fault /\ Holds(m1, o, s)
  BY <1>1, <1>3 DEF Overwritten, Holds, Vector
<1>5. /\ m2 \in Memories /\ m2.fault = r.m.fault /\ Holds(m2, o, u)
      /\ \A c \in Blocks : c # o.begin => m2.cells[c] = m1.cells[c]
  BY <1>4, MovedOut
<1> HIDE DEF m2
<1>6. /\ m3 \in Memories /\ m3.fault = r.m.fault
      /\ \A c \in Blocks : m3.cells[c] = IF c = o.begin THEN <<>> ELSE m2.cells[c]
  <2> DEFINE p == At(m2, o)
  <2>1. p.m = m2 /\ p.o = o
    BY DEF At
  <2> HIDE DEF p, u
  <2>2. p.m \in Memories /\ Holds(p.m, p.o, u)
    BY <1>5, <2>1
  <2>3. /\ Release(p) \in Memories /\ Release(p).fault = p.m.fault
        /\ \A c \in Blocks : Release(p).cells[c] = IF c = p.o.begin THEN <<>> ELSE p.m.cells[c]
    BY <2>2, ReleaseFrees
  <2> QED BY <1>5, <2>1, <2>3 DEF p
<1> HIDE DEF m3
<1>7. \A c \in Blocks : c # b => m3.cells[c] = IF c = o.begin THEN <<>> ELSE r.m.cells[c]
  BY <1>3, <1>5, <1>6 DEF Overwritten
<1>8. m3.cells[b] = m1.cells[b]
  BY <1>5, <1>6
<1>9. Len(m3.cells[b]) = n
  BY <1>3, <1>8 DEF Overwritten
<1>10. \A i \in 1 .. n : m3.cells[b][i] = IF i <= o.end THEN s[i] ELSE r.m.cells[b][i]
  BY <1>1, <1>3, <1>8 DEF Overwritten
<1> HIDE DEF q, o
<1>11. Reserved(r, q, s, b, n)
  BY <1>2, <1>6, <1>7, <1>9, <1>10 DEF Reserved, o
<1>. QED BY <1>11 DEF q

(* The vector has gone over to a block that was free, and left its own.    *)
LEMMA Relocated ==
  ASSUME NEW r, NEW s, Sound(r, s), NEW b \in Blocks, b # r.o.begin, r.m.cells[b] = <<>>,
         NEW q, q.m \in Memories, q.m.fault = FALSE, NEW t \in Seq(Live), NEW n \in Nat \ {0},
         Len(t) <= n, q.o = [begin |-> b, end |-> Len(t), cap |-> n],
         \A c \in Blocks : c # b => q.m.cells[c] = IF c = r.o.begin THEN <<>> ELSE r.m.cells[c],
         Len(q.m.cells[b]) = n,
         \A i \in 1 .. n : q.m.cells[b][i] = IF i <= Len(t) THEN t[i] ELSE Raw
  PROVE  Leads(r, q, t)
<1>1. Len(t) \in Nat
  BY LenProperties
<1>2. q.o \in Vector /\ q.o.begin = b /\ q.o.end = Len(t) /\ q.o.cap = n /\ b # Null
  BY <1>1, CellAssumption DEF Vector
<1>3. Holds(q.m, q.o, t)
  BY <1>1, <1>2 DEF Holds
<1>4. Local(r, q)
  BY <1>2 DEF Local
<1>. QED BY <1>3, <1>4, Leading

(* A new block, and the memory in which only it is new.                    *)
LEMMA AllocatedNew ==
  ASSUME NEW r, NEW s, Sound(r, s), NEW n \in Nat \ {0}
  PROVE  LET b == NewBlock(r.m)
             m == Allocate(r.m, b, n)
         IN  /\ b \in Blocks /\ b # r.o.begin /\ b # Null /\ r.m.cells[b] = <<>>
             /\ m \in Memories /\ m.fault = FALSE
             /\ Len(m.cells[b]) = n /\ \A i \in 1 .. n : m.cells[b][i] = Raw
             /\ \A c \in Blocks : c # b => m.cells[c] = r.m.cells[c]
             /\ Holds(m, r.o, s)
<1> DEFINE b == NewBlock(r.m)
           m == Allocate(r.m, b, n)
           c == [i \in 1 .. n |-> Raw]
<1>1. b \in Blocks /\ b # r.o.begin /\ b # Null /\ r.m.cells[b] = <<>>
  BY NewBlockIsFree
<1>2. Replaced(r.m, m, b, c)
  BY <1>1, AllocateCells DEF Sound
<1>3. Len(c) = n /\ \A i \in 1 .. n : c[i] = Raw
  OBVIOUS
<1> HIDE DEF b, m, c
<1>4. /\ m \in Memories /\ m.fault = FALSE /\ m.cells[b] = c
      /\ \A d \in Blocks : d # b => m.cells[d] = r.m.cells[d]
  BY <1>2 DEF Replaced, Sound
<1>5. Holds(m, r.o, s)
  BY <1>1, <1>4 DEF Holds, Sound, Vector
<1>. QED BY <1>1, <1>3, <1>4, <1>5 DEF b, m

(* reserve, shrink_to_fit and resize: the elements move to a new block.    *)
LEMMA GrownHolds ==
  ASSUME NEW r, NEW s, Sound(r, s), NEW n \in Nat \ {0}, r.o.end <= n
  PROVE  LET b == NewBlock(r.m)
             q == ReserveTo(At(Allocate(r.m, b, n), r.o), b, n)
         IN  Leads(r, q, s) /\ q.o = [begin |-> b, end |-> r.o.end, cap |-> n]
<1> DEFINE b == NewBlock(r.m)
           p == At(Allocate(r.m, b, n), r.o)
           q == ReserveTo(p, b, n)
<1>0. Known(r, s)
  BY SoundFacts
<1>1. /\ b \in Blocks /\ b # r.o.begin /\ b # Null /\ r.m.cells[b] = <<>>
      /\ p.m \in Memories /\ p.m.fault = FALSE
      /\ Len(p.m.cells[b]) = n /\ \A i \in 1 .. n : p.m.cells[b][i] = Raw
      /\ \A c \in Blocks : c # b => p.m.cells[c] = r.m.cells[c]
      /\ Holds(p.m, r.o, s) /\ p.o = r.o
  BY AllocatedNew DEF At
<1>2. r.o.end \in Nat /\ s \in Seq(Live) /\ Len(s) = r.o.end
  BY <1>0 DEF Known
<1> HIDE DEF p, b
<1>3. Reserved(p, q, s, b, n)
  <2>1. \A i \in 1 .. p.o.end : p.m.cells[b][i] = Raw
    BY <1>1, <1>2
  <2> QED BY <1>1, <2>1, ReserveToHolds
<1> HIDE DEF q
<1>4. /\ q.m \in Memories /\ q.m.fault = FALSE /\ q.o = [begin |-> b, end |-> Len(s), cap |-> n]
      /\ Len(q.m.cells[b]) = n
      /\ \A c \in Blocks : c # b => q.m.cells[c] = IF c = r.o.begin THEN <<>> ELSE r.m.cells[c]
  BY <1>1, <1>2, <1>3 DEF Reserved
<1>5. \A i \in 1 .. n : q.m.cells[b][i] = IF i <= Len(s) THEN s[i] ELSE Raw
  BY <1>1, <1>2, <1>3 DEF Reserved
<1>6. Leads(r, q, s)
  BY <1>1, <1>2, <1>4, <1>5, Relocated
<1>. QED BY <1>2, <1>4, <1>6 DEF p, q, b

(* The doubled capacity fits.                                              *)
LEMMA NewCapFits ==
  ASSUME NEW o, o.cap \in Nat, NEW size \in Nat \ {0}
  PROVE  NewCap(o, size) \in Nat /\ NewCap(o, size) >= size
<1> DEFINE base == IF o.cap = 0 THEN 1 ELSE 2 * o.cap
           F(f, k) == [i \in 0 .. k |-> IF i = 0 THEN base ELSE 2 * f[i - 1]]
           doubled == CHOOSE f : f = F(f, size)
           fits == {i \in 0 .. size : doubled[i] >= size}
           least == CHOOSE i \in fits : \A j \in fits : i <= j
<1>1. NewCap(o, size) = doubled[least]
  BY DEF NewCap
<1>2. base \in Nat /\ base >= 1
  OBVIOUS
<1> HIDE DEF base
<1>3. doubled = F(doubled, size)
  <2> DEFINE T == {k \in 0 .. size : \E f : f = F(f, k)}
  <2>1. 0 \in T
    <3> DEFINE g == [i \in 0 .. 0 |-> base]
    <3>1. g = [i \in 0 .. 0 |-> g[i]] /\ \A i \in 0 .. 0 : i = 0 /\ g[i] = base
      OBVIOUS
    <3> HIDE DEF g
    <3>2. g = F(g, 0)
      BY <3>1
    <3> QED BY <3>2
  <2>2. ASSUME NEW k \in 1 .. size, k - 1 \in T PROVE k \in T
    <3>1. PICK f : f = F(f, k - 1)
      BY <2>2
    <3> DEFINE g == [i \in 0 .. k |-> IF i = k THEN 2 * f[k - 1] ELSE f[i]]
    <3>2. \A i \in 0 .. k : g[i] = IF i = 0 THEN base ELSE 2 * g[i - 1]
      <4> SUFFICES ASSUME NEW i \in 0 .. k
                   PROVE  g[i] = IF i = 0 THEN base ELSE 2 * g[i - 1]
        OBVIOUS
      <4>1. CASE i = k
        BY <4>1
      <4>2. CASE i # k
        <5>1. i \in 0 .. k - 1 /\ (i # 0 => i - 1 \in 0 .. k /\ i - 1 # k)
          BY <4>2
        <5>2. f[i] = IF i = 0 THEN base ELSE 2 * f[i - 1]
          BY <3>1, <5>1
        <5> QED BY <4>2, <5>1, <5>2
      <4> QED BY <4>1, <4>2
    <3>3. g = [i \in 0 .. k |-> g[i]]
      OBVIOUS
    <3> HIDE DEF g
    <3>4. g = F(g, k)
      BY <3>2, <3>3
    <3> HIDE DEF F
    <3>5. \E h : h = F(h, k)
      BY <3>4
    <3> QED BY <3>5
  <2> HIDE DEF T
  <2>3. \A k \in 0 .. size : k \in T
    BY <2>1, <2>2, Induction
  <2>4. \E f : f = F(f, size)
    BY <2>3 DEF T
  <2> QED BY <2>4
<1> HIDE DEF doubled
<1>4. \A i \in 0 .. size : doubled[i] \in Nat /\ doubled[i] >= i + 1
  <2> DEFINE T == {i \in 0 .. size : doubled[i] \in Nat /\ doubled[i] >= i + 1}
  <2>1. 0 \in T
    BY <1>2, <1>3
  <2>2. ASSUME NEW k \in 1 .. size, k - 1 \in T PROVE k \in T
    <3>1. doubled[k] = 2 * doubled[k - 1] /\ doubled[k - 1] \in Nat /\ doubled[k - 1] >= k
      BY <1>3, <2>2
    <3> QED BY <3>1
  <2> HIDE DEF T
  <2>3. \A k \in 0 .. size : k \in T
    BY <2>1, <2>2, Induction
  <2> QED BY <2>3 DEF T
<1>5. least \in fits
  <2>1. size \in fits /\ fits \subseteq Nat
    BY <1>4
  <2> HIDE DEF fits
  <2>2. \E i \in fits : \A j \in fits : i <= j
    BY <2>1, Least
  <2> QED BY <2>2
<1> HIDE DEF least
<1>. QED BY <1>1, <1>4, <1>5

-----------------------------------------------------------------------------
(* Appending.                                                              *)

(* What an argument denotes, it still does when a block is added.          *)
LEMMA ArgumentStays ==
  ASSUME NEW m \in Memories, NEW n, NEW b, m.cells[b] = <<>>,
         \A c \in Blocks : c # b => n.cells[c] = m.cells[c],
         NEW a, NEW x, Denotes(m, a, x)
  PROVE  Denotes(n, a, x)
<1>1. a \notin Values => a[1] # b
  BY EmptySeq DEF Denotes
<1>. QED BY <1>1 DEF Denotes

LEMMA ExtendedByHolds ==
  ASSUME NEW r, NEW s, Sound(r, s), NEW a, NEW x, Denotes(r.m, a, x), NEW n \in Nat,
         r.o.end + n <= r.o.cap
  PROVE  Leads(r, ExtendedBy(r, n, a), s \o [i \in 1 .. n |-> x])
<1> DEFINE t == [i \in 1 .. n |-> x]
<1>1. t \in Seq(Live) /\ Len(t) = n
  <2>1. t \in [1 .. n -> Live]
    BY DEF Denotes, Live
  <2> HIDE DEF t
  <2> QED BY <2>1, FunctionIsSeq
<1>2. r.m \in Memories
  BY DEF Sound
<1>3. ConstructCopies(r.m, r.o.begin, r.o.end, n, a) = Construct(r.m, r.o.begin, r.o.end, t)
  BY <1>2, CopiesOfArgument
<1> HIDE DEF t
<1>4. ExtendedBy(r, n, a) = Extended(r, t)
  BY <1>1, <1>3 DEF ExtendedBy, Extended
<1>5. Leads(r, Extended(r, t), s \o t)
  BY <1>1, ExtendedHolds
<1>. QED BY <1>4, <1>5 DEF t

(* emplace_back: the argument may refer to one of the elements.            *)
LEMMA EmplacedBackHolds ==
  ASSUME NEW r, NEW s, Sound(r, s), NEW a, NEW x, Denotes(r.m, a, x)
  PROVE  Leads(r, EmplacedBack(r, a), s \o <<x>>)
<1>0. Known(r, s)
  BY SoundFacts
<1>1. [i \in 1 .. 1 |-> x] = <<x>> /\ x \in Live /\ x \in Cells
  BY DEF Denotes, Live, Cells
<1>2. CASE ~Full(r.o)
  <2>1. r.o.end + 1 <= r.o.cap
    BY <1>0, <1>2 DEF Known, Full
  <2>2. Leads(r, ExtendedBy(r, 1, a), s \o [i \in 1 .. 1 |-> x])
    BY <2>1, ExtendedByHolds
  <2> QED BY <1>1, <1>2, <2>2 DEF EmplacedBack
<1>3. CASE Full(r.o)
  <2> DEFINE n == NewCap(r.o, r.o.end + 1)
             b == NewBlock(r.m)
             m == Allocate(r.m, b, n)
             k == ConstructCopies(m, b, r.o.end, 1, a)
             p == At(k, r.o)
             q == ReserveTo(p, b, n)
             z == [q EXCEPT !.o.end = @ + 1]
             t == s \o <<x>>
  <2>1. n \in Nat /\ n >= r.o.end + 1 /\ r.o.end \in Nat /\ n \in Nat \ {0}
    BY <1>0, NewCapFits DEF Known
  <2>2. EmplacedBack(r, a) = z
    BY <1>3 DEF EmplacedBack
  <2>3. /\ b \in Blocks /\ b # r.o.begin /\ b # Null /\ r.m.cells[b] = <<>>
        /\ m \in Memories /\ m.fault = FALSE
        /\ Len(m.cells[b]) = n /\ \A i \in 1 .. n : m.cells[b][i] = Raw
        /\ \A c \in Blocks : c # b => m.cells[c] = r.m.cells[c]
        /\ Holds(m, r.o, s)
    <3> HIDE DEF n
    <3> QED BY <2>1, AllocatedNew
  <2> HIDE DEF n, b, m
  <2>4. Denotes(m, a, x)
    <3>1. r.m \in Memories /\ r.m.cells[b] = <<>>
      BY <1>0, <2>3 DEF Known
    <3>2. \A c \in Blocks : c # b => m.cells[c] = r.m.cells[c]
      BY <2>3
    <3> QED BY <3>1, <3>2, ArgumentStays
  <2>5. k = Construct(m, b, r.o.end, <<x>>)
    BY <2>3, <2>4, OneCopy
  <2> HIDE DEF k
  <2>6. Overwritten(m, k, b, r.o.end, <<x>>)
    <3>1. <<x>> \in Seq(Cells) /\ Len(<<x>>) = 1
      BY <1>1
    <3>2. r.o.end + Len(<<x>>) <= Len(m.cells[b])
      BY <2>1, <2>3, <3>1
    <3>3. \A i \in r.o.end + 1 .. r.o.end + Len(<<x>>) : m.cells[b][i] = Raw
      BY <2>1, <2>3, <3>1
    <3> QED BY <2>1, <2>3, <2>5, <3>1, <3>2, <3>3, ConstructOverwrites
  <2>7. /\ k \in Memories /\ k.fault = FALSE /\ Len(k.cells[b]) = n
        /\ \A c \in Blocks : c # b => k.cells[c] = r.m.cells[c]
    BY <2>3, <2>6 DEF Overwritten
  <2>8. \A i \in 1 .. n : k.cells[b][i] = IF i = r.o.end + 1 THEN x ELSE Raw
    <3>1. Len(<<x>>) = 1 /\ <<x>>[1] = x
      OBVIOUS
    <3>2. \A i \in 1 .. n :
            k.cells[b][i] = IF r.o.end < i /\ i <= r.o.end + 1 THEN <<x>>[i - r.o.end] ELSE Raw
      BY <2>3, <2>6, <3>1 DEF Overwritten
    <3>3. \A i \in 1 .. n :
            /\ r.o.end < i /\ i <= r.o.end + 1 <=> i = r.o.end + 1
            /\ i = r.o.end + 1 => i - r.o.end = 1
      BY <2>1
    <3> QED BY ONLY <3>1, <3>2, <3>3
  <2>9. Holds(k, r.o, s)
    BY <2>3, <2>7 DEF Holds, Vector
  <2>10. p.m = k /\ p.o = r.o
    BY DEF At
  <2> HIDE DEF p
  <2>11. Reserved(p, q, s, b, n)
    <3>1. \A i \in 1 .. p.o.end : p.m.cells[b][i] = Raw
      BY <2>1, <2>8, <2>10
    <3> QED BY <2>1, <2>3, <2>7, <2>9, <2>10, <3>1, ReserveToHolds
  <2>12. z.m = q.m /\ z.o = [q.o EXCEPT !.end = @ + 1]
    BY DEF ReserveTo, At
  <2> HIDE DEF q, z
  <2>13. t \in Seq(Live) /\ Len(t) = r.o.end + 1
         /\ \A i \in 1 .. r.o.end + 1 : t[i] = IF i <= r.o.end THEN s[i] ELSE x
    <3>1. <<x>> \in Seq(Live) /\ Len(<<x>>) = 1 /\ <<x>>[1] = x
      BY <1>1
    <3>2. s \in Seq(Live) /\ Len(s) = r.o.end
      BY <1>0 DEF Known
    <3>3. t \in Seq(Live) /\ Len(t) = Len(s) + Len(<<x>>)
      BY <3>1, <3>2, ConcatProperties
    <3>4. \A i \in 1 .. Len(s) + Len(<<x>>) :
            t[i] = IF i <= Len(s) THEN s[i] ELSE <<x>>[i - Len(s)]
      BY <3>1, <3>2, ConcatProperties
    <3> HIDE DEF t
    <3>5. \A i \in 1 .. r.o.end + 1 : ~(i <= r.o.end) => i - r.o.end = 1
      BY <2>1
    <3> QED BY <2>1, <3>1, <3>2, <3>3, <3>4, <3>5
  <2> HIDE DEF t
  <2>14. z.o = [begin |-> b, end |-> Len(t), cap |-> n]
    BY <2>1, <2>10, <2>11, <2>12, <2>13 DEF Reserved
  <2>15. /\ z.m \in Memories /\ z.m.fault = FALSE /\ Len(z.m.cells[b]) = n
         /\ \A c \in Blocks : c # b => z.m.cells[c] = IF c = r.o.begin THEN <<>> ELSE r.m.cells[c]
    BY <2>7, <2>10, <2>11, <2>12 DEF Reserved
  <2>16. \A i \in 1 .. n : z.m.cells[b][i] = IF i <= Len(t) THEN t[i] ELSE Raw
    <3> SUFFICES ASSUME NEW i \in 1 .. n
                 PROVE  z.m.cells[b][i] = IF i <= Len(t) THEN t[i] ELSE Raw
      OBVIOUS
    <3>1. z.m.cells[b][i] = IF i <= r.o.end THEN s[i] ELSE k.cells[b][i]
      BY <2>10, <2>11, <2>12 DEF Reserved
    <3>2. k.cells[b][i] = IF i = r.o.end + 1 THEN x ELSE Raw
      BY <2>8
    <3> QED BY <2>1, <2>13, <3>1, <3>2
  <2>17. Len(t) <= n
    BY <2>1, <2>13
  <2>18. Leads(r, z, t)
    BY <2>1, <2>3, <2>13, <2>14, <2>15, <2>16, <2>17, Relocated
  <2> QED BY <2>2, <2>18 DEF t
<1>. QED BY <1>2, <1>3

(* emplace_back left at a throw: the new block is freed again.             *)
LEMMA FreedAgain ==
  ASSUME NEW r, NEW s, Sound(r, s), NEW n \in Nat \ {0}
  PROVE  LET b == NewBlock(r.m)
         IN  Deallocate(Allocate(r.m, b, n), b, n) = r.m
<1> DEFINE b == NewBlock(r.m)
           m == Allocate(r.m, b, n)
           q == Deallocate(m, b, n)
<1>1. /\ b \in Blocks /\ r.m.cells[b] = <<>> /\ m \in Memories /\ m.fault = FALSE
      /\ Len(m.cells[b]) = n /\ \A i \in 1 .. n : m.cells[b][i] = Raw
      /\ \A c \in Blocks : c # b => m.cells[c] = r.m.cells[c]
  BY AllocatedNew
<1> HIDE DEF b, m
<1>2. m.cells[b] # <<>>
  BY <1>1, EmptySeq
<1>3. Replaced(m, q, b, <<>>)
  BY <1>1, <1>2, DeallocateCells
<1> HIDE DEF q
<1>4. q = r.m
  <2>1. q \in Memories /\ q.fault = r.m.fault /\ \A c \in Blocks : q.cells[c] = r.m.cells[c]
    BY <1>1, <1>3 DEF Replaced, Sound
  <2> QED BY <2>1, SameMemory DEF Sound
<1>. QED BY <1>4 DEF q, m, b

LEMMA EmplaceBackFailsHolds ==
  ASSUME NEW r, NEW s, Sound(r, s)
  PROVE  /\ EmplaceBackFails(r).m = r.m /\ EmplaceBackFails(r).o = r.o
         /\ Leads(r, EmplaceBackFails(r), s)
<1>0. Known(r, s)
  BY SoundFacts
<1>1. NewCap(r.o, r.o.end + 1) \in Nat \ {0}
  BY <1>0, NewCapFits DEF Known
<1>2. EmplaceBackFails(r).m = r.m /\ EmplaceBackFails(r).o = r.o
  BY <1>1, FreedAgain DEF EmplaceBackFails, At
<1>. QED BY <1>2, NoStep

(* emplace_back of each element in turn.                                   *)
LEMMA EmplacedAllHolds ==
  ASSUME NEW r, NEW s, Sound(r, s), NEW t \in Seq(Values)
  PROVE  Leads(r, EmplacedAll(r, t), s \o t)
<1> DEFINE F(f, k) == [i \in 0 .. k |-> IF i = 0 THEN r ELSE EmplacedBack(f[i - 1], t[i])]
           step == CHOOSE f : f = F(f, Len(t))
           z == [k \in 0 .. Len(t) |-> s \o SubSeq(t, 1, k)]
<1>1. EmplacedAll(r, t) = step[Len(t)]
  BY DEF EmplacedAll
<1>2. Len(t) \in Nat /\ s \in Seq(Live) /\ t \in Seq(Live)
  BY LenProperties, SeqMonotonic DEF Sound, Holds, Live
<1>3. step = F(step, Len(t))
  <2> DEFINE T == {k \in 0 .. Len(t) : \E f : f = F(f, k)}
  <2>1. 0 \in T
    <3> DEFINE g == [i \in 0 .. 0 |-> r]
    <3>1. g = [i \in 0 .. 0 |-> g[i]] /\ \A i \in 0 .. 0 : i = 0 /\ g[i] = r
      OBVIOUS
    <3> HIDE DEF g
    <3>2. g = F(g, 0)
      BY <3>1
    <3> QED BY <1>2, <3>2
  <2>2. ASSUME NEW k \in 1 .. Len(t), k - 1 \in T PROVE k \in T
    <3>1. PICK f : f = F(f, k - 1)
      BY <2>2
    <3> DEFINE g == [i \in 0 .. k |-> IF i = k THEN EmplacedBack(f[k - 1], t[k]) ELSE f[i]]
    <3>2. \A i \in 0 .. k : g[i] = IF i = 0 THEN r ELSE EmplacedBack(g[i - 1], t[i])
      <4> SUFFICES ASSUME NEW i \in 0 .. k
                   PROVE  g[i] = IF i = 0 THEN r ELSE EmplacedBack(g[i - 1], t[i])
        OBVIOUS
      <4>1. CASE i = k
        BY <4>1
      <4>2. CASE i # k
        <5>1. i \in 0 .. k - 1 /\ (i # 0 => i - 1 \in 0 .. k /\ i - 1 # k)
          BY <4>2
        <5>2. f[i] = IF i = 0 THEN r ELSE EmplacedBack(f[i - 1], t[i])
          BY <3>1, <5>1
        <5> QED BY <4>2, <5>1, <5>2
      <4> QED BY <4>1, <4>2
    <3>3. g = [i \in 0 .. k |-> g[i]]
      OBVIOUS
    <3> HIDE DEF g
    <3>4. g = F(g, k)
      BY <3>2, <3>3
    <3> HIDE DEF F
    <3>5. \E h : h = F(h, k)
      BY <3>4
    <3> QED BY <3>5
  <2> HIDE DEF T
  <2>3. \A k \in 0 .. Len(t) : k \in T
    BY <1>2, <2>1, <2>2, Induction
  <2>4. \E f : f = F(f, Len(t))
    BY <1>2, <2>3 DEF T
  <2> QED BY <2>4
<1> HIDE DEF step
<1>4. \A k \in 0 .. Len(t) : Leads(r, step[k], z[k])
  <2> DEFINE T == {k \in 0 .. Len(t) : Leads(r, step[k], z[k])}
  <2>1. 0 \in T
    <3>1. step[0] = r
      BY <1>2, <1>3
    <3>2. z[0] = s
      BY <1>2, SubSeqEmpty, ConcatEmptySeq
    <3>3. Leads(r, r, s)
      BY NoStep
    <3> HIDE DEF z
    <3> QED BY <1>2, <3>1, <3>2, <3>3
  <2>2. ASSUME NEW k \in 1 .. Len(t), k - 1 \in T PROVE k \in T
    <3>1. step[k] = EmplacedBack(step[k - 1], t[k]) /\ Leads(r, step[k - 1], z[k - 1])
      BY <1>2, <1>3, <2>2
    <3>2. Denotes(step[k - 1].m, t[k], t[k])
      BY ElementOfSeq DEF Denotes
    <3>3. Leads(step[k - 1], step[k], z[k - 1] \o <<t[k]>>)
      <4> HIDE DEF z
      <4> QED BY <3>1, <3>2, EmplacedBackHolds DEF Leads
    <3>4. z[k - 1] \o <<t[k]>> = z[k]
      <4> DEFINE u == SubSeq(t, 1, k - 1)
      <4>1. u \in Seq(Live) /\ <<t[k]>> \in Seq(Live)
        <5>1. 0 \in Nat /\ k - 1 \in Nat /\ 0 <= k - 1 /\ k - 1 <= Len(t)
          BY <1>2
        <5>2. SubSeq(t, 0 + 1, k - 1) \in Seq(Live)
          BY <1>2, <5>1, Part
        <5>3. t[k] \in Live
          BY <1>2, ElementOfSeq
        <5> QED BY <5>2, <5>3
      <4>0. z[k - 1] = s \o u /\ z[k] = s \o SubSeq(t, 1, k)
        BY <1>2
      <4>2. SubSeq(t, 1, k) = u \o <<t[k]>>
        <5>1. 1 \in 1 .. Len(t) /\ k \in 1 .. Len(t)
          BY <1>2
        <5> QED BY <1>2, <5>1, SubSeqRecursiveSecond
      <4> HIDE DEF u, z
      <4>3. (s \o u) \o <<t[k]>> = s \o (u \o <<t[k]>>)
        <5>1. s \in Seq(Live) /\ u \in Seq(Live) /\ <<t[k]>> \in Seq(Live)
          BY <1>2, <4>1
        <5> QED BY ONLY <5>1, ConcatAssociative
      <4> QED BY <4>0, <4>2, <4>3
    <3> HIDE DEF z
    <3>5. Leads(r, step[k], z[k])
      <4>1. Leads(step[k - 1], step[k], z[k])
        BY <3>3, <3>4
      <4>2. Leads(r, step[k - 1], z[k - 1])
        BY <3>1
      <4> QED BY <4>1, <4>2, LeadsOn
    <3>6. k \in 0 .. Len(t)
      BY <1>2
    <3> QED BY <3>5, <3>6
  <2> HIDE DEF T
  <2>3. \A k \in 0 .. Len(t) : k \in T
    BY <1>2, <2>1, <2>2, Induction
  <2> QED BY <2>3 DEF T
<1>5. z[Len(t)] = s \o t
  BY <1>2, SubSeqFull
<1> HIDE DEF z
<1>6. Len(t) \in 0 .. Len(t)
  BY <1>2
<1>7. Leads(r, step[Len(t)], z[Len(t)])
  BY <1>4, <1>6
<1>. QED BY <1>1, <1>5, <1>7

-----------------------------------------------------------------------------
(* Inserting and closing up.                                               *)

(* A part of the elements, read from memory.                               *)
LEMMA SliceIsPart ==
  ASSUME NEW r, NEW s, Sound(r, s), NEW i \in Nat, NEW j \in Nat, i <= j, j <= r.o.end
  PROVE  Slice(r.m, r.o.begin, i, j) = SubSeq(s, i + 1, j)
<1>0. Known(r, s)
  BY SoundFacts
<1>1. /\ SubSeq(s, i + 1, j) \in Seq(Live) /\ Len(SubSeq(s, i + 1, j)) = j - i
      /\ \A k \in 1 .. j - i : SubSeq(s, i + 1, j)[k] = s[i + k]
  <2>1. s \in Seq(Live) /\ j <= Len(s)
    BY <1>0 DEF Known
  <2>2. SubSeq(s, i + 1, j) \in Seq(Live) /\ Len(SubSeq(s, i + 1, j)) = j - i
    BY <2>1, Part
  <2>3. \A k \in 1 .. j - i : SubSeq(s, i + 1, j)[k] = s[i + k]
    BY <2>1, Part
  <2> QED BY <2>2, <2>3
<1>2. CASE r.o.begin = Null
  <2>1. i = 0 /\ j = 0 /\ r.m \in Memories
    BY <1>0, <1>2 DEF Known
  <2>2. Slice(r.m, r.o.begin, i, j) = <<>>
    BY <2>1, EmptySlice
  <2>3. SubSeq(s, i + 1, j) = <<>>
    BY <2>1, SubSeqEmpty
  <2> QED BY <2>2, <2>3
<1>3. CASE r.o.begin # Null
  <2> DEFINE z == Slice(r.m, r.o.begin, i, j)
             y == SubSeq(s, i + 1, j)
  <2>1. /\ r.m \in Memories /\ r.o.begin \in Blocks /\ j <= Len(r.m.cells[r.o.begin])
        /\ r.o.end \in Nat /\ r.o.cap \in Nat /\ r.o.end <= r.o.cap
        /\ \A k \in 1 .. r.o.cap :
             r.m.cells[r.o.begin][k] = IF k <= r.o.end THEN s[k] ELSE Raw
    BY <1>0, <1>3 DEF Known
  <2>2. z \in Seq(Cells) /\ Len(z) = j - i
    BY <2>1, SliceCells
  <2>3. \A k \in 1 .. j - i : z[k] = r.m.cells[r.o.begin][i + k]
    BY <2>1, SliceCells
  <2>4. \A k \in 1 .. j - i : i + k \in 1 .. r.o.cap /\ i + k <= r.o.end
    BY <2>1
  <2>5. y \in Seq(Cells) /\ Len(y) = j - i
    BY <1>1, SeqMonotonic DEF Live, Cells
  <2> HIDE DEF z, y
  <2>6. \A k \in 1 .. j - i : z[k] = y[k]
    BY <1>1, <2>1, <2>3, <2>4 DEF y
  <2>7. z = y
    BY <2>2, <2>5, <2>6, SeqEqual
  <2> QED BY <2>7 DEF z, y
<1>. QED BY <1>2, <1>3

(* Two parts of a sequence in the other order.                             *)
LEMMA SwappedParts ==
  ASSUME NEW S, NEW s \in Seq(S), NEW t \in Seq(S), NEW i \in 0 .. Len(s)
  PROVE  LET y == s \o t
             u == SubSeq(y, Len(s) + 1, Len(y)) \o SubSeq(y, i + 1, Len(s))
         IN  /\ u \in Seq(S) /\ i + Len(u) = Len(y)
             /\ Splice(y, i, u, i + Len(u)) = Splice(s, i, t, i)
<1> DEFINE y == s \o t
           a == SubSeq(y, Len(s) + 1, Len(y))
           b == SubSeq(y, i + 1, Len(s))
           u == a \o b
           z == Splice(y, i, u, i + Len(u))
           x == Splice(s, i, t, i)
<1>0. Len(s) \in Nat /\ Len(t) \in Nat /\ i \in Nat /\ i <= Len(s)
  BY LenProperties
<1>1. y \in Seq(S) /\ Len(y) = Len(s) + Len(t)
  BY ConcatProperties
<1>2. \A k \in 1 .. Len(s) + Len(t) : y[k] = IF k <= Len(s) THEN s[k] ELSE t[k - Len(s)]
  BY ConcatProperties
<1> HIDE DEF y
<1>3. a \in Seq(S) /\ Len(a) = Len(t) /\ \A k \in 1 .. Len(t) : a[k] = t[k]
  <2>1. Len(s) \in Nat /\ Len(y) \in Nat /\ Len(s) <= Len(y)
    BY <1>0, <1>1
  <2>2. a \in Seq(S) /\ Len(a) = Len(y) - Len(s)
    BY <1>1, <2>1, Part
  <2>3. \A k \in 1 .. Len(y) - Len(s) : a[k] = y[Len(s) + k]
    BY <1>1, <2>1, Part
  <2> HIDE DEF a
  <2>4. Len(y) - Len(s) = Len(t)
    BY <1>0, <1>1
  <2>5. \A k \in 1 .. Len(t) : y[Len(s) + k] = t[k]
    <3> SUFFICES ASSUME NEW k \in 1 .. Len(t) PROVE y[Len(s) + k] = t[k]
      OBVIOUS
    <3>1. Len(s) + k \in 1 .. Len(s) + Len(t) /\ ~(Len(s) + k <= Len(s)) /\ Len(s) + k - Len(s) = k
      BY <1>0
    <3> QED BY <1>2, <3>1
  <2> QED BY <2>2, <2>3, <2>4, <2>5
<1>4. b \in Seq(S) /\ Len(b) = Len(s) - i /\ \A k \in 1 .. Len(s) - i : b[k] = s[i + k]
  <2>1. i <= Len(s) /\ Len(s) <= Len(y)
    BY <1>0, <1>1
  <2>2. b \in Seq(S) /\ Len(b) = Len(s) - i
    BY <1>0, <1>1, <2>1, Part
  <2>3. \A k \in 1 .. Len(s) - i : b[k] = y[i + k]
    BY <1>0, <1>1, <2>1, Part
  <2> HIDE DEF b
  <2> QED BY <1>0, <1>1, <1>2, <2>2, <2>3
<1> HIDE DEF a, b
<1>5. /\ u \in Seq(S) /\ Len(u) = Len(a) + Len(b)
  BY <1>3, <1>4, ConcatProperties
<1>6. \A k \in 1 .. Len(a) + Len(b) : u[k] = IF k <= Len(a) THEN a[k] ELSE b[k - Len(a)]
  BY <1>3, <1>4, ConcatProperties
<1> HIDE DEF u
<1>7. i + Len(u) = Len(y)
  <2>1. Len(a) = Len(t) /\ Len(b) = Len(s) - i /\ Len(u) = Len(a) + Len(b)
    BY <1>3, <1>4, <1>5
  <2> QED BY <1>0, <1>1, <2>1
<1>71. y \in Seq(S) /\ u \in Seq(S) /\ i \in Nat /\ i + Len(u) <= Len(y)
  BY <1>0, <1>1, <1>5, <1>7
<1>8. z \in Seq(S) /\ Len(z) = Len(y)
  BY ONLY <1>71, Overlaid
<1>9. \A k \in 1 .. Len(y) : z[k] = IF i < k /\ k <= i + Len(u) THEN u[k - i] ELSE y[k]
  BY ONLY <1>71, Overlaid
<1>10. x \in Seq(S) /\ Len(x) = Len(s) + Len(t)
  BY <1>0, Between
<1>12. \A k \in 1 .. Len(s) + Len(t) :
         x[k] = IF k <= i THEN s[k]
                ELSE IF k <= i + Len(t) THEN t[k - i] ELSE s[k - Len(t)]
  BY <1>0, Between
<1> HIDE DEF x, z
<1>13. Len(x) = Len(z)
  BY <1>0, <1>1, <1>8, <1>10
<1>14. \A k \in 1 .. Len(z) : z[k] = x[k]
  <2> SUFFICES ASSUME NEW k \in 1 .. Len(z) PROVE z[k] = x[k]
    OBVIOUS
  <2>1. k \in 1 .. Len(y) /\ k \in 1 .. Len(s) + Len(t)
    BY <1>0, <1>1, <1>8
  <2>2. CASE k <= i
    BY <1>0, <1>2, <1>9, <1>12, <2>1, <2>2
  <2>3. CASE i < k /\ k <= i + Len(t)
    <3>1. k - i \in 1 .. Len(t) /\ k - i \in 1 .. Len(a) + Len(b) /\ k <= i + Len(u)
      BY <1>0, <1>3, <1>4, <1>5, <2>3
    <3>2. z[k] = u[k - i]
      BY <1>9, <2>1, <2>3, <3>1
    <3>21. k - i <= Len(a)
      BY <1>0, <1>3, <2>3, <3>1
    <3>22. u[k - i] = a[k - i] /\ a[k - i] = t[k - i]
      BY <1>3, <1>6, <3>1, <3>21
    <3>3. x[k] = t[k - i]
      BY <1>0, <1>12, <2>1, <2>3
    <3> QED BY <3>2, <3>22, <3>3
  <2>4. CASE i + Len(t) < k
    <3>1. /\ k - i \in 1 .. Len(a) + Len(b) /\ k <= i + Len(u) /\ i < k /\ ~(k - i <= Len(a))
          /\ k - i - Len(a) \in 1 .. Len(s) - i
          /\ i + (k - i - Len(a)) = k - Len(t)
      BY <1>0, <1>1, <1>3, <1>4, <1>5, <1>7, <2>1, <2>4
    <3>2. z[k] = b[k - i - Len(a)]
      BY <1>6, <1>9, <2>1, <3>1
    <3>3. z[k] = s[k - Len(t)]
      BY <1>4, <3>1, <3>2
    <3>4. x[k] = s[k - Len(t)]
      BY <1>0, <1>12, <2>1, <2>4
    <3> QED BY <3>3, <3>4
  <2> QED BY <1>0, <2>1, <2>2, <2>3, <2>4
<1>15. z = x
  BY <1>8, <1>10, <1>13, <1>14, SeqEqual
<1>. QED BY <1>5, <1>7, <1>15 DEF y, a, b, u, x, z

(* rotate, when the new elements t were added at the end.                  *)
LEMMA RotateHolds ==
  ASSUME NEW r, NEW s \in Seq(Live), NEW t \in Seq(Live), Sound(r, s \o t),
         NEW pos \in 0 .. Len(s)
  PROVE  Leads(r, Rotate(r, pos, Len(s)), Splice(s, pos, t, pos))
<1> DEFINE y == s \o t
           u == SubSeq(y, Len(s) + 1, Len(y)) \o SubSeq(y, pos + 1, Len(s))
<1>1. Known(r, y)
  BY SoundFacts
<1>2. /\ Len(s) \in Nat /\ pos \in Nat /\ pos <= Len(s) /\ Len(y) \in Nat
      /\ Len(s) <= Len(y) /\ Len(y) = r.o.end
  <2>1. Len(s) \in Nat /\ Len(t) \in Nat /\ Len(y) = Len(s) + Len(t)
    BY LenProperties, ConcatProperties
  <2>2. Len(y) = r.o.end
    BY <1>1 DEF Known
  <2> HIDE DEF y
  <2> QED BY <2>1, <2>2
<1>3. /\ u \in Seq(Live) /\ pos + Len(u) = Len(y)
      /\ Splice(y, pos, u, pos + Len(u)) = Splice(s, pos, t, pos)
  BY SwappedParts
<1>31. Sound(r, y)
  OBVIOUS
<1> HIDE DEF y
<1>4. Slice(r.m, r.o.begin, pos, Len(s)) = SubSeq(y, pos + 1, Len(s))
  <2>1. Len(s) <= r.o.end
    BY <1>2
  <2> QED BY <1>2, <1>31, <2>1, SliceIsPart
<1>5. Slice(r.m, r.o.begin, Len(s), r.o.end) = SubSeq(y, Len(s) + 1, Len(y))
  <2>1. /\ Sound(r, y) /\ Len(s) \in Nat /\ r.o.end \in Nat
        /\ Len(s) <= r.o.end /\ r.o.end <= r.o.end
    BY <1>2, <1>31
  <2>2. Slice(r.m, r.o.begin, Len(s), r.o.end) = SubSeq(y, Len(s) + 1, r.o.end)
    BY ONLY <2>1, SliceIsPart
  <2> QED BY <1>2, <2>2
<1>6. Rotate(r, pos, Len(s)) = At(Assign(r.m, r.o.begin, pos, u), r.o)
  BY <1>4, <1>5 DEF Rotate
<1> HIDE DEF u
<1>7. Leads(r, At(Assign(r.m, r.o.begin, pos, u), r.o), Splice(y, pos, u, pos + Len(u)))
  <2>1. pos \in Nat /\ pos + Len(u) <= r.o.end
    BY <1>2, <1>3
  <2> QED BY <1>3, <1>31, <2>1, AssignedHolds
<1>. QED BY <1>3, <1>6, <1>7

(* The new elements are constructed in a new block, the others around them. *)
LEMMA InsertGrowsHolds ==
  ASSUME NEW r, NEW s, Sound(r, s), NEW pos \in 0 .. r.o.end, NEW t \in Seq(Live),
         NEW n \in Nat \ {0}, r.o.end + Len(t) <= n
  PROVE  Leads(r, InsertGrows(r, pos, t, n), Splice(s, pos, t, pos))
<1> DEFINE b == NewBlock(r.m)
           k == Allocate(r.m, b, n)
           x == SubSeq(s, 1, pos)
           y == SubSeq(s, pos + 1, Len(s))
           z == Splice(s, pos, t, pos)
           m1 == Construct(k, b, pos, t)
           m2 == Construct(m1, b, 0, x)
           m3 == Construct(m2, b, pos + Len(t), y)
           m4 == MoveFrom(m3, r.o.begin, 0, r.o.end)
           m5 == Release(At(m4, r.o))
           q == At(m5, [begin |-> b, end |-> r.o.end + Len(t), cap |-> n])
<1>1. /\ r.m \in Memories /\ s \in Seq(Live) /\ Len(s) = r.o.end /\ r.o.end \in Nat
      /\ pos \in Nat /\ pos <= Len(s) /\ Len(t) \in Nat /\ t \in Seq(Cells)
      /\ r.m.fault = FALSE
  <2>1. Known(r, s)
    BY SoundFacts
  <2>2. t \in Seq(Cells) /\ Len(t) \in Nat
    BY SeqMonotonic, LenProperties DEF Live, Cells
  <2> QED BY <2>1, <2>2 DEF Known
<1>2. InsertGrows(r, pos, t, n) = q
  <2>1. Contents(r.m, r.o) = s
    BY HoldsContents DEF Sound
  <2> QED BY <2>1 DEF InsertGrows
<1>3. /\ b \in Blocks /\ b # r.o.begin /\ r.m.cells[b] = <<>>
      /\ k \in Memories /\ k.fault = FALSE
      /\ Len(k.cells[b]) = n /\ \A i \in 1 .. n : k.cells[b][i] = Raw
      /\ \A c \in Blocks : c # b => k.cells[c] = r.m.cells[c]
      /\ Holds(k, r.o, s)
  BY AllocatedNew
<1>4. x \in Seq(Cells) /\ Len(x) = pos /\ \A i \in 1 .. pos : x[i] = s[i]
  <2>1. s \in Seq(Live) /\ pos \in 0 .. Len(s)
    BY <1>1
  <2>2. x \in Seq(Live) /\ Len(x) = pos /\ \A i \in 1 .. pos : x[i] = s[i]
    BY <2>1, Front
  <2>3. x \in Seq(Cells)
    BY <2>2, SeqMonotonic DEF Live, Cells
  <2> QED BY <2>2, <2>3
<1>5. /\ y \in Seq(Cells) /\ Len(y) = Len(s) - pos
      /\ \A i \in 1 .. Len(s) - pos : y[i] = s[pos + i]
  <2>1. Len(s) <= Len(s) /\ Len(s) \in Nat
    BY <1>1
  <2>2. y \in Seq(Live) /\ Len(y) = Len(s) - pos
    BY <1>1, <2>1, Part
  <2>3. \A i \in 1 .. Len(s) - pos : y[i] = s[pos + i]
    BY <1>1, <2>1, Part
  <2>4. y \in Seq(Cells)
    BY <2>2, SeqMonotonic DEF Live, Cells
  <2> QED BY <2>2, <2>3, <2>4
<1>6. z \in Seq(Live) /\ Len(z) = r.o.end + Len(t)
      /\ \A i \in 1 .. r.o.end + Len(t) :
           z[i] = IF i <= pos THEN s[i]
                  ELSE IF i <= pos + Len(t) THEN t[i - pos] ELSE s[i - Len(t)]
  <2>0. pos \in 0 .. Len(s) /\ s \in Seq(Live) /\ t \in Seq(Live)
    BY <1>1
  <2>1. z \in Seq(Live)
    BY <2>0, Between
  <2>2. Len(z) = Len(s) + Len(t)
    BY <2>0, Between
  <2>3. \A i \in 1 .. Len(s) + Len(t) :
          z[i] = IF i <= pos THEN s[i]
                 ELSE IF i <= pos + Len(t) THEN t[i - pos] ELSE s[i - Len(t)]
    BY <2>0, Between
  <2> HIDE DEF z
  <2> QED BY <1>1, <2>1, <2>2, <2>3
<1> HIDE DEF b, k, x, y, z
<1>7. /\ m1 \in Memories /\ m1.fault = FALSE /\ Len(m1.cells[b]) = n
      /\ \A i \in 1 .. n :
           m1.cells[b][i] = IF pos < i /\ i <= pos + Len(t) THEN t[i - pos] ELSE Raw
      /\ \A c \in Blocks : c # b => m1.cells[c] = r.m.cells[c]
  <2>1. /\ pos + Len(t) <= Len(k.cells[b])
        /\ \A i \in pos + 1 .. pos + Len(t) : k.cells[b][i] = Raw
    BY <1>1, <1>3
  <2>2. Overwritten(k, m1, b, pos, t)
    BY <1>1, <1>3, <2>1, ConstructOverwrites
  <2> HIDE DEF m1
  <2> QED BY <1>3, <2>2 DEF Overwritten
<1> HIDE DEF m1
<1>8. /\ m2 \in Memories /\ m2.fault = FALSE /\ Len(m2.cells[b]) = n
      /\ \A i \in 1 .. n :
           m2.cells[b][i] = IF i <= pos THEN s[i]
                            ELSE IF i <= pos + Len(t) THEN t[i - pos] ELSE Raw
      /\ \A c \in Blocks : c # b => m2.cells[c] = r.m.cells[c]
  <2>0. \A i \in 1 .. pos : i \in 1 .. n /\ ~(pos < i)
    BY <1>1
  <2>1. /\ 0 \in Nat /\ 0 + Len(x) <= Len(m1.cells[b])
        /\ \A i \in 0 + 1 .. 0 + Len(x) : m1.cells[b][i] = Raw
    <3>1. 0 + Len(x) = pos /\ 0 + 1 = 1 /\ pos <= n
      BY <1>1, <1>4
    <3> QED BY <1>7, <2>0, <3>1
  <2>2. Overwritten(m1, m2, b, 0, x)
    BY <1>3, <1>4, <1>7, <2>1, ConstructOverwrites
  <2> HIDE DEF m2
  <2>3. /\ m2 \in Memories /\ m2.fault = FALSE /\ Len(m2.cells[b]) = n
        /\ \A c \in Blocks : c # b => m2.cells[c] = r.m.cells[c]
    BY <1>7, <2>2 DEF Overwritten
  <2>4. \A i \in 1 .. n :
          m2.cells[b][i] = IF 0 < i /\ i <= 0 + Len(x) THEN x[i - 0] ELSE m1.cells[b][i]
    BY <1>7, <2>2 DEF Overwritten
  <2>5. \A i \in 1 .. n : 0 < i /\ i - 0 = i /\ (i <= pos => i \in 1 .. pos)
    BY <1>1
  <2> QED BY <1>1, <1>4, <1>7, <2>3, <2>4, <2>5
<1> HIDE DEF m2
<1>9. /\ m3 \in Memories /\ m3.fault = FALSE /\ Len(m3.cells[b]) = n
      /\ \A i \in 1 .. n : m3.cells[b][i] = IF i <= Len(z) THEN z[i] ELSE Raw
      /\ \A c \in Blocks : c # b => m3.cells[c] = r.m.cells[c]
  <2> DEFINE from == pos + Len(t)
  <2>1. /\ from \in Nat /\ from + Len(y) <= Len(m2.cells[b]) /\ from + Len(y) = Len(z)
        /\ \A i \in from + 1 .. from + Len(y) : m2.cells[b][i] = Raw
    <3>0. /\ pos \in Nat /\ Len(t) \in Nat /\ Len(s) \in Nat /\ Len(s) = r.o.end /\ pos <= Len(s)
          /\ n \in Nat /\ r.o.end + Len(t) <= n /\ Len(y) = Len(s) - pos
      BY <1>1, <1>5
    <3>1. /\ from \in Nat /\ from + Len(y) = r.o.end + Len(t) /\ r.o.end + Len(t) <= n
          /\ \A i \in from + 1 .. r.o.end + Len(t) :
               i \in 1 .. n /\ ~(i <= pos) /\ ~(i <= pos + Len(t))
      BY ONLY <3>0
    <3> HIDE DEF from
    <3>2. \A i \in from + 1 .. r.o.end + Len(t) : m2.cells[b][i] = Raw
      BY <1>8, <3>1
    <3> QED BY <1>6, <1>8, <3>1, <3>2
  <2>2. Overwritten(m2, m3, b, from, y)
    BY <1>3, <1>5, <1>8, <2>1, ConstructOverwrites
  <2> HIDE DEF m3
  <2>3. /\ m3 \in Memories /\ m3.fault = FALSE /\ Len(m3.cells[b]) = n
        /\ \A c \in Blocks : c # b => m3.cells[c] = r.m.cells[c]
    BY <1>8, <2>2 DEF Overwritten
  <2>4. \A i \in 1 .. n :
          m3.cells[b][i] = IF from < i /\ i <= from + Len(y) THEN y[i - from] ELSE m2.cells[b][i]
    BY <1>8, <2>2 DEF Overwritten
  <2>5. ASSUME NEW i \in 1 .. n
        PROVE  m3.cells[b][i] = IF i <= Len(z) THEN z[i] ELSE Raw
    <3>1. CASE i <= from
      BY <1>1, <1>6, <1>8, <2>1, <2>4, <3>1
    <3>2. CASE from < i /\ i <= Len(z)
      <4>0. /\ pos \in Nat /\ Len(t) \in Nat /\ Len(s) \in Nat /\ Len(s) = r.o.end
            /\ i \in Nat /\ Len(z) = r.o.end + Len(t)
        BY <1>1, <1>6
      <4>1. /\ i - from \in 1 .. Len(s) - pos /\ pos + (i - from) = i - Len(t)
            /\ i \in 1 .. r.o.end + Len(t) /\ ~(i <= pos) /\ ~(i <= pos + Len(t))
        BY ONLY <3>2, <4>0
      <4>2. m3.cells[b][i] = s[i - Len(t)]
        BY <1>5, <2>1, <2>4, <3>2, <4>1
      <4>3. z[i] = s[i - Len(t)]
        BY ONLY <1>6, <4>1
      <4> QED BY <3>2, <4>2, <4>3
    <3>3. CASE Len(z) < i
      BY <1>1, <1>6, <1>8, <2>1, <2>4, <3>3
    <3> QED BY <1>1, <1>6, <2>1, <3>1, <3>2, <3>3
  <2> QED BY <2>3, <2>5
<1> HIDE DEF m3
<1>10. Holds(m3, r.o, s)
  BY <1>3, <1>9 DEF Holds, Vector
<1>11. /\ m4 \in Memories /\ m4.fault = FALSE
       /\ \A c \in Blocks : c # r.o.begin => m4.cells[c] = m3.cells[c]
       /\ Holds(m4, r.o, [i \in 1 .. r.o.end |-> Moved])
  BY <1>9, <1>10, MovedOut
<1> HIDE DEF m4
<1>12. /\ m5 \in Memories /\ m5.fault = FALSE
       /\ \A c \in Blocks : m5.cells[c] = IF c = r.o.begin THEN <<>> ELSE m4.cells[c]
  <2> DEFINE p == At(m4, r.o)
  <2>1. p.m = m4 /\ p.o = r.o
    BY DEF At
  <2> HIDE DEF p
  <2>2. /\ Release(p) \in Memories /\ Release(p).fault = p.m.fault
        /\ \A c \in Blocks :
             Release(p).cells[c] = IF c = p.o.begin THEN <<>> ELSE p.m.cells[c]
    BY <1>11, <2>1, ReleaseFrees
  <2> QED BY <1>11, <2>1, <2>2 DEF p
<1> HIDE DEF m5
<1>13. q.m = m5 /\ q.o = [begin |-> b, end |-> Len(z), cap |-> n]
  BY <1>6 DEF At
<1> HIDE DEF q
<1>14. \A c \in Blocks : c # b => q.m.cells[c] = IF c = r.o.begin THEN <<>> ELSE r.m.cells[c]
  BY <1>9, <1>11, <1>12, <1>13
<1>15. m5.cells[b] = m3.cells[b]
  BY <1>3, <1>11, <1>12
<1>16. /\ q.m \in Memories /\ q.m.fault = FALSE /\ Len(q.m.cells[b]) = n /\ Len(z) <= n
       /\ \A i \in 1 .. n : q.m.cells[b][i] = IF i <= Len(z) THEN z[i] ELSE Raw
  BY <1>6, <1>9, <1>12, <1>13, <1>15
<1>17. Leads(r, q, z)
  BY <1>3, <1>6, <1>13, <1>14, <1>16, Relocated
<1>. QED BY <1>2, <1>17 DEF z

(* insert, with the capacity there is or a larger one.                     *)
LEMMA InsertedHolds ==
  ASSUME NEW r, NEW s, Sound(r, s), NEW pos \in 0 .. r.o.end, NEW t \in Seq(Live), t # <<>>
  PROVE  Leads(r, Inserted(r, pos, t), Splice(s, pos, t, pos))
<1> DEFINE size == r.o.end + Len(t)
<1>1. /\ s \in Seq(Live) /\ Len(s) = r.o.end /\ r.o.end \in Nat /\ r.o.cap \in Nat
      /\ Len(t) \in Nat /\ size \in Nat \ {0}
  <2>1. Known(r, s)
    BY SoundFacts
  <2>2. Len(t) \in Nat /\ Len(t) # 0
    BY EmptySeq, LenProperties
  <2> QED BY <2>1, <2>2 DEF Known
<1>2. CASE size > r.o.cap
  <2>1. NewCap(r.o, size) \in Nat \ {0} /\ size <= NewCap(r.o, size)
    <3>1. NewCap(r.o, size) \in Nat /\ NewCap(r.o, size) >= size
      BY <1>1, NewCapFits
    <3> QED BY <1>1, <3>1
  <2>2. Leads(r, InsertGrows(r, pos, t, NewCap(r.o, size)), Splice(s, pos, t, pos))
    BY <2>1, InsertGrowsHolds
  <2> QED BY <1>2, <2>2 DEF Inserted
<1>3. CASE ~(size > r.o.cap)
  <2> DEFINE p == Extended(r, t)
  <2>1. Leads(r, p, s \o t)
    <3>1. r.o.end + Len(t) <= r.o.cap
      BY <1>1, <1>3
    <3> QED BY <3>1, ExtendedHolds
  <2> HIDE DEF p
  <2>2. pos \in 0 .. Len(s) /\ Sound(p, s \o t)
    BY <1>1, <2>1 DEF Leads
  <2>3. Leads(p, Rotate(p, pos, Len(s)), Splice(s, pos, t, pos))
    BY <1>1, <2>2, RotateHolds
  <2>4. Leads(r, Rotate(p, pos, Len(s)), Splice(s, pos, t, pos))
    BY <2>1, <2>3, LeadsOn
  <2> QED BY <1>1, <1>3, <2>4 DEF Inserted, p
<1>. QED BY <1>2, <1>3

(* A throw while elements are constructed behind the last one, and one in  *)
(* insert.                                                                 *)
LEMMA FillFails ==
  ASSUME NEW r, NEW s, Sound(r, s), NEW t \in Seq(Live), NEW k \in 0 .. Len(t) - 1,
         r.o.end + Len(t) <= r.o.cap
  PROVE  RangeConstructFails(r.m, r.o.begin, r.o.end, t, k) = r.m
<1>1. Known(r, s)
  BY SoundFacts
<1>2. Len(t) \in Nat
  BY LenProperties
<1>3. r.o.begin \in Blocks /\ r.o.end \in Nat /\ Len(r.m.cells[r.o.begin]) = r.o.cap
  <2>1. r.o.begin # Null
    BY <1>1, <1>2 DEF Known
  <2> QED BY <1>1, <2>1 DEF Known
<1>4. k \in 0 .. Len(t) /\ r.o.end + k <= Len(r.m.cells[r.o.begin])
  BY <1>1, <1>2, <1>3 DEF Known
<1>5. \A i \in r.o.end + 1 .. r.o.end + k : r.m.cells[r.o.begin][i] = Raw
  <2> SUFFICES ASSUME NEW i \in r.o.end + 1 .. r.o.end + k
               PROVE  r.m.cells[r.o.begin][i] = Raw
    OBVIOUS
  <2>1. i \in 1 .. r.o.cap /\ ~(i <= r.o.end)
    <3>1. r.o.cap \in Nat /\ k \in Nat /\ r.o.end + k <= r.o.cap
      BY <1>1, <1>3, <1>4 DEF Known
    <3> QED BY <1>3, <3>1
  <2> QED BY <1>1, <1>3, <2>1, CellAssumption DEF Known
<1>6. r.m \in Memories /\ t \in Seq(Live)
  BY <1>1 DEF Known
<1>. QED BY ONLY <1>3, <1>4, <1>5, <1>6, FailureLeavesMemory

LEMMA InsertFailsHolds ==
  ASSUME NEW r, NEW s, Sound(r, s), NEW pos \in 0 .. r.o.end, NEW t \in Seq(Live),
         NEW k \in 0 .. Len(t) - 1
  PROVE  Leads(r, InsertFails(r, pos, t, k), s)
<1> DEFINE size == r.o.end + Len(t)
           n == NewCap(r.o, size)
           b == NewBlock(r.m)
           m == Allocate(r.m, b, n)
<1>1. /\ r.m \in Memories /\ r.o.end \in Nat /\ r.o.cap \in Nat
      /\ Len(t) \in Nat /\ size \in Nat \ {0} /\ pos \in Nat
  <2>1. Known(r, s)
    BY SoundFacts
  <2>2. Len(t) \in Nat
    BY LenProperties
  <2> QED BY <2>1, <2>2 DEF Known
<1>2. CASE size > r.o.cap
  <2>1. n \in Nat \ {0} /\ size <= n
    <3>1. n \in Nat /\ n >= size
      BY <1>1, NewCapFits
    <3> HIDE DEF n
    <3> QED BY <1>1, <3>1
  <2>2. InsertFails(r, pos, t, k) = InsertGrowsFails(r, pos, t, n, k)
    BY <1>2 DEF InsertFails
  <2> HIDE DEF n
  <2>3. /\ b \in Blocks /\ m \in Memories
        /\ Len(m.cells[b]) = n /\ \A i \in 1 .. n : m.cells[b][i] = Raw
    BY <2>1, AllocatedNew
  <2>4. Deallocate(m, b, n) = r.m
    BY <2>1, FreedAgain
  <2> HIDE DEF m, b
  <2>5. k \in 0 .. Len(t) /\ pos + k <= n
    BY <1>1, <2>1
  <2>6. \A i \in pos + 1 .. pos + k : m.cells[b][i] = Raw
    <3>1. \A i \in pos + 1 .. pos + k : i \in 1 .. n
      BY <1>1, <2>1, <2>5
    <3> QED BY <2>3, <3>1
  <2>7. RangeConstructFails(m, b, pos, t, k) = m
    <3>1. pos + k <= Len(m.cells[b])
      BY <2>3, <2>5
    <3>2. k \in 0 .. Len(t) /\ pos \in Nat /\ t \in Seq(Live)
      BY <1>1, <2>5
    <3>3. m \in Memories /\ b \in Blocks
      BY <2>3
    <3> QED BY ONLY <2>6, <3>1, <3>2, <3>3, FailureLeavesMemory
  <2>8. InsertGrowsFails(r, pos, t, n, k) = At(r.m, r.o)
    BY <2>4, <2>7 DEF InsertGrowsFails, b, m
  <2> QED BY <2>2, <2>8, NoStep DEF At
<1>3. CASE ~(size > r.o.cap)
  <2>1. r.o.end + Len(t) <= r.o.cap
    BY <1>1, <1>3
  <2>2. InsertFails(r, pos, t, k) = At(r.m, r.o)
    BY <1>3, <2>1, FillFails DEF InsertFails
  <2> QED BY <2>2, NoStep DEF At
<1>. QED BY <1>2, <1>3

(* What follows position `to' makes way for t.                             *)
LEMMA Closing ==
  ASSUME NEW S, NEW s \in Seq(S), NEW y \in Seq(S), NEW t \in Seq(S), NEW i \in Nat,
         Len(y) = Len(s), i + Len(t) <= Len(y), \A k \in 1 .. i : y[k] = s[k]
  PROVE  SubSeq(Splice(y, i, t, i + Len(t)), 1, i + Len(t)) = SubSeq(s, 1, i) \o t
<1> DEFINE x == Splice(y, i, t, i + Len(t))
           z == SubSeq(x, 1, i + Len(t))
           a == SubSeq(s, 1, i)
<1>0. Len(s) \in Nat /\ Len(t) \in Nat /\ i <= Len(s)
  BY LenProperties
<1>1. x \in Seq(S) /\ Len(x) = Len(s)
  <2>1. x \in Seq(S)
    BY Overlaid
  <2>2. Len(x) = Len(y)
    BY Overlaid
  <2> HIDE DEF x
  <2> QED BY <2>1, <2>2
<1>2. \A k \in 1 .. Len(s) : x[k] = IF i < k /\ k <= i + Len(t) THEN t[k - i] ELSE y[k]
  BY Overlaid
<1> HIDE DEF x
<1>3. z \in Seq(S) /\ Len(z) = i + Len(t) /\ \A k \in 1 .. i + Len(t) : z[k] = x[k]
  <2> DEFINE j == i + Len(t)
  <2>1. j \in 0 .. Len(x)
    BY <1>0, <1>1
  <2> HIDE DEF j
  <2>2. SubSeq(x, 1, j) \in Seq(S) /\ Len(SubSeq(x, 1, j)) = j
        /\ \A k \in 1 .. j : SubSeq(x, 1, j)[k] = x[k]
    BY <1>1, <2>1, Front
  <2> QED BY <2>2 DEF j
<1>4. a \in Seq(S) /\ Len(a) = i /\ \A k \in 1 .. i : a[k] = s[k]
  <2>1. i \in 0 .. Len(s)
    BY <1>0
  <2> QED BY <2>1, Front
<1> HIDE DEF a, z
<1>5. a \o t \in Seq(S) /\ Len(a \o t) = i + Len(t)
  <2>1. a \in Seq(S) /\ t \in Seq(S)
    BY <1>4
  <2>2. a \o t \in Seq(S) /\ Len(a \o t) = Len(a) + Len(t)
    BY ONLY <2>1, ConcatProperties
  <2> QED BY <1>4, <2>2
<1>6. \A k \in 1 .. Len(a) + Len(t) : (a \o t)[k] = IF k <= Len(a) THEN a[k] ELSE t[k - Len(a)]
  BY <1>4, ConcatProperties
<1>7. \A k \in 1 .. i + Len(t) : (a \o t)[k] = z[k]
  <2> SUFFICES ASSUME NEW k \in 1 .. i + Len(t) PROVE (a \o t)[k] = z[k]
    OBVIOUS
  <2>1. k \in 1 .. Len(s)
    BY <1>0, <1>1
  <2>2. CASE k <= i
    <3>1. k \in 1 .. i /\ ~(i < k) /\ k \in 1 .. Len(a) + Len(t) /\ k <= Len(a)
      BY <1>0, <1>4, <2>2
    <3>2. z[k] = x[k] /\ x[k] = y[k]
      BY <1>2, <1>3, <2>1, <3>1
    <3>3. (a \o t)[k] = a[k] /\ a[k] = s[k] /\ y[k] = s[k]
      BY <1>4, <1>6, <3>1
    <3> QED BY <3>2, <3>3
  <2>3. CASE ~(k <= i)
    <3>1. i < k /\ k <= i + Len(t)
      BY <1>0, <2>3
    <3> QED BY <1>2, <1>3, <1>4, <1>6, <2>1, <2>3, <3>1
  <2> QED BY <2>2, <2>3
<1>8. z = a \o t
  BY <1>3, <1>5, <1>7, SeqEqual
<1>. QED BY <1>8 DEF x, z, a

(* erase and remove: t moves to the offset i, and what is behind goes.     *)
LEMMA CloseUpHolds ==
  ASSUME NEW r, NEW s, Sound(r, s), NEW i \in Nat, NEW t \in Seq(Live),
         i + Len(t) <= r.o.end
  PROVE  Leads(r, CloseUp(r, i, t), SubSeq(s, 1, i) \o t)
<1> DEFINE u == [k \in 1 .. r.o.end - i |-> Moved]
           p == At(MoveFrom(r.m, r.o.begin, i, r.o.end), r.o)
           y == IF i = r.o.end THEN s ELSE Splice(s, i, u, i + Len(u))
           q == At(Assign(p.m, r.o.begin, i, t), r.o)
           x == Splice(y, i, t, i + Len(t))
           k == i + Len(t)
<1>1. /\ r.m \in Memories /\ s \in Seq(Live) /\ Len(s) = r.o.end /\ r.o.end \in Nat
      /\ Len(t) \in Nat /\ k \in Nat /\ k <= r.o.end /\ i <= r.o.end
  <2>1. Known(r, s)
    BY SoundFacts
  <2>2. Len(t) \in Nat
    BY LenProperties
  <2> QED BY <2>1, <2>2 DEF Known
<1>2. u \in Seq(Live) /\ Len(u) = r.o.end - i /\ i + Len(u) = r.o.end
  <2>1. r.o.end - i \in Nat /\ u \in [1 .. r.o.end - i -> Live]
    BY <1>1 DEF Live
  <2> HIDE DEF u
  <2>2. u \in Seq(Live) /\ Len(u) = r.o.end - i
    BY <2>1, FunctionIsSeq
  <2> QED BY <1>1, <2>2
<1>3. p.m = MoveFrom(r.m, r.o.begin, i, r.o.end) /\ p.o = r.o
  BY DEF At
<1>4. /\ Leads(r, p, y) /\ y \in Seq(Live) /\ Len(y) = Len(s)
      /\ \A j \in 1 .. i : y[j] = s[j]
  <2>1. CASE i = r.o.end
    <3>1. p.m = r.m
      BY <1>1, <1>3, <2>1, NothingTouched
    <3> HIDE DEF p
    <3>2. Leads(r, p, s)
      BY <1>3, <3>1, NoStep
    <3> QED BY <1>1, <2>1, <3>2
  <2>2. CASE i # r.o.end
    <3> DEFINE z == Splice(s, i, u, i + Len(u))
    <3>1. y = z
      BY <2>2
    <3>2. p = At(Assign(r.m, r.o.begin, i, u), r.o)
      <4>1. MoveFrom(r.m, r.o.begin, i, r.o.end) = Assign(r.m, r.o.begin, i, u)
        BY <1>2, <2>2 DEF MoveFrom, Assign
      <4> QED BY <4>1
    <3> HIDE DEF u, p, y
    <3>3. Leads(r, p, z)
      <4>1. i + Len(u) <= r.o.end
        BY <1>1, <1>2
      <4> QED BY <1>2, <3>2, <4>1, AssignedHolds
    <3>4. s \in Seq(Live) /\ u \in Seq(Live) /\ i \in Nat /\ i + Len(u) <= Len(s)
      BY <1>1, <1>2
    <3>5. z \in Seq(Live)
      BY ONLY <3>4, Overlaid DEF z
    <3>6. Len(z) = Len(s)
      BY ONLY <3>4, Overlaid DEF z
    <3>7. \A j \in 1 .. Len(s) : z[j] = IF i < j /\ j <= i + Len(u) THEN u[j - i] ELSE s[j]
      <4>1. s \in Seq(Live) /\ u \in Seq(Live)
        BY <1>1, <1>2
      <4> QED BY <3>4, <4>1, Overlaid
    <3>8. \A j \in 1 .. i : j \in 1 .. Len(s) /\ ~(i < j)
      BY <1>1
    <3> QED BY <3>1, <3>3, <3>5, <3>6, <3>7, <3>8
  <2> QED BY <2>1, <2>2
<1> HIDE DEF p, y, u
<1>5. Leads(p, q, x)
  <2>1. Sound(p, y) /\ i + Len(t) <= p.o.end
    BY <1>3, <1>4 DEF Leads
  <2> QED BY <1>3, <1>4, <2>1, AssignedHolds
<1>6. q.o = r.o
  BY DEF At
<1>7. CloseUp(r, i, t) = DestroyFrom(q, k)
  BY <1>3 DEF CloseUp
<1> HIDE DEF q, x
<1>8. Leads(q, DestroyFrom(q, k), SubSeq(x, 1, k))
  <2>1. k \in 0 .. q.o.end
    BY <1>1, <1>6
  <2> HIDE DEF k
  <2>2. Sound(q, x)
    BY <1>5 DEF Leads
  <2> QED BY <2>1, <2>2, DestroyFromHolds
<1>9. SubSeq(x, 1, k) = SubSeq(s, 1, i) \o t
  BY <1>1, <1>4, Closing DEF x
<1> HIDE DEF k
<1>10. Leads(r, q, x)
  BY <1>4, <1>5, LeadsOn
<1>11. Leads(r, DestroyFrom(q, k), SubSeq(x, 1, k))
  BY <1>8, <1>10, LeadsOn
<1>. QED BY <1>7, <1>9, <1>11

(* remove leaves a part of the elements.                                   *)
LEMMA WithoutIsPart ==
  ASSUME NEW S, NEW s \in Seq(S), NEW x
  PROVE  Without(s, x) \in Seq(S) /\ Len(Without(s, x)) <= Len(s)
<1> DEFINE F(f, k) == [i \in 0 .. k |-> IF i = 0 THEN <<>>
                                        ELSE IF s[i] = x THEN f[i - 1] ELSE Append(f[i - 1], s[i])]
           kept == CHOOSE f : f = F(f, Len(s))
<1>1. Without(s, x) = kept[Len(s)]
  BY DEF Without
<1>2. Len(s) \in Nat
  BY LenProperties
<1>3. kept = F(kept, Len(s))
  <2> DEFINE T == {k \in 0 .. Len(s) : \E f : f = F(f, k)}
  <2>1. 0 \in T
    <3> DEFINE g == [i \in 0 .. 0 |-> <<>>]
    <3>1. g = [i \in 0 .. 0 |-> g[i]] /\ \A i \in 0 .. 0 : i = 0 /\ g[i] = <<>>
      OBVIOUS
    <3> HIDE DEF g
    <3>2. g = F(g, 0)
      BY <3>1
    <3> QED BY <1>2, <3>2
  <2>2. ASSUME NEW k \in 1 .. Len(s), k - 1 \in T PROVE k \in T
    <3>1. PICK f : f = F(f, k - 1)
      BY <2>2
    <3> DEFINE g == [i \in 0 .. k |-> IF i = k
                                      THEN IF s[k] = x THEN f[k - 1] ELSE Append(f[k - 1], s[k])
                                      ELSE f[i]]
    <3>2. \A i \in 0 .. k : g[i] = IF i = 0 THEN <<>>
                                   ELSE IF s[i] = x THEN g[i - 1] ELSE Append(g[i - 1], s[i])
      <4> SUFFICES ASSUME NEW i \in 0 .. k
                   PROVE  g[i] = IF i = 0 THEN <<>>
                                 ELSE IF s[i] = x THEN g[i - 1] ELSE Append(g[i - 1], s[i])
        OBVIOUS
      <4>1. CASE i = k
        BY <4>1
      <4>2. CASE i # k
        <5>1. i \in 0 .. k - 1 /\ (i # 0 => i - 1 \in 0 .. k /\ i - 1 # k)
          BY <4>2
        <5>2. f[i] = IF i = 0 THEN <<>>
                     ELSE IF s[i] = x THEN f[i - 1] ELSE Append(f[i - 1], s[i])
          BY <3>1, <5>1
        <5> QED BY <4>2, <5>1, <5>2
      <4> QED BY <4>1, <4>2
    <3>3. g = [i \in 0 .. k |-> g[i]]
      OBVIOUS
    <3> HIDE DEF g
    <3>4. g = F(g, k)
      BY <3>2, <3>3
    <3> HIDE DEF F
    <3>5. \E h : h = F(h, k)
      BY <3>4
    <3> QED BY <3>5
  <2> HIDE DEF T
  <2>3. \A k \in 0 .. Len(s) : k \in T
    BY <1>2, <2>1, <2>2, Induction
  <2>4. Len(s) \in T
    BY <1>2, <2>3
  <2>5. \E f : f = F(f, Len(s))
    BY <2>4, Zenon DEF T
  <2> QED BY <2>5, Zenon
<1> HIDE DEF kept
<1>31. \A k \in 0 .. Len(s) :
         kept[k] = IF k = 0 THEN <<>>
                   ELSE IF s[k] = x THEN kept[k - 1] ELSE Append(kept[k - 1], s[k])
  BY <1>3
<1>4. \A k \in 0 .. Len(s) : kept[k] \in Seq(S) /\ Len(kept[k]) <= k
  <2> DEFINE T == {k \in 0 .. Len(s) : kept[k] \in Seq(S) /\ Len(kept[k]) <= k}
  <2>1. 0 \in T
    <3>1. kept[0] = <<>>
      BY <1>2, <1>3
    <3>2. 0 \in 0 .. Len(s) /\ Len(<<>>) <= 0 /\ <<>> \in Seq(S)
      BY <1>2
    <3> QED BY <3>1, <3>2
  <2>2. ASSUME NEW k \in 1 .. Len(s), k - 1 \in T PROVE k \in T
    <3>1. kept[k] = IF s[k] = x THEN kept[k - 1] ELSE Append(kept[k - 1], s[k])
      BY <1>2, <1>31
    <3>2. kept[k - 1] \in Seq(S) /\ Len(kept[k - 1]) <= k - 1 /\ Len(kept[k - 1]) \in Nat
      BY <2>2, LenProperties
    <3>3. s[k] \in S
      BY <1>2, ElementOfSeq
    <3>4. /\ Append(kept[k - 1], s[k]) \in Seq(S)
          /\ Len(Append(kept[k - 1], s[k])) = Len(kept[k - 1]) + 1
      BY <3>2, <3>3, AppendProperties
    <3>5. k \in 0 .. Len(s) /\ kept[k] \in Seq(S) /\ Len(kept[k]) <= k
      BY <1>2, <3>1, <3>2, <3>4
    <3> QED BY <3>5
  <2> HIDE DEF T
  <2>3. \A k \in 0 .. Len(s) : k \in T
    BY <1>2, <2>1, <2>2, Induction
  <2> QED BY <2>3 DEF T
<1>5. Len(s) \in 0 .. Len(s)
  BY <1>2
<1>. QED BY <1>1, <1>4, <1>5

-----------------------------------------------------------------------------
(* Construction and assignment.                                            *)

LEMMA EmptyIsVector ==
  Empty \in Vector /\ Empty.begin = Null /\ Empty.end = 0 /\ Empty.cap = 0
BY DEF Empty, Vector

(* The storage goes and the vector is empty.                               *)
LEMMA ReleasedHolds ==
  ASSUME NEW r, NEW s, Sound(r, s)
  PROVE  Leads(r, At(Release(r), Empty), <<>>)
<1> DEFINE q == At(Release(r), Empty)
<1>1. /\ r.m \in Memories /\ r.m.fault = FALSE /\ r.o \in Vector
      /\ r.o.begin = Null => r.o = Empty
  BY SoundFacts DEF Known
<1>2. q.m = Release(r) /\ q.o = Empty
  BY DEF At
<1> HIDE DEF q
<1>3. /\ q.m \in Memories /\ q.m.fault = FALSE
      /\ \A c \in Blocks : q.m.cells[c] = IF c = r.o.begin THEN <<>> ELSE r.m.cells[c]
  BY <1>1, <1>2, ReleaseFrees DEF Sound
<1>4. Holds(q.m, q.o, <<>>)
  BY <1>2, EmptyIsVector, EmptySeq DEF Holds
<1>5. Local(r, q)
  BY <1>2, <1>3, EmptyIsVector, CellAssumption DEF Local
<1>6. Leads(r, q, <<>>)
  BY <1>3, <1>4, <1>5, Leading
<1>. QED BY <1>6 DEF q

LEMMA ClearedHolds ==
  ASSUME NEW r, NEW s, Sound(r, s)
  PROVE  Leads(r, Clear(r), <<>>) /\ Clear(r).o = [r.o EXCEPT !.end = 0]
BY ClearHolds, Leading DEF Sound

(* alloc when there is nothing yet.                                        *)
LEMMA AllocateCapHolds ==
  ASSUME NEW r, Sound(r, <<>>), NEW n \in Nat, r.o.cap < n => r.o = Empty
  PROVE  /\ Leads(r, AllocateCap(r, n), <<>>)
         /\ AllocateCap(r, n).o.end = 0 /\ n <= AllocateCap(r, n).o.cap
<1> DEFINE b == NewBlock(r.m)
           q == At(Allocate(r.m, b, n), [begin |-> b, end |-> 0, cap |-> n])
<1>1. r.o.cap \in Nat /\ r.o.end = 0
  <2>1. Known(r, <<>>)
    BY SoundFacts
  <2> QED BY <2>1, EmptySeq DEF Known
<1>2. CASE r.o.cap >= n
  <2>1. AllocateCap(r, n) = r
    BY <1>2 DEF AllocateCap
  <2> QED BY <1>1, <1>2, <2>1, NoStep
<1>3. CASE ~(r.o.cap >= n)
  <2>1. r.o = Empty /\ n \in Nat \ {0}
    BY <1>1, <1>3
  <2>2. AllocateCap(r, n) = q
    BY <1>3 DEF AllocateCap
  <2>3. /\ q.m = Allocate(r.m, b, n) /\ q.o = [begin |-> b, end |-> 0, cap |-> n]
    BY DEF At
  <2>4. /\ b \in Blocks /\ b # r.o.begin /\ r.m.cells[b] = <<>>
        /\ q.m \in Memories /\ q.m.fault = FALSE
        /\ Len(q.m.cells[b]) = n /\ \A i \in 1 .. n : q.m.cells[b][i] = Raw
        /\ \A c \in Blocks : c # b => q.m.cells[c] = r.m.cells[c]
    <3>1. /\ b \in Blocks /\ b # r.o.begin /\ r.m.cells[b] = <<>>
          /\ Allocate(r.m, b, n) \in Memories /\ Allocate(r.m, b, n).fault = FALSE
          /\ Len(Allocate(r.m, b, n).cells[b]) = n
          /\ \A i \in 1 .. n : Allocate(r.m, b, n).cells[b][i] = Raw
          /\ \A c \in Blocks : c # b => Allocate(r.m, b, n).cells[c] = r.m.cells[c]
      BY <2>1, AllocatedNew
    <3> QED BY <2>3, <3>1
  <2> HIDE DEF b, q
  <2>5. Len(<<>>) = 0 /\ <<>> \in Seq(Live) /\ \A i \in 1 .. n : ~(i <= 0)
    BY EmptySeq
  <2>6. \A c \in Blocks : c # r.o.begin
    BY <2>1, EmptyIsVector, CellAssumption
  <2>7. Leads(r, q, <<>>)
    <3>1. \A c \in Blocks :
            c # b => q.m.cells[c] = IF c = r.o.begin THEN <<>> ELSE r.m.cells[c]
      BY <2>4, <2>6
    <3>2. \A i \in 1 .. n : q.m.cells[b][i] = IF i <= Len(<<>>) THEN <<>>[i] ELSE Raw
      BY <2>4, <2>5
    <3>3. q.o = [begin |-> b, end |-> Len(<<>>), cap |-> n] /\ Len(<<>>) <= n
      BY <2>1, <2>3, <2>5
    <3> QED BY <2>1, <2>4, <2>5, <3>1, <3>2, <3>3, Relocated
  <2> QED BY <2>1, <2>2, <2>3, <2>7
<1>. QED BY <1>2, <1>3

(* Elements in new storage, and a throw on the way there.                  *)
LEMMA FilledHolds ==
  ASSUME NEW r, Sound(r, <<>>), NEW t \in Seq(Live), r.o.cap < Len(t) => r.o = Empty
  PROVE  LET new == AllocateCap(r, Len(t))
         IN  /\ Leads(r, Extended(new, t), t)
             /\ Leads(r, new, <<>>)
             /\ \A k \in 0 .. Len(t) - 1 :
                  RangeConstructFails(new.m, new.o.begin, 0, t, k) = new.m
<1> DEFINE new == AllocateCap(r, Len(t))
<1>1. Len(t) \in Nat
  BY LenProperties
<1>2. Leads(r, new, <<>>) /\ new.o.end = 0 /\ Len(t) <= new.o.cap
  BY <1>1, AllocateCapHolds
<1> HIDE DEF new
<1>3. Sound(new, <<>>) /\ new.o.end + Len(t) <= new.o.cap
  BY <1>1, <1>2 DEF Leads
<1>4. Leads(new, Extended(new, t), <<>> \o t)
  BY <1>3, ExtendedHolds
<1>5. <<>> \o t = t
  BY ConcatEmptySeq
<1>6. Leads(r, Extended(new, t), t)
  BY <1>2, <1>4, <1>5, LeadsOn
<1>7. \A k \in 0 .. Len(t) - 1 :
        RangeConstructFails(new.m, new.o.begin, 0, t, k) = new.m
  BY <1>2, <1>3, FillFails
<1>. QED BY <1>2, <1>6, <1>7 DEF new

(* assign to the elements that are there, and construct the others.        *)
LEMMA AssignedInPlace ==
  ASSUME NEW r, NEW u \in Seq(Values), Sound(r, u), NEW t \in Seq(Values),
         r.o.end <= Len(t), Len(t) <= r.o.cap
  PROVE  LET n == r.o.end
             Assigned(k) == At(Assign(r.m, r.o.begin, 0, SubSeq(t, 1, k)), r.o)
             rest == SubSeq(t, n + 1, Len(t))
         IN  /\ Leads(r, Extended(Assigned(n), rest), t)
             /\ \A k \in 0 .. n : \E w \in Seq(Values) : Leads(r, Assigned(k), w)
             /\ \A k \in 0 .. Len(t) - n - 1 :
                  RangeConstructFails(Assigned(n).m, r.o.begin, n, rest, k) = Assigned(n).m
<1> DEFINE n == r.o.end
           Assigned(k) == At(Assign(r.m, r.o.begin, 0, SubSeq(t, 1, k)), r.o)
           rest == SubSeq(t, n + 1, Len(t))
           front == SubSeq(t, 1, n)
           W(k) == Splice(u, 0, SubSeq(t, 1, k), k)
<1>1. n \in Nat /\ Len(u) = n /\ Len(t) \in Nat /\ n \in 0 .. Len(t) /\ r.o.cap \in Nat
  <2>1. Known(r, u)
    BY SoundFacts
  <2>2. Len(t) \in Nat
    BY LenProperties
  <2> QED BY <2>1, <2>2 DEF Known
<1>2. \A k \in 0 .. n : Leads(r, Assigned(k), W(k)) /\ W(k) \in Seq(Values)
  <2> SUFFICES ASSUME NEW k \in 0 .. n
               PROVE  Leads(r, Assigned(k), W(k)) /\ W(k) \in Seq(Values)
    OBVIOUS
  <2> DEFINE a == SubSeq(t, 1, k)
  <2>1. k \in 0 .. Len(t)
    BY <1>1
  <2>2. a \in Seq(Values) /\ Len(a) = k
    BY <2>1, Front
  <2> HIDE DEF a
  <2>3. a \in Seq(Live)
    BY <2>2, SeqMonotonic DEF Live
  <2>4. 0 \in Nat /\ 0 + Len(a) = k /\ k <= r.o.end /\ 0 <= k /\ k <= Len(u) /\ k \in Nat
    BY <1>1, <2>2
  <2>5. Leads(r, At(Assign(r.m, r.o.begin, 0, a), r.o), Splice(u, 0, a, 0 + Len(a)))
    BY <2>3, <2>4, AssignedHolds
  <2>6. Splice(u, 0, a, k) \in Seq(Values)
    BY <2>2, <2>4, Spliced
  <2> QED BY <2>4, <2>5, <2>6 DEF a
<1>3. front \in Seq(Values) /\ Len(front) = n
  BY <1>1, Front
<1>4. rest \in Seq(Values) /\ Len(rest) = Len(t) - n
  BY <1>1, Part
<1>5. W(n) = front
  <2>1. SubSeq(u, 1, 0) = <<>> /\ SubSeq(u, n + 1, Len(u)) = <<>>
    BY <1>1, SubSeqEmpty
  <2> HIDE DEF front
  <2>2. W(n) = <<>> \o front \o <<>>
    BY <2>1 DEF Splice, front
  <2> QED BY <1>3, <2>2, ConcatEmptySeq
<1>6. front \o rest = t
  <2>1. 1 \in 1 .. Len(t) + 1 /\ n \in 1 - 1 .. Len(t) /\ Len(t) \in n .. Len(t)
    BY <1>1
  <2>2. front \o rest = SubSeq(t, 1, Len(t))
    BY <2>1, ConcatAdjacentSubSeq
  <2> QED BY <2>2, SubSeqFull
<1> DEFINE p == Assigned(n)
<1>7. Leads(r, p, front) /\ p.o = r.o
  <2>1. n \in 0 .. n
    BY <1>1
  <2>2. Leads(r, p, W(n))
    BY <1>2, <2>1
  <2>3. p.o = r.o
    BY DEF At
  <2> HIDE DEF p, W
  <2> QED BY <1>5, <2>2, <2>3
<1>8. rest \in Seq(Live) /\ Sound(p, front) /\ p.o.end + Len(rest) <= p.o.cap
  <2>1. rest \in Seq(Live)
    BY <1>4, SeqMonotonic DEF Live
  <2> HIDE DEF p, rest, front
  <2> QED BY <1>1, <1>4, <1>7, <2>1 DEF Leads
<1> HIDE DEF p, rest, front
<1>9. Leads(r, Extended(p, rest), t)
  <2>1. Leads(p, Extended(p, rest), front \o rest)
    BY <1>8, ExtendedHolds
  <2> QED BY <1>6, <1>7, <2>1, LeadsOn
<1>10. \A k \in 0 .. Len(t) - n - 1 :
         RangeConstructFails(p.m, r.o.begin, n, rest, k) = p.m
  <2> SUFFICES ASSUME NEW k \in 0 .. Len(t) - n - 1
               PROVE  RangeConstructFails(p.m, r.o.begin, n, rest, k) = p.m
    OBVIOUS
  <2>1. k \in 0 .. Len(rest) - 1
    BY <1>4
  <2> QED BY <1>7, <1>8, <2>1, FillFails
<1>. QED BY <1>2, <1>9, <1>10 DEF p, rest

-----------------------------------------------------------------------------
(* The inductive invariant.                                                *)

(* A variable outside its lifetime counts as an empty vector.              *)
Members(v)  == IF obj[v] = Gone THEN Empty ELSE obj[v]
Sequence(v) == Contents(mem, Members(v))

Typed == mem \in Memories /\ mem.fault = FALSE /\ obj \in [Objects -> Vector \cup {Gone}] /\ CallOK

(* The elements are where the members say, and they hold values.           *)
InOrder == \A v \in Objects : Holds(mem, Members(v), Sequence(v)) /\ Sequence(v) \in Seq(Values)

(* No block belongs to two vectors, and none to nobody.                    *)
Apart == \A v, w \in Objects :
           v # w => Members(v).begin = Null \/ Members(v).begin # Members(w).begin
Owned == \A b \in Blocks : mem.cells[b] # <<>> => \E v \in Objects : Members(v).begin = b

Inv == Typed /\ InOrder /\ Apart /\ Owned

(* What the memory shows of the variables, as SequenceContainer has it.    *)
shows == [v \in Objects |-> IF obj[v] = Gone THEN Gone ELSE Contents(mem, obj[v])]

Abs == INSTANCE SequenceContainer WITH Containers <- Objects, contents <- shows

LEMMA EmptyShowsNothing ==
  ASSUME NEW m \in Memories
  PROVE  Contents(m, Empty) = <<>> /\ Holds(m, Empty, <<>>)
<1>1. Contents(m, Empty) = Slice(m, Null, 0, 0)
  BY DEF Contents, Empty
<1>2. Holds(m, Empty, <<>>)
  BY EmptyIsVector, EmptySeq DEF Holds
<1>. QED BY <1>1, <1>2, EmptySlice

LEMMA MembersOf ==
  ASSUME Inv, NEW v \in Objects
  PROVE  /\ Members(v) \in Vector
         /\ Holds(mem, Members(v), Sequence(v)) /\ Sequence(v) \in Seq(Values)
         /\ obj[v] = Gone => Members(v) = Empty /\ Sequence(v) = <<>> /\ shows[v] = Gone
         /\ obj[v] # Gone => Members(v) = obj[v] /\ shows[v] = Sequence(v)
<1>1. obj[v] = Gone => Sequence(v) = <<>>
  BY EmptyShowsNothing DEF Inv, Typed, Members, Sequence
<1>2. obj[v] = Gone => shows[v] = Gone
  BY DEF shows
<1>3. obj[v] # Gone => shows[v] = Sequence(v)
  BY DEF shows, Sequence, Members
<1>4. /\ Holds(mem, Members(v), Sequence(v)) /\ Sequence(v) \in Seq(Values)
  BY DEF Inv, InOrder
<1>5. Members(v) \in Vector
  BY <1>4 DEF Holds
<1>. QED BY <1>1, <1>2, <1>3, <1>4, <1>5 DEF Members

(* A call can begin on any variable.                                       *)
LEMMA CallBegins ==
  ASSUME Inv, EnoughBlocks, NEW v \in Objects
  PROVE  Sound(At(mem, Members(v)), Sequence(v))
<1> DEFINE r == At(mem, Members(v))
<1>1. r.m = mem /\ r.o = Members(v)
  BY DEF At
<1>2. mem \in Memories /\ mem.fault = FALSE
  BY DEF Inv, Typed
<1>3. \A w \in Objects : Members(w).begin \in Blocks \cup {Null}
  BY MembersOf DEF Vector
<1>4. Spare(mem, Members(v))
  <2> SUFFICES ASSUME NEW x \in Blocks \cup {Null}
               PROVE  \E b \in Blocks : b # x /\ (b # Members(v).begin => mem.cells[b] = <<>>)
    BY DEF Spare
  <2> DEFINE f == [w \in Objects |-> IF w = v THEN x ELSE Members(w).begin]
  <2>1. f \in [Objects -> Blocks \cup {Null}]
    BY <1>3
  <2> HIDE DEF f
  <2>2. PICK b \in Blocks : \A w \in Objects : f[w] # b
    BY <2>1 DEF EnoughBlocks
  <2>3. b # x /\ \A w \in Objects : w # v => Members(w).begin # b
    BY <2>2 DEF f
  <2>4. b # Members(v).begin => mem.cells[b] = <<>>
    BY <2>3 DEF Inv, Owned
  <2> QED BY <2>3, <2>4
<1>5. Holds(mem, Members(v), Sequence(v))
  BY MembersOf
<1>. QED BY <1>1, <1>2, <1>4, <1>5 DEF Sound

(* A call ends: its variable has the members and the sequence it led to,   *)
(* and the other variables have not noticed.                               *)
LEMMA CallEnds ==
  ASSUME Inv, GoneOutside, NEW v \in Objects, NEW q, NEW s \in Seq(Values),
         Leads(At(mem, Members(v)), q, s),
         NEW x, x = q.o \/ (x = Gone /\ q.o = Empty),
         mem' = q.m, obj' = [obj EXCEPT ![v] = x], CallOK'
  PROVE  Inv' /\ shows' = [shows EXCEPT ![v] = IF x = Gone THEN Gone ELSE s]
<1> DEFINE o == Members(v)
<1>1. /\ q.m \in Memories /\ q.m.fault = FALSE /\ Holds(q.m, q.o, s)
      /\ q.o \in Vector /\ q.o # Gone
      /\ \A c \in Blocks : c # o.begin /\ c # q.o.begin => q.m.cells[c] = mem.cells[c]
      /\ q.o.begin # o.begin =>
           \A c \in Blocks : /\ c = o.begin => q.m.cells[c] = <<>>
                             /\ c = q.o.begin => mem.cells[c] = <<>>
  <2>1. At(mem, Members(v)).m = mem /\ At(mem, Members(v)).o = o
    BY DEF At
  <2>2. q.o \in Vector /\ Sound(q, s) /\ Local(At(mem, Members(v)), q)
    BY DEF Leads, Sound, Holds
  <2>3. q.o # Gone
    BY <2>2 DEF GoneOutside
  <2> QED BY <2>1, <2>2, <2>3 DEF Sound, Local
<1>2. obj \in [Objects -> Vector \cup {Gone}] /\ mem \in Memories
  BY DEF Inv, Typed
<1>3. /\ obj' \in [Objects -> Vector \cup {Gone}] /\ obj'[v] = x
      /\ \A w \in Objects : w # v => obj'[w] = obj[w]
  BY <1>1, <1>2
<1>4. Members(v)' = q.o /\ \A w \in Objects : w # v => Members(w)' = Members(w)
  BY <1>1, <1>3 DEF Members
<1>5. ASSUME NEW w \in Objects, w # v
      PROVE  /\ Holds(mem', Members(w), Sequence(w)) /\ Sequence(w) \in Seq(Values)
             /\ Members(w).begin = Null \/ Members(w).begin # q.o.begin
             /\ Contents(mem', Members(w)) = Sequence(w)
  <2> DEFINE p == Members(w)
  <2>1. Holds(mem, p, Sequence(w)) /\ Sequence(w) \in Seq(Values) /\ p \in Vector
    BY MembersOf
  <2>2. CASE p.begin = Null
    <3>1. Holds(mem', p, Sequence(w))
      BY <2>1, <2>2 DEF Holds
    <3> QED BY <1>1, <2>1, <2>2, <3>1, HoldsContents
  <2>3. CASE p.begin # Null
    <3>1. p.begin \in Blocks /\ p.begin # o.begin
      BY <1>5, <2>1, <2>3 DEF Inv, Apart, Vector
    <3>2. mem.cells[p.begin] # <<>>
      BY <2>1, <2>3, EmptySeq DEF Holds, Vector
    <3>3. p.begin # q.o.begin
      BY <1>1, <3>1, <3>2
    <3>4. mem'.cells[p.begin] = mem.cells[p.begin]
      BY <1>1, <3>1, <3>3
    <3>5. Holds(mem', p, Sequence(w))
      BY <2>1, <3>4 DEF Holds
    <3> QED BY <1>1, <2>1, <3>3, <3>5, HoldsContents
  <2> QED BY <2>2, <2>3
<1>6. Contents(mem', q.o) = s
  BY <1>1, HoldsContents
<1>7. Sequence(v)' = s /\ \A w \in Objects : w # v => Sequence(w)' = Sequence(w)
  BY <1>4, <1>5, <1>6 DEF Sequence
<1>8. Typed'
  BY <1>1, <1>3 DEF Typed
<1>9. InOrder'
  BY <1>1, <1>4, <1>5, <1>7 DEF InOrder
<1>10. Apart'
  <2> SUFFICES ASSUME NEW w \in Objects, NEW u \in Objects, w # u
               PROVE  Members(w)'.begin = Null \/ Members(w)'.begin # Members(u)'.begin
    BY DEF Apart
  <2>1. CASE w = v
    BY <1>4, <1>5, <2>1
  <2>2. CASE u = v
    BY <1>4, <1>5, <2>2
  <2>3. CASE w # v /\ u # v
    BY <1>4, <2>3 DEF Inv, Apart
  <2> QED BY <2>1, <2>2, <2>3
<1>11. Owned'
  <2> SUFFICES ASSUME NEW b \in Blocks, mem'.cells[b] # <<>>
               PROVE  \E w \in Objects : Members(w)'.begin = b
    BY DEF Owned
  <2>1. CASE b = q.o.begin
    BY <1>4, <2>1
  <2>2. CASE b # q.o.begin
    <3>1. b # o.begin
      BY <1>1, <2>2
    <3>2. mem.cells[b] # <<>>
      BY <1>1, <2>2, <3>1
    <3>3. PICK w \in Objects : Members(w).begin = b
      BY <3>2 DEF Inv, Owned
    <3> QED BY <1>4, <3>1, <3>3
  <2> QED BY <2>1, <2>2
<1>12. shows' = [shows EXCEPT ![v] = IF x = Gone THEN Gone ELSE s]
  <2>1. \A w \in Objects : w # v => shows'[w] = shows[w]
    <3> SUFFICES ASSUME NEW w \in Objects, w # v PROVE shows'[w] = shows[w]
      OBVIOUS
    <3>1. obj'[w] = obj[w] /\ (obj[w] # Gone => Contents(mem', obj[w]) = Contents(mem, obj[w]))
      BY <1>3, <1>5 DEF Sequence, Members
    <3> QED BY <3>1 DEF shows
  <2>2. shows'[v] = IF x = Gone THEN Gone ELSE s
    <3>1. x # Gone => x = q.o
      OBVIOUS
    <3> QED BY <1>3, <1>6, <3>1 DEF shows
  <2>3. DOMAIN shows = Objects /\ shows = [w \in Objects |-> shows[w]]
        /\ shows' = [w \in Objects |-> shows'[w]]
    BY DEF shows
  <2> QED BY <2>1, <2>2, <2>3
<1>. QED BY <1>8, <1>9, <1>10, <1>11, <1>12 DEF Inv

-----------------------------------------------------------------------------
(* What a call that ends is to SequenceContainer.                          *)

LEMMA CallsMade ==
  ASSUME NEW what \in Calls, NEW i \in Nat, NEW j \in Nat, NEW s \in Seq(Values)
  PROVE  /\ call' = Made(what) \/ call' = Threw(what) => CallOK'
         /\ call' = Brought(what, i, s) =>
              CallOK' /\ call'.what = what /\ call'.at = i /\ call'.to = i /\ call'.with = s
                      /\ call'.threw = FALSE
         /\ call' = Cut(i, j) =>
              CallOK' /\ call'.what = "erase" /\ call'.at = i /\ call'.to = j
                      /\ call'.threw = FALSE
         /\ call' = Made(what) => call'.what = what /\ call'.threw = FALSE
         /\ call' = Threw(what) => call'.what = what /\ call'.threw = TRUE
<1>0. <<>> \in Seq(Values) /\ "erase" \in Calls
  BY EmptySeq DEF Calls
<1> USE DEF CallOK, Made, Threw, Brought, Cut
<1>1. ASSUME call' = Made(what) PROVE CallOK' /\ call'.what = what /\ call'.threw = FALSE
  BY <1>0, <1>1
<1>2. ASSUME call' = Threw(what) PROVE CallOK' /\ call'.what = what /\ call'.threw = TRUE
  BY <1>0, <1>2
<1>3. ASSUME call' = Brought(what, i, s)
      PROVE  CallOK' /\ call'.what = what /\ call'.at = i /\ call'.to = i /\ call'.with = s
                     /\ call'.threw = FALSE
  BY <1>0, <1>3
<1>4. ASSUME call' = Cut(i, j)
      PROVE  CallOK' /\ call'.what = "erase" /\ call'.at = i /\ call'.to = j
                     /\ call'.threw = FALSE
  BY <1>0, <1>4
<1> HIDE DEF CallOK, Made, Threw, Brought, Cut
<1>. QED BY <1>1, <1>2, <1>3, <1>4

LEMMA OthersStay ==
  ASSUME NEW v \in Objects, NEW x, shows' = [shows EXCEPT ![v] = x]
  PROVE  Abs!Others({v}) /\ shows'[v] = x
BY DEF shows, Abs!Others

LEMMA CallFinishes ==
  ASSUME Inv, GoneOutside, NEW v \in Objects, NEW q, NEW s \in Seq(Values),
         Leads(At(mem, Members(v)), q, s), Finish(v, q), CallOK'
  PROVE  Inv' /\ shows' = [shows EXCEPT ![v] = s]
<1>1. mem' = q.m /\ obj' = [obj EXCEPT ![v] = q.o]
  BY DEF Finish
<1>2. q.o # Gone
  BY DEF Leads, Sound, Holds, GoneOutside
<1> DEFINE x == q.o
<1>3. x = q.o \/ (x = Gone /\ q.o = Empty)
  OBVIOUS
<1> HIDE DEF x
<1>4. Inv' /\ shows' = [shows EXCEPT ![v] = IF x = Gone THEN Gone ELSE s]
  BY <1>1, <1>3, CallEnds DEF x
<1>. QED BY <1>2, <1>4 DEF x

LEMMA Constructs ==
  ASSUME Inv, GoneOutside, NEW v \in Objects, obj[v] = Gone, NEW q, NEW s \in Seq(Values),
         Leads(At(mem, Members(v)), q, s),
         Brings(v, q, "construct", 0, s) \/ (s = <<>> /\ Completes(v, q, "construct"))
  PROVE  Inv' /\ Abs!SeqNext
<1>0. "construct" \in Calls /\ 0 \in Nat
  BY DEF Calls
<1>1. /\ CallOK' /\ call'.what = "construct" /\ call'.with = s /\ call'.threw = FALSE
  <2>1. CASE Brings(v, q, "construct", 0, s)
    BY <1>0, <2>1, CallsMade DEF Brings
  <2>2. CASE s = <<>> /\ Completes(v, q, "construct")
    <3>1. call'.with = <<>>
      BY <2>2 DEF Completes, Made
    <3> QED BY <1>0, <2>2, <3>1, CallsMade DEF Completes
  <2> QED BY <2>1, <2>2
<1>3. Inv' /\ shows' = [shows EXCEPT ![v] = s]
  BY <1>1, CallFinishes DEF Brings, Completes
<1>4. shows[v] = Gone
  BY MembersOf
<1>5. Abs!BeginLife(v)
  BY <1>1, <1>3, <1>4, OthersStay DEF Abs!BeginLife, Abs!Returned
<1>. QED BY <1>3, <1>5 DEF Abs!SeqNext

LEMMA Destroys ==
  ASSUME Inv, GoneOutside, NEW v \in Objects, obj[v] # Gone, NEW q, NEW s, q.o = Empty,
         Leads(At(mem, Members(v)), q, <<>>), Completes(v, At(q.m, Gone), "destroy")
  PROVE  Inv' /\ Abs!SeqNext
<1>1. CallOK' /\ call'.what = "destroy" /\ call'.threw = FALSE
  BY CallsMade, EmptySeq DEF Completes, Calls
<1>2. Inv' /\ shows' = [shows EXCEPT ![v] = Gone]
  BY <1>1, CallEnds, EmptySeq DEF Completes, Finish, At
<1>3. shows[v] # Gone
  BY MembersOf DEF GoneOutside
<1>4. Abs!EndLife(v)
  BY <1>1, <1>2, <1>3, OthersStay DEF Abs!EndLife, Abs!Returned
<1>. QED BY <1>2, <1>4 DEF Abs!SeqNext

LEMMA Assigns ==
  ASSUME Inv, GoneOutside, NEW v \in Objects, obj[v] # Gone, NEW q, NEW s \in Seq(Values),
         Leads(At(mem, Members(v)), q, s), Brings(v, q, "assign", 0, s)
  PROVE  Inv' /\ Abs!SeqNext
<1>1. CallOK' /\ call'.what = "assign" /\ call'.with = s /\ call'.threw = FALSE
  BY CallsMade DEF Brings, Calls
<1>3. Inv' /\ shows' = [shows EXCEPT ![v] = s]
  BY <1>1, CallFinishes DEF Brings
<1>4. shows[v] # Gone
  BY MembersOf DEF GoneOutside
<1>5. Abs!Replace(v)
  BY <1>1, <1>3, <1>4, OthersStay DEF Abs!Replace, Abs!Returned
<1>. QED BY <1>3, <1>5 DEF Abs!SeqNext

LEMMA Inserts ==
  ASSUME Inv, GoneOutside, NEW v \in Objects, obj[v] # Gone, NEW q, NEW t \in Seq(Values),
         NEW i \in 0 .. Len(Sequence(v)),
         Leads(At(mem, Members(v)), q, Splice(Sequence(v), i, t, i)),
         Brings(v, q, "insert", i, t)
  PROVE  Inv' /\ Abs!SeqNext
<1> DEFINE s == Sequence(v)
           z == Splice(s, i, t, i)
<1>1. s \in Seq(Values) /\ shows[v] = s /\ i \in Nat /\ i <= Len(s) /\ s # Gone
  BY MembersOf DEF GoneOutside
<1>2. z \in Seq(Values)
  <2>1. i \in 0 .. Len(s)
    OBVIOUS
  <2> QED BY <1>1, <2>1, Between
<1>3. /\ CallOK' /\ call'.what = "insert" /\ call'.at = i /\ call'.to = i
      /\ call'.with = t /\ call'.threw = FALSE
  BY <1>1, CallsMade DEF Brings, Calls
<1>5. z = SubSeq(s, 1, i) \o t \o SubSeq(s, i + 1, Len(s))
  BY DEF Splice
<1>6. Leads(At(mem, Members(v)), q, z)
  OBVIOUS
<1> HIDE DEF s, z
<1>7. Inv' /\ shows' = [shows EXCEPT ![v] = z]
  BY <1>2, <1>3, <1>6, CallFinishes DEF Brings
<1>8. Abs!Insert(v)
  <2>1. Abs!Others({v}) /\ shows'[v] = z
    BY <1>7, OthersStay
  <2> QED BY <1>1, <1>3, <1>5, <2>1
          DEF Abs!Insert, Abs!Returned, Abs!Within, Abs!Before, Abs!Behind
<1>. QED BY <1>7, <1>8 DEF Abs!SeqNext

LEMMA CutsOut ==
  ASSUME Inv, GoneOutside, NEW v \in Objects, obj[v] # Gone, NEW q,
         NEW i \in Nat, NEW j \in Nat, i <= j, j <= Len(Sequence(v)),
         Leads(At(mem, Members(v)), q,
               SubSeq(Sequence(v), 1, i) \o SubSeq(Sequence(v), j + 1, Len(Sequence(v)))),
         Cuts(v, q, i, j)
  PROVE  Inv' /\ Abs!SeqNext
<1> DEFINE s == Sequence(v)
           a == SubSeq(s, 1, i)
           b == SubSeq(s, j + 1, Len(s))
           z == a \o b
<1>1. s \in Seq(Values) /\ shows[v] = s /\ s # Gone /\ Len(s) \in Nat /\ i <= j /\ j <= Len(s)
  BY MembersOf, LenProperties DEF GoneOutside
<1>2. Leads(At(mem, Members(v)), q, z)
  OBVIOUS
<1> HIDE DEF s
<1>3. z \in Seq(Values)
  <2>1. i \in 0 .. Len(s) /\ Len(s) <= Len(s)
    BY <1>1
  <2>2. a \in Seq(Values)
    BY <1>1, <2>1, Front
  <2>3. b \in Seq(Values)
    BY <1>1, <2>1, Part
  <2> HIDE DEF a, b
  <2> QED BY <2>2, <2>3, ConcatProperties
<1>4. /\ CallOK' /\ call'.what = "erase" /\ call'.at = i /\ call'.to = j /\ call'.threw = FALSE
  BY CallsMade, EmptySeq DEF Cuts, Calls
<1> HIDE DEF z
<1>7. Inv' /\ shows' = [shows EXCEPT ![v] = z]
  BY <1>2, <1>3, <1>4, CallFinishes DEF Cuts
<1>8. Abs!Erase(v)
  <2>1. Abs!Others({v}) /\ shows'[v] = z
    BY <1>7, OthersStay
  <2> QED BY <1>1, <1>4, <2>1
          DEF Abs!Erase, Abs!Returned, Abs!Within, Abs!Before, Abs!Behind, z
<1>. QED BY <1>7, <1>8 DEF Abs!SeqNext

LEMMA Removes ==
  ASSUME Inv, GoneOutside, NEW v \in Objects, obj[v] # Gone, NEW q, NEW x \in Values,
         Leads(At(mem, Members(v)), q, Without(Sequence(v), x)),
         Brings(v, q, "remove", 0, <<x>>)
  PROVE  Inv' /\ Abs!SeqNext
<1> DEFINE s == Sequence(v)
           z == Without(s, x)
<1>1. s \in Seq(Values) /\ shows[v] = s /\ s # Gone
  BY MembersOf DEF GoneOutside
<1>2. Leads(At(mem, Members(v)), q, z)
  OBVIOUS
<1> HIDE DEF s
<1>3. z \in Seq(Values)
  BY <1>1, WithoutIsPart
<1>4. CallOK' /\ call'.what = "remove" /\ call'.with = <<x>> /\ call'.threw = FALSE
  <2>1. "remove" \in Calls /\ 0 \in Nat /\ <<x>> \in Seq(Values)
    BY DEF Calls
  <2> QED BY <2>1, CallsMade DEF Brings
<1>6. z = Abs!Without(s, call'.with[1])
  <2>1. call'.with[1] = x
    BY <1>4
  <2>2. Abs!Without(s, x) = z
    BY DEF Without, Abs!Without
  <2> QED BY <2>1, <2>2
<1> HIDE DEF z
<1>7. Inv' /\ shows' = [shows EXCEPT ![v] = z]
  BY <1>2, <1>3, <1>4, CallFinishes DEF Brings
<1>8. Abs!Remove(v)
  BY <1>1, <1>4, <1>6, <1>7, OthersStay DEF Abs!Remove, Abs!Returned
<1>. QED BY <1>7, <1>8 DEF Abs!SeqNext

LEMMA Keeps ==
  ASSUME Inv, GoneOutside, NEW v \in Objects, obj[v] # Gone, NEW q,
         Leads(At(mem, Members(v)), q, Sequence(v)), Completes(v, q, "keep")
  PROVE  Inv' /\ Abs!SeqNext
<1>1. Sequence(v) \in Seq(Values) /\ shows[v] = Sequence(v)
  BY MembersOf
<1>2. CallOK' /\ call'.what = "keep" /\ call'.threw = FALSE
  BY CallsMade, EmptySeq DEF Completes, Calls
<1>3. Inv' /\ shows' = [shows EXCEPT ![v] = Sequence(v)]
  BY <1>1, <1>2, CallFinishes DEF Completes
<1>4. \A w \in Objects : shows'[w] = shows[w]
  BY <1>1, <1>3 DEF shows
<1>5. Abs!Keep
  BY <1>2, <1>4 DEF Abs!Keep, Abs!Returned, Abs!Others
<1>. QED BY <1>3, <1>5 DEF Abs!SeqNext

(* A call that promises the strong guarantee throws.                       *)
LEMMA Refuses ==
  ASSUME Inv, GoneOutside, NEW v \in Objects, NEW q, NEW x,
         Leads(At(mem, Members(v)), q, Sequence(v)),
         IF obj[v] = Gone THEN x = Gone /\ q.o = Empty ELSE x = q.o,
         NEW what \in {"construct", "insert", "keep"}, Throws(v, At(q.m, x), what)
  PROVE  Inv' /\ Abs!SeqNext
<1>1. /\ Sequence(v) \in Seq(Values)
      /\ obj[v] = Gone => shows[v] = Gone
      /\ obj[v] # Gone => shows[v] = Sequence(v)
  BY MembersOf
<1>2. CallOK' /\ call'.what = what /\ call'.threw = TRUE
  BY CallsMade, EmptySeq DEF Throws, Calls
<1>3. mem' = q.m /\ obj' = [obj EXCEPT ![v] = x]
  BY DEF Throws, Finish, At
<1>4. Inv' /\ shows' = [shows EXCEPT ![v] = IF x = Gone THEN Gone ELSE Sequence(v)]
  BY <1>1, <1>2, <1>3, CallEnds
<1>5. obj[v] # Gone => x # Gone
  BY DEF Leads, Sound, Holds, GoneOutside
<1>6. \A w \in Objects : shows'[w] = shows[w]
  BY <1>1, <1>4, <1>5 DEF shows
<1>7. Abs!Refuse
  BY <1>2, <1>6 DEF Abs!Refuse, Abs!Threw, Abs!Others
<1>. QED BY <1>4, <1>7 DEF Abs!SeqNext

(* An assignment, which promises the basic guarantee, throws.              *)
LEMMA BreaksOff ==
  ASSUME Inv, GoneOutside, NEW v \in Objects, obj[v] # Gone, NEW q, NEW s \in Seq(Values),
         Leads(At(mem, Members(v)), q, s), Throws(v, q, "assign")
  PROVE  Inv' /\ Abs!SeqNext
<1>1. shows[v] # Gone /\ s # Gone /\ \A i \in DOMAIN s : s[i] \in Values
  BY MembersOf, LenProperties, ElementOfSeq DEF GoneOutside
<1>2. CallOK' /\ call'.what = "assign" /\ call'.threw = TRUE
  BY CallsMade, EmptySeq DEF Throws, Calls
<1>3. Inv' /\ shows' = [shows EXCEPT ![v] = s]
  BY <1>2, CallFinishes DEF Throws
<1>4. Abs!BreakOff(v)
  BY <1>1, <1>2, <1>3, OthersStay DEF Abs!BreakOff, Abs!Threw, Abs!IsRange
<1>. QED BY <1>3, <1>4 DEF Abs!SeqNext

(* The members of w go over to v, which had freed its own storage.         *)
LEMMA HandsOver ==
  ASSUME Inv, GoneOutside, NEW v \in Objects, NEW w \in Objects, v # w, obj[w] # Gone,
         mem' \in Memories, mem'.fault = FALSE,
         \A b \in Blocks : mem'.cells[b] = IF b = Members(v).begin THEN <<>> ELSE mem.cells[b],
         obj' = [obj EXCEPT ![v] = obj[w], ![w] = Empty], call' = Made("take")
  PROVE  Inv' /\ Abs!SeqNext
<1>1. obj \in [Objects -> Vector \cup {Gone}] /\ mem \in Memories
  BY DEF Inv, Typed
<1>2. Empty \in Vector /\ Empty # Gone /\ Empty.begin = Null
  BY EmptyIsVector DEF GoneOutside
<1>3. /\ obj' \in [Objects -> Vector \cup {Gone}] /\ obj'[v] = obj[w] /\ obj'[w] = Empty
      /\ \A u \in Objects : u # v /\ u # w => obj'[u] = obj[u]
  BY <1>1, <1>2
<1>4. /\ Members(v)' = Members(w) /\ Members(w)' = Empty
      /\ \A u \in Objects : u # v /\ u # w => Members(u)' = Members(u)
  BY <1>2, <1>3 DEF Members
<1>5. CallOK' /\ call'.what = "take" /\ call'.threw = FALSE
  BY CallsMade, EmptySeq DEF Calls
<1>6. ASSUME NEW u \in Objects, u # v
      PROVE  /\ Holds(mem', Members(u), Sequence(u)) /\ Sequence(u) \in Seq(Values)
             /\ Contents(mem', Members(u)) = Sequence(u)
  <2> DEFINE p == Members(u)
  <2>1. Holds(mem, p, Sequence(u)) /\ Sequence(u) \in Seq(Values) /\ p \in Vector
    BY MembersOf
  <2>2. Holds(mem', p, Sequence(u))
    <3>1. CASE p.begin = Null
      BY <2>1, <3>1 DEF Holds
    <3>2. CASE p.begin # Null
      <4>1. p.begin \in Blocks /\ p.begin # Members(v).begin
        BY <1>6, <2>1, <3>2 DEF Inv, Apart, Vector
      <4>2. mem'.cells[p.begin] = mem.cells[p.begin]
        BY <4>1
      <4> QED BY <2>1, <4>2 DEF Holds
    <3> QED BY <3>1, <3>2
  <2> QED BY <2>1, <2>2, HoldsContents
<1>7. Holds(mem', Empty, <<>>) /\ Contents(mem', Empty) = <<>> /\ <<>> \in Seq(Values)
  BY EmptyShowsNothing, EmptySeq
<1>8. /\ Sequence(v)' = Sequence(w) /\ Sequence(w)' = <<>>
      /\ \A u \in Objects : u # v /\ u # w => Sequence(u)' = Sequence(u)
  BY <1>4, <1>6, <1>7 DEF Sequence
<1>9. Typed'
  BY <1>3, <1>5 DEF Typed
<1>10. InOrder'
  <2> SUFFICES ASSUME NEW u \in Objects
               PROVE  Holds(mem', Members(u)', Sequence(u)') /\ Sequence(u)' \in Seq(Values)
    BY DEF InOrder
  <2>1. CASE u = v
    BY <1>4, <1>6, <1>8, <2>1
  <2>2. CASE u = w
    BY <1>4, <1>7, <1>8, <2>2
  <2>3. CASE u # v /\ u # w
    BY <1>4, <1>6, <1>8, <2>3
  <2> QED BY <2>1, <2>2, <2>3
<1>11. Apart'
  <2> SUFFICES ASSUME NEW a \in Objects, NEW b \in Objects, a # b
               PROVE  Members(a)'.begin = Null \/ Members(a)'.begin # Members(b)'.begin
    BY DEF Apart
  <2>1. CASE a = w
    BY <1>2, <1>4, <2>1
  <2>2. CASE b = w /\ a # w
    BY <1>2, <1>4, <2>2
  <2>3. CASE a = v /\ b # w
    BY <1>4, <2>3 DEF Inv, Apart
  <2>4. CASE b = v /\ a # w
    BY <1>4, <2>4 DEF Inv, Apart
  <2>5. CASE a # w /\ b # w /\ a # v /\ b # v
    BY <1>4, <2>5 DEF Inv, Apart
  <2> QED BY <2>1, <2>2, <2>3, <2>4, <2>5
<1>12. Owned'
  <2> SUFFICES ASSUME NEW b \in Blocks, mem'.cells[b] # <<>>
               PROVE  \E u \in Objects : Members(u)'.begin = b
    BY DEF Owned
  <2>1. b # Members(v).begin /\ mem.cells[b] # <<>>
    OBVIOUS
  <2>2. PICK u \in Objects : Members(u).begin = b
    BY <2>1 DEF Inv, Owned
  <2> QED BY <1>4, <2>1, <2>2
<1>13. /\ shows'[v] = shows[w] /\ shows'[w] = <<>>
       /\ \A u \in Objects \ {v, w} : shows'[u] = shows[u]
  <2>1. /\ shows' = [u \in Objects |-> IF obj'[u] = Gone THEN Gone ELSE Contents(mem', obj'[u])]
        /\ shows = [u \in Objects |-> IF obj[u] = Gone THEN Gone ELSE Contents(mem, obj[u])]
    BY DEF shows
  <2>2. Contents(mem', obj[w]) = Contents(mem, obj[w])
    BY <1>6 DEF Members, Sequence
  <2>3. \A u \in Objects \ {v, w} : obj[u] # Gone => Contents(mem', obj[u]) = Contents(mem, obj[u])
    BY <1>6 DEF Members, Sequence
  <2> QED BY <1>2, <1>3, <1>7, <2>1, <2>2, <2>3
<1>14. shows[w] # Gone
  BY MembersOf DEF GoneOutside
<1>15. Abs!Take(v, w)
  BY <1>5, <1>13, <1>14 DEF Abs!Take, Abs!Returned, Abs!Others
<1>. QED BY <1>9, <1>10, <1>11, <1>12, <1>15 DEF Inv, Abs!SeqNext

(* swap.                                                                   *)
LEMMA SwapStep ==
  ASSUME Inv, GoneOutside, NEW v \in Objects, NEW w \in Objects, Swap(v, w)
  PROVE  Inv' /\ Abs!SeqNext
<1>1. /\ obj \in [Objects -> Vector \cup {Gone}] /\ obj[v] # Gone /\ obj[w] # Gone
      /\ mem' = mem /\ obj' = [obj EXCEPT ![v] = obj[w], ![w] = obj[v]] /\ call' = Made("swap")
  BY DEF Inv, Typed, Swap, Alive
<1>2. /\ obj' \in [Objects -> Vector \cup {Gone}] /\ obj'[v] = obj[w] /\ obj'[w] = obj[v]
      /\ \A u \in Objects : u # v /\ u # w => obj'[u] = obj[u]
  BY <1>1
<1>3. /\ Members(v)' = Members(w) /\ Members(w)' = Members(v)
      /\ \A u \in Objects : u # v /\ u # w => Members(u)' = Members(u)
  BY <1>1, <1>2 DEF Members
<1>4. /\ Sequence(v)' = Sequence(w) /\ Sequence(w)' = Sequence(v)
      /\ \A u \in Objects : u # v /\ u # w => Sequence(u)' = Sequence(u)
  BY <1>1, <1>3 DEF Sequence
<1>5. CallOK' /\ call'.what = "swap" /\ call'.threw = FALSE
  BY <1>1, CallsMade, EmptySeq DEF Calls
<1>6. Typed'
  BY <1>1, <1>2, <1>5 DEF Inv, Typed
<1>7. InOrder'
  <2> SUFFICES ASSUME NEW u \in Objects
               PROVE  Holds(mem, Members(u)', Sequence(u)') /\ Sequence(u)' \in Seq(Values)
    BY <1>1 DEF InOrder
  <2> QED BY <1>3, <1>4 DEF Inv, InOrder
<1>8. Apart'
  <2> SUFFICES ASSUME NEW a \in Objects, NEW b \in Objects, a # b
               PROVE  Members(a)'.begin = Null \/ Members(a)'.begin # Members(b)'.begin
    BY DEF Apart
  <2> QED BY <1>3 DEF Inv, Apart
<1>9. Owned'
  <2> SUFFICES ASSUME NEW b \in Blocks, mem.cells[b] # <<>>
               PROVE  \E u \in Objects : Members(u)'.begin = b
    BY <1>1 DEF Owned
  <2>1. PICK u \in Objects : Members(u).begin = b
    BY DEF Inv, Owned
  <2> QED BY <1>3, <2>1
<1>10. /\ shows'[v] = shows[w] /\ shows'[w] = shows[v]
       /\ \A u \in Objects \ {v, w} : shows'[u] = shows[u]
  BY <1>1, <1>2 DEF shows
<1>11. shows[v] # Gone /\ shows[w] # Gone
  BY <1>1, MembersOf DEF GoneOutside
<1>12. Abs!Exchange(v, w)
  BY <1>5, <1>10, <1>11 DEF Abs!Exchange, Abs!Returned, Abs!Others
<1>. QED BY <1>6, <1>7, <1>8, <1>9, <1>12 DEF Inv, Abs!SeqNext

-----------------------------------------------------------------------------
(* The member functions.                                                   *)
Usual == Inv /\ Excluded /\ EnoughBlocks /\ GoneOutside

LEMMA CallOnVector ==
  ASSUME Usual, NEW v \in Objects, obj[v] # Gone
  PROVE  /\ Here(v) = At(mem, Members(v)) /\ Here(v).m = mem /\ Here(v).o = obj[v]
         /\ Sound(Here(v), Sequence(v)) /\ Known(Here(v), Sequence(v))
         /\ Sequence(v) \in Seq(Values) /\ Sequence(v) \in Seq(Live)
         /\ Len(Sequence(v)) = obj[v].end /\ Contents(mem, obj[v]) = Sequence(v)
         /\ obj[v].end \in Nat /\ obj[v].cap \in Nat /\ obj[v].end <= obj[v].cap
         /\ mem \in Memories /\ obj[v] \in Vector
<1>1. Members(v) = obj[v] /\ Sequence(v) \in Seq(Values)
  BY MembersOf DEF Usual
<1>2. Here(v) = At(mem, Members(v)) /\ Here(v).m = mem /\ Here(v).o = obj[v]
  BY <1>1 DEF Here, At
<1>3. Sound(Here(v), Sequence(v))
  BY <1>2, CallBegins DEF Usual
<1>4. Known(Here(v), Sequence(v))
  BY <1>3, SoundFacts
<1>5. Contents(mem, obj[v]) = Sequence(v)
  BY <1>1 DEF Sequence
<1> HIDE DEF Here, At
<1>. QED BY <1>1, <1>2, <1>3, <1>4, <1>5 DEF Known

LEMMA CallOnNothing ==
  ASSUME Usual, NEW v \in Objects, obj[v] = Gone
  PROVE  /\ At(mem, Empty) = At(mem, Members(v)) /\ Sequence(v) = <<>>
         /\ Sound(At(mem, Empty), <<>>) /\ mem \in Memories
         /\ At(mem, Empty).m = mem /\ At(mem, Empty).o = Empty
<1>1. Members(v) = Empty /\ Sequence(v) = <<>>
  BY MembersOf DEF Usual
<1>2. Sound(At(mem, Members(v)), Sequence(v))
  BY CallBegins DEF Usual
<1>. QED BY <1>1, <1>2 DEF At, Usual, Inv, Typed

LEMMA RangesAreSequences ==
  ASSUME NEW s \in Ranges
  PROVE  s \in Seq(Values)
BY DEF Ranges

(* A throw of a call on nothing leaves nothing behind.                     *)
LEMMA NothingDelegated ==
  ASSUME NEW r, r.o = Empty
  PROVE  Delegated(r) = At(r.m, Gone)
BY EmptyIsVector DEF Delegated, Release

LEMMA DefaultConstructStep ==
  ASSUME Usual, NEW v \in Objects, DefaultConstruct(v)
  PROVE  Inv' /\ Abs!SeqNext
<1>1. obj[v] = Gone /\ Completes(v, At(mem, Empty), "construct")
  BY DEF DefaultConstruct, Unborn
<1>3. Leads(At(mem, Members(v)), At(mem, Empty), <<>>)
  BY <1>1, CallOnNothing, NoStep
<1>. QED BY <1>1, <1>3, Constructs, EmptySeq DEF Usual

LEMMA ConstructRangeStep ==
  ASSUME Usual, NEW v \in Objects, NEW s \in Seq(Values), ConstructRange(v, s)
  PROVE  Inv' /\ Abs!SeqNext
<1> DEFINE r == At(mem, Empty)
<1>1. obj[v] = Gone
  BY DEF ConstructRange, Unborn
<1>2. r = At(mem, Members(v)) /\ Sequence(v) = <<>> /\ Sound(r, <<>>) /\ r.m = mem /\ r.o = Empty
  BY <1>1, CallOnNothing
<1> HIDE DEF r
<1>3. CASE Brings(v, Extended(AllocateCap(r, Len(s)), s), "construct", 0, s)
  <2>1. s \in Seq(Live) /\ (r.o.cap < Len(s) => r.o = Empty)
    BY <1>2, SeqMonotonic DEF Live
  <2>2. Leads(r, Extended(AllocateCap(r, Len(s)), s), s)
    BY <1>2, <2>1, FilledHolds
  <2> QED BY <1>1, <1>2, <1>3, <2>2, Constructs DEF Usual
<1>4. CASE Throws(v, Delegated(r), "construct")
  <2>1. Delegated(r) = At(r.m, Gone)
    BY <1>2, NothingDelegated
  <2>2. Leads(At(mem, Members(v)), r, Sequence(v))
    BY <1>2, NoStep
  <2>3. IF obj[v] = Gone THEN Gone = Gone /\ r.o = Empty ELSE Gone = r.o
    BY <1>1, <1>2
  <2> QED BY <1>4, <2>1, <2>2, <2>3, Refuses DEF Usual
<1>. QED BY <1>3, <1>4 DEF ConstructRange, Usual, Excluded, r

LEMMA ConstructInputStep ==
  ASSUME Usual, NEW v \in Objects, NEW s \in Seq(Values), ConstructInput(v, s)
  PROVE  Inv' /\ Abs!SeqNext
<1> DEFINE r == At(mem, Empty)
<1>1. obj[v] = Gone /\ Brings(v, EmplacedAll(r, s), "construct", 0, s)
  BY DEF ConstructInput, Unborn, Usual, Excluded
<1>2. r = At(mem, Members(v)) /\ Sound(r, <<>>)
  BY <1>1, CallOnNothing
<1> HIDE DEF r
<1>3. Leads(r, EmplacedAll(r, s), <<>> \o s)
  BY <1>2, EmplacedAllHolds
<1>4. <<>> \o s = s
  BY ConcatEmptySeq
<1>. QED BY <1>1, <1>2, <1>3, <1>4, Constructs DEF Usual

LEMMA CopyConstructStep ==
  ASSUME Usual, NEW v \in Objects, NEW w \in Objects, CopyConstruct(v, w)
  PROVE  Inv' /\ Abs!SeqNext
<1>1. obj[w] # Gone /\ ConstructRange(v, Contents(mem, obj[w]))
  BY DEF CopyConstruct, Alive
<1>2. Contents(mem, obj[w]) \in Seq(Values)
  BY <1>1, CallOnVector
<1>. QED BY <1>1, <1>2, ConstructRangeStep

LEMMA MoveConstructStep ==
  ASSUME Usual, NEW v \in Objects, NEW w \in Objects, MoveConstruct(v, w)
  PROVE  Inv' /\ Abs!SeqNext
<1>1. /\ obj[v] = Gone /\ obj[w] # Gone /\ mem' = mem
      /\ obj' = [obj EXCEPT ![v] = obj[w], ![w] = Empty] /\ call' = Made("take")
  BY DEF MoveConstruct, Unborn, Alive
<1>2. Members(v).begin = Null
  BY <1>1, EmptyIsVector DEF Members
<1>3. mem \in Memories /\ mem.fault = FALSE
  BY DEF Usual, Inv, Typed
<1>4. \A b \in Blocks : mem'.cells[b] = IF b = Members(v).begin THEN <<>> ELSE mem.cells[b]
  BY <1>1, <1>2, CellAssumption
<1>. QED BY <1>1, <1>3, <1>4, HandsOver DEF Usual

LEMMA DestructStep ==
  ASSUME Usual, NEW v \in Objects, Destruct(v)
  PROVE  Inv' /\ Abs!SeqNext
<1> DEFINE q == At(Release(Here(v)), Empty)
<1>1. obj[v] # Gone /\ Completes(v, At(Release(Here(v)), Gone), "destroy")
  BY DEF Destruct, Alive
<1>2. q.m = Release(Here(v)) /\ q.o = Empty
  BY DEF At
<1>3. Leads(At(mem, Members(v)), q, <<>>)
  BY <1>1, CallOnVector, ReleasedHolds
<1> HIDE DEF q
<1>. QED BY <1>1, <1>2, <1>3, Destroys DEF Usual

LEMMA AssignRangeStep ==
  ASSUME Usual, NEW v \in Objects, NEW s \in Seq(Values), AssignRange(v, s)
  PROVE  Inv' /\ Abs!SeqNext
<1> DEFINE r == Here(v)
           u == Sequence(v)
<1>1. obj[v] # Gone /\ s \in Seq(Live) /\ Len(s) \in Nat
  BY SeqMonotonic, LenProperties DEF AssignRange, Alive, Live
<1>2. /\ r = At(mem, Members(v)) /\ r.m = mem /\ r.o = obj[v] /\ Sound(r, u)
      /\ u \in Seq(Values) /\ Len(u) = r.o.end /\ r.o.end \in Nat /\ r.o.cap \in Nat
      /\ r.o.end <= r.o.cap
  BY <1>1, CallOnVector
<1> HIDE DEF r, u
<1>3. CASE r.o.cap < Len(s)
  <2> DEFINE old == ClearForCap(r, Len(s))
             new == AllocateCap(old, Len(s))
  <2>1. old = At(Release(r), Empty)
    BY <1>3 DEF ClearForCap
  <2>2. Leads(r, old, <<>>) /\ old.o = Empty
    BY <1>2, <2>1, ReleasedHolds DEF At
  <2>3. AssignNew(v, s)
    BY <1>2, <1>3 DEF AssignRange
  <2>4. /\ Leads(old, Extended(new, s), s) /\ Leads(old, new, <<>>)
        /\ \A k \in 0 .. Len(s) - 1 :
             RangeConstructFails(new.m, new.o.begin, 0, s, k) = new.m
    <3> HIDE DEF old
    <3> QED BY <1>1, <2>2, FilledHolds DEF Leads
  <2>5. \/ Brings(v, Extended(new, s), "assign", 0, s)
        \/ Throws(v, old, "assign")
        \/ \E k \in 0 .. Len(s) - 1 :
             Throws(v, At(RangeConstructFails(new.m, new.o.begin, 0, s, k), new.o), "assign")
    BY <2>3 DEF AssignNew, r
  <2> HIDE DEF old, new
  <2>6. Leads(r, Extended(new, s), s) /\ Leads(r, new, <<>>)
    BY <2>2, <2>4, LeadsOn
  <2>7. CASE Brings(v, Extended(new, s), "assign", 0, s)
    BY <1>1, <1>2, <2>6, <2>7, Assigns DEF Usual
  <2>8. CASE Throws(v, old, "assign")
    BY <1>1, <1>2, <2>2, <2>8, BreaksOff, EmptySeq DEF Usual
  <2>9. ASSUME NEW k \in 0 .. Len(s) - 1,
               Throws(v, At(RangeConstructFails(new.m, new.o.begin, 0, s, k), new.o), "assign")
        PROVE  Inv' /\ Abs!SeqNext
    <3>1. Throws(v, At(new.m, new.o), "assign")
      BY <2>4, <2>9
    <3>2. Leads(r, At(new.m, new.o), <<>>)
      <4>1. Leads(new, At(new.m, new.o), <<>>)
        BY <2>6, NoStep DEF Leads, At
      <4> QED BY <2>6, <4>1, LeadsOn
    <3> QED BY <1>1, <1>2, <3>1, <3>2, BreaksOff, EmptySeq DEF Usual
  <2> QED BY <2>5, <2>7, <2>8, <2>9
<1>4. CASE ~(r.o.cap < Len(s))
  <2> DEFINE q == IF r.o.end > Len(s) THEN DestroyFrom(r, Len(s)) ELSE r
             w == IF r.o.end > Len(s) THEN SubSeq(u, 1, Len(s)) ELSE u
             n == q.o.end
             A(k) == At(Assign(q.m, q.o.begin, 0, SubSeq(s, 1, k)), q.o)
             rest == SubSeq(s, n + 1, Len(s))
  <2>1. /\ Leads(r, q, w) /\ w \in Seq(Values) /\ q.o.end <= Len(s) /\ Len(s) <= q.o.cap
    <3>1. CASE r.o.end > Len(s)
      <4>1. Len(s) \in 0 .. r.o.end /\ Len(s) \in 0 .. Len(u)
        BY <1>1, <1>2, <3>1
      <4>2. Leads(r, DestroyFrom(r, Len(s)), SubSeq(u, 1, Len(s)))
            /\ DestroyFrom(r, Len(s)).o = [r.o EXCEPT !.end = Len(s)]
        BY <1>2, <4>1, DestroyFromHolds
      <4>3. SubSeq(u, 1, Len(s)) \in Seq(Values)
        BY <1>2, <4>1, Front
      <4>4. [r.o EXCEPT !.end = Len(s)].end = Len(s) /\ [r.o EXCEPT !.end = Len(s)].cap = r.o.cap
        BY <1>2, SoundFacts DEF Known, Vector
      <4>5. q = DestroyFrom(r, Len(s)) /\ w = SubSeq(u, 1, Len(s))
        BY <3>1
      <4> HIDE DEF q, w
      <4>6. q.o.end = Len(s) /\ q.o.cap = r.o.cap
        BY <4>2, <4>4, <4>5
      <4> QED BY <1>1, <1>2, <1>4, <4>2, <4>3, <4>5, <4>6
    <3>2. CASE ~(r.o.end > Len(s))
      BY <1>1, <1>2, <1>4, <3>2, NoStep
    <3> QED BY <3>1, <3>2
  <2>2. AssignInPlace(v, s)
    BY <1>2, <1>4 DEF AssignRange
  <2>3. \/ Brings(v, Extended(A(n), rest), "assign", 0, s)
        \/ \E k \in 0 .. n - 1 : Throws(v, A(k), "assign")
        \/ \E k \in 0 .. Len(s) - n - 1 :
             Throws(v, At(RangeConstructFails(A(n).m, q.o.begin, n, rest, k), q.o), "assign")
    BY <1>2, <2>2 DEF AssignInPlace, r
  <2> HIDE DEF q, w
  <2>4. /\ Leads(q, Extended(A(n), rest), s)
        /\ \A k \in 0 .. n : \E z \in Seq(Values) : Leads(q, A(k), z)
        /\ \A k \in 0 .. Len(s) - n - 1 :
             RangeConstructFails(A(n).m, q.o.begin, n, rest, k) = A(n).m
    BY <2>1, AssignedInPlace DEF Leads
  <2>5. n \in Nat
    BY <2>1, SoundFacts DEF Leads, Known
  <2>6. CASE Brings(v, Extended(A(n), rest), "assign", 0, s)
    <3>1. Leads(r, Extended(A(n), rest), s)
      BY <2>1, <2>4, LeadsOn
    <3> QED BY <1>1, <1>2, <2>6, <3>1, Assigns DEF Usual
  <2>7. ASSUME NEW k \in 0 .. n, Throws(v, A(k), "assign")
        PROVE  Inv' /\ Abs!SeqNext
    <3>1. PICK z \in Seq(Values) : Leads(q, A(k), z)
      BY <2>4
    <3>2. Leads(r, A(k), z)
      BY <2>1, <3>1, LeadsOn
    <3> HIDE DEF A
    <3> QED BY <1>1, <1>2, <2>7, <3>2, BreaksOff DEF Usual
  <2>8. ASSUME NEW k \in 0 .. Len(s) - n - 1,
               Throws(v, At(RangeConstructFails(A(n).m, q.o.begin, n, rest, k), q.o), "assign")
        PROVE  Inv' /\ Abs!SeqNext
    <3>1. At(RangeConstructFails(A(n).m, q.o.begin, n, rest, k), q.o) = A(n)
      BY <2>4 DEF At
    <3>2. n \in 0 .. n
      BY <2>5
    <3> HIDE DEF A, n
    <3> QED BY <2>7, <2>8, <3>1, <3>2
  <2>9. \A k \in 0 .. n - 1 : k \in 0 .. n
    BY <2>5
  <2> HIDE DEF A, n, rest
  <2> QED BY <2>3, <2>6, <2>7, <2>8, <2>9
<1>. QED BY <1>3, <1>4

LEMMA AssignInputStep ==
  ASSUME Usual, NEW v \in Objects, NEW s \in Seq(Values), AssignInput(v, s)
  PROVE  Inv' /\ Abs!SeqNext
<1> DEFINE r == Here(v)
           p == Clear(r)
<1>1. obj[v] # Gone /\ Len(s) \in Nat
  BY LenProperties DEF AssignInput, Alive
<1>2. r = At(mem, Members(v)) /\ Sound(r, Sequence(v))
  BY <1>1, CallOnVector
<1>3. \/ Brings(v, EmplacedAll(p, s), "assign", 0, s)
      \/ \E k \in 0 .. Len(s) - 1 :
           Throws(v, EmplaceBackFails(EmplacedAll(p, SubSeq(s, 1, k))), "assign")
  BY DEF AssignInput
<1> HIDE DEF r
<1>4. Leads(r, p, <<>>)
  BY <1>2, ClearedHolds
<1> HIDE DEF p
<1>5. \A t \in Seq(Values) : Leads(r, EmplacedAll(p, t), t)
  <2> SUFFICES ASSUME NEW t \in Seq(Values) PROVE Leads(r, EmplacedAll(p, t), t)
    OBVIOUS
  <2>1. Leads(p, EmplacedAll(p, t), <<>> \o t)
    BY <1>4, EmplacedAllHolds DEF Leads
  <2>2. <<>> \o t = t
    BY ConcatEmptySeq
  <2> QED BY <1>4, <2>1, <2>2, LeadsOn
<1>6. CASE Brings(v, EmplacedAll(p, s), "assign", 0, s)
  BY <1>1, <1>2, <1>5, <1>6, Assigns DEF Usual
<1>7. ASSUME NEW k \in 0 .. Len(s) - 1,
             Throws(v, EmplaceBackFails(EmplacedAll(p, SubSeq(s, 1, k))), "assign")
      PROVE  Inv' /\ Abs!SeqNext
  <2> DEFINE t == SubSeq(s, 1, k)
             q == EmplacedAll(p, t)
  <2>1. k \in 0 .. Len(s)
    BY <1>1
  <2>2. t \in Seq(Values)
    BY <2>1, Front
  <2> HIDE DEF t
  <2>3. Leads(r, q, t)
    BY <1>5, <2>2
  <2> HIDE DEF q
  <2>4. Leads(q, EmplaceBackFails(q), t)
    BY <2>3, EmplaceBackFailsHolds DEF Leads
  <2>5. Leads(r, EmplaceBackFails(q), t)
    BY <2>3, <2>4, LeadsOn
  <2> QED BY <1>1, <1>2, <1>7, <2>2, <2>5, BreaksOff DEF Usual, q, t
<1>. QED BY <1>3, <1>6, <1>7

LEMMA CopyAssignStep ==
  ASSUME Usual, NEW v \in Objects, NEW w \in Objects, CopyAssign(v, w)
  PROVE  Inv' /\ Abs!SeqNext
<1>1. obj[w] # Gone /\ AssignRange(v, Contents(mem, obj[w]))
  BY DEF CopyAssign, Alive
<1>2. Contents(mem, obj[w]) \in Seq(Values)
  BY <1>1, CallOnVector
<1>. QED BY <1>1, <1>2, AssignRangeStep

LEMMA MoveAssignStep ==
  ASSUME Usual, NEW v \in Objects, NEW w \in Objects, MoveAssign(v, w)
  PROVE  Inv' /\ Abs!SeqNext
<1>1. /\ obj[v] # Gone /\ obj[w] # Gone /\ v # w /\ mem' = Release(Here(v))
      /\ obj' = [obj EXCEPT ![v] = obj[w], ![w] = Empty] /\ call' = Made("take")
  BY DEF MoveAssign, Alive
<1>2. Here(v).m = mem /\ Here(v).o = obj[v] /\ Members(v) = obj[v] /\ Sound(Here(v), Sequence(v))
  BY <1>1, CallOnVector DEF Members
<1>3. /\ mem' \in Memories /\ mem'.fault = FALSE
      /\ \A b \in Blocks : mem'.cells[b] = IF b = Members(v).begin THEN <<>> ELSE mem.cells[b]
  <2> DEFINE r == Here(v)
  <2>1. r.m \in Memories /\ r.m.fault = FALSE /\ Holds(r.m, r.o, Sequence(v))
    BY <1>2 DEF Sound
  <2> HIDE DEF r
  <2>2. /\ Release(r) \in Memories /\ Release(r).fault = r.m.fault
        /\ \A b \in Blocks : Release(r).cells[b] = IF b = r.o.begin THEN <<>> ELSE r.m.cells[b]
    BY <2>1, ReleaseFrees
  <2> QED BY <1>1, <1>2, <2>1, <2>2 DEF r
<1>. QED BY <1>1, <1>3, HandsOver DEF Usual

(* The elements go over to a block of n cells, or stay where they are.     *)
LEMMA ReserveStep ==
  ASSUME Usual, NEW v \in Objects, NEW n \in Nat, Reserve(v, n)
  PROVE  Inv' /\ Abs!SeqNext
<1> DEFINE r == Here(v)
           b == NewBlock(mem)
           q == ReserveTo(At(Allocate(mem, b, n), obj[v]), b, n)
<1>1. obj[v] # Gone
  BY DEF Reserve, Alive
<1>2. /\ r = At(mem, Members(v)) /\ r.m = mem /\ r.o = obj[v] /\ Sound(r, Sequence(v))
      /\ r.o.end \in Nat /\ r.o.cap \in Nat /\ r.o.end <= r.o.cap
  BY <1>1, CallOnVector
<1>3. Leads(r, r, Sequence(v))
  BY <1>2, NoStep
<1>4. CASE Completes(v, r, "keep")
  BY <1>1, <1>2, <1>3, <1>4, Keeps DEF Usual
<1>5. CASE Throws(v, r, "keep")
  <2>1. Throws(v, At(r.m, r.o), "keep") /\ r.o # Gone
    BY <1>1, <1>2, <1>5 DEF At, Here
  <2> HIDE DEF r
  <2> QED BY <1>1, <1>2, <1>3, <2>1, Refuses DEF Usual
<1>6. CASE n > obj[v].cap /\ Completes(v, q, "keep")
  <2>1. n \in Nat \ {0} /\ r.o.end <= n
    BY <1>2, <1>6
  <2>2. Leads(r, q, Sequence(v))
    <3> HIDE DEF r
    <3> QED BY <1>2, <2>1, GrownHolds
  <2> HIDE DEF q, r
  <2> QED BY <1>1, <1>2, <1>6, <2>2, Keeps DEF Usual
<1>. QED BY <1>2, <1>4, <1>5, <1>6 DEF Reserve

LEMMA ShrinkToFitStep ==
  ASSUME Usual, NEW v \in Objects, ShrinkToFit(v)
  PROVE  Inv' /\ Abs!SeqNext
<1> DEFINE r == Here(v)
           b == NewBlock(mem)
           q == ReserveTo(At(Allocate(mem, b, r.o.end), r.o), b, r.o.end)
<1>1. obj[v] # Gone
  BY DEF ShrinkToFit, Alive
<1>2. /\ r = At(mem, Members(v)) /\ r.m = mem /\ r.o = obj[v] /\ Sound(r, Sequence(v))
      /\ Known(r, Sequence(v)) /\ Len(Sequence(v)) = r.o.end
      /\ Sequence(v) \in Seq(Values) /\ mem \in Memories
      /\ r.o.end \in Nat /\ r.o.cap \in Nat /\ r.o.end <= r.o.cap
  BY <1>1, CallOnVector
<1>3. Leads(r, r, Sequence(v))
  BY <1>2, NoStep
<1>4. CASE Completes(v, r, "keep")
  BY <1>1, <1>2, <1>3, <1>4, Keeps DEF Usual
<1>5. CASE Throws(v, r, "keep")
  <2>1. Throws(v, At(r.m, r.o), "keep") /\ r.o # Gone
    BY <1>1, <1>2, <1>5 DEF At, Here
  <2> HIDE DEF r
  <2> QED BY <1>1, <1>2, <1>3, <2>1, Refuses DEF Usual
<1>6. CASE /\ ~Full(r.o) /\ r.o.end = 0
           /\ Completes(v, At(Deallocate(mem, r.o.begin, r.o.cap), Empty), "keep")
  <2>1. r.o.cap > 0 /\ r.o.begin # Null
    BY <1>2, <1>6 DEF Full, Known
  <2>2. Clear(r).m = mem
    <3>1. Destroy(mem, r.o.begin, 0, 0) = mem
      BY <1>2, NothingTouched
    <3> QED BY <1>2, <1>6, <3>1 DEF Clear, At
  <2>3. Release(r) = Deallocate(mem, r.o.begin, r.o.cap)
    BY <2>1, <2>2 DEF Release
  <2>4. Sequence(v) = <<>>
    BY <1>2, <1>6, EmptySeq
  <2>5. Leads(r, At(Release(r), Empty), Sequence(v))
    BY <1>2, <2>4, ReleasedHolds
  <2> QED BY <1>1, <1>2, <1>6, <2>3, <2>5, Keeps DEF Usual
<1>7. CASE r.o.end # 0 /\ Completes(v, q, "keep")
  <2>1. r.o.end \in Nat \ {0} /\ r.o.end <= r.o.end
    BY <1>2, <1>7
  <2>2. Leads(r, q, Sequence(v))
    <3> HIDE DEF r
    <3> QED BY <1>2, <2>1, GrownHolds
  <2> HIDE DEF q, r
  <2> QED BY <1>1, <1>2, <1>7, <2>2, Keeps DEF Usual
<1> DEFINE a == Completes(v, r, "keep")
           c == Completes(v, At(Deallocate(mem, r.o.begin, r.o.cap), Empty), "keep")
           d == Completes(v, q, "keep")
           e == Throws(v, r, "keep")
<1>8. a \/ (~Full(r.o) /\ r.o.end = 0 /\ c) \/ (r.o.end # 0 /\ d) \/ e
  <2>1. r.o = obj[v]
    BY <1>2
  <2> QED BY <2>1 DEF ShrinkToFit
<1>. QED BY <1>4, <1>5, <1>6, <1>7, <1>8

-----------------------------------------------------------------------------
(* Insertion.                                                              *)

(* A client's argument denotes a value.                                    *)
LEMMA ArgumentsDenote ==
  ASSUME Usual, NEW v \in Objects, obj[v] # Gone, NEW a \in Arguments(v)
  PROVE  \E x \in Values : Denotes(mem, a, x)
<1> DEFINE s == Sequence(v)
           o == obj[v]
<1>1. /\ Known(Here(v), s) /\ s \in Seq(Values) /\ Len(s) = o.end /\ Here(v).o = o /\ Here(v).m = mem
      /\ o.end \in Nat /\ o.cap \in Nat /\ o.end <= o.cap
  BY CallOnVector
<1>2. CASE a \in Values
  BY <1>2 DEF Denotes
<1>3. CASE a \notin Values
  <2>1. PICK i \in 0 .. o.end - 1 : a = <<o.begin, i>>
    BY <1>3 DEF Arguments, Ref
  <2>2. i \in Nat /\ i < o.end /\ o.end > 0 /\ i + 1 \in 1 .. o.end /\ i + 1 \in 1 .. o.cap
    BY <1>1
  <2>3. o.begin # Null
    BY <1>1, <2>2 DEF Known
  <2>4. o.begin \in Blocks /\ i < Len(mem.cells[o.begin]) /\ mem.cells[o.begin][i + 1] = s[i + 1]
    BY <1>1, <2>2, <2>3 DEF Known
  <2>5. s[i + 1] \in Values
    BY <1>1, <2>2, ElementOfSeq
  <2>6. a[1] = o.begin /\ a[2] = i
    BY <2>1
  <2> HIDE DEF s, o
  <2>7. Denotes(mem, a, s[i + 1])
    BY <1>3, <2>2, <2>4, <2>5, <2>6 DEF Denotes
  <2> QED BY <2>5, <2>7
<1>. QED BY <1>2, <1>3

LEMMA SpliceAtEnd ==
  ASSUME NEW S, NEW s \in Seq(S), NEW t \in Seq(S)
  PROVE  Splice(s, Len(s), t, Len(s)) = s \o t
<1>1. SubSeq(s, 1, Len(s)) = s
  BY SubSeqFull
<1>2. Len(s) \in Nat
  BY LenProperties
<1>3. SubSeq(s, Len(s) + 1, Len(s)) = <<>>
  BY <1>2, SubSeqEmpty
<1>4. s \o t \in Seq(S)
  BY ConcatProperties
<1>5. Splice(s, Len(s), t, Len(s)) = (s \o t) \o <<>>
  BY <1>1, <1>3 DEF Splice
<1>. QED BY <1>4, <1>5, ConcatEmptySeq

LEMMA EmplaceBackStep ==
  ASSUME Usual, NEW v \in Objects, NEW a \in Arguments(v), EmplaceBack(v, a)
  PROVE  Inv' /\ Abs!SeqNext
<1> DEFINE r == Here(v)
           s == Sequence(v)
<1>1. obj[v] # Gone
  BY DEF EmplaceBack, Alive
<1>2. /\ r = At(mem, Members(v)) /\ r.m = mem /\ r.o = obj[v] /\ Sound(r, s)
      /\ s \in Seq(Values) /\ Len(s) = r.o.end /\ r.o.end \in Nat /\ mem \in Memories
  BY <1>1, CallOnVector
<1>3. PICK x \in Values : Denotes(mem, a, x)
  BY <1>1, ArgumentsDenote
<1>4. \/ Brings(v, EmplacedBack(r, a), "insert", r.o.end, Copies(mem, 1, a))
      \/ Throws(v, r, "insert")
      \/ Throws(v, EmplaceBackFails(r), "insert")
  BY <1>2 DEF EmplaceBack
<1>5. r = At(r.m, r.o)
  BY DEF Here, At
<1> HIDE DEF r, s
<1>6. CASE Brings(v, EmplacedBack(r, a), "insert", r.o.end, Copies(mem, 1, a))
  <2>1. Leads(r, EmplacedBack(r, a), s \o <<x>>)
    BY <1>2, <1>3, EmplacedBackHolds
  <2>2. Copies(mem, 1, a) = <<x>>
    <3>1. Copies(mem, 1, a) = [i \in 1 .. 1 |-> x]
      <4>1. Read(mem, a) = x
        BY <1>2, <1>3, ReadArgument
      <4> QED BY <4>1 DEF Copies
    <3>2. [i \in 1 .. 1 |-> x] = <<x>>
      OBVIOUS
    <3> QED BY <3>1, <3>2
  <2>3. Splice(s, r.o.end, <<x>>, r.o.end) = s \o <<x>>
    <3>1. s \in Seq(Values) /\ <<x>> \in Seq(Values)
      BY <1>2
    <3>2. Splice(s, Len(s), <<x>>, Len(s)) = s \o <<x>>
      BY <3>1, SpliceAtEnd
    <3> QED BY <1>2, <3>2
  <2>4. <<x>> \in Seq(Values) /\ r.o.end \in 0 .. Len(s)
    BY <1>2
  <2> QED BY <1>1, <1>2, <1>6, <2>1, <2>2, <2>3, <2>4, Inserts DEF Usual, s
<1>7. CASE Throws(v, r, "insert")
  <2>1. Leads(r, r, s)
    BY <1>2, NoStep
  <2> QED BY <1>1, <1>2, <1>5, <1>7, <2>1, Refuses DEF Usual, s
<1>8. CASE Throws(v, EmplaceBackFails(r), "insert")
  <2> DEFINE q == EmplaceBackFails(r)
  <2>1. Leads(r, q, s) /\ q.m = r.m /\ q.o = r.o
    BY <1>2, EmplaceBackFailsHolds
  <2>2. Throws(v, At(q.m, q.o), "insert")
    BY <1>8 DEF Throws, Finish, At
  <2> HIDE DEF q
  <2> QED BY <1>1, <1>2, <2>1, <2>2, Refuses DEF Usual, s
<1>. QED BY <1>4, <1>6, <1>7, <1>8

LEMMA NothingInserted ==
  ASSUME NEW S, NEW s \in Seq(S), NEW i \in 0 .. Len(s)
  PROVE  Splice(s, i, <<>>, i) = s
<1>1. Len(s) \in Nat
  BY LenProperties
<1>2. SubSeq(s, 1, i) \in Seq(S)
  BY Front
<1>3. SubSeq(s, 1, i) \o SubSeq(s, i + 1, Len(s)) = s
  <2>1. 1 \in 1 .. Len(s) + 1 /\ i \in 1 - 1 .. Len(s) /\ Len(s) \in i .. Len(s)
    BY <1>1
  <2>2. SubSeq(s, 1, i) \o SubSeq(s, i + 1, Len(s)) = SubSeq(s, 1, Len(s))
    BY <2>1, ConcatAdjacentSubSeq
  <2> QED BY <2>2, SubSeqFull
<1>4. SubSeq(s, 1, i) \o <<>> = SubSeq(s, 1, i)
  BY <1>2, ConcatEmptySeq
<1>. QED BY <1>3, <1>4 DEF Splice

LEMMA InsertAtStep ==
  ASSUME Usual, NEW v \in Objects, NEW pos \in Nat, NEW t \in Seq(Values), InsertAt(v, pos, t)
  PROVE  Inv' /\ Abs!SeqNext
<1> DEFINE r == Here(v)
           s == Sequence(v)
<1>1. obj[v] # Gone /\ t \in Seq(Live)
  BY SeqMonotonic DEF InsertAt, Alive, Live
<1>2. /\ r = At(mem, Members(v)) /\ r.m = mem /\ r.o = obj[v] /\ Sound(r, s)
      /\ s \in Seq(Values) /\ Len(s) = r.o.end /\ r.o.end \in Nat
  BY <1>1, CallOnVector
<1>3. pos \in 0 .. r.o.end /\ pos \in 0 .. Len(s)
  BY <1>2 DEF InsertAt
<1>4. IF t = <<>> THEN Brings(v, r, "insert", pos, t)
      ELSE \/ Brings(v, Inserted(r, pos, t), "insert", pos, t)
           \/ Throws(v, r, "insert")
           \/ \E k \in 0 .. Len(t) - 1 : Throws(v, InsertFails(r, pos, t, k), "insert")
  BY DEF InsertAt
<1>5. r = At(r.m, r.o)
  BY DEF Here, At
<1> HIDE DEF r, s
<1>6. CASE t = <<>> /\ Brings(v, r, "insert", pos, t)
  <2>1. Splice(s, pos, t, pos) = s
    BY <1>2, <1>3, <1>6, NothingInserted
  <2>2. Leads(r, r, s)
    BY <1>2, NoStep
  <2> QED BY <1>1, <1>2, <1>3, <1>6, <2>1, <2>2, Inserts DEF Usual, s
<1>7. CASE t # <<>> /\ Brings(v, Inserted(r, pos, t), "insert", pos, t)
  <2>1. Leads(r, Inserted(r, pos, t), Splice(s, pos, t, pos))
    BY <1>1, <1>2, <1>3, <1>7, InsertedHolds
  <2> QED BY <1>1, <1>2, <1>3, <1>7, <2>1, Inserts DEF Usual, s
<1>8. CASE Throws(v, r, "insert")
  <2>1. Leads(r, r, s)
    BY <1>2, NoStep
  <2> QED BY <1>1, <1>2, <1>5, <1>8, <2>1, Refuses DEF Usual, s
<1>9. ASSUME NEW k \in 0 .. Len(t) - 1, Throws(v, InsertFails(r, pos, t, k), "insert")
      PROVE  Inv' /\ Abs!SeqNext
  <2> DEFINE q == InsertFails(r, pos, t, k)
  <2>1. Leads(r, q, s)
    BY <1>1, <1>2, <1>3, InsertFailsHolds
  <2>2. Throws(v, At(q.m, q.o), "insert")
    BY <1>9 DEF Throws, Finish, At
  <2> HIDE DEF q
  <2> QED BY <1>1, <1>2, <2>1, <2>2, Refuses DEF Usual, s
<1>. QED BY <1>4, <1>6, <1>7, <1>8, <1>9

LEMMA InsertNStep ==
  ASSUME Usual, NEW v \in Objects, obj[v] # Gone, NEW pos \in Nat, NEW n \in Nat,
         NEW a \in Arguments(v), InsertN(v, pos, n, a)
  PROVE  Inv' /\ Abs!SeqNext
<1>1. PICK x \in Values : Denotes(mem, a, x)
  BY ArgumentsDenote
<1>2. mem \in Memories
  BY DEF Usual, Inv, Typed
<1>3. Copies(mem, n, a) \in Seq(Values)
  BY <1>1, <1>2, CopiesOfArgument
<1>. QED BY <1>3, InsertAtStep DEF InsertN

LEMMA InsertInputStep ==
  ASSUME Usual, NEW v \in Objects, NEW pos \in Nat, NEW t \in Seq(Values),
         InsertInput(v, pos, t)
  PROVE  Inv' /\ Abs!SeqNext
<1> DEFINE r == Here(v)
           s == Sequence(v)
           Added(k) == EmplacedAll(r, SubSeq(t, 1, k))
<1>1. obj[v] # Gone /\ t \in Seq(Live) /\ Len(t) \in Nat
  BY SeqMonotonic, LenProperties DEF InsertInput, Alive, Live
<1>2. /\ r = At(mem, Members(v)) /\ r.m = mem /\ r.o = obj[v] /\ Sound(r, s)
      /\ s \in Seq(Values) /\ s \in Seq(Live) /\ Len(s) = r.o.end /\ r.o.end \in Nat
  BY <1>1, CallOnVector
<1>3. pos \in 0 .. Len(s)
  BY <1>2 DEF InsertInput
<1>4. \/ Brings(v, Rotate(Added(Len(t)), pos, Len(s)), "insert", pos, t)
      \/ \E k \in 0 .. Len(t) - 1 :
           Throws(v, DestroyFrom(EmplaceBackFails(Added(k)), Len(s)), "insert")
  BY <1>2 DEF InsertInput
<1> HIDE DEF r, s
<1>5. \A k \in 0 .. Len(t) :
        Leads(r, Added(k), s \o SubSeq(t, 1, k)) /\ SubSeq(t, 1, k) \in Seq(Live)
  <2> SUFFICES ASSUME NEW k \in 0 .. Len(t)
               PROVE  /\ Leads(r, Added(k), s \o SubSeq(t, 1, k))
                      /\ SubSeq(t, 1, k) \in Seq(Live)
    OBVIOUS
  <2> DEFINE u == SubSeq(t, 1, k)
  <2>1. u \in Seq(Values)
    BY Front
  <2>2. u \in Seq(Live)
    BY Front, <1>1
  <2> HIDE DEF u
  <2>3. Leads(r, EmplacedAll(r, u), s \o u)
    BY <1>2, <2>1, EmplacedAllHolds
  <2> QED BY <2>2, <2>3 DEF u
<1>6. CASE Brings(v, Rotate(Added(Len(t)), pos, Len(s)), "insert", pos, t)
  <2> DEFINE p == Added(Len(t))
  <2>1. Leads(r, p, s \o t)
    <3>1. Len(t) \in 0 .. Len(t)
      BY <1>1
    <3>2. SubSeq(t, 1, Len(t)) = t
      BY SubSeqFull
    <3>3. Leads(r, p, s \o SubSeq(t, 1, Len(t)))
      BY <1>5, <3>1
    <3> HIDE DEF p
    <3> QED BY <3>2, <3>3
  <2> HIDE DEF p
  <2>2. Leads(p, Rotate(p, pos, Len(s)), Splice(s, pos, t, pos))
    BY <1>1, <1>2, <1>3, <2>1, RotateHolds DEF Leads
  <2>3. Leads(r, Rotate(p, pos, Len(s)), Splice(s, pos, t, pos))
    BY <2>1, <2>2, LeadsOn
  <2>4. Brings(v, Rotate(p, pos, Len(s)), "insert", pos, t)
    BY <1>6 DEF p
  <2> QED BY <1>1, <1>2, <1>3, <2>3, <2>4, Inserts DEF Usual, s
<1>7. ASSUME NEW k \in 0 .. Len(t) - 1,
             Throws(v, DestroyFrom(EmplaceBackFails(Added(k)), Len(s)), "insert")
      PROVE  Inv' /\ Abs!SeqNext
  <2> DEFINE u == SubSeq(t, 1, k)
             p == Added(k)
             q == EmplaceBackFails(p)
             z == DestroyFrom(q, Len(s))
  <2>1. k \in 0 .. Len(t)
    BY <1>1
  <2>2. Leads(r, p, s \o u) /\ u \in Seq(Live)
    BY <1>5, <2>1
  <2> HIDE DEF p, u
  <2>3. Leads(p, q, s \o u)
    BY <2>2, EmplaceBackFailsHolds DEF Leads
  <2>4. Leads(r, q, s \o u)
    BY <2>2, <2>3, LeadsOn
  <2> HIDE DEF q
  <2>5. Len(s) \in 0 .. q.o.end
    <3>1. Len(s \o u) = Len(s) + Len(u) /\ Len(u) \in Nat /\ Len(s) \in Nat
      BY <1>2, <2>2, ConcatProperties, LenProperties
    <3>2. q.o.end = Len(s \o u)
      BY <2>4 DEF Leads, Sound, Holds
    <3> QED BY <3>1, <3>2
  <2>6. Leads(q, z, SubSeq(s \o u, 1, Len(s)))
    BY <2>4, <2>5, DestroyFromHolds DEF Leads
  <2>7. SubSeq(s \o u, 1, Len(s)) = s
    <3>1. Len(s) \in 0 .. Len(s) /\ 1 \in 1 .. Len(s) + 1 /\ Len(s) \in Nat
      BY <1>2
    <3>2. SubSeq(s \o u, 1, Len(s)) = SubSeq(s, 1, Len(s))
      BY <1>2, <2>2, <3>1, SubSeqOfConcat1
    <3> QED BY <1>2, <3>2, SubSeqFull
  <2>8. Throws(v, z, "insert")
    BY <1>7 DEF p, q
  <2> HIDE DEF z
  <2>9. Leads(r, z, s)
    <3>1. Leads(q, z, s)
      BY <2>6, <2>7
    <3> QED BY ONLY <2>4, <3>1, LeadsOn
  <2>10. Throws(v, At(z.m, z.o), "insert")
    BY <2>8 DEF Throws, Finish, At
  <2> QED BY <1>1, <1>2, <2>9, <2>10, Refuses DEF Usual, s
<1>. QED BY <1>4, <1>6, <1>7

(* What resize cuts off is the end.                                        *)
LEMMA FrontRemains ==
  ASSUME NEW S, NEW s \in Seq(S), NEW i \in 0 .. Len(s)
  PROVE  SubSeq(s, 1, i) \o SubSeq(s, Len(s) + 1, Len(s)) = SubSeq(s, 1, i)
<1>1. Len(s) \in Nat
  BY LenProperties
<1>2. SubSeq(s, Len(s) + 1, Len(s)) = <<>>
  BY <1>1, SubSeqEmpty
<1>3. SubSeq(s, 1, i) \in Seq(S)
  BY Front
<1>. QED BY <1>2, <1>3, ConcatEmptySeq

LEMMA ShortenedStep ==
  ASSUME Usual, NEW v \in Objects, obj[v] # Gone, NEW n \in 0 .. obj[v].end,
         Cuts(v, DestroyFrom(Here(v), n), n, obj[v].end)
  PROVE  Inv' /\ Abs!SeqNext
<1> DEFINE r == Here(v)
           s == Sequence(v)
<1>1. /\ r = At(mem, Members(v)) /\ r.m = mem /\ r.o = obj[v] /\ Sound(r, s)
      /\ s \in Seq(Values) /\ Len(s) = r.o.end /\ r.o.end \in Nat
  BY CallOnVector
<1>2. Cuts(v, DestroyFrom(r, n), n, r.o.end) /\ n \in 0 .. r.o.end
  BY <1>1
<1> HIDE DEF r, s
<1>3. Leads(r, DestroyFrom(r, n), SubSeq(s, 1, n))
  BY <1>1, <1>2, DestroyFromHolds
<1>4. SubSeq(s, 1, n) \o SubSeq(s, r.o.end + 1, Len(s)) = SubSeq(s, 1, n)
  BY <1>1, <1>2, FrontRemains
<1>5. n \in Nat /\ n <= r.o.end /\ r.o.end <= Len(s)
  BY <1>1, <1>2
<1>. QED BY <1>1, <1>2, <1>3, <1>4, <1>5, CutsOut DEF Usual, s

LEMMA ResizeStep ==
  ASSUME Usual, NEW v \in Objects, NEW n \in Nat, NEW a \in Arguments(v), Resize(v, n, a)
  PROVE  Inv' /\ Abs!SeqNext
<1> DEFINE o == obj[v]
           h == Here(v)
           s == Sequence(v)
           b == NewBlock(mem)
           r == IF n > o.cap THEN ReserveTo(At(Allocate(mem, b, n), o), b, n) ELSE h
           d == n - o.end
           t == Copies(mem, d, a)
           w == Copies(r.m, d, a)
<1>1. obj[v] # Gone
  BY DEF Resize, Alive
<1>2. /\ h = At(mem, Members(v)) /\ h.m = mem /\ h.o = o /\ Sound(h, s)
      /\ s \in Seq(Values) /\ Len(s) = o.end /\ o.end \in Nat /\ o.cap \in Nat
      /\ o.end <= o.cap /\ mem \in Memories
  BY <1>1, CallOnVector
<1>3. CASE o.end >= n
  <2>1. n \in 0 .. obj[v].end
    BY <1>2, <1>3
  <2>2. Cuts(v, DestroyFrom(Here(v), n), n, obj[v].end)
    BY <1>3 DEF Resize
  <2> QED BY <1>1, <2>1, <2>2, ShortenedStep
<1>4. CASE ~(o.end >= n)
  <2>1. PICK x \in Values : Denotes(mem, a, x)
    BY <1>1, ArgumentsDenote
  <2>2. a \in Values \/ n <= o.cap
    BY DEF Resize, Usual, Excluded
  <2>3. \/ Brings(v, ExtendedBy(r, d, a), "insert", o.end, t)
        \/ Throws(v, h, "insert")
        \/ \E k \in 0 .. d - 1 :
             Throws(v, At(RangeConstructFails(r.m, r.o.begin, o.end, w, k), r.o), "insert")
    BY <1>4 DEF Resize
  <2>4. h = At(h.m, h.o)
    BY DEF Here, At
  <2>5. n \in Nat \ {0} /\ o.end <= n /\ d \in Nat /\ o.end + d = n
    BY <1>2, <1>4
  <2>6. /\ Leads(h, r, s) /\ r.o.end = o.end /\ n <= r.o.cap /\ Denotes(r.m, a, x)
    <3>1. CASE n > o.cap
      <4> DEFINE q == ReserveTo(At(Allocate(h.m, b, n), h.o), b, n)
      <4>1. r = q
        BY <1>2, <3>1
      <4>2. Leads(h, q, s) /\ q.o = [begin |-> b, end |-> o.end, cap |-> n]
        <5> HIDE DEF h
        <5>1. h.o.end <= n
          BY <1>2, <2>5
        <5> QED BY <1>2, <2>5, <5>1, GrownHolds
      <4>3. a \in Values
        BY <1>2, <2>2, <3>1
      <4>4. Denotes(r.m, a, x)
        BY <2>1, <4>3 DEF Denotes
      <4> HIDE DEF q, r
      <4> QED BY <2>5, <4>1, <4>2, <4>4
    <3>2. CASE ~(n > o.cap)
      <4>1. r = h
        BY <3>2
      <4>2. Leads(h, h, s)
        BY <1>2, NoStep
      <4>3. n <= o.cap
        BY <1>2, <3>2
      <4> HIDE DEF r, h
      <4> QED BY <1>2, <2>1, <4>1, <4>2, <4>3
    <3> QED BY <3>1, <3>2
  <2> HIDE DEF r, h, s
  <2>9. Sound(r, s) /\ r.m \in Memories /\ x \in Values /\ d \in Nat
    BY <2>1, <2>5, <2>6 DEF Leads, Sound
  <2> HIDE DEF d
  <2>7. t = [i \in 1 .. d |-> x] /\ w = [i \in 1 .. d |-> x]
    <3>1. Read(mem, a) = x
      BY <1>2, <2>1, ReadArgument
    <3>2. Read(r.m, a) = x
      BY <2>6, <2>9, ReadArgument
    <3> QED BY <3>1, <3>2 DEF Copies
  <2> HIDE DEF t, w
  <2>8. t \in Seq(Values) /\ w \in Seq(Values) /\ Len(w) = d
    <3>1. t \in [1 .. d -> Values] /\ w \in [1 .. d -> Values]
      BY <2>7, <2>9
    <3> QED BY <2>9, <3>1, FunctionIsSeq
  <2>10. CASE Brings(v, ExtendedBy(r, d, a), "insert", o.end, t)
    <3>1. r.o.end + d <= r.o.cap
      BY <2>5, <2>6
    <3>2. Leads(r, ExtendedBy(r, d, a), s \o t)
      <4>1. Leads(r, ExtendedBy(r, d, a), s \o [i \in 1 .. d |-> x])
        <5>1. Denotes(r.m, a, x)
          BY <2>6
        <5> QED BY ONLY <2>9, <3>1, <5>1, ExtendedByHolds, ZenonT(30)
      <4> QED BY <2>7, <4>1
    <3>3. Leads(h, ExtendedBy(r, d, a), s \o t)
      BY <2>6, <3>2, LeadsOn
    <3>4. Splice(s, o.end, t, o.end) = s \o t
      <4>1. Splice(s, Len(s), t, Len(s)) = s \o t
        BY <1>2, <2>8, SpliceAtEnd
      <4> QED BY <1>2, <4>1
    <3>5. o.end \in 0 .. Len(s)
      BY <1>2
    <3> QED BY <1>1, <1>2, <2>8, <2>10, <3>3, <3>4, <3>5, Inserts DEF Usual, s
  <2>11. CASE Throws(v, h, "insert")
    <3>1. Leads(h, h, s)
      BY <1>2, NoStep
    <3> QED BY <1>1, <1>2, <2>4, <2>11, <3>1, Refuses DEF Usual, s
  <2>12. ASSUME NEW k \in 0 .. d - 1,
                Throws(v, At(RangeConstructFails(r.m, r.o.begin, o.end, w, k), r.o), "insert")
         PROVE  Inv' /\ Abs!SeqNext
    <3>1. w \in Seq(Live) /\ k \in 0 .. Len(w) - 1 /\ r.o.end + Len(w) <= r.o.cap
      <4>1. w \in Seq(Live)
        BY <2>8, SeqMonotonic DEF Live
      <4> QED BY <2>5, <2>6, <2>8, <4>1
    <3>2. RangeConstructFails(r.m, r.o.begin, o.end, w, k) = r.m
      BY <2>6, <2>9, <3>1, FillFails
    <3>3. Throws(v, At(r.m, r.o), "insert")
      BY <2>12, <3>2
    <3> QED BY <1>1, <1>2, <2>6, <3>3, Refuses DEF Usual, s
  <2> QED BY <2>3, <2>10, <2>11, <2>12
<1>. QED BY <1>3, <1>4

-----------------------------------------------------------------------------
(* Removal.                                                                *)

LEMMA ClearAllStep ==
  ASSUME Usual, NEW v \in Objects, ClearAll(v)
  PROVE  Inv' /\ Abs!SeqNext
<1> DEFINE r == Here(v)
           s == Sequence(v)
<1>1. obj[v] # Gone /\ Cuts(v, Clear(r), 0, obj[v].end)
  BY DEF ClearAll, Alive
<1>2. /\ r = At(mem, Members(v)) /\ r.o = obj[v] /\ Sound(r, s)
      /\ s \in Seq(Values) /\ Len(s) = obj[v].end /\ obj[v].end \in Nat
  BY <1>1, CallOnVector
<1> HIDE DEF r, s
<1>3. Leads(r, Clear(r), <<>>)
  BY <1>2, ClearedHolds
<1>4. SubSeq(s, 1, 0) \o SubSeq(s, obj[v].end + 1, Len(s)) = <<>>
  <2>1. 0 \in 0 .. Len(s)
    BY <1>2
  <2>2. SubSeq(s, 1, 0) \o SubSeq(s, obj[v].end + 1, Len(s)) = SubSeq(s, 1, 0)
    BY <1>2, <2>1, FrontRemains
  <2>3. SubSeq(s, 1, 0) = <<>>
    BY SubSeqEmpty
  <2> QED BY <2>2, <2>3
<1>5. 0 \in Nat /\ 0 <= obj[v].end /\ obj[v].end <= Len(s)
  BY <1>2
<1>. QED BY <1>1, <1>2, <1>3, <1>4, <1>5, CutsOut DEF Usual, s

LEMMA PopBackStep ==
  ASSUME Usual, NEW v \in Objects, PopBack(v)
  PROVE  Inv' /\ Abs!SeqNext
<1> DEFINE n == obj[v].end - 1
<1>1. obj[v] # Gone /\ obj[v].end > 0 /\ Cuts(v, DestroyFrom(Here(v), n), n, obj[v].end)
  BY DEF PopBack, Alive
<1>2. n \in 0 .. obj[v].end
  BY <1>1, CallOnVector
<1> HIDE DEF n
<1>. QED BY <1>1, <1>2, ShortenedStep

LEMMA EraseStep ==
  ASSUME Usual, NEW v \in Objects, NEW first \in Nat, NEW last \in Nat, Erase(v, first, last)
  PROVE  Inv' /\ Abs!SeqNext
<1> DEFINE r == Here(v)
           s == Sequence(v)
           t == Slice(mem, obj[v].begin, last, obj[v].end)
           q == IF first = last THEN r ELSE CloseUp(r, first, t)
           z == SubSeq(s, 1, first) \o SubSeq(s, last + 1, Len(s))
<1>1. obj[v] # Gone /\ first <= last /\ last <= obj[v].end /\ Cuts(v, q, first, last)
  BY DEF Erase, Alive
<1>2. /\ r = At(mem, Members(v)) /\ r.m = mem /\ r.o = obj[v] /\ Sound(r, s)
      /\ s \in Seq(Values) /\ s \in Seq(Live) /\ Len(s) = r.o.end /\ r.o.end \in Nat
  BY <1>1, CallOnVector
<1> HIDE DEF r, s
<1>3. Leads(r, q, z)
  <2>1. CASE first = last
    <3>1. z = s
      <4>1. 1 \in 1 .. Len(s) + 1 /\ first \in 1 - 1 .. Len(s) /\ Len(s) \in first .. Len(s)
        BY <1>1, <1>2
      <4>2. SubSeq(s, 1, first) \o SubSeq(s, first + 1, Len(s)) = SubSeq(s, 1, Len(s))
        BY <1>2, <4>1, ConcatAdjacentSubSeq
      <4>3. SubSeq(s, 1, Len(s)) = s
        BY <1>2, SubSeqFull
      <4> QED BY <2>1, <4>2, <4>3
    <3>2. q = r
      BY <2>1
    <3> HIDE DEF q, z
    <3> QED BY <1>2, <3>1, <3>2, NoStep
  <2>2. CASE first # last
    <3>1. q = CloseUp(r, first, t)
      BY <2>2
    <3>2. t = SubSeq(s, last + 1, Len(s))
      <4>1. last <= r.o.end /\ r.o.end <= r.o.end
        BY <1>1, <1>2
      <4>2. Slice(r.m, r.o.begin, last, r.o.end) = SubSeq(s, last + 1, r.o.end)
        <5> HIDE DEF t, q, z
        <5>1. Sound(r, s) /\ r.o.end \in Nat
          BY <1>2
        <5> QED BY <4>1, <5>1, SliceIsPart, ZenonT(30)
      <4> QED BY <1>2, <4>2
    <3>3. t \in Seq(Live) /\ Len(t) = Len(s) - last
      <4>1. last <= Len(s) /\ Len(s) <= Len(s) /\ Len(s) \in Nat
        BY <1>1, <1>2
      <4> HIDE DEF t
      <4> QED BY <1>2, <3>2, <4>1, Part
    <3>4. first + Len(t) <= r.o.end
      <4> HIDE DEF t
      <4> QED BY <1>1, <1>2, <3>3
    <3> HIDE DEF t, q
    <3>5. Leads(r, CloseUp(r, first, t), SubSeq(s, 1, first) \o t)
      BY <1>2, <3>3, <3>4, CloseUpHolds
    <3> QED BY <3>1, <3>2, <3>5
  <2> QED BY <2>1, <2>2
<1>4. last <= Len(s)
  BY <1>1, <1>2
<1> HIDE DEF q
<1>. QED BY <1>1, <1>2, <1>3, <1>4, CutsOut DEF Usual, s

LEMMA RemoveStep ==
  ASSUME Usual, NEW v \in Objects, NEW x \in Values, Remove(v, x)
  PROVE  Inv' /\ Abs!SeqNext
<1> DEFINE r == Here(v)
           s == Sequence(v)
           kept == Without(s, x)
<1>1. obj[v] # Gone
  BY DEF Remove, Alive
<1>2. /\ r = At(mem, Members(v)) /\ r.o = obj[v] /\ Sound(r, s)
      /\ s \in Seq(Values) /\ s \in Seq(Live) /\ Len(s) = r.o.end /\ r.o.end \in Nat
      /\ Contents(mem, obj[v]) = s
  BY <1>1, CallOnVector
<1>3. Brings(v, CloseUp(r, 0, kept), "remove", 0, <<x>>)
  BY <1>2 DEF Remove
<1> HIDE DEF r, s
<1>4. kept \in Seq(Live) /\ Len(kept) <= Len(s)
  BY <1>2, WithoutIsPart
<1> HIDE DEF kept
<1>5. 0 \in Nat /\ 0 + Len(kept) <= r.o.end
  BY <1>2, <1>4, LenProperties
<1>6. Leads(r, CloseUp(r, 0, kept), SubSeq(s, 1, 0) \o kept)
  BY <1>2, <1>4, <1>5, CloseUpHolds
<1>7. SubSeq(s, 1, 0) \o kept = kept
  <2>1. SubSeq(s, 1, 0) = <<>>
    BY SubSeqEmpty
  <2> QED BY <1>4, <2>1, ConcatEmptySeq
<1>. QED BY <1>1, <1>2, <1>3, <1>6, <1>7, Removes DEF Usual, s, kept

-----------------------------------------------------------------------------
(* The behaviours.                                                         *)

LEMMA InitHolds ==
  ASSUME Init
  PROVE  Inv /\ Abs!SeqInit
<1>1. /\ mem \in Memories /\ mem.fault = FALSE
      /\ \A b \in Blocks : mem.cells[b] = <<>>
  BY EmptySeq DEF Init, NoMemory, Memories
<1>2. \A v \in Objects : obj[v] = Gone /\ Members(v) = Empty /\ Members(v).begin = Null
  BY DEF Init, Members, Empty
<1>3. \A v \in Objects : Sequence(v) = <<>> /\ Holds(mem, Members(v), Sequence(v))
  BY <1>1, <1>2, EmptyShowsNothing DEF Sequence
<1>4. CallOK
  BY EmptySeq DEF Init, CallOK, Calls, Made
<1>5. Typed
  BY <1>1, <1>4 DEF Typed, Init
<1>6. Inv
  BY <1>1, <1>2, <1>3, <1>5, EmptySeq DEF Inv, InOrder, Apart, Owned
<1>7. shows = [v \in Objects |-> Gone]
  BY <1>2 DEF shows
<1>8. call.what = "keep" /\ ~call.threw
  BY DEF Init, Made
<1>. QED BY <1>6, <1>7, <1>8 DEF Abs!SeqInit

LEMMA LifetimeStep ==
  ASSUME Usual, NEW v \in Objects, Lifetime(v)
  PROVE  Inv' /\ Abs!SeqNext
<1>1. CASE DefaultConstruct(v)
  BY <1>1, DefaultConstructStep
<1>2. CASE Destruct(v)
  BY <1>2, DestructStep
<1>3. ASSUME NEW s \in Ranges, ConstructRange(v, s) \/ ConstructInput(v, s)
      PROVE  Inv' /\ Abs!SeqNext
  <2>1. s \in Seq(Values)
    BY RangesAreSequences
  <2> QED BY <1>3, <2>1, ConstructRangeStep, ConstructInputStep
<1>4. ASSUME NEW w \in Objects, CopyConstruct(v, w) \/ MoveConstruct(v, w)
      PROVE  Inv' /\ Abs!SeqNext
  BY <1>4, CopyConstructStep, MoveConstructStep
<1>. QED BY <1>1, <1>2, <1>3, <1>4 DEF Lifetime

LEMMA AssignmentStep ==
  ASSUME Usual, NEW v \in Objects, Assignment(v)
  PROVE  Inv' /\ Abs!SeqNext
<1>1. ASSUME NEW s \in Ranges, AssignRange(v, s) \/ AssignInput(v, s)
      PROVE  Inv' /\ Abs!SeqNext
  <2>1. s \in Seq(Values)
    BY RangesAreSequences
  <2> QED BY <1>1, <2>1, AssignRangeStep, AssignInputStep
<1>2. ASSUME NEW w \in Objects, CopyAssign(v, w) \/ MoveAssign(v, w)
      PROVE  Inv' /\ Abs!SeqNext
  BY <1>2, CopyAssignStep, MoveAssignStep
<1>3. ASSUME NEW w \in Objects, Swap(v, w)
      PROVE  Inv' /\ Abs!SeqNext
  BY <1>3, SwapStep DEF Usual
<1>. QED BY <1>1, <1>2, <1>3 DEF Assignment

(* The positions and counts of a call are natural numbers.                 *)
LEMMA Counts ==
  ASSUME Usual, NEW v \in Objects, obj[v] # Gone
  PROVE  0 .. obj[v].end \subseteq Nat /\ 0 .. MaxRange \subseteq Nat /\ 0 .. MaxCapacity \subseteq Nat
<1>1. obj[v].end \in Nat
  BY CallOnVector
<1>. QED BY <1>1, ContainerAssumption

LEMMA InsertionStep ==
  ASSUME Usual, NEW v \in Objects, Insertion(v)
  PROVE  Inv' /\ Abs!SeqNext
<1>1. obj[v] # Gone
  BY DEF Insertion
<1>2. PICK a \in Arguments(v) :
        \/ EmplaceBack(v, a)
        \/ \E pos \in 0 .. obj[v].end, n \in 0 .. MaxRange : InsertN(v, pos, n, a)
        \/ \E n \in 0 .. MaxCapacity : Resize(v, n, a)
  BY DEF Insertion
<1>3. CASE EmplaceBack(v, a)
  BY <1>3, EmplaceBackStep
<1>4. ASSUME NEW pos \in 0 .. obj[v].end, NEW n \in 0 .. MaxRange, InsertN(v, pos, n, a)
      PROVE  Inv' /\ Abs!SeqNext
  <2>1. pos \in Nat /\ n \in Nat
    BY <1>1, Counts
  <2> QED BY <1>1, <1>4, <2>1, InsertNStep
<1>5. ASSUME NEW n \in 0 .. MaxCapacity, Resize(v, n, a)
      PROVE  Inv' /\ Abs!SeqNext
  <2>1. n \in Nat
    BY <1>1, Counts
  <2> QED BY <1>5, <2>1, ResizeStep
<1>. QED BY <1>2, <1>3, <1>4, <1>5

LEMMA RangeInsertionStep ==
  ASSUME Usual, NEW v \in Objects, RangeInsertion(v)
  PROVE  Inv' /\ Abs!SeqNext
<1>1. PICK s \in Ranges, pos \in 0 .. obj[v].end : InsertAt(v, pos, s) \/ InsertInput(v, pos, s)
  BY DEF RangeInsertion
<1>2. s \in Seq(Values) /\ pos \in Nat
  BY RangesAreSequences, Counts DEF RangeInsertion
<1>. QED BY <1>1, <1>2, InsertAtStep, InsertInputStep

LEMMA CapacityStep ==
  ASSUME Usual, NEW v \in Objects, Capacity(v)
  PROVE  Inv' /\ Abs!SeqNext
<1>1. ASSUME NEW n \in 0 .. MaxCapacity, Reserve(v, n)
      PROVE  Inv' /\ Abs!SeqNext
  <2>1. n \in Nat
    BY ContainerAssumption
  <2> QED BY <1>1, <2>1, ReserveStep
<1>2. CASE ShrinkToFit(v)
  BY <1>2, ShrinkToFitStep
<1>. QED BY <1>1, <1>2 DEF Capacity

LEMMA RemovalStep ==
  ASSUME Usual, NEW v \in Objects, Removal(v)
  PROVE  Inv' /\ Abs!SeqNext
<1>1. CASE ClearAll(v)
  BY <1>1, ClearAllStep
<1>2. CASE PopBack(v)
  BY <1>2, PopBackStep
<1>3. ASSUME NEW first \in 0 .. obj[v].end, NEW last \in 0 .. obj[v].end, Erase(v, first, last)
      PROVE  Inv' /\ Abs!SeqNext
  <2>1. first \in Nat /\ last \in Nat
    BY Counts DEF Removal
  <2> QED BY <1>3, <2>1, EraseStep
<1>4. ASSUME NEW x \in Values, Remove(v, x)
      PROVE  Inv' /\ Abs!SeqNext
  BY <1>4, RemoveStep
<1>. QED BY <1>1, <1>2, <1>3, <1>4 DEF Removal

LEMMA NextStep ==
  ASSUME Usual, [Next]_vars
  PROVE  Inv' /\ [Abs!SeqNext]_(Abs!seqVars)
<1>1. CASE Next
  <2>1. PICK v \in Objects :
          \/ Lifetime(v) \/ Assignment(v) \/ Insertion(v)
          \/ RangeInsertion(v) \/ Capacity(v) \/ Removal(v)
    BY <1>1 DEF Next
  <2>2. Inv' /\ Abs!SeqNext
    BY <2>1, LifetimeStep, AssignmentStep, InsertionStep, RangeInsertionStep, CapacityStep, RemovalStep
  <2> QED BY <2>2
<1>2. CASE UNCHANGED vars
  BY <1>2 DEF vars, Usual, Inv, Typed, InOrder, Apart, Owned, CallOK, Members, Sequence,
              Abs!seqVars, shows
<1>. QED BY <1>1, <1>2

-----------------------------------------------------------------------------
(* What the invariant says of the memory.                                  *)
AllInPlace   == \A v \in Objects : obj[v] # Gone => InPlace(v)
Held(v)      == IF obj[v] = Gone THEN {} ELSE Storage(v)
StorageOwned ==
  /\ Allocated(mem) = UNION {Held(v) : v \in Objects}
  /\ \A v, w \in Objects : v # w => Held(v) \cap Held(w) = {}

LEMMA HeldBlock ==
  ASSUME Inv, NEW v \in Objects
  PROVE  Held(v) = {Members(v).begin} \ {Null}
<1>1. CASE obj[v] = Gone
  BY <1>1, EmptyIsVector DEF Held, Members
<1>2. CASE obj[v] # Gone
  BY <1>2 DEF Held, Members, Storage
<1>. QED BY <1>1, <1>2

LEMMA InvPlaces ==
  ASSUME Inv
  PROVE  AllInPlace
<1> SUFFICES ASSUME NEW v \in Objects, obj[v] # Gone
             PROVE  InPlace(v)
  BY DEF AllInPlace
<1> DEFINE s == Sequence(v)
           o == obj[v]
<1>1. Holds(mem, o, s) /\ s \in Seq(Values) /\ o \in Vector
  BY MembersOf
<1> HIDE DEF s
<1>2. CASE o.begin = Null
  BY <1>1, <1>2 DEF Holds, InPlace
<1>3. CASE o.begin # Null
  <2>1. /\ o.begin \in Blocks /\ o.cap > 0 /\ o.cap \in Nat /\ o.end \in Nat
        /\ o.end = Len(s) /\ o.end <= o.cap
        /\ Len(mem.cells[o.begin]) = o.cap
        /\ \A i \in 1 .. o.cap : mem.cells[o.begin][i] = IF i <= o.end THEN s[i] ELSE Raw
    BY <1>1, <1>3 DEF Holds, Vector
  <2>2. mem.cells[o.begin] \in Seq(Cells)
    BY <2>1 DEF Inv, Typed, Memories
  <2>3. DOMAIN mem.cells[o.begin] = 1 .. o.cap /\ mem.cells[o.begin] # <<>>
    BY <2>1, <2>2
  <2>4. \A i \in 1 .. o.end : s[i] \in Values
    BY <1>1, <2>1
  <2> QED BY <1>3, <2>1, <2>3, <2>4 DEF InPlace, Allocated
<1>. QED BY <1>2, <1>3

LEMMA InvOwns ==
  ASSUME Inv
  PROVE  StorageOwned
<1>1. ASSUME NEW b \in Allocated(mem)
      PROVE  \E v \in Objects : b \in Held(v)
  BY HeldBlock, CellAssumption DEF Inv, Owned, Allocated
<1>2. ASSUME NEW v \in Objects, NEW b \in Held(v)
      PROVE  b \in Allocated(mem)
  <2>1. b = obj[v].begin /\ b # Null /\ obj[v] # Gone
    BY DEF Held, Storage
  <2> QED BY <2>1, InvPlaces DEF AllInPlace, InPlace
<1>3. ASSUME NEW v \in Objects, NEW w \in Objects, v # w
      PROVE  Held(v) \cap Held(w) = {}
  BY <1>3, HeldBlock DEF Inv, Apart
<1>. QED BY <1>1, <1>2, <1>3 DEF StorageOwned

LEMMA InvTypes == Inv => TypeOK /\ NoFault
BY DEF Inv, Typed, TypeOK, NoFault

LEMMA InvHolds ==
  ASSUME Excluded, EnoughBlocks, GoneOutside
  PROVE  Spec => []Inv
<1>1. Init => Inv
  BY InitHolds
<1>2. Inv /\ [Next]_vars => Inv'
  BY NextStep DEF Usual
<1>. QED BY <1>1, <1>2, PTL DEF Spec

-----------------------------------------------------------------------------
(* No member function of vector runs into undefined behaviour, whichever   *)
(* allocation or element throws: nothing is freed twice or with elements   *)
(* in it, read or destroyed where no element lives, or constructed over.   *)
THEOREM VectorNoFault ==
  ASSUME Excluded, EnoughBlocks, GoneOutside
  PROVE  Spec => []NoFault
BY InvHolds, InvTypes, PTL

(* begin_, end_ and end_cap_ delimit a block of the memory, or are null.   *)
THEOREM VectorTypes ==
  ASSUME Excluded, EnoughBlocks, GoneOutside
  PROVE  Spec => []TypeOK
BY InvHolds, InvTypes, PTL

(* The elements of a vector live exactly in [begin_, end_), and after a    *)
(* call, whether it threw or not, none of them is one that was moved from. *)
THEOREM VectorElementsInPlace ==
  ASSUME Excluded, EnoughBlocks, GoneOutside
  PROVE  Spec => []AllInPlace
BY InvHolds, InvPlaces, PTL

(* Every allocated block is the storage of exactly one vector: none leaks, *)
(* none is shared, whatever throws.                                        *)
THEOREM VectorStorageOwned ==
  ASSUME Excluded, EnoughBlocks, GoneOutside
  PROVE  Spec => []StorageOwned
BY InvHolds, InvOwns, PTL

(* The vectors are sequences of values: every call does to them what it    *)
(* promises, one that throws out of emplace, insert, resize or reserve     *)
(* does nothing, and one that throws out of an assignment leaves a         *)
(* sequence of values.                                                     *)
THEOREM VectorImplementsSequences ==
  ASSUME Excluded, EnoughBlocks, GoneOutside
  PROVE  Spec => Abs!SeqSpec
<1>1. Init => Abs!SeqInit
  BY InitHolds
<1>2. Inv /\ [Next]_vars => [Abs!SeqNext]_(Abs!seqVars)
  BY NextStep DEF Usual
<1>. QED BY <1>1, <1>2, InvHolds, PTL DEF Spec, Abs!SeqSpec
=============================================================================
