----------------------------- MODULE Heap_proofs -----------------------------
(***************************************************************************)
(* What the operations on memory do, in terms of cells, as long as the     *)
(* cells they touch exist and hold objects or do not, as they should. Each *)
(* lemma gives the new memory cell by cell, so that the proofs about the   *)
(* containers never look at how the operations are put together.           *)
(***************************************************************************)
EXTENDS Heap, SequenceTheorems, WellFoundedInduction, TLAPS

(* What a cell with an object in it can hold.                              *)
Live == Values \cup {Moved}

-----------------------------------------------------------------------------
(* Induction without an operator: a set that holds 0 and with each number  *)
(* the next holds them all.                                                *)
LEMMA Least ==
  ASSUME NEW U, U \subseteq Nat, U # {}
  PROVE  \E n \in U : \A m \in U : n <= m
<1> DEFINE Less == OpToRel(<, Nat)
<1>1. IsWellFoundedOn(Less, Nat)
  BY NatLessThanWellFounded
<1>2. \A x, y \in Nat : <<x, y>> \in Less <=> x < y
  BY DEF OpToRel
<1> HIDE DEF Less
<1>3. PICK n \in U : \A m \in U : <<m, n>> \notin Less
  BY <1>1, WFMin
<1>4. ASSUME NEW m \in U PROVE n <= m
  <2>1. n \in Nat /\ m \in Nat /\ ~(m < n)
    BY <1>2, <1>3
  <2> QED BY <2>1
<1>. QED BY <1>4

LEMMA Induction ==
  ASSUME NEW N \in Nat, NEW T, 0 \in T, \A i \in 1 .. N : i - 1 \in T => i \in T
  PROVE  \A i \in 0 .. N : i \in T
<1> SUFFICES ASSUME {i \in 0 .. N : i \notin T} # {} PROVE FALSE
  OBVIOUS
<1>1. PICK n \in {i \in 0 .. N : i \notin T} :
        \A m \in {i \in 0 .. N : i \notin T} : n <= m
  <2> {i \in 0 .. N : i \notin T} \subseteq Nat
    OBVIOUS
  <2> QED BY Least
<1>. QED BY <1>1

-----------------------------------------------------------------------------
(* Memory n is memory m with the cells of block b from offset `from' on    *)
(* overwritten by s.                                                       *)
Overwritten(m, n, b, from, s) ==
  /\ n \in Memories /\ n.fault = m.fault
  /\ Len(n.cells[b]) = Len(m.cells[b])
  /\ \A i \in 1 .. Len(m.cells[b]) :
       n.cells[b][i] = IF from < i /\ i <= from + Len(s) THEN s[i - from] ELSE m.cells[b][i]
  /\ \A c \in Blocks : c # b => n.cells[c] = m.cells[c]

(* Block b holds c in n, and n is m elsewhere.                             *)
Replaced(m, n, b, c) ==
  /\ n \in Memories /\ n.fault = m.fault
  /\ n.cells[b] = c
  /\ \A d \in Blocks : d # b => n.cells[d] = m.cells[d]

LEMMA FunctionIsSeq ==
  ASSUME NEW S, NEW n \in Nat, NEW f \in [1 .. n -> S]
  PROVE  f \in Seq(S) /\ Len(f) = n
OBVIOUS

(* A part of a sequence, and a sequence with t in the place of a part.     *)
LEMMA Part ==
  ASSUME NEW S, NEW s \in Seq(S), NEW i \in Nat, NEW j \in Nat, i <= j, j <= Len(s)
  PROVE  /\ SubSeq(s, i + 1, j) \in Seq(S) /\ Len(SubSeq(s, i + 1, j)) = j - i
         /\ \A k \in 1 .. j - i : SubSeq(s, i + 1, j)[k] = s[i + k]
<1>1. \A k \in i + 1 .. j : s[k] \in S
  BY LenProperties, ElementOfSeq
<1>2. i + 1 \in Int /\ j \in Int /\ j - (i + 1) + 1 = j - i
  OBVIOUS
<1>3. /\ SubSeq(s, i + 1, j) \in Seq(S)
      /\ Len(SubSeq(s, i + 1, j)) = IF i + 1 <= j THEN j - (i + 1) + 1 ELSE 0
      /\ \A k \in 1 .. j - (i + 1) + 1 : SubSeq(s, i + 1, j)[k] = s[(i + 1) + k - 1]
  BY <1>1, <1>2, SubSeqProperties
<1>. QED BY <1>2, <1>3

LEMMA Front ==
  ASSUME NEW S, NEW s \in Seq(S), NEW i \in 0 .. Len(s)
  PROVE  /\ SubSeq(s, 1, i) \in Seq(S) /\ Len(SubSeq(s, 1, i)) = i
         /\ \A k \in 1 .. i : SubSeq(s, 1, i)[k] = s[k]
<1> DEFINE a == SubSeq(s, 1, i)
<1>1. 0 \in Nat /\ i \in Nat /\ 0 <= i /\ i <= Len(s)
  BY LenProperties
<1>2. SubSeq(s, 0 + 1, i) \in Seq(S) /\ Len(SubSeq(s, 0 + 1, i)) = i - 0
  BY <1>1, Part
<1>3. \A k \in 1 .. i - 0 : SubSeq(s, 0 + 1, i)[k] = s[0 + k]
  BY <1>1, Part
<1>4. 0 + 1 = 1 /\ i - 0 = i /\ \A k \in 1 .. i : 0 + k = k
  BY <1>1
<1>5. a = SubSeq(s, 0 + 1, i)
  BY <1>4
<1> HIDE DEF a
<1>6. a \in Seq(S) /\ Len(a) = i /\ \A k \in 1 .. i : a[k] = s[k]
  BY <1>2, <1>3, <1>4, <1>5
<1>. QED BY <1>6 DEF a

Splice(s, i, t, j) == SubSeq(s, 1, i) \o t \o SubSeq(s, j + 1, Len(s))

LEMMA Spliced ==
  ASSUME NEW S, NEW s \in Seq(S), NEW t \in Seq(S), NEW i \in Nat, NEW j \in Nat,
         i <= j, j <= Len(s)
  PROVE  /\ Splice(s, i, t, j) \in Seq(S)
         /\ Len(Splice(s, i, t, j)) = Len(s) - (j - i) + Len(t)
         /\ \A k \in 1 .. Len(s) - (j - i) + Len(t) :
              Splice(s, i, t, j)[k] =
                IF k <= i THEN s[k]
                ELSE IF k <= i + Len(t) THEN t[k - i] ELSE s[k - Len(t) + (j - i)]
<1> DEFINE a == SubSeq(s, 1, i)
           b == SubSeq(s, j + 1, Len(s))
<1>0. Len(s) \in Nat /\ Len(t) \in Nat
  BY LenProperties
<1>1. a \in Seq(S) /\ Len(a) = i /\ \A k \in 1 .. i : a[k] = s[k]
  <2>1. 0 \in Nat /\ 0 <= i /\ i <= Len(s)
    BY <1>0
  <2>2. /\ SubSeq(s, 0 + 1, i) \in Seq(S) /\ Len(SubSeq(s, 0 + 1, i)) = i - 0
        /\ \A k \in 1 .. i - 0 : SubSeq(s, 0 + 1, i)[k] = s[0 + k]
    BY <2>1, Part
  <2> QED BY <2>2
<1>2. /\ b \in Seq(S) /\ Len(b) = Len(s) - j
      /\ \A k \in 1 .. Len(s) - j : b[k] = s[j + k]
  BY <1>0, Part
<1> HIDE DEF a, b
<1>3. /\ a \o t \in Seq(S) /\ Len(a \o t) = i + Len(t)
      /\ \A k \in 1 .. i + Len(t) : (a \o t)[k] = IF k <= i THEN a[k] ELSE t[k - i]
  BY <1>0, <1>1, ConcatProperties
<1> DEFINE c == a \o t
<1>c. c \in Seq(S) /\ Len(c) = i + Len(t)
  BY <1>3
<1> HIDE DEF c
<1>d. /\ c \o b \in Seq(S) /\ Len(c \o b) = Len(c) + Len(b)
      /\ \A k \in 1 .. Len(c) + Len(b) :
           (c \o b)[k] = IF k <= Len(c) THEN c[k] ELSE b[k - Len(c)]
  <2>1. c \in Seq(S) /\ b \in Seq(S)
    BY <1>2, <1>c
  <2> QED BY <2>1, ConcatProperties
<1>4. /\ c \o b \in Seq(S) /\ Len(c \o b) = i + Len(t) + (Len(s) - j)
      /\ \A k \in 1 .. i + Len(t) + (Len(s) - j) :
           (c \o b)[k] = IF k <= i + Len(t) THEN c[k] ELSE b[k - (i + Len(t))]
  BY <1>0, <1>2, <1>c, <1>d
<1> DEFINE z == c \o b
<1> HIDE DEF z
<1>5. z \in Seq(S) /\ Len(z) = Len(s) - (j - i) + Len(t)
  BY <1>0, <1>4 DEF z
<1>6. \A k \in 1 .. Len(z) :
         z[k] = IF k <= i THEN s[k]
                ELSE IF k <= i + Len(t) THEN t[k - i] ELSE s[k - Len(t) + (j - i)]
  <2> SUFFICES ASSUME NEW k \in 1 .. Len(z)
               PROVE  z[k] = IF k <= i THEN s[k]
                             ELSE IF k <= i + Len(t) THEN t[k - i]
                             ELSE s[k - Len(t) + (j - i)]
    OBVIOUS
  <2>1. k \in 1 .. i + Len(t) + (Len(s) - j) /\ k \in Int
    BY <1>0, <1>5
  <2>2. CASE k <= i + Len(t)
    <3>1. k \in 1 .. i + Len(t)
      BY <1>0, <2>1, <2>2
    <3>2. z[k] = c[k] /\ c[k] = IF k <= i THEN a[k] ELSE t[k - i]
      BY <1>3, <1>4, <2>1, <2>2, <3>1 DEF z, c
    <3> QED BY <1>1, <2>1, <2>2, <3>2
  <2>3. CASE ~(k <= i + Len(t))
    <3>1. k - (i + Len(t)) \in 1 .. Len(s) - j
      BY <1>0, <2>1, <2>3
    <3>2. z[k] = b[k - (i + Len(t))] /\ b[k - (i + Len(t))] = s[j + (k - (i + Len(t)))]
      BY <1>2, <1>4, <2>1, <2>3, <3>1 DEF z
    <3>3. j + (k - (i + Len(t))) = k - Len(t) + (j - i) /\ ~(k <= i)
      BY <1>0, <2>1, <2>3
    <3> QED BY <2>3, <3>2, <3>3
  <2> QED BY <2>2, <2>3
<1>. QED BY <1>5, <1>6 DEF Splice, z, c, a, b

LEMMA Between ==
  ASSUME NEW S, NEW s \in Seq(S), NEW t \in Seq(S), NEW i \in 0 .. Len(s)
  PROVE  /\ Splice(s, i, t, i) \in Seq(S)
         /\ Len(Splice(s, i, t, i)) = Len(s) + Len(t)
         /\ \A k \in 1 .. Len(s) + Len(t) :
              Splice(s, i, t, i)[k] =
                IF k <= i THEN s[k]
                ELSE IF k <= i + Len(t) THEN t[k - i] ELSE s[k - Len(t)]
<1>1. PICK j \in Nat : j = i
  OBVIOUS
<1>2. i \in Nat /\ i <= j /\ j <= Len(s) /\ Len(s) \in Nat /\ Len(t) \in Nat
  BY <1>1, LenProperties
<1> DEFINE z == Splice(s, i, t, j)
<1>3. z \in Seq(S)
  BY <1>2, Spliced
<1>4. Len(z) = Len(s) - (j - i) + Len(t)
  BY <1>2, Spliced
<1>5. \A k \in 1 .. Len(s) - (j - i) + Len(t) :
        z[k] = IF k <= i THEN s[k]
               ELSE IF k <= i + Len(t) THEN t[k - i] ELSE s[k - Len(t) + (j - i)]
  BY <1>2, Spliced
<1> HIDE DEF z
<1>6. Len(s) - (j - i) + Len(t) = Len(s) + Len(t) /\ \A k \in Int : k - Len(t) + (j - i) = k - Len(t)
  BY <1>1, <1>2
<1>7. /\ Len(z) = Len(s) + Len(t)
      /\ \A k \in 1 .. Len(s) + Len(t) :
           z[k] = IF k <= i THEN s[k] ELSE IF k <= i + Len(t) THEN t[k - i] ELSE s[k - Len(t)]
  BY <1>4, <1>5, <1>6
<1>. QED BY <1>1, <1>3, <1>7 DEF z

LEMMA Overlaid ==
  ASSUME NEW S, NEW s \in Seq(S), NEW t \in Seq(S), NEW i \in Nat, i + Len(t) <= Len(s)
  PROVE  /\ Splice(s, i, t, i + Len(t)) \in Seq(S)
         /\ Len(Splice(s, i, t, i + Len(t))) = Len(s)
         /\ \A k \in 1 .. Len(s) :
              Splice(s, i, t, i + Len(t))[k] = IF i < k /\ k <= i + Len(t) THEN t[k - i] ELSE s[k]
<1>1. Len(s) \in Nat /\ Len(t) \in Nat
  BY LenProperties
<1>2. \E j \in Nat : j = i + Len(t)
  BY <1>1
<1>3. PICK j \in Nat : j = i + Len(t)
  BY <1>2
<1>4. i <= j /\ j <= Len(s) /\ Len(s) - (j - i) + Len(t) = Len(s)
  BY <1>1, <1>3
<1>5. Splice(s, i, t, j) \in Seq(S)
  BY <1>4, Spliced
<1>6. Len(Splice(s, i, t, j)) = Len(s) - (j - i) + Len(t)
  BY <1>4, Spliced
<1>7. \A k \in 1 .. Len(s) - (j - i) + Len(t) :
         Splice(s, i, t, j)[k] =
           IF k <= i THEN s[k]
           ELSE IF k <= i + Len(t) THEN t[k - i] ELSE s[k - Len(t) + (j - i)]
  BY <1>4, Spliced
<1>8. \A k \in 1 .. Len(s) : k - Len(t) + (j - i) = k
  BY <1>1, <1>3
<1>. QED BY <1>1, <1>3, <1>4, <1>5, <1>6, <1>7, <1>8

LEMMA CellsOfBlock ==
  ASSUME NEW m \in Memories, NEW b \in Blocks
  PROVE  /\ m.cells[b] \in Seq(Cells) /\ Len(m.cells[b]) \in Nat
         /\ DOMAIN m.cells[b] = 1 .. Len(m.cells[b])
         /\ \A i \in 1 .. Len(m.cells[b]) : m.cells[b][i] \in Cells
<1>1. m.cells[b] \in Seq(Cells)
  BY DEF Memories
<1>. QED BY <1>1, LenProperties, ElementOfSeq

(* Slice: the cells [from, to) of a block that has them.                   *)
LEMMA SliceCells ==
  ASSUME NEW m \in Memories, NEW b \in Blocks, NEW from \in Nat, NEW to \in Nat,
         from <= to, to <= Len(m.cells[b])
  PROVE  /\ Slice(m, b, from, to) \in Seq(Cells)
         /\ Len(Slice(m, b, from, to)) = to - from
         /\ DOMAIN Slice(m, b, from, to) = 1 .. to - from
         /\ \A i \in 1 .. to - from : Slice(m, b, from, to)[i] = m.cells[b][from + i]
<1>1. Slice(m, b, from, to) = SubSeq(m.cells[b], from + 1, to)
  BY DEF Slice, InBlock
<1>2. \A i \in from + 1 .. to : m.cells[b][i] \in Cells
  BY CellsOfBlock
<1>3. /\ SubSeq(m.cells[b], from + 1, to) \in Seq(Cells)
      /\ Len(SubSeq(m.cells[b], from + 1, to)) = to - from
      /\ \A i \in 1 .. to - from : SubSeq(m.cells[b], from + 1, to)[i] = m.cells[b][from + i]
  <2> HIDE DEF Cells
  <2>1. from + 1 \in Int /\ to \in Int
    OBVIOUS
  <2> QED BY <2>1, <1>2, SubSeqProperties
<1>. QED BY <1>1, <1>3, LenProperties

LEMMA EmptySlice ==
  ASSUME NEW m \in Memories, NEW b, NEW from \in Nat
  PROVE  Slice(m, b, from, from) = <<>>
BY SubSeqEmpty, CellsOfBlock DEF Slice, InBlock

(* Put.                                                                    *)
LEMMA PutCells ==
  ASSUME NEW m \in Memories, NEW b \in Blocks, NEW from \in Nat, NEW s \in Seq(Cells),
         from + Len(s) <= Len(m.cells[b])
  PROVE  Overwritten(m, Put(m, b, from, s), b, from, s)
<1> USE CellsOfBlock, LenProperties
<1>1. CASE s = <<>>
  BY <1>1 DEF Put, Overwritten
<1>2. CASE s # <<>>
  <2> DEFINE c == [i \in DOMAIN m.cells[b] |->
                     IF i - from \in DOMAIN s THEN s[i - from] ELSE m.cells[b][i]]
  <2>1. Put(m, b, from, s) = [m EXCEPT !.cells[b] = c]
    BY <1>2 DEF Put, InBlock
  <2>2. c \in Seq(Cells) /\ Len(c) = Len(m.cells[b])
    <3>1. c \in [1 .. Len(m.cells[b]) -> Cells]
      BY ElementOfSeq
    <3> HIDE DEF c
    <3> QED BY <3>1, FunctionIsSeq
  <2>3. \A i \in 1 .. Len(m.cells[b]) :
          c[i] = IF from < i /\ i <= from + Len(s) THEN s[i - from] ELSE m.cells[b][i]
    OBVIOUS
  <2> HIDE DEF c
  <2> QED BY <2>1, <2>2, <2>3 DEF Overwritten, Memories
<1>. QED BY <1>1, <1>2

LEMMA ReplaceCells ==
  ASSUME NEW m \in Memories, NEW b \in Blocks, NEW c \in Seq(Cells)
  PROVE  Replaced(m, [m EXCEPT !.cells[b] = c], b, c)
<1> DEFINE n == [m EXCEPT !.cells[b] = c]
<1>1. m.cells \in [Blocks -> Seq(Cells)] /\ m.fault \in BOOLEAN
  BY DEF Memories
<1>2. n.cells = [m.cells EXCEPT ![b] = c] /\ n.fault = m.fault
  BY DEF Memories
<1>3. n \in Memories
  BY DEF Memories
<1> HIDE DEF n
<1>4. n.cells[b] = c /\ \A d \in Blocks : d # b => n.cells[d] = m.cells[d]
  BY <1>1, <1>2
<1>. QED BY <1>2, <1>3, <1>4 DEF Replaced, n

-----------------------------------------------------------------------------
(* A block comes with raw cells and goes with raw cells.                   *)
LEMMA AllocateCells ==
  ASSUME NEW m \in Memories, NEW b \in Blocks, NEW n \in Nat \ {0}
  PROVE  Replaced(m, Allocate(m, b, n), b, [i \in 1 .. n |-> Raw])
<1> DEFINE c == [i \in 1 .. n |-> Raw]
<1>1. c \in Seq(Cells)
  BY FunctionIsSeq DEF Cells
<1>2. Allocate(m, b, n) = [m EXCEPT !.cells[b] = c]
  BY DEF Allocate, Require
<1> HIDE DEF c
<1>3. Replaced(m, Allocate(m, b, n), b, c)
  BY <1>1, <1>2, ReplaceCells
<1>. QED BY <1>3 DEF c

LEMMA DeallocateCells ==
  ASSUME NEW m \in Memories, NEW b \in Blocks, m.cells[b] # <<>>,
         \A i \in 1 .. Len(m.cells[b]) : m.cells[b][i] = Raw
  PROVE  Replaced(m, Deallocate(m, b, Len(m.cells[b])), b, <<>>)
<1>1. Deallocate(m, b, Len(m.cells[b])) = [m EXCEPT !.cells[b] = <<>>]
  BY CellsOfBlock DEF Deallocate, Allocated, Require, AllRaw
<1>. QED BY <1>1, EmptySeq, ReplaceCells

(* Objects come to life in raw cells, are assigned to, are moved from and  *)
(* go where they live.                                                     *)
LEMMA ConstructOverwrites ==
  ASSUME NEW m \in Memories, NEW b \in Blocks, NEW from \in Nat, NEW s \in Seq(Cells),
         from + Len(s) <= Len(m.cells[b]),
         \A i \in from + 1 .. from + Len(s) : m.cells[b][i] = Raw
  PROVE  Overwritten(m, Construct(m, b, from, s), b, from, s)
<1> DEFINE old == Slice(m, b, from, from + Len(s))
<1>1. DOMAIN old = 1 .. Len(s) /\ \A i \in 1 .. Len(s) : old[i] = m.cells[b][from + i]
  <2> DEFINE to == from + Len(s)
  <2>1. /\ m \in Memories /\ b \in Blocks /\ from \in Nat /\ to \in Nat
        /\ from <= to /\ to <= Len(m.cells[b]) /\ to - from = Len(s)
    BY LenProperties
  <2> HIDE DEF to
  <2>2. /\ DOMAIN Slice(m, b, from, to) = 1 .. to - from
        /\ \A i \in 1 .. to - from : Slice(m, b, from, to)[i] = m.cells[b][from + i]
    BY ONLY <2>1, SliceCells
  <2> QED BY <2>1, <2>2 DEF to
<1> HIDE DEF old
<1>2. AllRaw(old)
  <2>1. \A i \in 1 .. Len(s) : from + i \in from + 1 .. from + Len(s)
    BY LenProperties
  <2> QED BY <1>1, <2>1 DEF AllRaw
<1>3. Construct(m, b, from, s) = Put(m, b, from, s)
  BY <1>2 DEF Construct, Require, old
<1>. QED BY <1>3, PutCells

LEMMA LivingCells ==
  ASSUME NEW m \in Memories, NEW b \in Blocks, NEW from \in Nat, NEW to \in Nat,
         from <= to, to <= Len(m.cells[b]),
         \A i \in from + 1 .. to : m.cells[b][i] # Raw
  PROVE  AllLive(Slice(m, b, from, to))
<1> DEFINE old == Slice(m, b, from, to)
<1>1. DOMAIN old = 1 .. to - from
  BY SliceCells
<1>4. \A i \in 1 .. to - from : old[i] = m.cells[b][from + i]
  BY SliceCells
<1> HIDE DEF old
<1>2. \A i \in 1 .. to - from : from + i \in from + 1 .. to
  OBVIOUS
<1>3. AllLive(old)
  BY <1>1, <1>2, <1>4 DEF AllLive
<1>. QED BY <1>3 DEF old

LEMMA AssignOverwrites ==
  ASSUME NEW m \in Memories, NEW b \in Blocks, NEW from \in Nat, NEW s \in Seq(Cells),
         from + Len(s) <= Len(m.cells[b]),
         \A i \in from + 1 .. from + Len(s) : m.cells[b][i] # Raw
  PROVE  Overwritten(m, Assign(m, b, from, s), b, from, s)
<1>1. AllLive(Slice(m, b, from, from + Len(s)))
  BY LivingCells, LenProperties
<1>2. Assign(m, b, from, s) = Put(m, b, from, s)
  BY <1>1 DEF Assign, Require
<1>. QED BY <1>2, PutCells

LEMMA DestroyOverwrites ==
  ASSUME NEW m \in Memories, NEW b \in Blocks, NEW from \in Nat, NEW to \in Nat,
         from <= to, to <= Len(m.cells[b]),
         \A i \in from + 1 .. to : m.cells[b][i] # Raw
  PROVE  Overwritten(m, Destroy(m, b, from, to), b, from, [i \in 1 .. to - from |-> Raw])
<1> DEFINE s == [i \in 1 .. to - from |-> Raw]
<1>1. s \in Seq(Cells) /\ Len(s) = to - from
  BY FunctionIsSeq DEF Cells
<1>2. AllLive(Slice(m, b, from, to))
  BY LivingCells
<1>3. Destroy(m, b, from, to) = Put(m, b, from, s)
  <2>1. from = to => s = <<>>
    BY <1>1, EmptySeq
  <2> QED BY <1>2, <2>1 DEF Destroy, Require, Put
<1> HIDE DEF s
<1>4. Overwritten(m, Put(m, b, from, s), b, from, s)
  BY <1>1, PutCells
<1>. QED BY <1>3, <1>4 DEF s

LEMMA MoveFromOverwrites ==
  ASSUME NEW m \in Memories, NEW b \in Blocks, NEW from \in Nat, NEW to \in Nat,
         from <= to, to <= Len(m.cells[b]),
         \A i \in from + 1 .. to : m.cells[b][i] # Raw
  PROVE  Overwritten(m, MoveFrom(m, b, from, to), b, from, [i \in 1 .. to - from |-> Moved])
<1> DEFINE s == [i \in 1 .. to - from |-> Moved]
<1>1. s \in Seq(Cells) /\ Len(s) = to - from
  BY FunctionIsSeq DEF Cells
<1>2. AllLive(Slice(m, b, from, to))
  BY LivingCells
<1>3. MoveFrom(m, b, from, to) = Put(m, b, from, s)
  <2>1. from = to => s = <<>>
    BY <1>1, EmptySeq
  <2> QED BY <1>2, <2>1 DEF MoveFrom, Require, Put
<1> HIDE DEF s
<1>4. Overwritten(m, Put(m, b, from, s), b, from, s)
  BY <1>1, PutCells
<1>. QED BY <1>3, <1>4 DEF s

(* What touches no cell does nothing, even where there is no block.        *)
LEMMA NothingTouched ==
  ASSUME NEW m \in Memories, NEW b, NEW from \in Nat
  PROVE  /\ Construct(m, b, from, <<>>) = m
         /\ Assign(m, b, from, <<>>) = m
         /\ Destroy(m, b, from, from) = m
         /\ MoveFrom(m, b, from, from) = m
<1>1. Slice(m, b, from, from + Len(<<>>)) = <<>>
  BY EmptySlice
<1>2. AllRaw(<<>>) /\ AllLive(<<>>)
  BY DEF AllRaw, AllLive
<1>. QED BY <1>1, <1>2 DEF Construct, Assign, Destroy, MoveFrom, Put, Require

-----------------------------------------------------------------------------
(* An argument that can be read: a value, or a cell that holds one.        *)
Denotes(m, a, x) ==
  /\ x \in Values
  /\ \/ a \in Values /\ a = x
     \/ /\ a \notin Values
        /\ a[1] \in Blocks /\ a[2] \in Nat /\ a[2] < Len(m.cells[a[1]])
        /\ m.cells[a[1]][a[2] + 1] = x

LEMMA ReadArgument ==
  ASSUME NEW m \in Memories, NEW a, NEW x, Denotes(m, a, x)
  PROVE  Readable(m, a) /\ Read(m, a) = x
<1>1. CASE a \in Values
  BY <1>1 DEF Denotes, Readable, Read
<1>2. CASE a \notin Values
  <2>1. /\ a[1] \in Blocks /\ a[2] \in Nat /\ a[2] + 1 <= Len(m.cells[a[1]])
        /\ m.cells[a[1]][a[2] + 1] = x /\ x # Raw
    BY <1>2, CellsOfBlock, CellAssumption DEF Denotes
  <2>2. /\ ReadFrom(m, a) \in Seq(Cells) /\ Len(ReadFrom(m, a)) = 1
        /\ DOMAIN ReadFrom(m, a) = 1 .. 1 /\ ReadFrom(m, a)[1] = x
    <3> DEFINE b == a[1]
               i == a[2]
    <3>1. ReadFrom(m, a) = Slice(m, b, i, i + 1)
      BY DEF ReadFrom
    <3>2. b \in Blocks /\ i \in Nat /\ i + 1 <= Len(m.cells[b]) /\ m.cells[b][i + 1] = x
      BY <2>1
    <3>3. b \in Blocks /\ i \in Nat /\ i + 1 \in Nat /\ i <= i + 1 /\ i + 1 <= Len(m.cells[b])
      BY <3>2
    <3> HIDE DEF b, i
    <3>4. /\ Slice(m, b, i, i + 1) \in Seq(Cells) /\ Len(Slice(m, b, i, i + 1)) = (i + 1) - i
          /\ \A j \in 1 .. (i + 1) - i : Slice(m, b, i, i + 1)[j] = m.cells[b][i + j]
      BY <3>3, SliceCells
    <3> QED BY <3>1, <3>2, <3>4, LenProperties
  <2>3. ReadFrom(m, a) # <<>> /\ AllLive(ReadFrom(m, a))
    <3> HIDE DEF Cells
    <3>1. ReadFrom(m, a) # <<>>
      BY <2>2
    <3>2. \A j \in DOMAIN ReadFrom(m, a) : ReadFrom(m, a)[j] = x
      BY <2>2
    <3> QED BY <2>1, <3>1, <3>2 DEF AllLive
  <2> QED BY <1>2, <2>2, <2>3 DEF Readable, Read
<1>. QED BY <1>1, <1>2

LEMMA CopiesOfArgument ==
  ASSUME NEW m \in Memories, NEW a, NEW x, Denotes(m, a, x), NEW n \in Nat
  PROVE  /\ Copies(m, n, a) = [i \in 1 .. n |-> x]
         /\ Copies(m, n, a) \in Seq(Values) /\ Len(Copies(m, n, a)) = n
         /\ \A b, from : ConstructCopies(m, b, from, n, a) = Construct(m, b, from, [i \in 1 .. n |-> x])
<1>1. Readable(m, a) /\ Read(m, a) = x /\ x \in Values
  BY ReadArgument DEF Denotes
<1>2. Copies(m, n, a) = [i \in 1 .. n |-> x]
  BY <1>1 DEF Copies
<1>3. Copies(m, n, a) \in Seq(Values) /\ Len(Copies(m, n, a)) = n
  BY <1>1, <1>2, FunctionIsSeq
<1>. QED BY <1>1, <1>2, <1>3 DEF ConstructCopies, Require

LEMMA OneCopy ==
  ASSUME NEW m \in Memories, NEW a, NEW x, Denotes(m, a, x), NEW b, NEW from
  PROVE  ConstructCopies(m, b, from, 1, a) = Construct(m, b, from, <<x>>)
<1>1. Readable(m, a) /\ Read(m, a) = x
  BY ReadArgument
<1>2. Copies(m, 1, a) = <<x>>
  BY <1>1 DEF Copies
<1>. QED BY <1>1, <1>2 DEF ConstructCopies, Require
=============================================================================
