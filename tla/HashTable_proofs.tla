--------------------------- MODULE HashTable_proofs ---------------------------
(***************************************************************************)
(* Proofs about HashTable, for any number of tables, keys and buckets.     *)
(***************************************************************************)
EXTENDS HashTable, SequenceTheorems, WellFoundedInduction, TLAPS

-----------------------------------------------------------------------------
(* Induction and iteration without an operator as a parameter.             *)
LEMMA Least ==
  ASSUME NEW U, U \subseteq Nat, U # {}
  PROVE  \E n \in U : \A m \in U : n <= m
<1> DEFINE Less == OpToRel(<, Nat)
<1>1. IsWellFoundedOn(Less, Nat)
  BY NatLessThanWellFounded
<1>2. \A x, y \in Nat : <<x, y>> \in Less <=> x < y
  BY DEF OpToRel
<1> HIDE DEF Less
<1>3. PICK n \in U : \A m \in U : <<m, n>> \notin Less
  BY <1>1, WFMin
<1>4. ASSUME NEW m \in U PROVE n <= m
  <2>1. n \in Nat /\ m \in Nat /\ ~(m < n)
    BY <1>2, <1>3
  <2> QED BY <2>1
<1>. QED BY <1>4

LEMMA Induction ==
  ASSUME NEW N \in Nat, NEW T, 0 \in T, \A i \in 1 .. N : i - 1 \in T => i \in T
  PROVE  \A i \in 0 .. N : i \in T
<1> SUFFICES ASSUME {i \in 0 .. N : i \notin T} # {} PROVE FALSE
  OBVIOUS
<1>1. PICK n \in {i \in 0 .. N : i \notin T} :
        \A m \in {i \in 0 .. N : i \notin T} : n <= m
  <2> {i \in 0 .. N : i \notin T} \subseteq Nat
    OBVIOUS
  <2> QED BY Least
<1>. QED BY <1>1

(* f holds what base, a member of D, becomes in N steps on D.              *)
Steps(step, N, D)     == step \in [1 .. N -> [D -> D]]
IsRun(f, step, N, D, base) ==
  f \in [0 .. N -> D] /\ f[0] = base /\ \A i \in 1 .. N : f[i] = step[i][f[i - 1]]

LEMMA Iterates ==
  ASSUME NEW N \in Nat, NEW D, NEW base \in D, NEW step, Steps(step, N, D)
  PROVE  \E f : IsRun(f, step, N, D, base)
<1> DEFINE T == {k \in 0 .. N : \E f : IsRun(f, step, k, D, base)}
<1>1. 0 \in T
  <2> DEFINE g == [i \in 0 .. 0 |-> base]
  <2>1. IsRun(g, step, 0, D, base)
    BY DEF IsRun
  <2> HIDE DEF g
  <2> QED BY <2>1
<1>2. ASSUME NEW k \in 1 .. N, k - 1 \in T PROVE k \in T
  <2>1. PICK f : IsRun(f, step, k - 1, D, base)
    BY <1>2
  <2> DEFINE g == [i \in 0 .. k |-> IF i = k THEN step[k][f[k - 1]] ELSE f[i]]
  <2>2. f[k - 1] \in D /\ step[k] \in [D -> D]
    BY <2>1 DEF IsRun, Steps
  <2>3. g \in [0 .. k -> D]
    BY <2>1, <2>2 DEF IsRun
  <2>4. g[0] = base
    BY <2>1 DEF IsRun
  <2>5. ASSUME NEW i \in 1 .. k PROVE g[i] = step[i][g[i - 1]]
    <3>1. CASE i = k
      BY <3>1
    <3>2. CASE i # k
      <4>1. i \in 1 .. k - 1 /\ i - 1 \in 0 .. k /\ i - 1 # k
        BY <3>2
      <4> QED BY <2>1, <3>2, <4>1 DEF IsRun
    <3> QED BY <3>1, <3>2
  <2> HIDE DEF g
  <2>6. IsRun(g, step, k, D, base)
    BY <2>3, <2>4, <2>5 DEF IsRun
  <2> QED BY <2>6
<1> HIDE DEF T
<1>3. \A k \in 0 .. N : k \in T
  BY <1>1, <1>2, Induction
<1>. QED BY <1>3 DEF T

-----------------------------------------------------------------------------
(* Flattened sequences.                                                    *)
Flat(b) == SE!FlattenSeq(b)

LEMMA Flattening ==
  ASSUME NEW S, NEW b \in Seq(Seq(S))
  PROVE  \E f \in [0 .. Len(b) -> Seq(S)] :
           /\ f[0] = <<>> /\ \A i \in 1 .. Len(b) : f[i] = f[i - 1] \o b[i]
           /\ f[Len(b)] = Flat(b)
<1> DEFINE n == Len(b)
           step == [i \in 1 .. n |-> [x \in Seq(S) |-> x \o b[i]]]
           F(f) == [i \in 1 .. n |-> IF i = 1 THEN b[i] ELSE f[i - 1] \o b[i]]
           flatten == CHOOSE f : f = F(f)
<1>1. n \in Nat /\ \A i \in 1 .. n : b[i] \in Seq(S)
  OBVIOUS
<1> HIDE DEF n
<1>2. Steps(step, n, Seq(S))
  BY <1>1 DEF Steps
<1>3. <<>> \in Seq(S)
  OBVIOUS
<1> HIDE DEF step
<1>4. PICK f : IsRun(f, step, n, Seq(S), <<>>)
  BY <1>1, <1>2, <1>3, Iterates
<1>5. f \in [0 .. n -> Seq(S)] /\ f[0] = <<>> /\ \A i \in 1 .. n : f[i] = step[i][f[i - 1]]
  BY <1>4 DEF IsRun
<1>6. ASSUME NEW i \in 1 .. n PROVE f[i] = f[i - 1] \o b[i]
  <2>1. f[i - 1] \in Seq(S)
    BY <1>1, <1>5
  <2> QED BY <1>5, <2>1 DEF step
<1>7. f[n] = Flat(b)
  <2>1. CASE n = 0
    BY <1>5, <2>1 DEF n, Flat, SE!FlattenSeq
  <2>2. CASE n # 0
    <3> DEFINE g == [i \in 1 .. n |-> f[i]]
    <3>1. ASSUME NEW i \in 1 .. n PROVE g[i] = IF i = 1 THEN b[i] ELSE g[i - 1] \o b[i]
      <4>1. CASE i = 1
        <5>1. f[i] = f[i - 1] \o b[i] /\ b[i] \in Seq(S)
          BY <1>1, <1>6
        <5>2. <<>> \o b[i] = b[i]
          BY <5>1, ConcatEmptySeq
        <5>3. f[i - 1] = <<>>
          BY <1>5, <4>1
        <5> QED BY <4>1, <5>1, <5>2, <5>3
      <4>2. CASE i # 1
        <5>1. i - 1 \in 1 .. n
          BY <1>1, <4>2
        <5> QED BY <1>6, <4>2, <5>1
      <4> QED BY <4>1, <4>2
    <3>2. g = [i \in 1 .. n |-> g[i]] /\ g[n] = f[n]
      BY <1>1, <2>2
    <3> HIDE DEF g
    <3>3. g = F(g)
      BY <3>1, <3>2
    <3>4. flatten = F(flatten)
      BY <3>3
    <3> HIDE DEF flatten
    <3> DEFINE T == {i \in 0 .. n : i = 0 \/ flatten[i] = g[i]}
    <3>5. 0 \in T
      BY <1>1
    <3>6. ASSUME NEW i \in 1 .. n, i - 1 \in T PROVE i \in T
      <4>1. flatten[i] = IF i = 1 THEN b[i] ELSE flatten[i - 1] \o b[i]
        BY <3>4
      <4>2. i # 1 => flatten[i - 1] = g[i - 1]
        BY <3>6
      <4> QED BY <3>1, <4>1, <4>2
    <3> HIDE DEF T
    <3>7. \A i \in 0 .. n : i \in T
      BY <1>1, <3>5, <3>6, Induction
    <3>8. Flat(b) = flatten[n]
      BY <2>2 DEF Flat, SE!FlattenSeq, n, flatten
    <3>9. flatten[n] = g[n]
      BY <1>1, <2>2, <3>7 DEF T
    <3> QED BY <3>2, <3>8, <3>9
  <2> QED BY <2>1, <2>2
<1>. QED BY <1>5, <1>6, <1>7 DEF n

LEMMA FlatEmpty == Flat(<<>>) = <<>>
BY DEF Flat, SE!FlattenSeq

LEMMA FlatAppend ==
  ASSUME NEW S, NEW b \in Seq(Seq(S)), NEW s \in Seq(S)
  PROVE  Flat(Append(b, s)) = Flat(b) \o s
<1> DEFINE n == Len(b)
           c == Append(b, s)
<1>1. n \in Nat /\ c \in Seq(Seq(S)) /\ Len(c) = n + 1 /\ c[n + 1] = s
      /\ \A i \in 1 .. n : c[i] = b[i]
  BY AppendProperties, LenProperties
<1>2. PICK f \in [0 .. n -> Seq(S)] :
        /\ f[0] = <<>> /\ \A i \in 1 .. n : f[i] = f[i - 1] \o b[i]
        /\ f[n] = Flat(b)
  BY Flattening
<1> HIDE DEF n, c
<1>3. PICK g \in [0 .. Len(c) -> Seq(S)] :
        /\ g[0] = <<>> /\ \A i \in 1 .. Len(c) : g[i] = g[i - 1] \o c[i]
        /\ g[Len(c)] = Flat(c)
  BY <1>1, Flattening
<1> DEFINE T == {i \in 0 .. n : f[i] = g[i]}
<1>4. 0 \in T
  BY <1>1, <1>2, <1>3
<1>5. ASSUME NEW i \in 1 .. n, i - 1 \in T PROVE i \in T
  <2>1. i \in 1 .. Len(c) /\ c[i] = b[i] /\ i \in 0 .. n
    BY <1>1
  <2>4. f[i - 1] = g[i - 1]
    BY <1>5
  <2>2. f[i] = f[i - 1] \o b[i]
    BY <1>2
  <2>3. g[i] = g[i - 1] \o c[i]
    BY <1>3, <2>1
  <2> QED BY <2>1, <2>2, <2>3, <2>4
<1> HIDE DEF T
<1>6. \A i \in 0 .. n : i \in T
  BY <1>1, <1>4, <1>5, Induction
<1>7. f[n] = g[n]
  BY <1>1, <1>6 DEF T
<1>8. g[n + 1] = g[n] \o s
  <2>1. n + 1 \in 1 .. Len(c) /\ n + 1 - 1 = n
    BY <1>1
  <2>2. PICK m \in 1 .. Len(c) : m = n + 1
    BY <2>1
  <2>3. g[m] = g[m - 1] \o c[m]
    BY <1>3
  <2>4. m - 1 = n /\ m = n + 1
    BY <1>1, <2>2
  <2>5. c[m] = s
    BY <1>1, <2>4
  <2> QED BY <2>3, <2>4, <2>5
<1>. QED BY <1>1, <1>2, <1>3, <1>7, <1>8 DEF c

LEMMA FlatType ==
  ASSUME NEW S, NEW b \in Seq(Seq(S))
  PROVE  Flat(b) \in Seq(S)
<1>1. PICK f \in [0 .. Len(b) -> Seq(S)] : f[Len(b)] = Flat(b)
  BY Flattening
<1>. QED BY <1>1, LenProperties

LEMMA ConcatAppend ==
  ASSUME NEW D, NEW a \in Seq(D), NEW b \in Seq(D), NEW c \in D
  PROVE  a \o Append(b, c) = Append(a \o b, c)
OBVIOUS

LEMMA FlatConcat ==
  ASSUME NEW S, NEW b \in Seq(Seq(S)), NEW c \in Seq(Seq(S))
  PROVE  Flat(b \o c) = Flat(b) \o Flat(c)
<1> DEFINE P(i) == SubSeq(c, 1, i)
           T == {i \in 0 .. Len(c) : Flat(b \o P(i)) = Flat(b) \o Flat(P(i))}
<1>1. Len(c) \in Nat /\ P(Len(c)) = c /\ P(0) = <<>>
  BY LenProperties, SubSeqFull, SubSeqEmpty
<1>2. ASSUME NEW i \in 1 .. Len(c)
      PROVE  P(i - 1) \in Seq(Seq(S)) /\ c[i] \in Seq(S) /\ P(i) = Append(P(i - 1), c[i])
  BY <1>1
<1> HIDE DEF P
<1>3. 0 \in T
  <2>1. b \o <<>> = b /\ Flat(b) \o <<>> = Flat(b)
    BY FlatType, ConcatEmptySeq
  <2>2. Flat(b \o P(0)) = Flat(b) \o Flat(P(0))
    BY <1>1, <2>1, FlatEmpty
  <2> QED BY <1>1, <2>2
<1>4. ASSUME NEW i \in 1 .. Len(c), i - 1 \in T PROVE i \in T
  <2> DEFINE p == P(i - 1)
             s == c[i]
  <2>1. p \in Seq(Seq(S)) /\ s \in Seq(S) /\ P(i) = Append(p, s)
    BY <1>2
  <2>2. Flat(b \o p) = Flat(b) \o Flat(p)
    BY <1>4
  <2> HIDE DEF p, s
  <2>3. b \o Append(p, s) = Append(b \o p, s)
    <3> DEFINE D == Seq(S)
    <3>1. b \in Seq(D) /\ p \in Seq(D) /\ s \in D
      BY <2>1
    <3> HIDE DEF D
    <3> QED BY ONLY <3>1, ConcatAppend
  <2>4. b \o p \in Seq(Seq(S)) /\ Flat(b) \in Seq(S) /\ Flat(p) \in Seq(S)
    BY <2>1, ConcatProperties, FlatType
  <2>5. Flat(Append(b \o p, s)) = Flat(b \o p) \o s
    BY <2>1, <2>4, FlatAppend
  <2>6. Flat(Append(p, s)) = Flat(p) \o s
    BY <2>1, FlatAppend
  <2>7. (Flat(b) \o Flat(p)) \o s = Flat(b) \o (Flat(p) \o s)
    <3>1. Flat(b) \in Seq(S) /\ Flat(p) \in Seq(S) /\ s \in Seq(S)
      BY <2>1, <2>4
    <3>2. ASSUME NEW x \in Seq(S), NEW y \in Seq(S), NEW z \in Seq(S)
          PROVE  (x \o y) \o z = x \o (y \o z)
      OBVIOUS
    <3> QED BY ONLY <3>1, <3>2
  <2>8. Flat(b \o P(i)) = Flat(b) \o Flat(P(i))
    BY <2>1, <2>2, <2>3, <2>5, <2>6, <2>7
  <2> QED BY <1>1, <2>8
<1> HIDE DEF T
<1>5. \A i \in 0 .. Len(c) : i \in T
  BY <1>1, <1>3, <1>4, Induction
<1>6. Flat(b \o P(Len(c))) = Flat(b) \o Flat(P(Len(c)))
  <2>1. PICK m \in 0 .. Len(c) : m = Len(c)
    BY <1>1
  <2>2. m \in T
    BY <1>5
  <2> QED BY <2>1, <2>2 DEF T
<1>. QED BY <1>1, <1>6

(* A list of buckets with bucket j replaced.                               *)
Put(b, j, x) == [i \in 1 .. Len(b) |-> IF i = j THEN x ELSE b[i]]

LEMMA PutType ==
  ASSUME NEW S, NEW b \in Seq(Seq(S)), NEW j \in 1 .. Len(b), NEW x \in Seq(S)
  PROVE  /\ Put(b, j, x) \in Seq(Seq(S)) /\ Len(Put(b, j, x)) = Len(b)
         /\ Put(b, j, x)[j] = x
         /\ \A i \in 1 .. Len(b) : i # j => Put(b, j, x)[i] = b[i]
BY DEF Put

LEMMA Divided ==
  ASSUME NEW D, NEW b \in Seq(D), NEW j \in 1 .. Len(b)
  PROVE  LET a == Append(SubSeq(b, 1, j - 1), b[j])
         IN a \in Seq(D) /\ b = a \o SubSeq(b, j + 1, Len(b))
<1> DEFINE a == Append(SubSeq(b, 1, j - 1), b[j])
           q == SubSeq(b, j + 1, Len(b))
<1>1. Len(b) \in Nat
  OBVIOUS
<1>2. a \in Seq(D) /\ Len(a) = j /\ \A i \in 1 .. j : a[i] = b[i]
  OBVIOUS
<1>3. q \in Seq(D) /\ Len(q) = Len(b) - j /\ \A i \in 1 .. Len(b) - j : q[i] = b[i + j]
  OBVIOUS
<1> HIDE DEF a, q
<1>4. a \o q \in Seq(D) /\ Len(a \o q) = Len(b)
  <2>1. a \o q \in Seq(D) /\ Len(a \o q) = Len(a) + Len(q)
    <3>1. a \in Seq(D) /\ q \in Seq(D)
      BY <1>2, <1>3
    <3> QED BY ONLY <3>1
  <2>2. j + (Len(b) - j) = Len(b)
    BY <1>1
  <2> QED BY <1>2, <1>3, <2>1, <2>2
<1>5. ASSUME NEW i \in 1 .. Len(b) PROVE b[i] = (a \o q)[i]
  <2>1. CASE i <= j
    BY <1>1, <1>2, <1>3, <2>1
  <2>2. CASE i > j
    <3>1. i - j \in 1 .. Len(b) - j /\ (i - j) + j = i
      BY <1>1, <2>2
    <3>2. (a \o q)[i] = q[i - j]
      BY <1>1, <1>2, <1>3, <2>2
    <3> QED BY <1>3, <3>1, <3>2
  <2>3. i <= j \/ i > j
    BY <1>1
  <2> QED BY <2>1, <2>2, <2>3
<1>6. b = a \o q
  BY <1>4, <1>5, SeqEqual
<1>. QED BY <1>2, <1>6 DEF a, q

Around(p, x, q) == (p \o x) \o q

LEMMA FlatSplit ==
  ASSUME NEW S, NEW b \in Seq(Seq(S)), NEW j \in 1 .. Len(b)
  PROVE  Flat(b) = (Flat(SubSeq(b, 1, j - 1)) \o b[j]) \o Flat(SubSeq(b, j + 1, Len(b)))
<1> DEFINE p == SubSeq(b, 1, j - 1)
           q == SubSeq(b, j + 1, Len(b))
           x == b[j]
<1>1. Len(b) \in Nat /\ x \in Seq(S) /\ p \in Seq(Seq(S)) /\ q \in Seq(Seq(S))
  OBVIOUS
<1>2. Append(p, x) \in Seq(Seq(S)) /\ b = Append(p, x) \o q
  BY Divided
<1> HIDE DEF p, q, x
<1>3. Flat(Append(p, x)) = Flat(p) \o x
  BY <1>1, FlatAppend
<1>4. Flat(Append(p, x) \o q) = Flat(Append(p, x)) \o Flat(q)
  BY <1>1, <1>2, FlatConcat
<1>. QED BY <1>2, <1>3, <1>4 DEF p, q, x

(* The elements before and behind bucket j stay when it is replaced.       *)
LEMMA FlatPut ==
  ASSUME NEW S, NEW b \in Seq(Seq(S)), NEW j \in 1 .. Len(b), NEW x \in Seq(S)
  PROVE  \E p, q \in Seq(S) :
           /\ p = Flat(SubSeq(b, 1, j - 1))
           /\ Flat(b) = Around(p, b[j], q)
           /\ Flat(Put(b, j, x)) = Around(p, x, q)
<1> DEFINE c == Put(b, j, x)
           p == Flat(SubSeq(b, 1, j - 1))
           q == Flat(SubSeq(b, j + 1, Len(b)))
<1>1. c \in Seq(Seq(S)) /\ Len(c) = Len(b) /\ c[j] = x
      /\ \A i \in 1 .. Len(b) : i # j => c[i] = b[i]
  BY PutType
<1> HIDE DEF c
<1>2. SubSeq(c, 1, j - 1) = SubSeq(b, 1, j - 1)
  <2> DEFINE l == SubSeq(c, 1, j - 1)
             r == SubSeq(b, 1, j - 1)
  <2>1. l \in Seq(Seq(S)) /\ Len(l) = j - 1 /\ \A i \in 1 .. j - 1 : l[i] = c[i]
    BY <1>1
  <2>2. r \in Seq(Seq(S)) /\ Len(r) = j - 1 /\ \A i \in 1 .. j - 1 : r[i] = b[i]
    OBVIOUS
  <2>3. \A i \in 1 .. j - 1 : c[i] = b[i]
    BY <1>1
  <2> HIDE DEF l, r
  <2>4. \A i \in 1 .. j - 1 : l[i] = r[i]
    BY <2>1, <2>2, <2>3
  <2>5. l = r
    BY <2>1, <2>2, <2>4, SeqEqual
  <2> QED BY <2>5 DEF l, r
<1>3. SubSeq(c, j + 1, Len(b)) = SubSeq(b, j + 1, Len(b))
  <2> DEFINE l == SubSeq(c, j + 1, Len(b))
             r == SubSeq(b, j + 1, Len(b))
             n == Len(b) - j
  <2>1. l \in Seq(Seq(S)) /\ Len(l) = n /\ \A i \in 1 .. n : l[i] = c[i + j]
    <3>1. c \in Seq(Seq(S)) /\ j \in 1 .. Len(c) /\ Len(c) = Len(b)
      BY <1>1
    <3>2. \A i \in j + 1 .. Len(b) : c[i] \in Seq(S)
      BY <3>1
    <3>3. j + 1 \in Int /\ Len(b) \in Int /\ Len(b) - (j + 1) + 1 = n
          /\ (IF j + 1 <= Len(b) THEN Len(b) - (j + 1) + 1 ELSE 0) = n
          /\ \A i \in 1 .. n : (j + 1) + i - 1 = i + j
      BY <3>1
    <3>4. /\ l \in Seq(Seq(S)) /\ Len(l) = IF j + 1 <= Len(b) THEN Len(b) - (j + 1) + 1 ELSE 0
          /\ \A i \in 1 .. Len(b) - (j + 1) + 1 : l[i] = c[(j + 1) + i - 1]
      <4> DEFINE D == Seq(S)
      <4>1. \A i \in j + 1 .. Len(b) : c[i] \in D
        BY <3>2
      <4>2. j + 1 \in Int /\ Len(b) \in Int
        BY <3>3
      <4> HIDE DEF D
      <4> QED BY ONLY <4>1, <4>2, SubSeqProperties DEF D
    <3> HIDE DEF l, n
    <3> QED BY <3>3, <3>4
  <2>2. r \in Seq(Seq(S)) /\ Len(r) = n /\ \A i \in 1 .. n : r[i] = b[i + j]
    OBVIOUS
  <2>3. \A i \in 1 .. n : c[i + j] = b[i + j]
    BY <1>1
  <2> HIDE DEF l, r, n
  <2>4. \A i \in 1 .. Len(l) : l[i] = r[i]
    BY <2>1, <2>2, <2>3
  <2>5. l = r
    BY <2>1, <2>2, <2>4, SeqEqual
  <2> QED BY <2>5 DEF l, r
<1>4. Flat(c) = (Flat(SubSeq(c, 1, j - 1)) \o c[j]) \o Flat(SubSeq(c, j + 1, Len(c)))
  BY <1>1, FlatSplit
<1>5. Flat(b) = (p \o b[j]) \o q
  BY FlatSplit
<1>6. p \in Seq(S) /\ q \in Seq(S)
  <2>1. SubSeq(b, 1, j - 1) \in Seq(Seq(S)) /\ SubSeq(b, j + 1, Len(b)) \in Seq(Seq(S))
    OBVIOUS
  <2> QED BY <2>1, FlatType
<1>7. Flat(c) = (p \o x) \o q
  BY <1>1, <1>2, <1>3, <1>4
<1>. QED BY <1>5, <1>6, <1>7 DEF c, Around

LEMMA AroundLen ==
  ASSUME NEW S, NEW p \in Seq(S), NEW q \in Seq(S), NEW x \in Seq(S), NEW y \in Seq(S)
  PROVE  Len(Around(p, x, q)) = Len(Around(p, y, q)) - Len(y) + Len(x)
BY DEF Around

LEMMA FlatPutLen ==
  ASSUME NEW S, NEW b \in Seq(Seq(S)), NEW j \in 1 .. Len(b), NEW x \in Seq(S)
  PROVE  Len(Flat(Put(b, j, x))) = Len(Flat(b)) - Len(b[j]) + Len(x)
<1>1. PICK p \in Seq(S), q \in Seq(S) :
        Flat(b) = Around(p, b[j], q) /\ Flat(Put(b, j, x)) = Around(p, x, q)
  BY FlatPut
<1> DEFINE y == b[j]
<1>2. y \in Seq(S)
  OBVIOUS
<1> HIDE DEF y
<1>3. Len(Around(p, x, q)) = Len(Around(p, y, q)) - Len(y) + Len(x)
  BY <1>2, AroundLen
<1>. QED BY <1>1, <1>3 DEF y

-----------------------------------------------------------------------------
(* The elements of a list of buckets.                                      *)
LEMMA KeysConcat ==
  ASSUME NEW S, NEW s \in Seq(S), NEW t \in Seq(S)
  PROVE  KeysOf(s \o t) = KeysOf(s) \cup KeysOf(t)
<1>1. ASSUME NEW k \in KeysOf(s \o t) PROVE k \in KeysOf(s) \cup KeysOf(t)
  BY <1>1 DEF KeysOf
<1>2. ASSUME NEW k \in KeysOf(s) PROVE k \in KeysOf(s \o t)
  <2>1. PICK i \in 1 .. Len(s) : s[i] = k
    BY <1>2 DEF KeysOf
  <2>2. i \in DOMAIN (s \o t) /\ (s \o t)[i] = k
    BY <2>1
  <2> QED BY <2>2 DEF KeysOf
<1>3. ASSUME NEW k \in KeysOf(t) PROVE k \in KeysOf(s \o t)
  <2>1. PICK i \in 1 .. Len(t) : t[i] = k
    BY <1>3 DEF KeysOf
  <2>2. Len(s) + i \in DOMAIN (s \o t) /\ (s \o t)[Len(s) + i] = k
    BY <2>1
  <2> QED BY <2>2 DEF KeysOf
<1>. QED BY <1>1, <1>2, <1>3

LEMMA KeysType ==
  ASSUME NEW S, NEW s \in Seq(S)
  PROVE  /\ KeysOf(s) \subseteq S /\ KeysOf(s) = {s[i] : i \in 1 .. Len(s)}
         /\ KeysOf(s) = {} <=> s = <<>>
<1>1. DOMAIN s = 1 .. Len(s) /\ Len(s) \in Nat
  OBVIOUS
<1>2. KeysOf(s) = {s[i] : i \in 1 .. Len(s)}
  BY <1>1 DEF KeysOf
<1>3. ASSUME KeysOf(s) = {} PROVE s = <<>>
  <2>1. ~ 1 \in 1 .. Len(s)
    BY <1>2, <1>3
  <2>2. Len(s) = 0
    BY <1>1, <2>1
  <2> QED BY <2>2, EmptySeq
<1>4. KeysOf(<<>>) = {}
  BY DEF KeysOf
<1>5. KeysOf(s) \subseteq S
  BY <1>2
<1>. QED BY <1>2, <1>3, <1>4, <1>5

LEMMA FlatStep ==
  ASSUME NEW S, NEW b \in Seq(Seq(S)), NEW i \in 1 .. Len(b)
  PROVE  Flat(SubSeq(b, 1, i)) = Flat(SubSeq(b, 1, i - 1)) \o b[i]
<1> DEFINE p == SubSeq(b, 1, i - 1)
<1>1. SubSeq(b, 1, i) = Append(p, b[i]) /\ p \in Seq(Seq(S)) /\ b[i] \in Seq(S)
  OBVIOUS
<1> HIDE DEF p
<1>2. Flat(Append(p, b[i])) = Flat(p) \o b[i]
  BY <1>1, FlatAppend
<1>. QED BY <1>1, <1>2 DEF p

(* The keys of the first i buckets.                                        *)
KeysUpTo(b, i) == UNION {KeysOf(b[h]) : h \in 1 .. i}

LEMMA FlatKeysUpTo ==
  ASSUME NEW S, NEW b \in Seq(Seq(S))
  PROVE  \A i \in 0 .. Len(b) : KeysOf(Flat(SubSeq(b, 1, i))) = KeysUpTo(b, i)
<1> DEFINE T == {i \in 0 .. Len(b) : KeysOf(Flat(SubSeq(b, 1, i))) = KeysUpTo(b, i)}
<1>1. Len(b) \in Nat
  OBVIOUS
<1>2. 0 \in T
  <2>1. SubSeq(b, 1, 0) = <<>>
    OBVIOUS
  <2>2. KeysOf(<<>>) = {} /\ KeysUpTo(b, 0) = {}
    BY DEF KeysOf, KeysUpTo
  <2>3. KeysOf(Flat(SubSeq(b, 1, 0))) = KeysUpTo(b, 0)
    BY <2>1, <2>2, FlatEmpty
  <2> QED BY <1>1, <2>3
<1>3. ASSUME NEW i \in 1 .. Len(b), i - 1 \in T PROVE i \in T
  <2> DEFINE f == Flat(SubSeq(b, 1, i - 1))
             x == b[i]
  <2>1. f \in Seq(S) /\ x \in Seq(S)
    <3>1. SubSeq(b, 1, i - 1) \in Seq(Seq(S)) /\ x \in Seq(S)
      OBVIOUS
    <3>2. f \in Seq(S)
      BY <3>1, FlatType
    <3> QED BY <3>1, <3>2
  <2>2. Flat(SubSeq(b, 1, i)) = f \o x
    BY FlatStep
  <2>3. KeysOf(f) = KeysUpTo(b, i - 1)
    BY <1>3
  <2>4. KeysUpTo(b, i) = KeysUpTo(b, i - 1) \cup KeysOf(x)
    <3>1. 1 .. i = (1 .. i - 1) \cup {i}
      OBVIOUS
    <3> QED BY <3>1 DEF KeysUpTo
  <2> HIDE DEF f, x
  <2>5. KeysOf(f \o x) = KeysOf(f) \cup KeysOf(x)
    BY <2>1, KeysConcat
  <2>6. KeysOf(Flat(SubSeq(b, 1, i))) = KeysUpTo(b, i)
    BY <2>2, <2>3, <2>4, <2>5
  <2> QED BY <1>1, <2>6
<1> HIDE DEF T
<1>4. \A i \in 0 .. Len(b) : i \in T
  BY <1>1, <1>2, <1>3, Induction
<1>. QED BY <1>4 DEF T

LEMMA FlatKeys ==
  ASSUME NEW S, NEW b \in Seq(Seq(S))
  PROVE  KeysOf(Flat(b)) = UNION {KeysOf(b[j]) : j \in 1 .. Len(b)}
<1>1. Len(b) \in 0 .. Len(b) /\ SubSeq(b, 1, Len(b)) = b
  OBVIOUS
<1>. QED BY <1>1, FlatKeysUpTo DEF KeysUpTo

LEMMA InjectiveConcat ==
  ASSUME NEW S, NEW s \in Seq(S), NEW t \in Seq(S), SE!IsInjective(s), SE!IsInjective(t),
         KeysOf(s) \cap KeysOf(t) = {}
  PROVE  SE!IsInjective(s \o t)
<1>1. /\ Len(s) \in Nat /\ Len(t) \in Nat /\ DOMAIN (s \o t) = 1 .. Len(s) + Len(t)
      /\ \A i \in 1 .. Len(s) + Len(t) :
           (s \o t)[i] = IF i <= Len(s) THEN s[i] ELSE t[i - Len(s)]
      /\ DOMAIN s = 1 .. Len(s) /\ DOMAIN t = 1 .. Len(t)
  OBVIOUS
<1>2. \A i \in 1 .. Len(s), j \in 1 .. Len(t) : s[i] # t[j]
  BY <1>1 DEF KeysOf
<1>3. \A i, j \in 1 .. Len(s) : s[i] = s[j] => i = j
  BY <1>1 DEF SE!IsInjective
<1>4. \A i, j \in 1 .. Len(t) : t[i] = t[j] => i = j
  BY <1>1 DEF SE!IsInjective
<1>5. ASSUME NEW i \in 1 .. Len(s) + Len(t), NEW j \in 1 .. Len(s) + Len(t),
             (s \o t)[i] = (s \o t)[j]
      PROVE  i = j
  <2>1. CASE i <= Len(s) /\ j <= Len(s)
    BY <1>1, <1>3, <1>5, <2>1
  <2>2. CASE i > Len(s) /\ j > Len(s)
    <3>1. i - Len(s) \in 1 .. Len(t) /\ j - Len(s) \in 1 .. Len(t)
      BY <1>1, <2>2
    <3>2. t[i - Len(s)] = t[j - Len(s)]
      BY <1>1, <1>5, <2>2
    <3>3. i - Len(s) = j - Len(s)
      BY <1>4, <3>1, <3>2
    <3> QED BY <1>1, <3>3
  <2>3. CASE i <= Len(s) /\ j > Len(s)
    <3>1. i \in 1 .. Len(s) /\ j - Len(s) \in 1 .. Len(t)
      BY <1>1, <2>3
    <3> QED BY <1>1, <1>2, <1>5, <2>3, <3>1
  <2>4. CASE i > Len(s) /\ j <= Len(s)
    <3>1. j \in 1 .. Len(s) /\ i - Len(s) \in 1 .. Len(t)
      BY <1>1, <2>4
    <3> QED BY <1>1, <1>2, <1>5, <2>4, <3>1
  <2>5. (i <= Len(s) \/ i > Len(s)) /\ (j <= Len(s) \/ j > Len(s))
    BY <1>1
  <2> QED BY <2>1, <2>2, <2>3, <2>4, <2>5, Zenon
<1>. QED BY <1>1, <1>5 DEF SE!IsInjective

-----------------------------------------------------------------------------
(* Tables.                                                                 *)
InOwnBuckets(u) ==
  \A j \in 1 .. bucket_count(u) :
    \A k \in KeysOf(u.bucket[j]) : BucketOf(k, bucket_count(u)) = j

(* A table whose nodes are in the buckets of their keys.                   *)
Sound(u) == u \in Table /\ InOwnBuckets(u)

(* No bucket has a key twice.                                              *)
Distinct(u) == \A j \in 1 .. bucket_count(u) : SE!IsInjective(u.bucket[j])

Nodes(u) == Len(Elements(u))

LEMMA TableFacts ==
  ASSUME NEW u \in Table
  PROVE  /\ u.bucket \in Seq(Seq(Keys)) /\ u.size \in Nat /\ u.mlf \in MaxLoads
         /\ bucket_count(u) \in Nat /\ bucket_count(u) = Len(u.bucket)
         /\ \A j \in 1 .. bucket_count(u) : u.bucket[j] \in Seq(Keys)
         /\ Elements(u) = Flat(u.bucket) /\ Elements(u) \in Seq(Keys) /\ Nodes(u) \in Nat
         /\ KeysIn(u) = UNION {KeysOf(u.bucket[j]) : j \in 1 .. bucket_count(u)}
         /\ KeysIn(u) \subseteq Keys
<1>1. u.bucket \in Seq(Seq(Keys)) /\ u.size \in Nat /\ u.mlf \in MaxLoads
  BY DEF Table
<1>2. bucket_count(u) \in Nat /\ bucket_count(u) = Len(u.bucket)
  BY <1>1 DEF bucket_count
<1>3. \A j \in 1 .. bucket_count(u) : u.bucket[j] \in Seq(Keys)
  BY <1>1, <1>2
<1>4. Elements(u) = Flat(u.bucket)
  BY DEF Elements, Flat
<1>5. Elements(u) \in Seq(Keys)
  BY <1>1, <1>4, FlatType
<1>6. Nodes(u) \in Nat
  BY <1>5 DEF Nodes
<1>7. KeysIn(u) = UNION {KeysOf(u.bucket[j]) : j \in 1 .. bucket_count(u)}
  BY <1>1, <1>2, <1>4, FlatKeys DEF KeysIn
<1>8. KeysIn(u) \subseteq Keys
  BY <1>5, KeysType DEF KeysIn
<1>. QED BY <1>1, <1>2, <1>3, <1>4, <1>5, <1>6, <1>7, <1>8

LEMMA BucketType ==
  ASSUME NEW k \in Keys, NEW n \in Nat \ {0}
  PROVE  BucketOf(k, n) \in 1 .. n
<1>1. Hash[k] \in Nat
  BY HashAssumption
<1>2. \A h \in Nat : h % n \in 0 .. n - 1
  OBVIOUS
<1>3. Hash[k] % n \in 0 .. n - 1
  BY <1>1, <1>2
<1>. QED BY <1>3 DEF BucketOf

LEMMA InjectiveElements ==
  ASSUME NEW u, Sound(u), Distinct(u)
  PROVE  SE!IsInjective(Elements(u))
<1> DEFINE b == u.bucket
           n == bucket_count(u)
           P(i) == Flat(SubSeq(b, 1, i))
           T == {i \in 0 .. n : SE!IsInjective(P(i))}
<1>1. /\ b \in Seq(Seq(Keys)) /\ n \in Nat /\ n = Len(b) /\ Elements(u) = Flat(b)
      /\ \A j \in 1 .. n : b[j] \in Seq(Keys)
  BY TableFacts DEF Sound
<1>2. \A j \in 1 .. n : \A k \in KeysOf(b[j]) : BucketOf(k, n) = j
  BY DEF Sound, InOwnBuckets
<1>3. \A j \in 1 .. n : SE!IsInjective(b[j])
  BY DEF Distinct
<1> HIDE DEF b, n
<1>4. 0 \in T
  <2>1. SubSeq(b, 1, 0) = <<>>
    BY <1>1
  <2>2. SE!IsInjective(<<>>)
    BY DEF SE!IsInjective
  <2>3. SE!IsInjective(P(0))
    BY <2>1, <2>2, FlatEmpty
  <2> QED BY <1>1, <2>3
<1>5. ASSUME NEW i \in 1 .. n, i - 1 \in T PROVE i \in T
  <2> DEFINE s == P(i - 1)
             t == b[i]
  <2>1. P(i) = s \o t
    BY <1>1, FlatStep
  <2>2. s \in Seq(Keys) /\ t \in Seq(Keys)
    <3>1. SubSeq(b, 1, i - 1) \in Seq(Seq(Keys)) /\ t \in Seq(Keys)
      BY <1>1
    <3>2. s \in Seq(Keys)
      BY <3>1, FlatType
    <3> QED BY <3>1, <3>2
  <2>3. SE!IsInjective(s) /\ SE!IsInjective(t)
    BY <1>3, <1>5
  <2>4. KeysOf(s) = KeysUpTo(b, i - 1)
    <3>1. i - 1 \in 0 .. Len(b)
      BY <1>1
    <3> QED BY <1>1, <3>1, FlatKeysUpTo
  <2>5. KeysOf(s) \cap KeysOf(t) = {}
    <3>1. ASSUME NEW k \in KeysOf(s), k \in KeysOf(t) PROVE FALSE
      <4>1. PICK h \in 1 .. i - 1 : k \in KeysOf(b[h])
        BY <2>4, <3>1 DEF KeysUpTo
      <4>2. BucketOf(k, n) = h
        BY <1>1, <1>2, <4>1
      <4>3. BucketOf(k, n) = i
        BY <1>2, <3>1
      <4> QED BY <4>2, <4>3
    <3> QED BY <3>1
  <2> HIDE DEF s, t
  <2>6. SE!IsInjective(s \o t)
    BY <2>2, <2>3, <2>5, InjectiveConcat
  <2>7. i \in 0 .. n
    BY <1>1
  <2> QED BY <2>1, <2>6, <2>7
<1> HIDE DEF T
<1>6. \A i \in 0 .. n : i \in T
  BY <1>1, <1>4, <1>5, Induction
<1>7. n \in T
  BY <1>1, <1>6
<1>8. SubSeq(b, 1, n) = b
  BY <1>1
<1>. QED BY <1>1, <1>7, <1>8 DEF T

(* find looks in the right bucket.                                         *)
LEMMA FoundInBucket ==
  ASSUME NEW u, Sound(u), bucket_count(u) # 0, NEW k \in Keys
  PROVE  k \in KeysIn(u) <=> k \in KeysOf(u.bucket[BucketOf(k, bucket_count(u))])
<1>1. KeysIn(u) = UNION {KeysOf(u.bucket[j]) : j \in 1 .. bucket_count(u)}
      /\ bucket_count(u) \in Nat
  BY TableFacts DEF Sound
<1>2. BucketOf(k, bucket_count(u)) \in 1 .. bucket_count(u)
  BY <1>1, BucketType
<1>. QED BY <1>1, <1>2 DEF Sound, InOwnBuckets

-----------------------------------------------------------------------------
(* v is u with bucket j replaced by x and a size greater by by.            *)
Replaces(u, v, j, x, by) ==
  /\ v \in Table
  /\ bucket_count(v) = bucket_count(u)
  /\ v.bucket = Put(u.bucket, j, x) /\ v.bucket[j] = x
  /\ \A i \in 1 .. bucket_count(u) : i # j => v.bucket[i] = u.bucket[i]
  /\ v.size = u.size + by
  /\ v.mlf = u.mlf
  /\ Nodes(v) = Nodes(u) - Len(u.bucket[j]) + Len(x)

LEMMA Relinking ==
  ASSUME NEW u \in Table, NEW j \in 1 .. bucket_count(u), NEW x \in Seq(Keys),
         NEW by \in Int, u.size + by \in Nat
  PROVE  Replaces(u, Relinked(u, j, x, by), j, x, by)
<1> DEFINE v == Relinked(u, j, x, by)
           b == u.bucket
<1>1. /\ b \in Seq(Seq(Keys)) /\ bucket_count(u) \in Nat /\ bucket_count(u) = Len(b)
      /\ b[j] \in Seq(Keys) /\ u.size \in Nat /\ u.mlf \in MaxLoads
  BY TableFacts
<1>2. DOMAIN b = 1 .. Len(b)
  BY <1>1
<1>3. v = [bucket |-> Put(b, j, x), size |-> u.size + by, mlf |-> u.mlf]
  <2>1. u = [bucket |-> u.bucket, size |-> u.size, mlf |-> u.mlf]
    BY DEF Table
  <2>2. Put(b, j, x) = [i \in DOMAIN b |-> IF i = j THEN x ELSE b[i]]
    BY <1>2 DEF Put
  <2>3. v = [u EXCEPT !.bucket = Put(b, j, x), !.size = u.size + by]
    BY <2>2 DEF Relinked
  <2> QED BY <2>1, <2>3
<1>4. Nodes(v) = Len(Flat(Put(b, j, x))) /\ Nodes(u) = Len(Flat(b))
  <2>1. v.bucket = Put(b, j, x)
    BY <1>3
  <2> HIDE DEF b, v
  <2>2. Elements(v) = Flat(Put(b, j, x)) /\ Elements(u) = Flat(b)
    BY <2>1 DEF Elements, Flat, b
  <2> QED BY <2>2 DEF Nodes
<1> HIDE DEF b, v
<1>5. /\ Put(b, j, x) \in Seq(Seq(Keys)) /\ Len(Put(b, j, x)) = Len(b)
      /\ Put(b, j, x)[j] = x
      /\ \A i \in 1 .. Len(b) : i # j => Put(b, j, x)[i] = b[i]
  <2>1. b \in Seq(Seq(Keys)) /\ j \in 1 .. Len(b) /\ x \in Seq(Keys)
    BY <1>1
  <2> QED BY ONLY <2>1, PutType
<1>6. v \in Table
  BY <1>1, <1>3, <1>5 DEF Table
<1>7. bucket_count(v) = bucket_count(u)
  BY <1>1, <1>3, <1>5 DEF bucket_count
<1>8. Nodes(v) = Nodes(u) - Len(b[j]) + Len(x)
  <2>1. b \in Seq(Seq(Keys)) /\ j \in 1 .. Len(b) /\ x \in Seq(Keys)
    BY <1>1
  <2>2. Len(Flat(Put(b, j, x))) = Len(Flat(b)) - Len(b[j]) + Len(x)
    BY <2>1, FlatPutLen
  <2> QED BY <1>4, <2>2
<1>9. v.bucket = Put(b, j, x) /\ v.size = u.size + by /\ v.mlf = u.mlf
  BY <1>3
<1>. QED BY <1>1, <1>5, <1>6, <1>7, <1>8, <1>9 DEF b, v, Replaces

-----------------------------------------------------------------------------
(* One element more, or one less.                                          *)
LEMMA Inserting ==
  ASSUME NEW S, NEW s \in Seq(S), NEW i \in 1 .. Len(s) + 1, NEW e \in S
  PROVE  LET t == SE!InsertAt(s, i, e)
         IN /\ t \in Seq(S) /\ Len(t) = Len(s) + 1
            /\ \A h \in 1 .. i - 1 : t[h] = s[h]
            /\ t[i] = e
            /\ \A h \in i .. Len(s) : t[h + 1] = s[h]
<1> DEFINE p == SubSeq(s, 1, i - 1)
           q == SubSeq(s, i, Len(s))
           t == (p \o <<e>>) \o q
<1>1. Len(s) \in Nat
  OBVIOUS
<1>2. p \in Seq(S) /\ Len(p) = i - 1 /\ \A h \in 1 .. i - 1 : p[h] = s[h]
  BY <1>1
<1>3. q \in Seq(S) /\ Len(q) = Len(s) - i + 1 /\ \A h \in 1 .. Len(s) - i + 1 : q[h] = s[h + i - 1]
  BY <1>1
<1>4. SE!InsertAt(s, i, e) = t
  BY DEF SE!InsertAt
<1> DEFINE r == p \o <<e>>
<1> HIDE DEF p, q
<1>5. r \in Seq(S) /\ Len(r) = i /\ r[i] = e /\ \A h \in 1 .. i - 1 : r[h] = s[h]
  BY <1>1, <1>2
<1> HIDE DEF r
<1>6. r \o q \in Seq(S) /\ Len(r \o q) = Len(r) + Len(q)
  <2>1. r \in Seq(S) /\ q \in Seq(S)
    BY <1>3, <1>5
  <2> QED BY ONLY <2>1
<1>7. \A h \in 1 .. i : (r \o q)[h] = r[h]
  BY <1>1, <1>3, <1>5
<1>8. ASSUME NEW h \in i .. Len(s) PROVE (r \o q)[h + 1] = s[h]
  <2>1. h + 1 - i \in 1 .. Len(s) - i + 1 /\ (h + 1 - i) + i - 1 = h
    BY <1>1
  <2>2. (r \o q)[h + 1] = q[h + 1 - i]
    BY <1>1, <1>3, <1>5
  <2> QED BY <1>3, <2>1, <2>2
<1>9. t = r \o q
  BY DEF r
<1>10. Len(r \o q) = Len(s) + 1
  BY <1>1, <1>3, <1>5, <1>6
<1> HIDE DEF t
<1>. QED BY <1>4, <1>5, <1>6, <1>7, <1>8, <1>9, <1>10

LEMMA Removing ==
  ASSUME NEW S, NEW s \in Seq(S), NEW i \in 1 .. Len(s)
  PROVE  LET t == SE!RemoveAt(s, i)
         IN /\ t \in Seq(S) /\ Len(t) = Len(s) - 1
            /\ \A h \in 1 .. i - 1 : t[h] = s[h]
            /\ \A h \in i .. Len(s) - 1 : t[h] = s[h + 1]
<1> DEFINE p == SubSeq(s, 1, i - 1)
           q == SubSeq(s, i + 1, Len(s))
<1>1. Len(s) \in Nat
  OBVIOUS
<1>2. p \in Seq(S) /\ Len(p) = i - 1 /\ \A h \in 1 .. i - 1 : p[h] = s[h]
  BY <1>1
<1>3. q \in Seq(S) /\ Len(q) = Len(s) - i /\ \A h \in 1 .. Len(s) - i : q[h] = s[h + i]
  BY <1>1
<1>4. SE!RemoveAt(s, i) = p \o q
  BY DEF SE!RemoveAt
<1> HIDE DEF p, q
<1>5. p \o q \in Seq(S) /\ Len(p \o q) = Len(p) + Len(q)
  <2>1. p \in Seq(S) /\ q \in Seq(S)
    BY <1>2, <1>3
  <2> QED BY ONLY <2>1
<1>6. \A h \in 1 .. i - 1 : (p \o q)[h] = s[h]
  BY <1>1, <1>2, <1>3
<1>7. ASSUME NEW h \in i .. Len(s) - 1 PROVE (p \o q)[h] = s[h + 1]
  <2>1. h - (i - 1) \in 1 .. Len(s) - i /\ (h - (i - 1)) + i = h + 1
    BY <1>1
  <2>2. (p \o q)[h] = q[h - (i - 1)]
    BY <1>1, <1>2, <1>3
  <2> QED BY <1>3, <2>1, <2>2
<1>8. Len(p \o q) = Len(s) - 1
  BY <1>1, <1>2, <1>3, <1>5
<1>. QED BY <1>4, <1>5, <1>6, <1>7, <1>8

LEMMA InsertingKeys ==
  ASSUME NEW S, NEW s \in Seq(S), NEW i \in 1 .. Len(s) + 1, NEW e \in S
  PROVE  LET t == SE!InsertAt(s, i, e)
         IN /\ t \in Seq(S) /\ Len(t) = Len(s) + 1
            /\ KeysOf(t) = KeysOf(s) \cup {e}
            /\ SE!IsInjective(s) /\ e \notin KeysOf(s) => SE!IsInjective(t)
<1> DEFINE t == SE!InsertAt(s, i, e)
<1>1. /\ t \in Seq(S) /\ Len(t) = Len(s) + 1
      /\ \A h \in 1 .. i - 1 : t[h] = s[h]
      /\ t[i] = e
      /\ \A h \in i .. Len(s) : t[h + 1] = s[h]
  BY Inserting
<1> HIDE DEF t
<1>2. /\ KeysOf(s) = {s[h] : h \in 1 .. Len(s)} /\ DOMAIN s = 1 .. Len(s)
      /\ KeysOf(t) = {t[h] : h \in 1 .. Len(t)} /\ DOMAIN t = 1 .. Len(t)
      /\ Len(s) \in Nat
  <2>1. s \in Seq(S) /\ t \in Seq(S)
    BY <1>1
  <2>2. KeysOf(s) = {s[h] : h \in 1 .. Len(s)} /\ KeysOf(t) = {t[h] : h \in 1 .. Len(t)}
    BY <2>1, KeysType
  <2>3. DOMAIN s = 1 .. Len(s) /\ DOMAIN t = 1 .. Len(t) /\ Len(s) \in Nat
    BY <2>1
  <2> QED BY <2>2, <2>3
<1>3. ASSUME NEW h \in 1 .. Len(t)
      PROVE  \/ h < i /\ h \in 1 .. Len(s) /\ t[h] = s[h]
             \/ h = i /\ t[h] = e
             \/ h > i /\ h - 1 \in 1 .. Len(s) /\ t[h] = s[h - 1]
  <2>1. CASE h < i
    BY <1>1, <1>2, <2>1
  <2>2. CASE h > i
    <3>1. PICK m \in i .. Len(s) : m = h - 1
      BY <1>1, <1>2, <2>2
    <3>2. t[m + 1] = s[m] /\ m + 1 = h
      BY <1>1, <3>1
    <3> QED BY <1>2, <2>2, <3>1, <3>2
  <2> QED BY <1>1, <1>2, <2>1, <2>2
<1>8. ASSUME NEW h \in 1 .. Len(t), h # i
      PROVE  \E a \in 1 .. Len(s) : t[h] = s[a] /\ ((a = h /\ h < i) \/ (a = h - 1 /\ h > i))
  <2>1. CASE h < i /\ h \in 1 .. Len(s) /\ t[h] = s[h]
    BY <2>1, Zenon
  <2>2. CASE h > i /\ h - 1 \in 1 .. Len(s) /\ t[h] = s[h - 1]
    BY <2>2
  <2> QED BY <1>3, <1>8, <2>1, <2>2
<1>4. KeysOf(t) \subseteq KeysOf(s) \cup {e}
  <2> SUFFICES ASSUME NEW h \in 1 .. Len(t) PROVE t[h] \in KeysOf(s) \cup {e}
    BY <1>2
  <2> QED BY <1>2, <1>3
<1>5. e \in KeysOf(t)
  BY <1>1, <1>2
<1>6. KeysOf(s) \subseteq KeysOf(t)
  <2> SUFFICES ASSUME NEW h \in 1 .. Len(s) PROVE s[h] \in KeysOf(t)
    BY <1>2
  <2>1. CASE h < i
    BY <1>1, <1>2, <2>1
  <2>2. CASE h >= i
    <3>1. h \in i .. Len(s) /\ h + 1 \in 1 .. Len(t)
      BY <1>1, <1>2, <2>2
    <3> QED BY <1>1, <1>2, <3>1
  <2> QED BY <2>1, <2>2
<1>7. ASSUME SE!IsInjective(s), e \notin KeysOf(s) PROVE SE!IsInjective(t)
  <2>1. \A g, h \in 1 .. Len(s) : s[g] = s[h] => g = h
    BY <1>2, <1>7 DEF SE!IsInjective
  <2>2. \A h \in 1 .. Len(s) : s[h] # e
    BY <1>2, <1>7
  <2>3. ASSUME NEW g \in 1 .. Len(t), NEW h \in 1 .. Len(t), t[g] = t[h] PROVE g = h
    <3>4. \A f \in 1 .. Len(t) : f # i => t[f] # e
      <4> SUFFICES ASSUME NEW f \in 1 .. Len(t), f # i PROVE t[f] # e
        OBVIOUS
      <4>1. PICK a \in 1 .. Len(s) : t[f] = s[a]
        BY <1>8
      <4> QED BY <2>2, <4>1
    <3>1. CASE g = i
      BY <1>1, <2>3, <3>1, <3>4
    <3>2. CASE h = i
      BY <1>1, <2>3, <3>2, <3>4
    <3>3. CASE g # i /\ h # i
      <4>1. PICK a \in 1 .. Len(s) : t[g] = s[a] /\ ((a = g /\ g < i) \/ (a = g - 1 /\ g > i))
        BY <1>8, <3>3
      <4>2. PICK c \in 1 .. Len(s) : t[h] = s[c] /\ ((c = h /\ h < i) \/ (c = h - 1 /\ h > i))
        BY <1>8, <3>3
      <4>3. a = c
        BY <2>1, <2>3, <4>1, <4>2
      <4> QED BY <1>1, <1>2, <4>1, <4>2, <4>3
    <3> QED BY <3>1, <3>2, <3>3
  <2> QED BY <1>2, <2>3 DEF SE!IsInjective
<1>. QED BY <1>1, <1>4, <1>5, <1>6, <1>7 DEF t

LEMMA RemovingKeys ==
  ASSUME NEW S, NEW s \in Seq(S), NEW i \in 1 .. Len(s)
  PROVE  LET t == SE!RemoveAt(s, i)
         IN /\ t \in Seq(S) /\ Len(t) = Len(s) - 1
            /\ KeysOf(s) = KeysOf(t) \cup {s[i]}
            /\ SE!IsInjective(s) => SE!IsInjective(t) /\ s[i] \notin KeysOf(t)
<1> DEFINE t == SE!RemoveAt(s, i)
<1>1. /\ t \in Seq(S) /\ Len(t) = Len(s) - 1
      /\ \A h \in 1 .. i - 1 : t[h] = s[h]
      /\ \A h \in i .. Len(s) - 1 : t[h] = s[h + 1]
  BY Removing
<1> HIDE DEF t
<1>2. /\ KeysOf(s) = {s[h] : h \in 1 .. Len(s)} /\ DOMAIN s = 1 .. Len(s)
      /\ KeysOf(t) = {t[h] : h \in 1 .. Len(t)} /\ DOMAIN t = 1 .. Len(t)
      /\ Len(s) \in Nat
  <2>1. s \in Seq(S) /\ t \in Seq(S)
    BY <1>1
  <2>2. KeysOf(s) = {s[h] : h \in 1 .. Len(s)} /\ KeysOf(t) = {t[h] : h \in 1 .. Len(t)}
    BY <2>1, KeysType
  <2>3. DOMAIN s = 1 .. Len(s) /\ DOMAIN t = 1 .. Len(t) /\ Len(s) \in Nat
    BY <2>1
  <2> QED BY <2>2, <2>3
<1>3. ASSUME NEW h \in 1 .. Len(t)
      PROVE  \/ h < i /\ h \in 1 .. Len(s) /\ t[h] = s[h]
             \/ h >= i /\ h + 1 \in 1 .. Len(s) /\ t[h] = s[h + 1]
  <2>1. CASE h < i
    BY <1>1, <1>2, <2>1
  <2>2. CASE h >= i
    <3>1. h \in i .. Len(s) - 1
      BY <1>1, <1>2, <2>2
    <3> QED BY <1>1, <1>2, <2>2, <3>1
  <2> QED BY <1>1, <1>2, <2>1, <2>2
<1>8. ASSUME NEW h \in 1 .. Len(t)
      PROVE  \E a \in 1 .. Len(s) : t[h] = s[a] /\ ((a = h /\ h < i) \/ (a = h + 1 /\ h >= i))
  <2>1. CASE h < i /\ h \in 1 .. Len(s) /\ t[h] = s[h]
    BY <2>1, Zenon
  <2>2. CASE h >= i /\ h + 1 \in 1 .. Len(s) /\ t[h] = s[h + 1]
    BY <2>2
  <2> QED BY <1>3, <2>1, <2>2
<1>4. KeysOf(t) \subseteq KeysOf(s)
  <2> SUFFICES ASSUME NEW h \in 1 .. Len(t) PROVE t[h] \in KeysOf(s)
    BY <1>2
  <2> QED BY <1>2, <1>3
<1>5. KeysOf(s) \subseteq KeysOf(t) \cup {s[i]}
  <2> SUFFICES ASSUME NEW h \in 1 .. Len(s) PROVE s[h] \in KeysOf(t) \cup {s[i]}
    BY <1>2
  <2>1. CASE h < i
    BY <1>1, <1>2, <2>1
  <2>2. CASE h > i
    <3>1. PICK m \in i .. Len(s) - 1 : m = h - 1
      BY <1>2, <2>2
    <3>2. t[m] = s[m + 1] /\ m + 1 = h /\ m \in 1 .. Len(t)
      BY <1>1, <1>2, <3>1
    <3> QED BY <1>2, <3>2
  <2> QED BY <2>1, <2>2
<1>6. ASSUME SE!IsInjective(s) PROVE SE!IsInjective(t) /\ s[i] \notin KeysOf(t)
  <2>1. \A g, h \in 1 .. Len(s) : s[g] = s[h] => g = h
    BY <1>2, <1>6 DEF SE!IsInjective
  <2>2. ASSUME NEW g \in 1 .. Len(t), NEW h \in 1 .. Len(t), t[g] = t[h] PROVE g = h
    <3>1. PICK a \in 1 .. Len(s) : t[g] = s[a] /\ ((a = g /\ g < i) \/ (a = g + 1 /\ g >= i))
      BY <1>8
    <3>2. PICK c \in 1 .. Len(s) : t[h] = s[c] /\ ((c = h /\ h < i) \/ (c = h + 1 /\ h >= i))
      BY <1>8
    <3>3. a = c
      BY <2>1, <2>2, <3>1, <3>2
    <3> QED BY <1>1, <1>2, <3>1, <3>2, <3>3
  <2>3. ASSUME NEW h \in 1 .. Len(t) PROVE t[h] # s[i]
    <3>1. PICK a \in 1 .. Len(s) : t[h] = s[a] /\ ((a = h /\ h < i) \/ (a = h + 1 /\ h >= i))
      BY <1>8
    <3>2. a # i
      BY <1>1, <1>2, <3>1
    <3> QED BY <2>1, <3>1, <3>2
  <2> QED BY <1>2, <2>2, <2>3 DEF SE!IsInjective
<1>. QED BY <1>1, <1>2, <1>4, <1>5, <1>6 DEF t

-----------------------------------------------------------------------------
(* v is u with one node more, of key k, and the size greater by by.        *)
Joins(u, v, k, by) ==
  /\ Sound(v)
  /\ bucket_count(v) = bucket_count(u)
  /\ v.mlf = u.mlf
  /\ v.size = u.size + by
  /\ Nodes(v) = Nodes(u) + 1
  /\ KeysIn(v) = KeysIn(u) \cup {k}
  /\ Distinct(u) /\ k \notin KeysIn(u) => Distinct(v)

LEMMA Joining ==
  ASSUME NEW u, Sound(u), bucket_count(u) # 0, NEW k \in Keys, NEW by \in {0, 1},
         NEW j, j = BucketOf(k, bucket_count(u)), NEW i \in 1 .. Len(u.bucket[j]) + 1
  PROVE  Joins(u, Relinked(u, j, SE!InsertAt(u.bucket[j], i, k), by), k, by)
<1> DEFINE b == u.bucket[j]
           x == SE!InsertAt(b, i, k)
           v == Relinked(u, j, x, by)
           n == bucket_count(u)
<1>1. /\ u \in Table /\ n \in Nat \ {0} /\ u.size \in Nat /\ Nodes(u) \in Nat
      /\ KeysIn(u) = UNION {KeysOf(u.bucket[h]) : h \in 1 .. n}
      /\ \A h \in 1 .. n : u.bucket[h] \in Seq(Keys)
  BY TableFacts DEF Sound
<1>2. j \in 1 .. n
  BY <1>1, BucketType
<1>3. b \in Seq(Keys) /\ i \in 1 .. Len(b) + 1
  BY <1>1, <1>2
<1>4. \A h \in 1 .. n : \A m \in KeysOf(u.bucket[h]) : BucketOf(m, n) = h
  BY DEF Sound, InOwnBuckets
<1>5. b = u.bucket[j]
  OBVIOUS
<1>6. j = BucketOf(k, n)
  OBVIOUS
<1> HIDE DEF b, n
<1>7. /\ x \in Seq(Keys) /\ Len(x) = Len(b) + 1
      /\ KeysOf(x) = KeysOf(b) \cup {k}
      /\ SE!IsInjective(b) /\ k \notin KeysOf(b) => SE!IsInjective(x)
  BY <1>3, InsertingKeys
<1> HIDE DEF x
<1>8. u.size + by \in Nat /\ by \in Int
  BY <1>1
<1>9. /\ v \in Table /\ bucket_count(v) = n /\ v.bucket[j] = x
      /\ \A h \in 1 .. n : h # j => v.bucket[h] = u.bucket[h]
      /\ v.size = u.size + by /\ v.mlf = u.mlf
      /\ Nodes(v) = Nodes(u) - Len(b) + Len(x)
  <2>1. j \in 1 .. bucket_count(u)
    BY <1>2 DEF n
  <2>2. u \in Table /\ x \in Seq(Keys) /\ by \in Int /\ u.size + by \in Nat
    BY <1>1, <1>7, <1>8
  <2>3. Replaces(u, v, j, x, by)
    BY ONLY <2>1, <2>2, Relinking
  <2> HIDE DEF v
  <2> QED BY <1>5, <2>3 DEF n, Replaces
<1> HIDE DEF v
<1>10. KeysIn(v) = UNION {KeysOf(v.bucket[h]) : h \in 1 .. n}
  BY <1>9, TableFacts
<1>11. Nodes(v) = Nodes(u) + 1
  <2>1. Len(b) \in Nat
    BY <1>3
  <2> QED BY <1>1, <1>7, <1>9, <2>1
<1>12. KeysIn(v) = KeysIn(u) \cup {k}
  <2>1. ASSUME NEW m \in KeysIn(v) PROVE m \in KeysIn(u) \cup {k}
    <3>1. PICK h \in 1 .. n : m \in KeysOf(v.bucket[h])
      BY <1>10
    <3> QED BY <1>1, <1>2, <1>5, <1>7, <1>9, <3>1
  <2>2. ASSUME NEW m \in KeysIn(u) PROVE m \in KeysIn(v)
    <3>1. PICK h \in 1 .. n : m \in KeysOf(u.bucket[h])
      BY <1>1
    <3>2. m \in KeysOf(v.bucket[h])
      BY <1>5, <1>7, <1>9, <3>1
    <3> QED BY <1>10, <3>2
  <2>3. k \in KeysIn(v)
    BY <1>2, <1>7, <1>9, <1>10
  <2> QED BY <2>1, <2>2, <2>3
<1>13. Sound(v)
  <2>1. ASSUME NEW h \in 1 .. n, NEW m \in KeysOf(v.bucket[h]) PROVE BucketOf(m, n) = h
    <3>1. CASE h = j
      BY <1>4, <1>5, <1>6, <1>7, <1>9, <3>1
    <3>2. CASE h # j
      BY <1>4, <1>9, <3>2
    <3> QED BY <3>1, <3>2
  <2> QED BY <1>9, <2>1 DEF Sound, InOwnBuckets
<1>14. ASSUME Distinct(u), k \notin KeysIn(u) PROVE Distinct(v)
  <2>1. \A h \in 1 .. n : SE!IsInjective(u.bucket[h])
    BY <1>14 DEF Distinct, n
  <2>2. k \notin KeysOf(b)
    BY <1>1, <1>2, <1>5, <1>14
  <2>3. SE!IsInjective(x)
    BY <1>2, <1>5, <1>7, <2>1, <2>2
  <2>4. \A h \in 1 .. n : SE!IsInjective(v.bucket[h])
    BY <1>9, <2>1, <2>3
  <2> QED BY <1>9, <2>4 DEF Distinct
<1>. QED BY <1>9, <1>11, <1>12, <1>13, <1>14 DEF Joins, n, x, v, b

LEMMA Front ==
  ASSUME NEW S, NEW b \in Seq(S), NEW k \in S
  PROVE  <<k>> \o b = SE!InsertAt(b, 1, k)
BY DEF SE!InsertAt

(* What an insertion may do to u.                                          *)
Grows(u, v, k) ==
  \/ Joins(u, v, k, 1)
  \/ v = u /\ k \in KeysIn(u)

LEMMA LinkingUnique ==
  ASSUME NEW u, Sound(u), bucket_count(u) # 0, NEW k \in Keys
  PROVE  /\ Grows(u, LinkUnique(u, k), k)
         /\ Distinct(u) => Distinct(LinkUnique(u, k))
<1> DEFINE n == bucket_count(u)
           j == BucketOf(k, n)
           b == u.bucket[j]
           v == Relinked(u, j, <<k>> \o b, 1)
<1>1. n \in Nat \ {0} /\ \A h \in 1 .. n : u.bucket[h] \in Seq(Keys)
  BY TableFacts DEF Sound
<1>2. b \in Seq(Keys)
  BY <1>1, BucketType
<1>3. k \in KeysIn(u) <=> k \in KeysOf(b)
  BY FoundInBucket
<1>4. <<k>> \o b = SE!InsertAt(b, 1, k) /\ 1 \in 1 .. Len(b) + 1
  BY <1>2, Front
<1>5. Joins(u, v, k, 1)
  BY <1>4, Joining
<1>6. LinkUnique(u, k) = IF k \in KeysOf(b) THEN u ELSE v
  BY DEF LinkUnique
<1> HIDE DEF v
<1>. QED BY <1>3, <1>5, <1>6 DEF Grows, Joins

LEMMA LinkingMulti ==
  ASSUME NEW u, Sound(u), bucket_count(u) # 0, NEW k \in Keys
  PROVE  Joins(u, LinkMulti(u, k), k, 1)
<1> DEFINE n == bucket_count(u)
           j == BucketOf(k, n)
           b == u.bucket[j]
           Behind(i) == /\ i = Len(b) \/ b[i + 1] = k
                        /\ \A h \in 1 .. i - 1 : b[h + 1] # k
           at == IF b = <<>> THEN 0 ELSE CHOOSE i \in 1 .. Len(b) : Behind(i)
<1>1. n \in Nat \ {0} /\ \A h \in 1 .. n : u.bucket[h] \in Seq(Keys)
  BY TableFacts DEF Sound
<1>2. b \in Seq(Keys) /\ Len(b) \in Nat
  BY <1>1, BucketType
<1>3. at + 1 \in 1 .. Len(b) + 1
  <2>1. CASE b = <<>>
    BY <1>2, <2>1
  <2>2. CASE b # <<>>
    <3> DEFINE U == {i \in 1 .. Len(b) : i = Len(b) \/ b[i + 1] = k}
    <3>1. Len(b) \in U
      BY <1>2, <2>2
    <3>2. PICK i \in U : \A m \in U : i <= m
      <4> U \subseteq Nat
        OBVIOUS
      <4> HIDE DEF U
      <4> QED BY <3>1, Least
    <3>3. Behind(i)
      <4>1. ASSUME NEW h \in 1 .. i - 1, b[h + 1] = k PROVE FALSE
        <5>1. h \in 1 .. Len(b) /\ ~(i <= h)
          BY <1>2
        <5>2. h \in U
          BY <4>1, <5>1
        <5> QED BY <3>2, <5>1, <5>2
      <4> QED BY <4>1
    <3>4. \E a \in 1 .. Len(b) : Behind(a)
      BY <3>3
    <3> HIDE DEF Behind
    <3>5. at \in 1 .. Len(b)
      BY <2>2, <3>4
    <3> QED BY <1>2, <3>5
  <2> QED BY <2>1, <2>2
<1>4. LinkMulti(u, k) = Relinked(u, j, SE!InsertAt(b, at + 1, k), 1)
  BY DEF LinkMulti
<1> HIDE DEF at
<1>5. Joins(u, Relinked(u, j, SE!InsertAt(b, at + 1, k), 1), k, 1)
  BY <1>3, Joining
<1>. QED BY <1>4, <1>5

LEMMA Linking ==
  ASSUME NEW u, Sound(u), bucket_count(u) # 0, NEW k \in Keys, NEW multi \in BOOLEAN
  PROVE  /\ Grows(u, Link(u, k, multi), k)
         /\ ~multi /\ Distinct(u) => Distinct(Link(u, k, multi))
BY LinkingUnique, LinkingMulti DEF Link, Grows

-----------------------------------------------------------------------------
(* Empty buckets.                                                          *)
LEMMA EmptyBuckets ==
  ASSUME NEW u \in Table, NEW n \in Nat, u.bucket = NoBuckets(n)
  PROVE  /\ Sound(u) /\ Distinct(u) /\ bucket_count(u) = n
         /\ Nodes(u) = 0 /\ KeysIn(u) = {} /\ Elements(u) = <<>>
<1>1. bucket_count(u) = n /\ \A j \in 1 .. n : u.bucket[j] = <<>>
  BY DEF NoBuckets, bucket_count
<1>2. KeysOf(<<>>) = {} /\ SE!IsInjective(<<>>)
  BY DEF KeysOf, SE!IsInjective
<1>3. Sound(u) /\ Distinct(u)
  BY <1>1, <1>2 DEF Sound, InOwnBuckets, Distinct
<1>4. KeysIn(u) = UNION {KeysOf(u.bucket[j]) : j \in 1 .. n} /\ Elements(u) \in Seq(Keys)
  BY <1>1, TableFacts
<1>5. KeysIn(u) = {}
  BY <1>1, <1>2, <1>4
<1>6. Elements(u) = <<>>
  BY <1>4, <1>5, KeysType DEF KeysIn
<1>7. Nodes(u) = 0
  BY <1>6 DEF Nodes
<1>. QED BY <1>1, <1>3, <1>5, <1>6, <1>7

LEMMA NoBucketsType ==
  ASSUME NEW n \in Nat
  PROVE  NoBuckets(n) \in Seq(Seq(Keys))
BY DEF NoBuckets

LEMMA FreshTable ==
  ASSUME NEW n \in Nat, NEW m \in MaxLoads
  PROVE  LET u == Fresh(n, m)
         IN /\ Sound(u) /\ Distinct(u) /\ bucket_count(u) = n /\ u.size = 0 /\ u.mlf = m
            /\ Nodes(u) = 0 /\ KeysIn(u) = {}
<1> DEFINE u == Fresh(n, m)
<1>1. u \in Table /\ u.bucket = NoBuckets(n) /\ u.size = 0 /\ u.mlf = m
  BY NoBucketsType DEF Fresh, Table
<1> HIDE DEF u
<1>2. /\ Sound(u) /\ Distinct(u) /\ bucket_count(u) = n /\ Nodes(u) = 0 /\ KeysIn(u) = {}
  BY <1>1, EmptyBuckets
<1>. QED BY <1>1, <1>2 DEF u

(* Two recursions that agree.                                              *)
LEMMA Agreement ==
  ASSUME NEW N \in Nat, NEW f, NEW g, g[0] = f[0],
         \A i \in 1 .. N : g[i - 1] = f[i - 1] => g[i] = f[i]
  PROVE  g[N] = f[N]
<1> DEFINE T == {i \in 0 .. N : g[i] = f[i]}
<1>1. 0 \in T
  OBVIOUS
<1>2. \A i \in 1 .. N : i - 1 \in T => i \in T
  OBVIOUS
<1> HIDE DEF T
<1>3. \A i \in 0 .. N : i \in T
  BY <1>1, <1>2, Induction
<1>4. N \in 0 .. N
  OBVIOUS
<1>. QED BY <1>3, <1>4 DEF T

-----------------------------------------------------------------------------
(* v has the elements of t, arranged anew.                                 *)
Rearranges(t, v) ==
  /\ Sound(v)
  /\ v.mlf = t.mlf
  /\ v.size = t.size
  /\ Nodes(v) = Nodes(t)
  /\ KeysIn(v) = KeysIn(t)
  /\ Distinct(t) => Distinct(v)

LEMMA Rehashing ==
  ASSUME NEW t, Sound(t), NEW n \in Nat \ {0}
  PROVE  Rearranges(t, Rehashed(t, n)) /\ bucket_count(Rehashed(t, n)) = n
<1> DEFINE s == Elements(t)
           N == Len(s)
           D == {u \in Table : Sound(u) /\ bucket_count(u) = n}
           base == [t EXCEPT !.bucket = NoBuckets(n)]
           E(x, i) == Relinked(x, BucketOf(s[i], n), <<s[i]>> \o x.bucket[BucketOf(s[i], n)], 0)
           step == [i \in 1 .. N |-> [x \in D |-> E(x, i)]]
<1>1. /\ t \in Table /\ s \in Seq(Keys) /\ N \in Nat /\ N = Nodes(t)
      /\ t.size \in Nat /\ t.mlf \in MaxLoads /\ KeysIn(t) = KeysOf(s)
  BY TableFacts DEF Sound, Nodes, KeysIn
<1>2. /\ base \in Table /\ base.bucket = NoBuckets(n)
      /\ base.size = t.size /\ base.mlf = t.mlf
  <2>1. NoBuckets(n) \in Seq(Seq(Keys))
    BY NoBucketsType
  <2> QED BY <1>1, <2>1 DEF Table
<1> HIDE DEF s, base
<1>3. /\ Sound(base) /\ Distinct(base) /\ bucket_count(base) = n
      /\ Nodes(base) = 0 /\ KeysIn(base) = {}
  BY <1>2, EmptyBuckets
<1>4. base \in D
  BY <1>2, <1>3
<1>5. ASSUME NEW x \in D, NEW i \in 1 .. N
      PROVE  E(x, i) \in D /\ Joins(x, E(x, i), s[i], 0)
  <2> DEFINE k == s[i]
             j == BucketOf(k, n)
             b == x.bucket[j]
  <2>1. k \in Keys
    BY <1>1
  <2> HIDE DEF k
  <2>2. x \in Table /\ Sound(x) /\ bucket_count(x) = n
    OBVIOUS
  <2>3. b \in Seq(Keys)
    BY <2>1, <2>2, BucketType, TableFacts
  <2>4. <<k>> \o b = SE!InsertAt(b, 1, k)
    BY <2>1, <2>3, Front
  <2>5. 1 \in 1 .. Len(b) + 1
    BY <2>3
  <2>6. Joins(x, Relinked(x, j, SE!InsertAt(b, 1, k), 0), k, 0)
    BY <2>1, <2>2, <2>5, Joining
  <2>7. Joins(x, E(x, i), k, 0)
    BY <2>4, <2>6 DEF k
  <2> HIDE DEF E
  <2>8. E(x, i) \in D
    BY <2>2, <2>7 DEF Joins, Sound
  <2> QED BY <2>7, <2>8 DEF k
<1>6. D = {u \in Table : Sound(u) /\ bucket_count(u) = n}
  OBVIOUS
<1> HIDE DEF E, D
<1>7. Steps(step, N, D)
  BY <1>5 DEF Steps
<1>8. \A i \in 1 .. N, x \in D : step[i][x] = E(x, i)
  OBVIOUS
<1> HIDE DEF step
<1>9. PICK f : IsRun(f, step, N, D, base)
  BY <1>1, <1>4, <1>7, Iterates
<1>10. f \in [0 .. N -> D] /\ f[0] = base
  BY <1>9 DEF IsRun
<1>11. ASSUME NEW i \in 1 .. N PROVE f[i - 1] \in D /\ f[i] = E(f[i - 1], i)
  <2>1. f[i - 1] \in D
    BY <1>1, <1>10
  <2> QED BY <1>8, <1>9, <2>1 DEF IsRun
<1> DEFINE R(i) == /\ f[i].size = t.size /\ f[i].mlf = t.mlf /\ Nodes(f[i]) = i
                   /\ KeysIn(f[i]) = {s[h] : h \in 1 .. i}
                   /\ SE!IsInjective(s) => Distinct(f[i])
           T == {i \in 0 .. N : R(i)}
<1>12. 0 \in T
  <2>1. R(0)
    BY <1>2, <1>3, <1>10
  <2> QED BY <1>1, <2>1
<1>13. ASSUME NEW i \in 1 .. N, i - 1 \in T PROVE i \in T
  <2> DEFINE x == f[i - 1]
             v == f[i]
  <2>1. Joins(x, v, s[i], 0)
    BY <1>5, <1>11
  <2>2. R(i - 1)
    BY <1>13
  <2>3. v.size = t.size /\ v.mlf = t.mlf
    BY <1>1, <2>1, <2>2 DEF Joins
  <2>4. Nodes(v) = i
    BY <2>1, <2>2 DEF Joins
  <2>5. KeysIn(v) = {s[h] : h \in 1 .. i}
    <3>1. 1 .. i = (1 .. i - 1) \cup {i}
      OBVIOUS
    <3>2. KeysIn(v) = KeysIn(x) \cup {s[i]} /\ KeysIn(x) = {s[h] : h \in 1 .. i - 1}
      BY <2>1, <2>2 DEF Joins
    <3> HIDE DEF v, x
    <3> QED BY <3>1, <3>2
  <2>6. ASSUME SE!IsInjective(s) PROVE Distinct(v)
    <3>1. s[i] \notin {s[h] : h \in 1 .. i - 1}
      BY <1>1, <2>6 DEF SE!IsInjective
    <3> QED BY <2>1, <2>2, <2>6, <3>1 DEF Joins
  <2>7. i \in 0 .. N
    BY <1>1
  <2> QED BY <2>3, <2>4, <2>5, <2>6, <2>7
<1> HIDE DEF T
<1>14. \A i \in 0 .. N : i \in T
  BY <1>1, <1>12, <1>13, Induction
<1>15. R(N) /\ f[N] \in D
  BY <1>1, <1>10, <1>14 DEF T
<1>16. {s[h] : h \in 1 .. N} = KeysOf(s)
  BY <1>1, KeysType
<1>17. Distinct(t) => SE!IsInjective(s)
  BY InjectiveElements DEF s
<1>18. Rearranges(t, f[N]) /\ bucket_count(f[N]) = n
  BY <1>1, <1>6, <1>15, <1>16, <1>17 DEF Rearranges
<1>19. Rehashed(t, n) = f[N]
  <2> DEFINE F(g) == [i \in 0 .. N |-> IF i = 0 THEN base ELSE E(g[i - 1], i)]
             moved == CHOOSE g : g = F(g)
  <2>1. f = F(f)
    BY <1>1, <1>10, <1>11
  <2>2. moved = F(moved)
    BY <2>1
  <2>3. Rehashed(t, n) = moved[N]
    BY DEF Rehashed, s, base, E
  <2> HIDE DEF moved
  <2>4. moved[0] = f[0]
    BY <1>1, <1>10, <2>2
  <2>5. \A i \in 1 .. N : moved[i - 1] = f[i - 1] => moved[i] = f[i]
    BY <1>1, <1>11, <2>2
  <2>6. moved[N] = f[N]
    BY <1>1, <2>4, <2>5, Agreement
  <2> QED BY <2>3, <2>6
<1>. QED BY <1>18, <1>19

LEMMA SameElements ==
  ASSUME NEW t, Sound(t)
  PROVE  Rearranges(t, t)
BY DEF Rearranges

LEMMA NextPrime ==
  ASSUME NEW n \in Nat
  PROVE  /\ next_prime(n) \in Nat \ {0} /\ n <= next_prime(n)
         /\ n < 31 => n < next_prime(n)
<1> DEFINE U == {p \in PrimeNumberArray : p > n}
           Next1(p) == p > n /\ \A q \in PrimeNumberArray : q > n => p <= q
<1>1. CASE \A q \in PrimeNumberArray : n >= q
  <2>1. n >= 31
    BY <1>1 DEF PrimeNumberArray
  <2> QED BY <1>1, <2>1 DEF next_prime
<1>2. CASE ~(\A q \in PrimeNumberArray : n >= q)
  <2>1. U # {} /\ U \subseteq Nat
    BY <1>2 DEF PrimeNumberArray
  <2>2. PICK p \in U : \A m \in U : p <= m
    <3> HIDE DEF U
    <3> QED BY <2>1, Least
  <2>3. p \in PrimeNumberArray /\ Next1(p)
    BY <2>2
  <2>4. next_prime(n) = CHOOSE c \in PrimeNumberArray : Next1(c)
    BY <1>2 DEF next_prime
  <2>5. next_prime(n) \in PrimeNumberArray /\ Next1(next_prime(n))
    BY <2>3, <2>4
  <2>6. next_prime(n) > n /\ next_prime(n) \in Nat
    BY <2>5 DEF PrimeNumberArray
  <2> QED BY <2>6
<1>. QED BY <1>1, <1>2

LEMMA Making ==
  ASSUME NEW t, Sound(t)
  PROVE  Rearranges(t, Room(t)) /\ bucket_count(Room(t)) \in Nat \ {0}
<1>1. bucket_count(t) \in Nat
  BY TableFacts DEF Sound
<1> DEFINE n == next_prime(bucket_count(t))
<1>2. n \in Nat \ {0}
  BY <1>1, NextPrime
<1> HIDE DEF n
<1>3. Rearranges(t, Rehashed(t, n)) /\ bucket_count(Rehashed(t, n)) = n
  BY <1>2, Rehashing
<1>4. CASE NeedsRoom(t)
  BY <1>2, <1>3, <1>4 DEF Room, n
<1>5. CASE ~NeedsRoom(t)
  BY <1>1, <1>5, SameElements DEF Room, NeedsRoom
<1>. QED BY <1>4, <1>5

LEMMA Fractions ==
  ASSUME NEW t \in Table
  PROVE  t.mlf[1] \in Nat \ {0} /\ t.mlf[2] \in Nat \ {0}
BY TableFacts, HashAssumption

LEMMA Product ==
  ASSUME NEW a \in Nat, NEW b \in Nat
  PROVE  a * b \in Nat
OBVIOUS

LEMMA Quotient ==
  ASSUME NEW a \in Nat, NEW b \in Nat \ {0}
  PROVE  a \div b \in Nat
OBVIOUS

LEMMA Rounding ==
  ASSUME NEW t \in Table, NEW size \in Nat
  PROVE  Floor(size, t) \in Nat /\ Ceil(size, t) \in Nat
<1> DEFINE n == t.mlf[1]
           d == t.mlf[2]
           x == size * d
<1>1. n \in Nat \ {0} /\ d \in Nat \ {0}
  BY Fractions
<1> HIDE DEF n, d
<1>2. x \in Nat
  BY <1>1, Product
<1>3. Floor(size, t) = x \div n /\ Ceil(size, t) = (x + n - 1) \div n
  BY DEF Floor, Ceil, n, d
<1> HIDE DEF x
<1>4. x + n - 1 \in Nat
  BY <1>1, <1>2
<1>. QED BY <1>1, <1>2, <1>3, <1>4, Quotient

LEMMA MakingForAll ==
  ASSUME NEW t, Sound(t), NEW len \in Nat
  PROVE  Rearranges(t, RoomForAll(t, len))
<1> DEFINE n == Floor(t.size + len, t)
<1>1. t \in Table /\ t.size + len \in Nat
  BY TableFacts DEF Sound
<1>2. n \in Nat
  BY <1>1, Rounding
<1>3. next_prime(n) \in Nat \ {0}
  BY <1>2, NextPrime
<1>4. Rearranges(t, Rehashed(t, next_prime(n)))
  BY <1>3, Rehashing
<1>. QED BY <1>4, SameElements DEF RoomForAll

-----------------------------------------------------------------------------
(* The nodes and the size have grown by as much.                           *)
Balances(t, v) == v.size + Nodes(t) = t.size + Nodes(v)

(* v is t with the elements of the range s, each of them new if multi.     *)
Collects(t, v, S, n, new) ==
  /\ Sound(v)
  /\ v.mlf = t.mlf
  /\ Balances(t, v)
  /\ t.size <= v.size /\ v.size <= t.size + n
  /\ KeysIn(v) = KeysIn(t) \cup S
  /\ Distinct(t) /\ new => Distinct(v)

(* A range of which no element makes a key occur twice.                    *)
Fits(t, s, multi) ==
  multi => SE!IsInjective(s) /\ KeysOf(s) \cap KeysIn(t) = {}

LEMMA OneMore ==
  ASSUME NEW t \in Table, NEW x \in Table, NEW v \in Table, Balances(t, x),
         v.size = x.size + 1, Nodes(v) = Nodes(x) + 1
  PROVE  Balances(t, v)
<1> DEFINE a == x.size
           b == Nodes(t)
           c == t.size
           d == Nodes(x)
<1>1. a \in Nat /\ b \in Nat /\ c \in Nat /\ d \in Nat
  BY TableFacts
<1>2. a + b = c + d
  BY DEF Balances
<1>3. v.size + Nodes(t) = (a + 1) + b /\ t.size + Nodes(v) = c + (d + 1)
  OBVIOUS
<1> HIDE DEF a, b, c, d
<1>4. (a + 1) + b = c + (d + 1)
  BY <1>1, <1>2
<1>. QED BY <1>3, <1>4 DEF Balances

LEMMA EmplacingAll ==
  ASSUME NEW t, Sound(t), NEW s \in Seq(Keys), NEW multi \in BOOLEAN
  PROVE  Collects(t, EmplacedAll(t, s, multi), KeysOf(s), Len(s), Fits(t, s, multi))
<1> DEFINE N == Len(s)
           D == {u \in Table : Sound(u)}
           E(x, i) == Link(Room(x), s[i], multi)
           step == [i \in 1 .. N |-> [x \in D |-> E(x, i)]]
<1>1. /\ t \in Table /\ N \in Nat /\ t.size \in Nat /\ Nodes(t) \in Nat
  BY TableFacts DEF Sound
<1>2. t \in D
  BY <1>1
<1>3. ASSUME NEW x \in D, NEW i \in 1 .. N
      PROVE  /\ E(x, i) \in D
             /\ Rearranges(x, Room(x))
             /\ Grows(Room(x), E(x, i), s[i])
             /\ ~multi /\ Distinct(Room(x)) => Distinct(E(x, i))
  <2> DEFINE k == s[i]
  <2>1. k \in Keys
    OBVIOUS
  <2> HIDE DEF k
  <2>2. Rearranges(x, Room(x)) /\ bucket_count(Room(x)) # 0
    BY Making
  <2>3. Sound(Room(x))
    BY <2>2 DEF Rearranges
  <2>4. /\ Grows(Room(x), Link(Room(x), k, multi), k)
        /\ ~multi /\ Distinct(Room(x)) => Distinct(Link(Room(x), k, multi))
    BY <2>1, <2>2, <2>3, Linking
  <2>5. Link(Room(x), k, multi) \in D
    BY <2>3, <2>4 DEF Grows, Joins, Sound
  <2> QED BY <2>2, <2>4, <2>5 DEF k
<1>4. D = {u \in Table : Sound(u)}
  OBVIOUS
<1>5. \A x \in D, i \in 1 .. N : E(x, i) = Link(Room(x), s[i], multi)
  OBVIOUS
<1> HIDE DEF E, D
<1>6. Steps(step, N, D)
  BY <1>3 DEF Steps
<1>7. \A i \in 1 .. N, x \in D : step[i][x] = E(x, i)
  OBVIOUS
<1> HIDE DEF step
<1>8. PICK f : IsRun(f, step, N, D, t)
  BY <1>1, <1>2, <1>6, Iterates
<1>9. f \in [0 .. N -> D] /\ f[0] = t
  BY <1>8 DEF IsRun
<1>10. ASSUME NEW i \in 1 .. N PROVE f[i - 1] \in D /\ f[i] \in D /\ f[i] = E(f[i - 1], i)
  <2>1. f[i - 1] \in D /\ f[i] \in D
    BY <1>1, <1>9
  <2> QED BY <1>7, <1>8, <2>1 DEF IsRun
<1> DEFINE Key(i) == {s[h] : h \in 1 .. i}
           R(i) == /\ f[i].mlf = t.mlf
                   /\ Balances(t, f[i])
                   /\ t.size <= f[i].size /\ f[i].size <= t.size + i
                   /\ KeysIn(f[i]) = KeysIn(t) \cup Key(i)
                   /\ Distinct(t) /\ Fits(t, s, multi) => Distinct(f[i])
           T == {i \in 0 .. N : R(i)}
<1>11. 0 \in T
  <2>1. Key(0) = {}
    OBVIOUS
  <2> HIDE DEF Key
  <2>2. Balances(t, t)
    BY DEF Balances
  <2>3. R(0)
    BY <1>1, <1>9, <2>1, <2>2
  <2> QED BY <1>1, <2>3
<1>12. ASSUME NEW i \in 1 .. N, i - 1 \in T PROVE i \in T
  <2> DEFINE x == f[i - 1]
             y == Room(x)
             v == f[i]
  <2>1. /\ Rearranges(x, y) /\ Grows(y, v, s[i])
        /\ ~multi /\ Distinct(y) => Distinct(v)
    BY <1>3, <1>10
  <2>2. R(i - 1)
    BY <1>12
  <2>3. /\ x.size \in Nat /\ Nodes(x) \in Nat /\ y.size \in Nat /\ Nodes(y) \in Nat
        /\ v.size \in Nat /\ Nodes(v) \in Nat
    <3>1. x \in Table /\ v \in Table /\ y \in Table
      BY <1>4, <1>10, <2>1 DEF Rearranges, Sound
    <3> HIDE DEF x, y, v
    <3> QED BY <3>1, TableFacts
  <2>4. Key(i) = Key(i - 1) \cup {s[i]}
    <3>1. 1 .. i = (1 .. i - 1) \cup {i}
      OBVIOUS
    <3> QED BY <3>1
  <2>5. /\ x.mlf = t.mlf
        /\ Balances(t, x)
        /\ t.size <= x.size /\ x.size <= t.size + (i - 1)
        /\ KeysIn(x) = KeysIn(t) \cup Key(i - 1)
        /\ Distinct(t) /\ Fits(t, s, multi) => Distinct(x)
    BY <2>2
  <2>6. ASSUME Fits(t, s, multi), multi PROVE s[i] \notin KeysIn(t) \cup Key(i - 1)
    <3>1. \A g, h \in 1 .. N : s[g] = s[h] => g = h
      BY <2>6 DEF Fits, SE!IsInjective
    <3>2. s[i] \notin Key(i - 1)
      BY <1>1, <3>1
    <3>3. s[i] \in KeysOf(s)
      BY KeysType
    <3> QED BY <2>6, <3>2, <3>3 DEF Fits
  <2>7. i \in 0 .. N
    BY <1>1
  <2> HIDE DEF x, y, v, Key, R
  <2>8. /\ y.mlf = t.mlf /\ y.size = x.size /\ Nodes(y) = Nodes(x)
        /\ KeysIn(y) = KeysIn(x) /\ (Distinct(x) => Distinct(y))
    BY <2>1, <2>5 DEF Rearranges
  <2>9. v.mlf = t.mlf
    BY <2>1, <2>8 DEF Grows, Joins
  <2>14. \/ v.size = x.size + 1 /\ Nodes(v) = Nodes(x) + 1
         \/ v.size = x.size /\ Nodes(v) = Nodes(x)
    BY <2>1, <2>8 DEF Grows, Joins
  <2>10. Balances(t, v)
    <3>1. t \in Table /\ x \in Table /\ v \in Table /\ Balances(t, x)
      BY <1>1, <1>4, <1>10, <2>5 DEF x, v
    <3>2. CASE v.size = x.size + 1 /\ Nodes(v) = Nodes(x) + 1
      BY ONLY <3>1, <3>2, OneMore
    <3>3. CASE v.size = x.size /\ Nodes(v) = Nodes(x)
      BY <3>1, <3>3 DEF Balances
    <3> QED BY <2>14, <3>2, <3>3
  <2>16. t.size <= x.size /\ x.size <= t.size + (i - 1)
    BY <2>5
  <2>17. i \in Nat
    OBVIOUS
  <2>11. t.size <= v.size /\ v.size <= t.size + i
    BY ONLY <1>1, <2>3, <2>14, <2>16, <2>17
  <2>12. KeysIn(v) = KeysIn(t) \cup Key(i)
    BY <2>1, <2>4, <2>5, <2>8 DEF Grows, Joins
  <2>13. ASSUME Distinct(t), Fits(t, s, multi) PROVE Distinct(v)
    <3>1. Distinct(y)
      BY <2>5, <2>8, <2>13
    <3>2. CASE multi
      BY <2>1, <2>5, <2>6, <2>8, <2>13, <3>1, <3>2 DEF Grows, Joins
    <3> QED BY <2>1, <3>1, <3>2
  <2> QED BY <2>7, <2>9, <2>10, <2>11, <2>12, <2>13 DEF R, v
<1> HIDE DEF T
<1>13. \A i \in 0 .. N : i \in T
  BY <1>1, <1>11, <1>12, Induction
<1>14. R(N) /\ f[N] \in D
  BY <1>1, <1>9, <1>13 DEF T
<1>15. Key(N) = KeysOf(s)
  BY KeysType
<1>16. Collects(t, f[N], KeysOf(s), N, Fits(t, s, multi))
  BY <1>4, <1>14, <1>15 DEF Collects
<1>17. EmplacedAll(t, s, multi) = f[N]
  <2> DEFINE F(g) == [i \in 0 .. N |-> IF i = 0 THEN t ELSE E(g[i - 1], i)]
             after == CHOOSE g : g = F(g)
  <2>1. f = F(f)
    BY <1>1, <1>9, <1>10
  <2>2. after = F(after)
    BY <2>1
  <2>3. EmplacedAll(t, s, multi) = after[N]
    BY DEF EmplacedAll, E
  <2> HIDE DEF after
  <2>4. after[0] = f[0]
    BY <1>1, <1>9, <2>2
  <2>5. \A i \in 1 .. N : after[i - 1] = f[i - 1] => after[i] = f[i]
    BY <1>1, <1>10, <2>2
  <2>6. after[N] = f[N]
    BY <1>1, <2>4, <2>5, Agreement
  <2> QED BY <2>3, <2>6
<1>. QED BY <1>16, <1>17

-----------------------------------------------------------------------------
(* clear.                                                                  *)
LEMMA Clearing ==
  ASSUME NEW t, Sound(t), Nodes(t) <= t.size
  PROVE  LET v == Cleared(t)
         IN /\ Sound(v) /\ Distinct(v) /\ v.mlf = t.mlf
            /\ Nodes(v) = 0 /\ v.size = t.size - Nodes(t) /\ KeysIn(v) = {}
<1> DEFINE n == bucket_count(t)
           v == Cleared(t)
<1>1. t \in Table /\ n \in Nat /\ t.size \in Nat /\ Nodes(t) \in Nat
  BY TableFacts DEF Sound
<1>2. NoBuckets(n) \in Seq(Seq(Keys))
  BY <1>1, NoBucketsType
<1>3. t.size - Nodes(t) \in Nat
  BY <1>1
<1>4. v = [t EXCEPT !.bucket = NoBuckets(n), !.size = t.size - Nodes(t)]
  BY DEF Cleared, Nodes
<1> HIDE DEF v, n
<1>5. v \in Table /\ v.bucket = NoBuckets(n) /\ v.size = t.size - Nodes(t) /\ v.mlf = t.mlf
  BY <1>1, <1>2, <1>3, <1>4 DEF Table
<1>6. Sound(v) /\ Distinct(v) /\ Nodes(v) = 0 /\ KeysIn(v) = {}
  BY <1>1, <1>5, EmptyBuckets
<1>. QED BY <1>5, <1>6 DEF v

(* The elements of Around(p, y, q).                                        *)
HasParts(s, S, p, y, q) ==
  /\ s \in Seq(S) /\ Len(s) = Len(p) + Len(y) + Len(q)
  /\ \A h \in 1 .. Len(p) : s[h] = p[h]
  /\ \A h \in 1 .. Len(y) : s[Len(p) + h] = y[h]
  /\ \A h \in 1 .. Len(q) : s[Len(p) + Len(y) + h] = q[h]

LEMMA AroundParts ==
  ASSUME NEW S, NEW p \in Seq(S), NEW y \in Seq(S), NEW q \in Seq(S)
  PROVE  HasParts(Around(p, y, q), S, p, y, q)
BY DEF Around, HasParts

(* A position behind another one.                                          *)
LEMMA Behind ==
  ASSUME NEW a \in Nat, NEW b \in Nat, NEW h \in Nat, a < h, h <= a + b
  PROVE  h - a \in 1 .. b /\ h = a + (h - a)
OBVIOUS

(* One node less.                                                          *)
LEMMA RemovingAround ==
  ASSUME NEW S, NEW p \in Seq(S), NEW y \in Seq(S), NEW q \in Seq(S), NEW i \in 1 .. Len(y)
  PROVE  Around(p, SE!RemoveAt(y, i), q) = SE!RemoveAt(Around(p, y, q), Len(p) + i)
<1> DEFINE x == SE!RemoveAt(y, i)
           s == Around(p, y, q)
           n == Len(p)
           t == SE!RemoveAt(s, n + i)
           r == Around(p, x, q)
<1>1. n \in Nat /\ Len(y) \in Nat /\ Len(q) \in Nat
  OBVIOUS
<1>2. /\ x \in Seq(S) /\ Len(x) = Len(y) - 1
      /\ \A h \in 1 .. i - 1 : x[h] = y[h]
      /\ \A h \in i .. Len(y) - 1 : x[h] = y[h + 1]
  BY Removing
<1>3. /\ s \in Seq(S) /\ Len(s) = n + Len(y) + Len(q)
      /\ \A h \in 1 .. n : s[h] = p[h]
      /\ \A h \in 1 .. Len(y) : s[n + h] = y[h]
      /\ \A h \in 1 .. Len(q) : s[n + Len(y) + h] = q[h]
  <2>1. HasParts(s, S, p, y, q)
    BY AroundParts
  <2> HIDE DEF s
  <2> QED BY <2>1 DEF HasParts
<1> HIDE DEF x, s
<1>4. /\ r \in Seq(S) /\ Len(r) = n + Len(x) + Len(q)
      /\ \A h \in 1 .. n : r[h] = p[h]
      /\ \A h \in 1 .. Len(x) : r[n + h] = x[h]
      /\ \A h \in 1 .. Len(q) : r[n + Len(x) + h] = q[h]
  <2>1. HasParts(r, S, p, x, q)
    BY <1>2, AroundParts
  <2> HIDE DEF r
  <2> QED BY <2>1 DEF HasParts
<1>5. n + i \in 1 .. Len(s)
  BY <1>1, <1>3
<1>6. /\ t \in Seq(S) /\ Len(t) = Len(s) - 1
      /\ \A h \in 1 .. (n + i) - 1 : t[h] = s[h]
      /\ \A h \in n + i .. Len(s) - 1 : t[h] = s[h + 1]
  BY <1>3, <1>5, Removing
<1> HIDE DEF t, r, n
<1>7. Len(r) = Len(t)
  BY <1>1, <1>2, <1>3, <1>4, <1>6
<1>8. ASSUME NEW h \in 1 .. Len(t) PROVE r[h] = t[h]
  <2>1. CASE h <= n
    <3>1. h \in 1 .. n /\ h \in 1 .. (n + i) - 1
      BY <1>1, <2>1
    <3> QED BY <1>3, <1>4, <1>6, <3>1
  <2>2. CASE n < h /\ h < n + i
    <3>1. PICK g \in 1 .. i - 1 : h = n + g
      <4>1. h - n \in 1 .. i - 1 /\ h = n + (h - n)
        BY <1>1, <2>2
      <4> QED BY <4>1
    <3>2. g \in 1 .. Len(x) /\ g \in 1 .. Len(y) /\ h \in 1 .. (n + i) - 1
      BY <1>1, <1>2, <3>1
    <3> QED BY <1>2, <1>3, <1>4, <1>6, <3>1, <3>2
  <2>3. CASE n + i <= h /\ h < n + Len(y)
    <3>1. PICK g \in i .. Len(y) - 1 : h = n + g
      <4>1. h - n \in i .. Len(y) - 1 /\ h = n + (h - n)
        BY <1>1, <2>3
      <4> QED BY <4>1
    <3>2. g \in 1 .. Len(x) /\ g + 1 \in 1 .. Len(y)
      BY <1>1, <1>2
    <3>3. h \in n + i .. Len(s) - 1 /\ h + 1 = n + (g + 1)
      BY <1>1, <1>6, <2>3, <3>1
    <3>4. r[h] = x[g] /\ t[h] = s[n + (g + 1)] /\ x[g] = y[g + 1]
      BY <1>2, <1>4, <1>6, <3>1, <3>2, <3>3
    <3> QED BY <1>3, <3>2, <3>4
  <2>4. CASE n + Len(y) <= h
    <3>1. PICK g \in 1 .. Len(q) : h = n + Len(x) + g
      <4>1. /\ Len(x) = Len(y) - 1 /\ Len(s) = n + Len(y) + Len(q) /\ Len(t) = Len(s) - 1
            /\ Len(x) \in Nat /\ h \in 1 .. Len(t)
        BY <1>1, <1>2, <1>3, <1>6
      <4>2. /\ n + Len(x) \in Nat /\ h \in Nat
            /\ n + Len(x) < h /\ h <= n + Len(x) + Len(q)
        BY ONLY <1>1, <2>4, <4>1
      <4> QED BY ONLY <1>1, <4>2, Behind
    <3>2. h \in n + i .. Len(s) - 1 /\ h + 1 = n + Len(y) + g
      BY <1>1, <1>2, <1>3, <1>6, <2>4, <3>1
    <3>3. r[h] = q[g] /\ t[h] = s[n + Len(y) + g]
      BY <1>4, <1>6, <3>1, <3>2
    <3> QED BY <1>3, <3>3
  <2> QED BY <1>1, <2>1, <2>2, <2>3, <2>4
<1>9. r = t
  BY <1>4, <1>6, <1>7, <1>8, SeqEqual
<1>. QED BY <1>9 DEF r, t, s, x, n

-----------------------------------------------------------------------------
(* The p-th element is the i-th node of bucket j.                          *)
Locates(b, p, j, i) ==
  /\ j \in 1 .. Len(b) /\ i \in 1 .. Len(b[j])
  /\ p = Len(Flat(SubSeq(b, 1, j - 1))) + i

Before(b, j) == Len(Flat(SubSeq(b, 1, j - 1)))

LEMMA BeforeNext ==
  ASSUME NEW S, NEW b \in Seq(Seq(S)), NEW j \in 1 .. Len(b)
  PROVE  /\ Before(b, j) \in Nat /\ Len(b[j]) \in Nat
         /\ Before(b, j + 1) = Before(b, j) + Len(b[j])
<1> DEFINE p == Flat(SubSeq(b, 1, j - 1))
           q == Flat(SubSeq(b, 1, j))
           s == b[j]
<1>1. SubSeq(b, 1, j - 1) \in Seq(Seq(S)) /\ s \in Seq(S)
  OBVIOUS
<1>2. p \in Seq(S)
  BY <1>1, FlatType
<1>3. q = p \o s
  BY FlatStep
<1>4. (j + 1) - 1 = j
  OBVIOUS
<1>5. Before(b, j) = Len(p) /\ Before(b, j + 1) = Len(q)
  BY <1>4 DEF Before
<1> HIDE DEF p, q, s
<1>6. Len(p \o s) = Len(p) + Len(s) /\ Len(p) \in Nat /\ Len(s) \in Nat
  BY <1>1, <1>2
<1>. QED BY <1>3, <1>5, <1>6 DEF s

LEMMA Finding ==
  ASSUME NEW S, NEW b \in Seq(Seq(S)), NEW p \in 1 .. Len(Flat(b))
  PROVE  \E j \in DOMAIN b : Before(b, j) < p /\ p <= Before(b, j) + Len(b[j])
<1> DEFINE U == {j \in 1 .. Len(b) : p <= Before(b, j + 1)}
<1>1. Len(b) \in Nat /\ DOMAIN b = 1 .. Len(b) /\ p \in Nat
  OBVIOUS
<1>2. Len(b) # 0
  <2>1. SUFFICES ASSUME Len(b) = 0 PROVE FALSE
    OBVIOUS
  <2>2. b = <<>>
    BY <2>1, EmptySeq
  <2>3. Len(Flat(b)) = 0
    BY <2>2, FlatEmpty
  <2> QED BY <2>3
<1>3. Before(b, Len(b) + 1) = Len(Flat(b))
  <2>1. SubSeq(b, 1, Len(b)) = b
    BY SubSeqFull
  <2>2. (Len(b) + 1) - 1 = Len(b)
    BY <1>1
  <2> QED BY <2>1, <2>2 DEF Before
<1>4. Len(b) \in U
  <2>1. Len(b) \in 1 .. Len(b)
    BY <1>1, <1>2
  <2>2. Flat(b) \in Seq(S)
    BY FlatType
  <2>3. p <= Len(Flat(b))
    BY <2>2
  <2> QED BY <1>3, <2>1, <2>3
<1>5. PICK j \in U : \A h \in U : j <= h
  <2>1. U \subseteq Nat /\ U # {}
    BY <1>4
  <2> HIDE DEF U
  <2> QED BY <2>1, Least
<1>6. j \in 1 .. Len(b) /\ p <= Before(b, j + 1)
  BY <1>5
<1>7. Before(b, j) < p
  <2>1. CASE j = 1
    <3>1. SubSeq(b, 1, 0) = <<>>
      BY SubSeqEmpty
    <3>2. Before(b, 1) = Len(Flat(SubSeq(b, 1, 0)))
      BY DEF Before
    <3>3. Before(b, 1) = Len(<<>>)
      BY <3>1, <3>2, FlatEmpty
    <3>4. Len(<<>>) = 0
      BY EmptySeq
    <3> QED BY <1>1, <2>1, <3>3, <3>4
  <2>2. CASE j # 1
    <3>1. j - 1 \in 1 .. Len(b) /\ (j - 1) + 1 = j
      BY <1>1, <1>6, <2>2
    <3>2. j - 1 \notin U
      <4> HIDE DEF U
      <4>1. ~ j <= j - 1
        BY <1>6
      <4> QED BY <1>5, <4>1
    <3>3. ~ p <= Before(b, j)
      BY <3>1, <3>2
    <3>4. Before(b, j) \in Nat
      BY <1>6, BeforeNext
    <3> QED BY <1>1, <3>3, <3>4
  <2> QED BY <2>1, <2>2
<1>8. Before(b, j + 1) = Before(b, j) + Len(b[j])
  BY <1>6, BeforeNext
<1>. QED BY <1>1, <1>6, <1>7, <1>8

(* v is t without its p-th element.                                        *)
Drops(t, v, p) ==
  /\ Sound(v)
  /\ v.mlf = t.mlf
  /\ v.size = t.size - 1
  /\ Elements(v) = SE!RemoveAt(Elements(t), p)
  /\ Distinct(t) => Distinct(v)

LEMMA Unlinking ==
  ASSUME NEW t, Sound(t), t.size > 0, NEW j \in 1 .. bucket_count(t),
         NEW i \in 1 .. Len(t.bucket[j])
  PROVE  Drops(t, Unlink(t, j, i), Before(t.bucket, j) + i)
<1> DEFINE b == t.bucket
           y == b[j]
           x == SE!RemoveAt(y, i)
           v == Relinked(t, j, x, -1)
           n == bucket_count(t)
<1>1. /\ t \in Table /\ b \in Seq(Seq(Keys)) /\ n = Len(b) /\ n \in Nat
      /\ t.size \in Nat /\ y \in Seq(Keys)
  BY TableFacts DEF Sound
<1>2. v = Unlink(t, j, i)
  BY DEF Unlink
<1>3. /\ x \in Seq(Keys) /\ KeysOf(y) = KeysOf(x) \cup {y[i]}
      /\ SE!IsInjective(y) => SE!IsInjective(x)
  BY <1>1, RemovingKeys
<1>4. -1 \in Int /\ t.size + -1 \in Nat /\ t.size + -1 = t.size - 1
  BY <1>1
<1>5. Replaces(t, v, j, x, -1)
  <2> HIDE DEF x, v
  <2> QED BY <1>1, <1>3, <1>4, Relinking DEF v
<1>6. Elements(v) = SE!RemoveAt(Elements(t), Before(b, j) + i)
  <2>1. PICK p \in Seq(Keys), q \in Seq(Keys) :
          /\ p = Flat(SubSeq(b, 1, j - 1))
          /\ Flat(b) = Around(p, b[j], q)
          /\ Flat(Put(b, j, x)) = Around(p, x, q)
    <3>1. b \in Seq(Seq(Keys)) /\ j \in 1 .. Len(b) /\ x \in Seq(Keys)
      BY <1>1, <1>3
    <3> HIDE DEF x, b
    <3> QED BY ONLY <3>1, FlatPut
  <2>2. Around(p, x, q) = SE!RemoveAt(Around(p, y, q), Len(p) + i)
    <3> HIDE DEF y
    <3> QED BY <1>1, RemovingAround DEF y
  <2>3. v.bucket = Put(b, j, x)
    BY <1>5 DEF Replaces
  <2>4. Elements(v) = Flat(v.bucket) /\ Elements(t) = Flat(b)
    BY DEF Elements, Flat
  <2>5. Before(b, j) = Len(p)
    BY <2>1 DEF Before
  <2> QED BY <2>1, <2>2, <2>3, <2>4, <2>5
<1> HIDE DEF b, x, y, v, n
<1>7. /\ v \in Table /\ bucket_count(v) = n /\ v.bucket[j] = x /\ v.mlf = t.mlf
      /\ v.size = t.size - 1
      /\ \A h \in 1 .. n : h # j => v.bucket[h] = t.bucket[h]
  BY <1>4, <1>5 DEF Replaces, n
<1>8. InOwnBuckets(v)
  <2> SUFFICES ASSUME NEW h \in 1 .. n, NEW k \in KeysOf(v.bucket[h]) PROVE BucketOf(k, n) = h
    BY <1>7 DEF InOwnBuckets
  <2>1. k \in KeysOf(t.bucket[h])
    BY <1>3, <1>7 DEF y, b
  <2> QED BY <2>1 DEF Sound, InOwnBuckets, n
<1>9. ASSUME Distinct(t) PROVE Distinct(v)
  <2> SUFFICES ASSUME NEW h \in 1 .. n PROVE SE!IsInjective(v.bucket[h])
    BY <1>7 DEF Distinct
  <2>1. SE!IsInjective(t.bucket[h])
    BY <1>9 DEF Distinct, n
  <2> QED BY <1>3, <1>7, <2>1 DEF y, b
<1>. QED BY <1>2, <1>6, <1>7, <1>8, <1>9 DEF Drops, Sound, b

LEMMA UnlinkingAt ==
  ASSUME NEW t, Sound(t), Nodes(t) <= t.size, NEW p \in 1 .. Nodes(t)
  PROVE  Drops(t, UnlinkAt(t, p), p)
<1> DEFINE b == t.bucket
           At(j) == Before(b, j) < p /\ p <= Before(b, j) + Len(b[j])
           j == CHOOSE h \in DOMAIN b : At(h)
<1>1. /\ t \in Table /\ b \in Seq(Seq(Keys)) /\ bucket_count(t) = Len(b)
      /\ DOMAIN b = 1 .. bucket_count(t)
      /\ t.size \in Nat /\ Nodes(t) \in Nat /\ Nodes(t) = Len(Flat(b))
  <2>1. t \in Table /\ t.size \in Nat /\ Nodes(t) \in Nat /\ b \in Seq(Seq(Keys))
        /\ bucket_count(t) = Len(b) /\ Elements(t) = Flat(b)
    BY TableFacts DEF Sound
  <2>2. DOMAIN b = 1 .. Len(b)
    BY <2>1
  <2> QED BY <2>1, <2>2 DEF Nodes
<1>2. \E h \in DOMAIN b : At(h)
  <2> HIDE DEF b
  <2> QED BY <1>1, Finding
<1>3. j \in 1 .. bucket_count(t) /\ At(j)
  <2> HIDE DEF At, b
  <2> QED BY <1>1, <1>2
<1>4. UnlinkAt(t, p) = Unlink(t, j, p - Before(b, j))
  BY DEF UnlinkAt, Before, Flat
<1> HIDE DEF b, j
<1>5. Before(b, j) \in Nat /\ Len(b[j]) \in Nat
  BY <1>1, <1>3, BeforeNext
<1>6. PICK i \in 1 .. Len(b[j]) : p - Before(b, j) = i /\ p = Before(b, j) + i
  <2>1. p - Before(b, j) \in 1 .. Len(b[j]) /\ p = Before(b, j) + (p - Before(b, j))
    BY <1>3, <1>5
  <2> QED BY <2>1
<1>7. t.size > 0
  BY <1>1
<1>8. i \in 1 .. Len(t.bucket[j])
  BY <1>6 DEF b
<1>9. Drops(t, Unlink(t, j, i), Before(t.bucket, j) + i)
  BY <1>3, <1>7, <1>8, Unlinking
<1>. QED BY <1>4, <1>6, <1>9 DEF b

(* v is t with fewer elements.                                             *)
Sheds(t, v) ==
  /\ Sound(v)
  /\ v.mlf = t.mlf
  /\ Balances(t, v)
  /\ v.size <= t.size
  /\ KeysIn(v) \subseteq KeysIn(t)
  /\ Distinct(t) => Distinct(v)

LEMMA Dropping ==
  ASSUME NEW t, Sound(t), NEW p \in 1 .. Nodes(t), NEW v, Drops(t, v, p)
  PROVE  /\ Sheds(t, v)
         /\ Nodes(v) = Nodes(t) - 1
         /\ KeysIn(t) = KeysIn(v) \cup {Elements(t)[p]}
         /\ Distinct(t) => Elements(t)[p] \notin KeysIn(v)
         /\ \A h \in 1 .. p - 1 : Elements(v)[h] = Elements(t)[h]
<1> DEFINE s == Elements(t)
           r == Elements(v)
<1>1. /\ s \in Seq(Keys) /\ Nodes(t) = Len(s) /\ Nodes(t) \in Nat /\ t.size \in Nat
      /\ KeysIn(t) = KeysOf(s)
  BY TableFacts DEF Sound, Nodes, KeysIn
<1>2. Sound(v) /\ v.mlf = t.mlf /\ v.size = t.size - 1 /\ r = SE!RemoveAt(s, p)
      /\ (Distinct(t) => Distinct(v)) /\ Nodes(v) = Len(r) /\ KeysIn(v) = KeysOf(r)
  BY DEF Drops, Nodes, KeysIn
<1>3. Distinct(t) => SE!IsInjective(s)
  BY InjectiveElements
<1> HIDE DEF s, r
<1>4. p \in 1 .. Len(s)
  BY <1>1
<1>5. /\ r \in Seq(Keys) /\ Len(r) = Len(s) - 1
      /\ KeysOf(s) = KeysOf(r) \cup {s[p]}
      /\ SE!IsInjective(s) => SE!IsInjective(r) /\ s[p] \notin KeysOf(r)
  <2>1. s \in Seq(Keys) /\ r = SE!RemoveAt(s, p)
    BY <1>1, <1>2
  <2>2. r \in Seq(Keys) /\ Len(r) = Len(s) - 1
    BY ONLY <1>4, <2>1, Removing
  <2>3. KeysOf(s) = KeysOf(r) \cup {s[p]}
    BY ONLY <1>4, <2>1, RemovingKeys
  <2>4. SE!IsInjective(s) => SE!IsInjective(r) /\ s[p] \notin KeysOf(r)
    BY ONLY <1>4, <2>1, RemovingKeys
  <2> QED BY <2>2, <2>3, <2>4
<1>6. \A h \in 1 .. p - 1 : r[h] = s[h]
  BY <1>1, <1>2, <1>4, Removing
<1>7. Nodes(v) = Nodes(t) - 1
  BY <1>1, <1>2, <1>5
<1>8. Balances(t, v) /\ v.size <= t.size
  BY <1>1, <1>2, <1>7 DEF Balances
<1>9. KeysIn(v) \subseteq KeysIn(t)
  BY <1>1, <1>2, <1>5
<1>10. Sheds(t, v)
  BY <1>2, <1>8, <1>9 DEF Sheds
<1>. QED BY <1>1, <1>2, <1>3, <1>5, <1>6, <1>7, <1>10 DEF s, r

LEMMA ShedsNothing ==
  ASSUME NEW t, Sound(t)
  PROVE  Sheds(t, t)
<1>1. t.size \in Nat /\ Nodes(t) \in Nat
  BY TableFacts DEF Sound
<1>. QED BY <1>1 DEF Sheds, Balances

LEMMA ShedsOn ==
  ASSUME NEW t, Sound(t), NEW x, Sheds(t, x), NEW v, Sheds(x, v)
  PROVE  Sheds(t, v)
<1>1. t \in Table /\ x \in Table /\ v \in Table
  BY DEF Sheds, Sound
<1>2. /\ t.size \in Int /\ Nodes(t) \in Int /\ x.size \in Int /\ Nodes(x) \in Int
      /\ v.size \in Int /\ Nodes(v) \in Int
  BY <1>1, TableFacts
<1> DEFINE a == t.size
           b == Nodes(t)
           c == x.size
           d == Nodes(x)
           e == v.size
           g == Nodes(v)
<1>3. c + b = a + d /\ e + d = c + g /\ c <= a /\ e <= c
  BY DEF Sheds, Balances
<1> HIDE DEF a, b, c, d, e, g
<1>4. e + b = a + g /\ e <= a
  BY ONLY <1>2, <1>3 DEF a, b, c, d, e, g
<1>5. Balances(t, v) /\ v.size <= t.size
  BY <1>4 DEF Balances, a, b, e, g
<1>. QED BY <1>5 DEF Sheds

(* erase of a range of positions.                                          *)
LEMMA ErasingFrom ==
  ASSUME NEW t, Sound(t), Nodes(t) <= t.size,
         NEW first \in Nat \ {0}, NEW last \in Nat, first <= last, last <= Nodes(t)
  PROVE  /\ Sheds(t, WithoutFrom(t, first, last))
         /\ first = last => WithoutFrom(t, first, last) = UnlinkAt(t, first)
<1> DEFINE N == last - first + 1
           D == {u \in Table : Sound(u) /\ Nodes(u) <= u.size}
           E(x) == IF first <= Nodes(x) THEN UnlinkAt(x, first) ELSE x
           step == [i \in 1 .. N |-> [x \in D |-> E(x)]]
<1>1. N \in Nat \ {0} /\ Nodes(t) \in Nat /\ t.size \in Nat /\ t \in Table
  BY TableFacts DEF Sound
<1>2. t \in D
  BY <1>1
<1>3. ASSUME NEW x \in D
      PROVE  /\ E(x) \in D
             /\ first <= Nodes(x) => Sheds(x, E(x)) /\ Nodes(E(x)) = Nodes(x) - 1
  <2>1. CASE first <= Nodes(x)
    <3>1. x \in Table /\ Sound(x) /\ Nodes(x) <= x.size /\ E(x) = UnlinkAt(x, first)
      BY <2>1
    <3>2. Nodes(x) \in Nat /\ x.size \in Nat
      BY <3>1, TableFacts
    <3> HIDE DEF E
    <3>3. first \in 1 .. Nodes(x)
      BY <2>1, <3>2
    <3>4. Drops(x, E(x), first)
      BY <3>1, <3>3, UnlinkingAt
    <3>5. Sheds(x, E(x)) /\ Nodes(E(x)) = Nodes(x) - 1
      BY <3>1, <3>3, <3>4, Dropping
    <3>6. Sound(E(x)) /\ E(x).size = x.size - 1
      BY <3>4 DEF Drops
    <3>7. Nodes(E(x)) <= E(x).size
      BY <3>1, <3>2, <3>5, <3>6
    <3>8. E(x) \in D
      BY <3>6, <3>7 DEF Sound
    <3> QED BY <3>5, <3>8
  <2> QED BY <2>1
<1>4. \A x \in D : x \in Table /\ Sound(x) /\ Nodes(x) <= x.size
  OBVIOUS
<1>5. first <= Nodes(t) => E(t) = UnlinkAt(t, first)
  OBVIOUS
<1>6. \A x \in D : first <= Nodes(x) => E(x) = UnlinkAt(x, first)
  OBVIOUS
<1> HIDE DEF D, E
<1>7. Steps(step, N, D)
  BY <1>3 DEF Steps
<1>8. \A i \in 1 .. N, x \in D : step[i][x] = E(x)
  OBVIOUS
<1> HIDE DEF step, N
<1>9. PICK f : IsRun(f, step, N, D, t)
  BY <1>1, <1>2, <1>7, Iterates
<1>10. f[0] = t /\ \A i \in 0 .. N : f[i] \in D
  BY <1>9 DEF IsRun
<1>11. ASSUME NEW i \in 1 .. N PROVE f[i - 1] \in D /\ f[i] = E(f[i - 1])
  <2>1. i - 1 \in 0 .. N
    BY <1>1
  <2>2. f[i - 1] \in D
    BY <1>10, <2>1
  <2>3. f[i] = step[i][f[i - 1]]
    BY <1>9 DEF IsRun
  <2> QED BY <1>8, <2>2, <2>3
<1> DEFINE R(i) == Sheds(t, f[i]) /\ Nodes(f[i]) = Nodes(t) - i
           T == {i \in 0 .. N : R(i)}
<1>12. 0 \in T
  <2>1. Sheds(t, t)
    BY ShedsNothing
  <2>2. R(0)
    BY <1>1, <1>10, <2>1
  <2> QED BY <1>1, <2>2
<1>13. ASSUME NEW i \in 1 .. N, i - 1 \in T PROVE i \in T
  <2> DEFINE x == f[i - 1]
             v == f[i]
  <2>1. x \in D /\ v = E(x) /\ Sheds(t, x) /\ Nodes(x) = Nodes(t) - (i - 1)
    BY <1>11, <1>13
  <2> HIDE DEF x, v
  <2>2. first <= Nodes(x)
    BY <1>1, <2>1 DEF N
  <2>3. Sheds(x, v) /\ Nodes(v) = Nodes(x) - 1
    BY <1>3, <2>1, <2>2
  <2>4. Sheds(t, v)
    BY <2>1, <2>3, ShedsOn
  <2>5. Nodes(v) = Nodes(t) - i
    BY <1>1, <2>1, <2>3
  <2>6. i \in 0 .. N
    BY <1>1
  <2> QED BY <2>4, <2>5, <2>6 DEF v
<1> HIDE DEF T
<1>14. \A i \in 0 .. N : i \in T
  BY <1>1, <1>12, <1>13, Induction
<1>15. Sheds(t, f[N])
  BY <1>1, <1>14 DEF T
<1>16. WithoutFrom(t, first, last) = f[N]
  <2> DEFINE F(g) == [i \in 0 .. N |-> IF i = 0 THEN t ELSE UnlinkAt(g[i - 1], first)]
             erased == CHOOSE g : g = F(g)
  <2>1. \A i \in 1 .. N : f[i] = UnlinkAt(f[i - 1], first)
    <3> SUFFICES ASSUME NEW i \in 1 .. N PROVE f[i] = UnlinkAt(f[i - 1], first)
      OBVIOUS
    <3>1. i - 1 \in 0 .. N
      BY <1>1
    <3>2. Nodes(f[i - 1]) = Nodes(t) - (i - 1)
      BY <1>14, <3>1 DEF T
    <3>3. first <= Nodes(f[i - 1])
      BY <1>1, <3>2 DEF N
    <3> QED BY <1>6, <1>11, <3>3
  <2>2. f = F(f)
    BY <1>1, <1>9, <1>10, <2>1 DEF IsRun
  <2>3. erased = F(erased)
    BY <2>2
  <2>4. WithoutFrom(t, first, last) = erased[N]
    BY DEF WithoutFrom, N
  <2> HIDE DEF erased
  <2>5. erased[0] = f[0]
    BY <1>1, <1>10, <2>3
  <2>6. \A i \in 1 .. N : erased[i - 1] = f[i - 1] => erased[i] = f[i]
    BY <1>1, <2>1, <2>3
  <2>7. erased[N] = f[N]
    BY <1>1, <2>5, <2>6, Agreement
  <2> QED BY <2>4, <2>7
<1>17. ASSUME first = last PROVE f[N] = UnlinkAt(t, first)
  <2>1. N = 1
    BY <1>17 DEF N
  <2>2. f[1] = E(f[0])
    BY <1>11, <2>1
  <2> QED BY <1>5, <1>10, <1>17, <2>1, <2>2
<1>. QED BY <1>15, <1>16, <1>17

(* erase_if: what is visited, one element, and what holds with m elements  *)
(* to go.                                                                  *)
Visits ==
  {x \in [left : Table, at : Nat] : Sound(x.left) /\ Nodes(x.left) <= x.left.size}

Visit(x, S) ==
  IF Elements(x.left)[x.at] \in S
  THEN [x EXCEPT !.left = UnlinkAt(x.left, x.at)]
  ELSE [x EXCEPT !.at = x.at + 1]

Visited(t, S, x, m) ==
  /\ Sheds(t, x.left)
  /\ x.at \in Nat \ {0}
  /\ x.at + m = Nodes(x.left) + 1
  /\ \A h \in 1 .. x.at - 1 : Elements(x.left)[h] \notin S
  /\ KeysIn(t) \subseteq KeysIn(x.left) \cup S

LEMMA VisitsFacts ==
  ASSUME NEW x \in Visits
  PROVE  /\ x.left \in Table /\ Sound(x.left) /\ x.at \in Nat
         /\ Nodes(x.left) \in Nat /\ x.left.size \in Nat /\ Nodes(x.left) <= x.left.size
<1>1. x.left \in Table /\ Sound(x.left) /\ x.at \in Nat /\ Nodes(x.left) <= x.left.size
  BY DEF Visits
<1>2. Nodes(x.left) \in Nat /\ x.left.size \in Nat
  BY <1>1, TableFacts
<1>. QED BY <1>1, <1>2

LEMMA Visiting ==
  ASSUME NEW t, Sound(t), NEW S, NEW x \in Visits, NEW m \in Nat, Visited(t, S, x, m + 1)
  PROVE  Visit(x, S) \in Visits /\ Visited(t, S, Visit(x, S), m)
<1> DEFINE u == x.left
           a == x.at
           e == Elements(u)[a]
<1>1. /\ u \in Table /\ Sound(u) /\ a \in Nat /\ Nodes(u) \in Nat /\ u.size \in Nat
      /\ Nodes(u) <= u.size
  BY VisitsFacts
<1>2. /\ Sheds(t, u) /\ a # 0 /\ a + (m + 1) = Nodes(u) + 1
      /\ \A h \in 1 .. a - 1 : Elements(u)[h] \notin S
      /\ KeysIn(t) \subseteq KeysIn(u) \cup S
  BY DEF Visited
<1>3. x = [left |-> u, at |-> a]
  BY DEF Visits
<1>4. Visit(x, S) = IF e \in S THEN [left |-> UnlinkAt(u, a), at |-> a]
                               ELSE [left |-> u, at |-> a + 1]
  BY <1>3 DEF Visit
<1> HIDE DEF u, a
<1>5. a \in 1 .. Nodes(u)
  BY <1>1, <1>2
<1>6. CASE e \in S
  <2> DEFINE v == UnlinkAt(u, a)
             y == [left |-> v, at |-> a]
  <2>1. Visit(x, S) = y
    BY <1>4, <1>6
  <2>2. Drops(u, v, a)
    BY <1>1, <1>5, UnlinkingAt
  <2> HIDE DEF v
  <2>3. /\ Sheds(u, v) /\ Nodes(v) = Nodes(u) - 1 /\ KeysIn(u) = KeysIn(v) \cup {e}
        /\ \A h \in 1 .. a - 1 : Elements(v)[h] = Elements(u)[h]
    BY <1>1, <1>5, <2>2, Dropping
  <2>4. Sheds(t, v)
    BY <1>2, <2>3, ShedsOn
  <2>5. v \in Table /\ Sound(v) /\ v.size = u.size - 1
    BY <2>2 DEF Drops, Sound
  <2>6. Nodes(v) <= v.size
    BY <1>1, <2>3, <2>5
  <2>7. \A h \in 1 .. a - 1 : Elements(v)[h] \notin S
    BY <1>2, <2>3
  <2>8. KeysIn(t) \subseteq KeysIn(v) \cup S
    BY <1>2, <1>6, <2>3
  <2>9. a \in Nat \ {0} /\ a + m = Nodes(v) + 1
    BY <1>1, <1>2, <2>3
  <2>10. y.left = v /\ y.at = a /\ y \in [left : Table, at : Nat]
    BY <1>1, <2>5
  <2> HIDE DEF y
  <2>11. y \in Visits
    BY <2>5, <2>6, <2>10 DEF Visits
  <2>12. Visited(t, S, y, m)
    BY <2>4, <2>7, <2>8, <2>9, <2>10 DEF Visited
  <2> QED BY <2>1, <2>11, <2>12
<1>7. CASE e \notin S
  <2> DEFINE y == [left |-> u, at |-> a + 1]
  <2>1. Visit(x, S) = y
    BY <1>4, <1>7
  <2>2. \A h \in 1 .. (a + 1) - 1 : Elements(u)[h] \notin S
    <3> SUFFICES ASSUME NEW h \in 1 .. (a + 1) - 1 PROVE Elements(u)[h] \notin S
      OBVIOUS
    <3>1. h = a \/ h \in 1 .. a - 1
      BY <1>1
    <3> QED BY <1>2, <1>7, <3>1
  <2>3. a + 1 \in Nat \ {0} /\ (a + 1) + m = Nodes(u) + 1
    BY <1>1, <1>2
  <2>4. y.left = u /\ y.at = a + 1 /\ y \in [left : Table, at : Nat]
    BY <1>1
  <2> HIDE DEF y
  <2>5. y \in Visits
    BY <1>1, <2>4 DEF Visits
  <2>6. Visited(t, S, y, m)
    BY <1>2, <2>2, <2>3, <2>4 DEF Visited
  <2> QED BY <2>1, <2>5, <2>6
<1>. QED BY <1>6, <1>7

LEMMA VisitedAll ==
  ASSUME NEW t, Sound(t), NEW S, NEW x \in Visits, Visited(t, S, x, 0)
  PROVE  Sheds(t, x.left) /\ KeysIn(x.left) = KeysIn(t) \ S
<1> DEFINE u == x.left
<1>1. u \in Table /\ Nodes(u) \in Nat /\ x.at \in Nat
  BY VisitsFacts
<1>2. /\ Sheds(t, u) /\ x.at + 0 = Nodes(u) + 1
      /\ \A h \in 1 .. x.at - 1 : Elements(u)[h] \notin S
      /\ KeysIn(t) \subseteq KeysIn(u) \cup S
  BY DEF Visited
<1> HIDE DEF u
<1>3. x.at - 1 = Nodes(u)
  BY <1>1, <1>2
<1>4. Elements(u) \in Seq(Keys)
  BY <1>1, TableFacts
<1>5. KeysIn(u) = {Elements(u)[h] : h \in 1 .. Nodes(u)}
  BY <1>4, KeysType DEF KeysIn, Nodes
<1>6. KeysIn(u) \cap S = {}
  BY <1>2, <1>3, <1>5
<1>7. KeysIn(u) \subseteq KeysIn(t)
  BY <1>2 DEF Sheds
<1>. QED BY <1>2, <1>6, <1>7 DEF u

LEMMA ErasingIf ==
  ASSUME NEW t, Sound(t), Nodes(t) <= t.size, NEW S
  PROVE  Sheds(t, WithoutAll(t, S)) /\ KeysIn(WithoutAll(t, S)) = KeysIn(t) \ S
<1> DEFINE N == Nodes(t)
           base == [left |-> t, at |-> 1]
           E(x) == IF x.at \in 1 .. Nodes(x.left) THEN Visit(x, S) ELSE x
<1>1. t \in Table /\ N \in Nat /\ N = Len(Elements(t))
  BY TableFacts DEF Sound, Nodes
<1>2. base \in Visits
  BY <1>1 DEF Visits
<1>3. Visited(t, S, base, N)
  <2>1. Sheds(t, t)
    BY ShedsNothing
  <2>2. base.left = t /\ base.at = 1
    OBVIOUS
  <2> HIDE DEF base
  <2>3. \A h \in 1 .. base.at - 1 : Elements(t)[h] \notin S
    BY <2>2
  <2>4. base.at + N = Nodes(t) + 1
    BY <1>1, <2>2
  <2>5. base.at \in Nat \ {0} /\ KeysIn(t) \subseteq KeysIn(t) \cup S
    BY <2>2
  <2> HIDE DEF N
  <2> QED BY <2>1, <2>2, <2>3, <2>4, <2>5 DEF Visited
<1> HIDE DEF base, N
<1> DEFINE D == {x \in Visits : \E m \in Nat : Visited(t, S, x, m)}
           step == [i \in 1 .. N |-> [x \in D |-> E(x)]]
<1>4. base \in D
  BY <1>1, <1>2, <1>3
<1>5. ASSUME NEW x \in D, NEW m \in Nat, Visited(t, S, x, m + 1)
      PROVE  x.at \in 1 .. Nodes(x.left) /\ E(x) = Visit(x, S)
  <2>1. x.at \in Nat \ {0} /\ x.at + (m + 1) = Nodes(x.left) + 1
    BY <1>5 DEF Visited
  <2>2. Nodes(x.left) \in Nat
    BY VisitsFacts
  <2>3. x.at \in 1 .. Nodes(x.left)
    BY <2>1, <2>2
  <2> QED BY <2>3
<1>6. ASSUME NEW x \in D PROVE E(x) \in D
  <2>1. PICK m \in Nat : Visited(t, S, x, m)
    OBVIOUS
  <2>2. CASE x.at \in 1 .. Nodes(x.left)
    <3>1. x.at \in Nat \ {0} /\ x.at + m = Nodes(x.left) + 1
      BY <2>1 DEF Visited
    <3>2. Nodes(x.left) \in Nat
      BY VisitsFacts
    <3>3. m - 1 \in Nat /\ m = (m - 1) + 1
      BY <2>2, <3>1, <3>2
    <3>4. PICK k \in Nat : m = k + 1
      BY <3>3
    <3>5. Visit(x, S) \in Visits /\ Visited(t, S, Visit(x, S), k)
      BY <2>1, <3>4, Visiting
    <3>6. E(x) = Visit(x, S)
      BY <2>2
    <3> HIDE DEF E
    <3> QED BY <3>5, <3>6
  <2> QED BY <2>2
<1>7. \A x \in D : x \in Visits
  OBVIOUS
<1> HIDE DEF D, E
<1>8. Steps(step, N, D)
  BY <1>6 DEF Steps
<1>9. \A i \in 1 .. N, x \in D : step[i][x] = E(x)
  OBVIOUS
<1> HIDE DEF step
<1>10. PICK f : IsRun(f, step, N, D, base)
  BY <1>1, <1>4, <1>8, Iterates
<1>11. f[0] = base /\ \A i \in 0 .. N : f[i] \in D
  BY <1>10 DEF IsRun
<1>12. ASSUME NEW i \in 1 .. N PROVE f[i - 1] \in D /\ f[i] = E(f[i - 1])
  <2>1. i - 1 \in 0 .. N
    BY <1>1
  <2>2. f[i - 1] \in D
    BY <1>11, <2>1
  <2>3. f[i] = step[i][f[i - 1]]
    BY <1>10 DEF IsRun
  <2> QED BY <1>9, <2>2, <2>3
<1> DEFINE T == {i \in 0 .. N : Visited(t, S, f[i], N - i)}
<1>13. 0 \in T
  <2>1. N - 0 = N
    BY <1>1
  <2> QED BY <1>1, <1>3, <1>11, <2>1
<1>14. ASSUME NEW i \in 1 .. N, i - 1 \in T
       PROVE  i \in T /\ f[i] = Visit(f[i - 1], S)
  <2> DEFINE x == f[i - 1]
  <2>1. PICK m \in Nat : m = N - i
    <3>1. N - i \in Nat
      BY <1>1
    <3> QED BY <3>1
  <2>2. N - (i - 1) = m + 1
    BY <1>1, <2>1
  <2>3. x \in D /\ f[i] = E(x) /\ Visited(t, S, x, m + 1)
    BY <1>12, <1>14, <2>2
  <2> HIDE DEF x
  <2>4. E(x) = Visit(x, S)
    BY <1>5, <2>3
  <2>5. Visited(t, S, Visit(x, S), m)
    BY <1>7, <2>3, Visiting
  <2>6. i \in 0 .. N
    BY <1>1
  <2> QED BY <2>1, <2>3, <2>4, <2>5, <2>6 DEF x
<1>15. \A i \in 0 .. N : i \in T
  <2> HIDE DEF T
  <2> QED BY <1>1, <1>13, <1>14, Induction
<1>16. \A i \in 1 .. N : f[i] = Visit(f[i - 1], S)
  <2> SUFFICES ASSUME NEW i \in 1 .. N PROVE f[i] = Visit(f[i - 1], S)
    OBVIOUS
  <2>1. i - 1 \in 0 .. N
    BY <1>1
  <2> HIDE DEF T
  <2> QED BY <1>14, <1>15, <2>1
<1>17. f[N] \in Visits /\ Visited(t, S, f[N], 0)
  <2>1. N \in 0 .. N /\ N - N = 0
    BY <1>1
  <2> QED BY <1>7, <1>11, <1>15, <2>1
<1> HIDE DEF T
<1>18. WithoutAll(t, S) = f[N].left
  <2> DEFINE F(g) == [i \in 0 .. N |-> IF i = 0 THEN base ELSE Visit(g[i - 1], S)]
             visited == CHOOSE g : g = F(g)
  <2>1. f = F(f)
    BY <1>1, <1>10, <1>11, <1>16 DEF IsRun
  <2>2. visited = F(visited)
    BY <2>1
  <2>3. WithoutAll(t, S) = visited[N].left
    BY DEF WithoutAll, Visit, base, N, Nodes
  <2> HIDE DEF visited
  <2>4. visited[0] = f[0]
    BY <1>1, <1>11, <2>2
  <2>5. \A i \in 1 .. N : visited[i - 1] = f[i - 1] => visited[i] = f[i]
    BY <1>1, <1>16, <2>2
  <2>6. visited[N] = f[N]
    BY <1>1, <2>4, <2>5, Agreement
  <2> QED BY <2>3, <2>6
<1>. QED BY <1>17, <1>18, VisitedAll

-----------------------------------------------------------------------------
(* The inductive invariant: each table is right when n nodes are lost.     *)
Right(u, n) ==
  /\ Sound(u)
  /\ Nodes(u) <= u.size /\ u.size <= Nodes(u) + n
  /\ ~Multi => Distinct(u)

Inv == TypeOK /\ \A t \in Tables : Lives(t) => Right(table[t], lost)

LEMMA RightSums ==
  ASSUME NEW a \in Nat, NEW b \in Nat, NEW c \in Nat, NEW d \in Nat, NEW n \in Nat,
         b <= a, a <= b + n, c + b = a + d
  PROVE  d <= c /\ c <= d + n
OBVIOUS

LEMMA RightBalanced ==
  ASSUME NEW t, NEW n \in Nat, Right(t, n), NEW v, Sound(v), Balances(t, v),
         ~Multi => Distinct(v)
  PROVE  Right(v, n)
<1>1. t \in Table /\ v \in Table
  BY DEF Right, Sound
<1>2. /\ t.size \in Nat /\ Nodes(t) \in Nat /\ v.size \in Nat /\ Nodes(v) \in Nat
  BY <1>1, TableFacts
<1>3. /\ Nodes(t) <= t.size /\ t.size <= Nodes(t) + n
      /\ v.size + Nodes(t) = t.size + Nodes(v)
  BY DEF Right, Balances
<1>4. Nodes(v) <= v.size /\ v.size <= Nodes(v) + n
  BY ONLY n \in Nat, <1>2, <1>3, RightSums
<1>. QED BY <1>4 DEF Right

LEMMA RightRearranged ==
  ASSUME NEW t, NEW n \in Nat, Right(t, n), NEW v, Rearranges(t, v)
  PROVE  Right(v, n)
BY DEF Right, Rearranges

LEMMA RightShed ==
  ASSUME NEW t, NEW n \in Nat, Right(t, n), NEW v, Sheds(t, v)
  PROVE  Right(v, n)
<1>1. Sound(v) /\ Balances(t, v) /\ (~Multi => Distinct(v))
  BY DEF Right, Sheds
<1>. QED BY <1>1, RightBalanced

LEMMA RightMore ==
  ASSUME NEW t, NEW n \in Nat, Right(t, n), NEW m \in Nat, n <= m
  PROVE  Right(t, m)
<1>1. t.size \in Nat /\ Nodes(t) \in Nat
  BY TableFacts DEF Right, Sound
<1>. QED BY <1>1 DEF Right

LEMMA RightFresh ==
  ASSUME NEW k \in Nat, NEW m \in MaxLoads, NEW n \in Nat
  PROVE  Right(Fresh(k, m), n) /\ KeysIn(Fresh(k, m)) = {}
<1> DEFINE u == Fresh(k, m)
<1>1. Sound(u) /\ Distinct(u) /\ u.size = 0 /\ Nodes(u) = 0 /\ KeysIn(u) = {}
  BY FreshTable
<1> HIDE DEF u
<1>2. Right(u, n)
  BY <1>1 DEF Right
<1>. QED BY <1>1, <1>2 DEF u

LEMMA RightCleared ==
  ASSUME NEW t, NEW n \in Nat, Right(t, n)
  PROVE  Right(Cleared(t), n) /\ KeysIn(Cleared(t)) = {}
<1> DEFINE v == Cleared(t)
<1>1. Sound(t) /\ Nodes(t) <= t.size /\ t.size <= Nodes(t) + n
  BY DEF Right
<1>2. t.size \in Nat /\ Nodes(t) \in Nat
  BY <1>1, TableFacts DEF Sound
<1>3. Sound(v) /\ Distinct(v) /\ Nodes(v) = 0 /\ v.size = t.size - Nodes(t) /\ KeysIn(v) = {}
  BY <1>1, Clearing
<1> HIDE DEF v
<1>4. Right(v, n)
  BY <1>1, <1>2, <1>3 DEF Right
<1>. QED BY <1>3, <1>4 DEF v

(* v is t with part of the keys in S, or with all of them.                 *)
HasPart(t, v, S, n) ==
  /\ Right(v, n)
  /\ KeysIn(t) \subseteq KeysIn(v)
  /\ KeysIn(v) \subseteq KeysIn(t) \cup S

HasAll(t, v, S, n) == Right(v, n) /\ KeysIn(v) = KeysIn(t) \cup S

LEMMA InsertingAll ==
  ASSUME NEW t, NEW n \in Nat, Right(t, n), NEW s \in Seq(Keys), NEW multi \in BOOLEAN,
         ~Multi => Fits(t, s, multi)
  PROVE  HasAll(t, EmplacedAll(t, s, multi), KeysOf(s), n)
<1> DEFINE v == EmplacedAll(t, s, multi)
<1>1. Sound(t) /\ (~Multi => Distinct(t))
  BY DEF Right
<1>2. Collects(t, v, KeysOf(s), Len(s), Fits(t, s, multi))
  BY <1>1, EmplacingAll
<1> HIDE DEF v
<1>3. Sound(v) /\ Balances(t, v) /\ (~Multi => Distinct(v)) /\ KeysIn(v) = KeysIn(t) \cup KeysOf(s)
  BY <1>1, <1>2 DEF Collects
<1>4. Right(v, n)
  BY <1>3, RightBalanced
<1>. QED BY <1>3, <1>4 DEF v, HasAll

LEMMA MakingRoom ==
  ASSUME NEW t, NEW n \in Nat, Right(t, n)
  PROVE  /\ Right(Room(t), n) /\ KeysIn(Room(t)) = KeysIn(t)
         /\ \A len \in Nat : /\ Right(RoomForAll(t, len), n)
                             /\ KeysIn(RoomForAll(t, len)) = KeysIn(t)
<1>1. Sound(t)
  BY DEF Right
<1>2. Rearranges(t, Room(t))
  BY <1>1, Making
<1>3. ASSUME NEW len \in Nat
      PROVE  Right(RoomForAll(t, len), n) /\ KeysIn(RoomForAll(t, len)) = KeysIn(t)
  <2>1. Rearranges(t, RoomForAll(t, len))
    BY <1>1, MakingForAll
  <2> QED BY <2>1, RightRearranged DEF Rearranges
<1>. QED BY <1>2, <1>3, RightRearranged DEF Rearranges

LEMMA Prefix ==
  ASSUME NEW s \in Seq(Keys), NEW i \in 0 .. Len(s)
  PROVE  LET p == SubSeq(s, 1, i)
         IN /\ p \in Seq(Keys) /\ KeysOf(p) \subseteq KeysOf(s)
            /\ SE!IsInjective(s) => SE!IsInjective(p)
<1> DEFINE p == SubSeq(s, 1, i)
<1>1. /\ p \in Seq(Keys) /\ Len(p) = i /\ \A h \in 1 .. i : p[h] = s[h]
      /\ Len(s) \in Nat
  OBVIOUS
<1> HIDE DEF p
<1>2. /\ DOMAIN s = 1 .. Len(s) /\ DOMAIN p = 1 .. i
      /\ KeysOf(s) = {s[h] : h \in 1 .. Len(s)} /\ KeysOf(p) = {p[h] : h \in 1 .. i}
  <2>1. DOMAIN s = 1 .. Len(s) /\ DOMAIN p = 1 .. i
    BY <1>1
  <2>2. KeysOf(s) = {s[h] : h \in 1 .. Len(s)}
    BY KeysType
  <2>3. KeysOf(p) = {p[h] : h \in 1 .. i}
    BY <1>1, KeysType
  <2> QED BY <2>1, <2>2, <2>3
<1>3. \A h \in 1 .. i : h \in 1 .. Len(s)
  BY <1>1
<1>4. KeysOf(p) \subseteq KeysOf(s)
  BY <1>1, <1>2, <1>3
<1>5. ASSUME SE!IsInjective(s) PROVE SE!IsInjective(p)
  <2>1. \A g, h \in 1 .. Len(s) : s[g] = s[h] => g = h
    BY <1>2, <1>5 DEF SE!IsInjective
  <2>2. \A g, h \in 1 .. i : p[g] = p[h] => g = h
    BY <1>1, <1>3, <2>1
  <2> QED BY <1>2, <2>2 DEF SE!IsInjective
<1>. QED BY <1>1, <1>4, <1>5 DEF p

LEMMA BreakingOff ==
  ASSUME NEW t, NEW n \in Nat, Right(t, n), NEW s \in Seq(Keys), NEW multi \in BOOLEAN,
         ~Multi => Fits(t, s, multi), NEW v \in Broken(t, s, multi)
  PROVE  HasPart(t, v, KeysOf(s), n)
<1>1. PICK i \in 0 .. Len(s) - 1 :
        \/ v = EmplacedAll(t, SubSeq(s, 1, i), multi)
        \/ v = Room(EmplacedAll(t, SubSeq(s, 1, i), multi))
  BY DEF Broken, Initials
<1> DEFINE p == SubSeq(s, 1, i)
           u == EmplacedAll(t, p, multi)
<1>2. i \in 0 .. Len(s)
  OBVIOUS
<1>3. /\ p \in Seq(Keys) /\ KeysOf(p) \subseteq KeysOf(s)
      /\ (SE!IsInjective(s) => SE!IsInjective(p))
  BY <1>2, Prefix
<1> HIDE DEF p
<1>4. ~Multi => Fits(t, p, multi)
  BY <1>3 DEF Fits
<1>5. HasAll(t, u, KeysOf(p), n)
  BY <1>3, <1>4, InsertingAll
<1>6. v = u \/ v = Room(u)
  BY <1>1 DEF p
<1> HIDE DEF u
<1>7. HasPart(t, u, KeysOf(s), n)
  BY <1>3, <1>5 DEF HasAll, HasPart
<1>8. Right(u, n)
  BY <1>5 DEF HasAll
<1>9. Right(Room(u), n) /\ KeysIn(Room(u)) = KeysIn(u)
  BY <1>8, MakingRoom
<1>10. HasPart(t, Room(u), KeysOf(s), n)
  BY <1>7, <1>9 DEF HasPart
<1>. QED BY <1>6, <1>7, <1>10

-----------------------------------------------------------------------------
(* erase of a key: the positions of its first run.                         *)
Run(u, k, f, n) ==
  /\ f \in 1 .. Nodes(u) /\ n \in Nat \ {0} /\ f + n - 1 <= Nodes(u)
  /\ Elements(u)[f] = k

LEMMA First ==
  ASSUME NEW u \in Table, NEW k
  PROVE  \/ FirstOf(u, k) = 0 /\ k \notin KeysIn(u)
         \/ FirstOf(u, k) \in 1 .. Nodes(u) /\ Elements(u)[FirstOf(u, k)] = k
<1> DEFINE s == Elements(u)
           I == {i \in 1 .. Len(s) : s[i] = k}
           m == CHOOSE x \in I : \A y \in I : x <= y
<1>1. s \in Seq(Keys) /\ Nodes(u) = Len(s) /\ KeysIn(u) = KeysOf(s)
  BY TableFacts DEF Nodes, KeysIn
<1>2. FirstOf(u, k) = IF I # {} THEN m ELSE 0
  BY DEF FirstOf, SE!SelectInSeq, SE!Min
<1> HIDE DEF s
<1>3. KeysOf(s) = {s[i] : i \in 1 .. Len(s)}
  BY <1>1, KeysType
<1>4. CASE I = {}
  BY <1>1, <1>2, <1>3, <1>4
<1>5. CASE I # {}
  <2>1. I \subseteq Nat
    OBVIOUS
  <2>2. \A x \in I : x \in 1 .. Len(s) /\ s[x] = k
    OBVIOUS
  <2> HIDE DEF I
  <2>3. \E x \in I : \A y \in I : x <= y
    BY <1>5, <2>1, Least
  <2>4. m \in I
    BY <2>3
  <2> HIDE DEF m
  <2> QED BY <1>1, <1>2, <1>5, <2>2, <2>4 DEF s
<1>. QED BY <1>4, <1>5

LEMMA Running ==
  ASSUME NEW u \in Table, NEW k
  PROVE  \/ RunOf(u, k) = 0 /\ k \notin KeysIn(u)
         \/ Run(u, k, FirstOf(u, k), RunOf(u, k))
<1> DEFINE s == Elements(u)
           f == FirstOf(u, k)
           Spans(n) == /\ \A i \in f .. f + n - 1 : i \in DOMAIN s /\ s[i] = k
                       /\ f + n \in DOMAIN s => s[f + n] # k
           m == CHOOSE n \in 1 .. Len(s) : Spans(n)
<1>1. s \in Seq(Keys) /\ Nodes(u) = Len(s) /\ DOMAIN s = 1 .. Len(s) /\ Len(s) \in Nat
  <2>1. s \in Seq(Keys)
    BY TableFacts
  <2> QED BY <2>1 DEF Nodes
<1>2. RunOf(u, k) = IF f = 0 THEN 0 ELSE m
  BY DEF RunOf
<1>3. CASE f = 0
  <2>1. k \notin KeysIn(u)
    <3>1. ~ 0 \in 1 .. Nodes(u)
      BY <1>1
    <3> QED BY <1>3, <3>1, First
  <2> QED BY <1>2, <1>3, <2>1
<1>4. CASE f # 0
  <2>1. f \in 1 .. Len(s) /\ s[f] = k
    BY <1>1, <1>4, First
  <2> DEFINE Ends(n) == f + n \in DOMAIN s => s[f + n] # k
             U == {n \in 1 .. Len(s) : Ends(n)}
  <2> HIDE DEF f, s
  <2>2. PICK n \in 1 .. Len(s) : Ends(n) /\ \A h \in 1 .. Len(s) : Ends(h) => n <= h
    <3>1. Ends(Len(s)) /\ Len(s) \in 1 .. Len(s)
      BY <1>1, <2>1
    <3>2. U \subseteq Nat /\ U # {}
      <4> HIDE DEF Ends
      <4> QED BY <3>1
    <3>3. PICK x \in U : \A h \in U : x <= h
      <4> HIDE DEF U
      <4> QED BY <3>2, Least
    <3> HIDE DEF Ends
    <3> QED BY <3>3
  <2>3. \A i \in f .. f + n - 1 : i \in DOMAIN s /\ s[i] = k
    <3> DEFINE G(i) == f + i \in DOMAIN s /\ s[f + i] = k
               T == {i \in 0 .. n - 1 : G(i)}
    <3>1. 0 \in T
      <4>1. f + 0 = f /\ 0 \in 0 .. n - 1
        BY <2>1
      <4> QED BY <1>1, <2>1, <4>1
    <3>2. ASSUME NEW i \in 1 .. n - 1, i - 1 \in T PROVE i \in T
      <4>1. i \in 1 .. Len(s) /\ ~ n <= i /\ i \in 0 .. n - 1
        BY <1>1
      <4>2. ~ Ends(i)
        <5> HIDE DEF Ends
        <5> QED BY <2>2, <4>1
      <4>3. G(i)
        BY <4>2
      <4> HIDE DEF G
      <4> QED BY <4>1, <4>3
    <3>3. n - 1 \in Nat
      BY <1>1
    <3>4. \A i \in 0 .. n - 1 : i \in T
      <4> HIDE DEF T
      <4> QED BY <3>1, <3>2, <3>3, Induction
    <3> SUFFICES ASSUME NEW i \in f .. f + n - 1 PROVE i \in DOMAIN s /\ s[i] = k
      OBVIOUS
    <3>5. i - f \in 0 .. n - 1 /\ f + (i - f) = i
      BY <1>1, <2>1
    <3>6. G(i - f)
      <4> HIDE DEF G
      <4> QED BY <3>4, <3>5
    <3> QED BY <3>5, <3>6
  <2>4. Spans(n)
    BY <2>2, <2>3
  <2>5. m \in 1 .. Len(s) /\ Spans(m)
    <3> HIDE DEF Spans
    <3> QED BY <2>4
  <2> HIDE DEF m
  <2>6. f + m - 1 <= Len(s)
    <3>1. f + m - 1 \in f .. f + m - 1
      BY <2>1, <2>5
    <3>2. f + m - 1 \in DOMAIN s
      BY <2>5, <3>1
    <3> QED BY <1>1, <3>2
  <2>7. Run(u, k, f, m)
    BY <1>1, <2>1, <2>5, <2>6 DEF Run, s
  <2> QED BY <1>2, <1>4, <2>7 DEF f
<1>. QED BY <1>3, <1>4

Shortened(u, k) ==
  LET run == IF Multi \/ RunOf(u, k) = 0 THEN RunOf(u, k) ELSE 1
  IN IF run = 0 THEN u
     ELSE WithoutFrom(u, FirstOf(u, k), FirstOf(u, k) + run - 1)

LEMMA ErasingKey ==
  ASSUME NEW u, NEW n \in Nat, Right(u, n), NEW k
  PROVE  /\ Right(Shortened(u, k), n)
         /\ ~Multi => KeysIn(Shortened(u, k)) = KeysIn(u) \ {k}
<1> DEFINE f == FirstOf(u, k)
           r == RunOf(u, k)
           v == Shortened(u, k)
<1>1. /\ Sound(u) /\ u \in Table /\ Nodes(u) <= u.size /\ Nodes(u) \in Nat
      /\ (~Multi => Distinct(u))
  BY TableFacts DEF Right, Sound
<1>2. \/ r = 0 /\ k \notin KeysIn(u)
      \/ Run(u, k, f, r)
  BY <1>1, Running
<1>3. CASE r = 0 /\ k \notin KeysIn(u)
  <2>1. v = u
    BY <1>3 DEF Shortened
  <2> QED BY <1>3, <2>1
<1>4. CASE Run(u, k, f, r)
  <2>1. /\ f \in 1 .. Nodes(u) /\ f \in Nat \ {0} /\ r \in Nat \ {0} /\ f + r - 1 <= Nodes(u)
        /\ Elements(u)[f] = k
    BY <1>1, <1>4 DEF Run
  <2>2. CASE Multi
    <3> DEFINE last == f + r - 1
    <3>1. v = WithoutFrom(u, f, last)
      BY <2>1, <2>2 DEF Shortened
    <3>2. last \in Nat /\ f <= last /\ last <= Nodes(u)
      BY <2>1
    <3> HIDE DEF last, f, v
    <3>3. Sheds(u, WithoutFrom(u, f, last))
      BY <1>1, <2>1, <3>2, ErasingFrom
    <3>4. Right(v, n)
      BY <3>1, <3>3, RightShed
    <3> QED BY <2>2, <3>4 DEF v
  <2>3. CASE ~Multi
    <3>1. v = WithoutFrom(u, f, f)
      <4>1. f + 1 - 1 = f
        BY <2>1
      <4> QED BY <2>1, <2>3, <4>1 DEF Shortened
    <3>2. f <= f /\ f <= Nodes(u)
      BY <1>1, <2>1
    <3> HIDE DEF f, v
    <3>3. Sheds(u, WithoutFrom(u, f, f)) /\ WithoutFrom(u, f, f) = UnlinkAt(u, f)
      BY <1>1, <2>1, <3>2, ErasingFrom
    <3>4. Right(v, n)
      BY <3>1, <3>3, RightShed
    <3>5. Drops(u, v, f)
      BY <1>1, <2>1, <3>1, <3>3, UnlinkingAt
    <3>6. KeysIn(u) = KeysIn(v) \cup {k} /\ k \notin KeysIn(v)
      BY <1>1, <2>1, <2>3, <3>5, Dropping
    <3> QED BY <3>4, <3>6 DEF v
  <2> QED BY <2>2, <2>3
<1>. QED BY <1>2, <1>3, <1>4

-----------------------------------------------------------------------------
(* Steps.                                                                  *)
LEMMA InvFacts ==
  ASSUME Inv
  PROVE  /\ TypeOK /\ lost \in Nat /\ DOMAIN table = Tables
         /\ \A t \in Tables :
              Lives(t) => Right(table[t], lost) /\ table[t] \in Table /\ Sound(table[t])
BY DEF Inv, TypeOK, Right, Sound

LEMMA Storing ==
  ASSUME Inv, NEW t \in Tables, NEW new, table' = [table EXCEPT ![t] = new],
         lost' \in Nat, lost <= lost',
         call' \in Calls \X (SUBSET Keys) \X BOOLEAN,
         new = Gone \/ Right(new, lost')
  PROVE  Inv'
<1>1. lost \in Nat /\ DOMAIN table = Tables
      /\ \A u \in Tables : Lives(u) => Right(table[u], lost)
  BY InvFacts
<1>2. table'[t] = new /\ \A u \in Tables : u # t => table'[u] = table[u]
  BY <1>1
<1>3. new \in Table \cup {Gone}
  BY DEF Right, Sound
<1>4. table' \in [Tables -> Table \cup {Gone}]
  BY <1>3 DEF Inv, TypeOK
<1>5. ASSUME NEW u \in Tables, table'[u] # Gone PROVE Right(table'[u], lost')
  <2>1. CASE u = t
    BY <1>2, <1>5, <2>1
  <2>2. CASE u # t
    <3>1. table'[u] = table[u] /\ Right(table[u], lost)
      BY <1>1, <1>2, <1>5, <2>2 DEF Lives
    <3> QED BY <1>1, <3>1, RightMore
  <2> QED BY <2>1, <2>2
<1>6. (\A u \in Tables : Lives(u) => Right(table[u], lost))'
  BY <1>5 DEF Lives, Right, Sound, Nodes, Elements, KeysIn, Distinct, InOwnBuckets, bucket_count
<1>7. TypeOK'
  BY <1>4 DEF TypeOK
<1>. QED BY <1>6, <1>7 DEF Inv

LEMMA Losing ==
  ASSUME Inv, NEW t \in Tables, NEW new, NEW what \in Calls, NEW S \in SUBSET Keys,
         NEW n \in Nat, Loses(t, new, what, S, n), new = Gone \/ Right(new, lost + n)
  PROVE  Inv'
<1>1. lost \in Nat
  BY InvFacts
<1>2. /\ table' = [table EXCEPT ![t] = new]
      /\ lost' = lost + n /\ call' = <<what, S, TRUE>>
  BY DEF Loses
<1>3. lost' \in Nat /\ lost <= lost'
  BY <1>1, <1>2
<1>4. call' \in Calls \X (SUBSET Keys) \X BOOLEAN
  BY <1>2
<1>. QED BY <1>2, <1>3, <1>4, Storing

LEMMA Throwing ==
  ASSUME Inv, NEW t \in Tables, NEW new, NEW what \in Calls, NEW S \in SUBSET Keys,
         Throws(t, new, what, S), new = Gone \/ Right(new, lost)
  PROVE  Inv'
<1>1. lost \in Nat /\ lost + 0 = lost
  BY InvFacts
<1>2. Loses(t, new, what, S, 0)
  BY DEF Throws
<1>. QED BY <1>1, <1>2, Losing

LEMMA Completing ==
  ASSUME Inv, NEW t \in Tables, NEW new, NEW what \in Calls, NEW S \in SUBSET Keys,
         Completes(t, new, what, S), new = Gone \/ Right(new, lost)
  PROVE  Inv'
<1>1. lost \in Nat
  BY InvFacts
<1>2. /\ table' = [table EXCEPT ![t] = new]
      /\ lost' = lost /\ call' = <<what, S, FALSE>>
  BY DEF Completes
<1>3. call' \in Calls \X (SUBSET Keys) \X BOOLEAN
  BY <1>2
<1>4. lost' \in Nat /\ lost <= lost' /\ (new = Gone \/ Right(new, lost'))
  BY <1>1, <1>2
<1>. QED BY <1>2, <1>3, <1>4, Storing

(* Two tables change.                                                      *)
LEMMA Exchanging ==
  ASSUME Inv, NEW t \in Tables, NEW u \in Tables, NEW x, NEW y,
         table' = [table EXCEPT ![t] = x, ![u] = y], UNCHANGED lost,
         call' \in Calls \X (SUBSET Keys) \X BOOLEAN,
         Right(x, lost), Right(y, lost)
  PROVE  Inv'
<1>1. lost \in Nat /\ DOMAIN table = Tables
      /\ \A v \in Tables : Lives(v) => Right(table[v], lost)
  BY InvFacts
<1>2. \A v \in Tables : table'[v] = IF v = u THEN y ELSE IF v = t THEN x ELSE table[v]
  BY <1>1
<1>3. x \in Table /\ y \in Table
  BY DEF Right, Sound
<1>4. table' \in [Tables -> Table \cup {Gone}]
  BY <1>3 DEF Inv, TypeOK
<1>5. ASSUME NEW v \in Tables, table'[v] # Gone PROVE Right(table'[v], lost')
  BY <1>1, <1>2, <1>5 DEF Lives
<1>6. (\A v \in Tables : Lives(v) => Right(table[v], lost))'
  BY <1>5 DEF Lives, Right, Sound, Nodes, Elements, KeysIn, Distinct, InOwnBuckets, bucket_count
<1>7. TypeOK'
  BY <1>1, <1>4 DEF TypeOK
<1>. QED BY <1>6, <1>7 DEF Inv

(* A range whose elements may all go into an empty table.                  *)
Enters(s, multi) == multi /\ ~Multi => SE!IsInjective(s)

LEMMA Filling ==
  ASSUME NEW u, NEW n \in Nat, Right(u, n), KeysIn(u) = {}, NEW s \in Seq(Keys),
         NEW multi \in BOOLEAN, Enters(s, multi), NEW room \in {u, RoomForAll(u, Len(s))}
  PROVE  /\ Right(room, n) /\ KeysIn(room) = {}
         /\ HasAll(room, EmplacedAll(room, s, multi), KeysOf(s), n)
         /\ \A v \in Broken(room, s, multi) : HasPart(room, v, KeysOf(s), n)
<1>1. Right(room, n) /\ KeysIn(room) = {}
  <2>1. Len(s) \in Nat
    OBVIOUS
  <2> QED BY <2>1, MakingRoom
<1>2. ~Multi => Fits(room, s, multi)
  BY <1>1 DEF Fits, Enters
<1>3. HasAll(room, EmplacedAll(room, s, multi), KeysOf(s), n)
  BY <1>1, <1>2, InsertingAll
<1>4. \A v \in Broken(room, s, multi) : HasPart(room, v, KeysOf(s), n)
  BY <1>1, <1>2, BreakingOff
<1>. QED BY <1>1, <1>3, <1>4

LEMMA KeysOfRange ==
  ASSUME NEW s \in Seq(Keys)
  PROVE  KeysOf(s) \in SUBSET Keys
BY KeysType

LEMMA CallNames ==
  /\ "construct" \in Calls /\ "destroy" \in Calls /\ "assign" \in Calls
  /\ "insert" \in Calls /\ "insert all" \in Calls /\ "erase" \in Calls
  /\ "keep" \in Calls /\ "take" \in Calls /\ "swap" \in Calls
BY DEF Calls

LEMMA ConstructFromStep ==
  ASSUME Inv, NEW t \in Tables, NEW u, Right(u, lost), KeysIn(u) = {}, NEW s \in Seq(Keys),
         NEW forward \in BOOLEAN, NEW multi \in BOOLEAN, Enters(s, multi),
         ConstructFrom(t, u, s, forward, multi)
  PROVE  Inv'
<1> DEFINE room == IF forward THEN RoomForAll(u, Len(s)) ELSE u
           v == EmplacedAll(room, s, multi)
<1>1. lost \in Nat /\ KeysOf(s) \in SUBSET Keys /\ {} \in SUBSET Keys
  BY InvFacts, KeysOfRange
<1>2. /\ HasAll(room, v, KeysOf(s), lost)
      /\ \A w \in Broken(room, s, multi) : HasPart(room, w, KeysOf(s), lost)
  <2>1. room \in {u, RoomForAll(u, Len(s))}
    OBVIOUS
  <2> HIDE DEF room, v
  <2> QED BY <1>1, <2>1, Filling DEF v
<1>3. \/ Completes(t, v, "construct", KeysOf(s))
      \/ Throws(t, Gone, "construct", {})
      \/ \E w \in Broken(room, s, multi) : Loses(t, Gone, "construct", {}, w.size)
  BY DEF ConstructFrom
<1> HIDE DEF room, v
<1>4. CASE Completes(t, v, "construct", KeysOf(s))
  BY <1>1, <1>2, <1>4, CallNames, Completing DEF HasAll
<1>5. CASE Throws(t, Gone, "construct", {})
  BY <1>1, <1>5, CallNames, Throwing
<1>6. CASE \E w \in Broken(room, s, multi) : Loses(t, Gone, "construct", {}, w.size)
  <2>1. PICK w \in Broken(room, s, multi) : Loses(t, Gone, "construct", {}, w.size)
    BY <1>6
  <2>2. w \in Table
    BY <1>2 DEF HasPart, Right, Sound
  <2>3. w.size \in Nat
    BY <2>2, TableFacts
  <2> QED BY <1>1, <2>1, <2>3, CallNames, Losing
<1>. QED BY <1>3, <1>4, <1>5, <1>6

LEMMA ReassignStep ==
  ASSUME Inv, NEW t \in Tables, Lives(t), NEW s \in Seq(Keys), NEW multi \in BOOLEAN,
         Enters(s, multi), Reassign(t, s, multi)
  PROVE  Inv'
<1> DEFINE u == Cleared(table[t])
           room == RoomForAll(u, Len(s))
           v == EmplacedAll(room, s, multi)
<1>1. lost \in Nat /\ KeysOf(s) \in SUBSET Keys
  BY InvFacts, KeysOfRange
<1>2. Right(u, lost) /\ KeysIn(u) = {}
  BY <1>1, InvFacts, RightCleared
<1>3. /\ HasAll(room, v, KeysOf(s), lost)
      /\ \A w \in Broken(room, s, multi) : HasPart(room, w, KeysOf(s), lost)
  <2> HIDE DEF u
  <2>1. room \in {u, RoomForAll(u, Len(s))}
    OBVIOUS
  <2> HIDE DEF room, v
  <2> QED BY <1>1, <1>2, <2>1, Filling DEF v
<1>4. \/ Completes(t, v, "assign", KeysOf(s))
      \/ \E w \in {u} \cup Broken(room, s, multi) : Throws(t, w, "assign", KeysOf(s))
  BY DEF Reassign
<1> HIDE DEF room, v, u
<1>5. CASE Completes(t, v, "assign", KeysOf(s))
  BY <1>1, <1>3, <1>5, CallNames, Completing DEF HasAll
<1>6. CASE \E w \in {u} \cup Broken(room, s, multi) : Throws(t, w, "assign", KeysOf(s))
  <2>1. PICK w \in {u} \cup Broken(room, s, multi) : Throws(t, w, "assign", KeysOf(s))
    BY <1>6
  <2>2. Right(w, lost)
    BY <1>2, <1>3 DEF HasPart
  <2> QED BY <1>1, <2>1, <2>2, CallNames, Throwing
<1>. QED BY <1>4, <1>5, <1>6

LEMMA RangeType ==
  ASSUME NEW s \in Ranges
  PROVE  s \in Seq(Keys)
BY DEF Ranges

LEMMA Entering ==
  /\ \A s \in Seq(Keys) : Enters(s, Multi) /\ Enters(s, FALSE)
  /\ \A u, n : Right(u, n) => Elements(u) \in Seq(Keys) /\ Enters(Elements(u), TRUE)
<1>1. ASSUME NEW u, NEW n, Right(u, n)
      PROVE  Elements(u) \in Seq(Keys) /\ (~Multi => SE!IsInjective(Elements(u)))
  <2>1. Sound(u) /\ u \in Table /\ (~Multi => Distinct(u))
    BY <1>1 DEF Right, Sound
  <2> QED BY <2>1, TableFacts, InjectiveElements
<1>. QED BY <1>1, HashAssumption DEF Enters

LEMMA LifetimeStep ==
  ASSUME Inv, NEW t \in Tables, Lifetime(t)
  PROVE  Inv'
<1>1. /\ lost \in Nat /\ DOMAIN table = Tables /\ {} \in SUBSET Keys
      /\ \A u \in Tables :
           Lives(u) => Right(table[u], lost) /\ table[u] \in Table /\ Sound(table[u])
  BY InvFacts
<1>2. Multi \in BOOLEAN /\ <<1, 1>> \in MaxLoads /\ BucketCounts \subseteq Nat
  BY HashAssumption
<1>3. CASE Destruct(t)
  BY <1>1, <1>3, CallNames, Completing DEF Destruct
<1>4. ASSUME NEW n \in BucketCounts, Construct(t, n) PROVE Inv'
  <2>1. Right(Fresh(n, <<1, 1>>), lost)
    BY <1>1, <1>2, RightFresh
  <2>2. \/ Completes(t, Fresh(n, <<1, 1>>), "construct", {})
        \/ Throws(t, Gone, "construct", {})
    BY <1>4 DEF Construct
  <2>3. CASE Completes(t, Fresh(n, <<1, 1>>), "construct", {})
    BY <1>1, <2>1, <2>3, CallNames, Completing
  <2>4. CASE Throws(t, Gone, "construct", {})
    BY <1>1, <2>4, CallNames, Throwing
  <2> QED BY <2>2, <2>3, <2>4
<1>5. ASSUME NEW s \in Ranges, NEW forward \in BOOLEAN, NEW n \in BucketCounts,
             ConstructRange(t, s, forward, n)
      PROVE  Inv'
  <2> DEFINE u == Fresh(n, <<1, 1>>)
  <2>1. s \in Seq(Keys) /\ Enters(s, Multi)
    BY RangeType, Entering
  <2>2. Right(u, lost) /\ KeysIn(u) = {}
    BY <1>1, <1>2, RightFresh
  <2>3. ConstructFrom(t, u, s, forward, Multi)
    BY <1>5 DEF ConstructRange
  <2> HIDE DEF u
  <2> QED BY <1>2, <2>1, <2>2, <2>3, ConstructFromStep
<1>6. ASSUME NEW v \in Tables, CopyConstruct(t, v) PROVE Inv'
  <2> DEFINE u == Fresh(bucket_count(table[v]), table[v].mlf)
             s == Elements(table[v])
  <2>1. Lives(v) /\ ConstructFrom(t, u, s, TRUE, TRUE)
    BY <1>6 DEF CopyConstruct
  <2>2. Right(table[v], lost) /\ table[v] \in Table
    BY <1>1, <2>1
  <2>3. bucket_count(table[v]) \in Nat /\ table[v].mlf \in MaxLoads
    BY <2>2, TableFacts
  <2>4. Right(u, lost) /\ KeysIn(u) = {}
    BY <1>1, <2>3, RightFresh
  <2>5. s \in Seq(Keys) /\ Enters(s, TRUE)
    BY <2>2, Entering
  <2>6. TRUE \in BOOLEAN
    OBVIOUS
  <2> HIDE DEF u, s
  <2> QED BY <2>1, <2>4, <2>5, <2>6, ConstructFromStep
<1>7. ASSUME NEW u \in Tables, MoveConstruct(t, u) PROVE Inv'
  <2>1. /\ Lives(u)
        /\ table' = [table EXCEPT ![t] = table[u], ![u] = Fresh(0, table[u].mlf)]
        /\ call' = <<"take", {}, FALSE>> /\ lost' = lost
    BY <1>7 DEF MoveConstruct, MovedFrom
  <2>2. Right(table[u], lost) /\ table[u].mlf \in MaxLoads
    BY <1>1, <2>1, TableFacts
  <2>3. Right(Fresh(0, table[u].mlf), lost)
    BY <1>1, <2>2, RightFresh
  <2>4. call' \in Calls \X (SUBSET Keys) \X BOOLEAN
    BY <2>1, CallNames
  <2> QED BY <2>1, <2>2, <2>3, <2>4, Exchanging
<1>. QED BY <1>3, <1>4, <1>5, <1>6, <1>7 DEF Lifetime

LEMMA AssignmentStep ==
  ASSUME Inv, NEW t \in Tables, Assignment(t)
  PROVE  Inv'
<1>1. /\ lost \in Nat /\ DOMAIN table = Tables /\ {} \in SUBSET Keys
      /\ \A u \in Tables :
           Lives(u) => Right(table[u], lost) /\ table[u] \in Table /\ Sound(table[u])
  BY InvFacts
<1>2. CASE Clear(t)
  <2>1. Lives(t) /\ Completes(t, Cleared(table[t]), "assign", {})
    BY <1>2 DEF Clear
  <2>2. Right(Cleared(table[t]), lost)
    BY <1>1, <2>1, RightCleared
  <2> QED BY <1>1, <2>1, <2>2, CallNames, Completing
<1>3. ASSUME NEW s \in Ranges, AssignList(t, s) PROVE Inv'
  <2>1. Lives(t) /\ Reassign(t, s, FALSE) /\ FALSE \in BOOLEAN
    BY <1>3 DEF AssignList
  <2>2. s \in Seq(Keys) /\ Enters(s, FALSE)
    BY RangeType, Entering
  <2> QED BY <2>1, <2>2, ReassignStep
<1>4. ASSUME NEW u \in Tables, CopyAssign(t, u) PROVE Inv'
  <2> DEFINE s == Elements(table[u])
  <2>1. Lives(t) /\ Lives(u) /\ Reassign(t, s, TRUE) /\ TRUE \in BOOLEAN
    BY <1>4 DEF CopyAssign
  <2>2. s \in Seq(Keys) /\ Enters(s, TRUE)
    BY <1>1, <2>1, Entering
  <2> HIDE DEF s
  <2> QED BY <2>1, <2>2, ReassignStep
<1>5. ASSUME NEW u \in Tables, MoveAssign(t, u) PROVE Inv'
  <2>1. /\ Lives(u)
        /\ table' = [table EXCEPT ![t] = table[u], ![u] = Fresh(0, table[u].mlf)]
        /\ call' = <<"take", {}, FALSE>> /\ lost' = lost
    BY <1>5 DEF MoveAssign, MovedFrom
  <2>2. Right(table[u], lost) /\ table[u].mlf \in MaxLoads
    BY <1>1, <2>1, TableFacts
  <2>3. Right(Fresh(0, table[u].mlf), lost)
    BY <1>1, <2>2, RightFresh
  <2>4. call' \in Calls \X (SUBSET Keys) \X BOOLEAN
    BY <2>1, CallNames
  <2> QED BY <2>1, <2>2, <2>3, <2>4, Exchanging
<1>6. ASSUME NEW u \in Tables, Swap(t, u) PROVE Inv'
  <2>1. /\ Lives(t) /\ Lives(u)
        /\ table' = [table EXCEPT ![t] = table[u], ![u] = table[t]]
        /\ call' = <<"swap", {}, FALSE>> /\ lost' = lost
    BY <1>6 DEF Swap
  <2>2. Right(table[t], lost) /\ Right(table[u], lost)
    BY <1>1, <2>1
  <2>3. call' \in Calls \X (SUBSET Keys) \X BOOLEAN
    BY <2>1, CallNames
  <2> QED BY <2>1, <2>2, <2>3, Exchanging
<1>. QED BY <1>2, <1>3, <1>4, <1>5, <1>6 DEF Assignment

(* A node is counted that is not linked.                                   *)
LEMMA Counting ==
  ASSUME NEW u \in Table
  PROVE  LET more == [u EXCEPT !.size = @ + 1]
         IN more \in Table /\ more.bucket = u.bucket /\ more.size = u.size + 1
<1>1. /\ u = [bucket |-> u.bucket, size |-> u.size, mlf |-> u.mlf]
      /\ u.bucket \in Seq(Seq(Keys)) /\ u.size + 1 \in Nat /\ u.mlf \in MaxLoads
  BY DEF Table
<1>2. [u EXCEPT !.size = @ + 1] = [bucket |-> u.bucket, size |-> u.size + 1, mlf |-> u.mlf]
  BY ONLY <1>1
<1>. QED BY ONLY <1>1, <1>2 DEF Table

LEMMA EmplaceStep ==
  ASSUME Inv, NEW t \in Tables, NEW k \in Keys, Emplace(t, k)
  PROVE  Inv'
<1> DEFINE u == table[t]
           room == Room(u)
           more == [room EXCEPT !.size = @ + 1]
<1>1. lost \in Nat /\ {k} \in SUBSET Keys /\ Multi \in BOOLEAN
  BY InvFacts, HashAssumption
<1>2. Lives(t)
  BY DEF Emplace
<1>3. Right(u, lost)
  BY <1>2, InvFacts
<1>4. \/ Completes(t, Link(room, k, Multi), "insert", {k})
      \/ Throws(t, u, "insert", {k})
      \/ Throws(t, room, "insert", {k})
      \/ Loses(t, more, "insert", {k}, 1)
  BY DEF Emplace
<1> HIDE DEF u
<1>5. Right(room, lost) /\ bucket_count(room) # 0
  <2>1. Sound(u)
    BY <1>3 DEF Right
  <2> QED BY <1>1, <1>3, <2>1, MakingRoom, Making
<1> HIDE DEF room
<1>6. CASE Completes(t, Link(room, k, Multi), "insert", {k})
  <2> DEFINE v == Link(room, k, Multi)
  <2>1. Sound(room) /\ room \in Table
    BY <1>5 DEF Right, Sound
  <2>2. Grows(room, v, k)
    BY <1>1, <1>5, <2>1, Linking
  <2>3. ~Multi /\ Distinct(room) => Distinct(v)
    BY <1>1, <1>5, <2>1, Linking
  <2> HIDE DEF v
  <2>4. CASE v = room
    BY <1>1, <1>5, <1>6, <2>4, CallNames, Completing DEF v
  <2>5. CASE Joins(room, v, k, 1)
    <3>1. Sound(v) /\ v.size = room.size + 1 /\ Nodes(v) = Nodes(room) + 1
      BY <2>5 DEF Joins
    <3>2. room.size \in Nat /\ Nodes(room) \in Nat
      BY <2>1, TableFacts
    <3>3. Balances(room, v)
      BY <3>1, <3>2 DEF Balances
    <3>4. ~Multi => Distinct(v)
      BY <1>5, <2>3 DEF Right
    <3>5. Right(v, lost)
      BY <1>1, <1>5, <3>1, <3>3, <3>4, RightBalanced
    <3> QED BY <1>1, <1>6, <3>5, CallNames, Completing DEF v
  <2> QED BY <2>2, <2>4, <2>5 DEF Grows
<1>7. CASE Throws(t, u, "insert", {k})
  BY <1>1, <1>3, <1>7, CallNames, Throwing
<1>8. CASE Throws(t, room, "insert", {k})
  BY <1>1, <1>5, <1>8, CallNames, Throwing
<1>9. CASE Loses(t, more, "insert", {k}, 1)
  <2>1. /\ room \in Table /\ InOwnBuckets(room) /\ (~Multi => Distinct(room))
        /\ Nodes(room) <= room.size /\ room.size <= Nodes(room) + lost
    BY <1>5 DEF Right, Sound
  <2>2. room.size \in Nat /\ Nodes(room) \in Nat
    BY <2>1, TableFacts
  <2>3. more \in Table /\ more.bucket = room.bucket /\ more.size = room.size + 1
    BY <2>1, Counting
  <2> HIDE DEF more
  <2>4. /\ InOwnBuckets(more) /\ (Distinct(room) => Distinct(more))
        /\ Nodes(more) = Nodes(room)
    BY <2>1, <2>3 DEF InOwnBuckets, Distinct, Nodes, Elements, bucket_count
  <2>5. Nodes(more) <= more.size /\ more.size <= Nodes(more) + (lost + 1)
    BY <1>1, <2>1, <2>2, <2>3, <2>4
  <2>6. Right(more, lost + 1)
    BY <2>1, <2>3, <2>4, <2>5 DEF Right, Sound
  <2> QED BY <1>1, <1>9, <2>6, CallNames, Losing
<1>. QED BY <1>4, <1>6, <1>7, <1>8, <1>9

LEMMA RangeInsertStep ==
  ASSUME Inv, NEW t \in Tables, NEW s \in Ranges, NEW forward \in BOOLEAN,
         RangeInsert(t, s, forward)
  PROVE  Inv'
<1> DEFINE u == table[t]
           room == IF forward THEN RoomForAll(u, Len(s)) ELSE u
           v == EmplacedAll(room, s, Multi)
<1>1. /\ lost \in Nat /\ s \in Seq(Keys) /\ KeysOf(s) \in SUBSET Keys /\ Len(s) \in Nat
      /\ Multi \in BOOLEAN
  <2>1. s \in Seq(Keys)
    BY RangeType
  <2> QED BY <2>1, InvFacts, KeysOfRange, HashAssumption
<1>2. Lives(t)
  BY DEF RangeInsert
<1>3. Right(u, lost)
  BY <1>2, InvFacts
<1>4. \/ Completes(t, v, "insert", KeysOf(s))
      \/ \E w \in Broken(room, s, Multi) : Throws(t, w, "insert all", KeysOf(s))
      \/ Throws(t, u, "insert all", KeysOf(s))
  BY DEF RangeInsert
<1> HIDE DEF u
<1>5. Right(room, lost)
  BY <1>1, <1>3, MakingRoom
<1> HIDE DEF room
<1>6. ~Multi => Fits(room, s, Multi)
  BY DEF Fits
<1>7. Right(v, lost)
  BY <1>1, <1>5, <1>6, InsertingAll DEF HasAll
<1> HIDE DEF v
<1>8. CASE Completes(t, v, "insert", KeysOf(s))
  BY <1>1, <1>7, <1>8, CallNames, Completing
<1>9. CASE Throws(t, u, "insert all", KeysOf(s))
  BY <1>1, <1>3, <1>9, CallNames, Throwing
<1>10. ASSUME NEW w \in Broken(room, s, Multi), Throws(t, w, "insert all", KeysOf(s))
       PROVE  Inv'
  <2>1. HasPart(room, w, KeysOf(s), lost)
    BY <1>1, <1>5, <1>6, BreakingOff
  <2>2. Right(w, lost)
    BY <2>1 DEF HasPart
  <2> QED BY <1>1, <1>10, <2>2, CallNames, Throwing
<1>. QED BY <1>4, <1>8, <1>9, <1>10

LEMMA RemovalStep ==
  ASSUME Inv, NEW t \in Tables, Removal(t)
  PROVE  Inv'
<1> DEFINE u == table[t]
<1>1. lost \in Nat /\ MaxSize \in Nat
  BY InvFacts, HashAssumption
<1>2. Lives(t) => /\ Right(u, lost) /\ Sound(u) /\ Nodes(u) <= u.size
                  /\ KeysIn(u) \subseteq Keys /\ Nodes(u) \in Nat
  <2>1. ASSUME Lives(t)
        PROVE Right(u, lost) /\ Sound(u) /\ u \in Table /\ Nodes(u) <= u.size
    BY <2>1, InvFacts DEF Right
  <2> HIDE DEF u
  <2> QED BY <2>1, TableFacts
<1>3. ASSUME NEW first \in 1 .. MaxSize, NEW last \in 1 .. MaxSize, EraseRange(t, first, last)
      PROVE  Inv'
  <2> DEFINE v == WithoutFrom(u, first, last)
  <2>1. /\ Lives(t) /\ first <= last /\ last <= Nodes(u)
        /\ Completes(t, v, "erase", KeysIn(u) \ KeysIn(v))
    BY <1>3 DEF EraseRange, Nodes
  <2> HIDE DEF u
  <2>2. first \in Nat \ {0} /\ last \in Nat
    BY <1>1
  <2>3. Sheds(u, v)
    BY <1>2, <2>1, <2>2, ErasingFrom
  <2> HIDE DEF v
  <2>4. Right(v, lost)
    BY <1>1, <1>2, <2>1, <2>3, RightShed
  <2>5. KeysIn(u) \ KeysIn(v) \in SUBSET Keys
    BY <1>2, <2>1
  <2> QED BY <2>1, <2>4, <2>5, CallNames, Completing
<1>4. ASSUME NEW S \in SUBSET Keys, EraseIf(t, S) PROVE Inv'
  <2> DEFINE v == WithoutAll(u, S)
  <2>1. Lives(t) /\ Completes(t, v, "erase", S)
    BY <1>4 DEF EraseIf
  <2> HIDE DEF u
  <2>2. Sheds(u, v)
    BY <1>2, <2>1, ErasingIf
  <2> HIDE DEF v
  <2>3. Right(v, lost)
    BY <1>1, <1>2, <2>1, <2>2, RightShed
  <2> QED BY <2>1, <2>3, CallNames, Completing
<1>5. ASSUME NEW k \in Keys, EraseKey(t, k) PROVE Inv'
  <2>1. Lives(t) /\ Completes(t, Shortened(u, k), "erase", {k})
    BY <1>5 DEF EraseKey, Shortened
  <2> HIDE DEF u
  <2>2. Right(Shortened(u, k), lost)
    BY <1>1, <1>2, <2>1, ErasingKey
  <2>3. {k} \in SUBSET Keys
    OBVIOUS
  <2> QED BY <2>1, <2>2, <2>3, CallNames, Completing
<1>. QED BY <1>3, <1>4, <1>5 DEF Removal

LEMMA RehashStep ==
  ASSUME Inv, NEW t \in Tables, NEW n \in Nat, Rehash(t, n)
  PROVE  Inv'
<1> DEFINE u == table[t]
           m == next_prime(Larger(n, Ceil(u.size, u)))
           v == Rehashed(u, m)
<1>1. lost \in Nat /\ {} \in SUBSET Keys /\ Lives(t)
  BY InvFacts DEF Rehash
<1>2. Right(u, lost) /\ Sound(u) /\ u \in Table
  BY <1>1, InvFacts
<1>3. Completes(t, v, "keep", {}) \/ Throws(t, u, "keep", {})
  BY DEF Rehash
<1> HIDE DEF u
<1>4. u.size \in Nat
  BY <1>2, TableFacts
<1>5. Larger(n, Ceil(u.size, u)) \in Nat
  BY <1>2, <1>4, Rounding DEF Larger
<1>6. m \in Nat \ {0}
  BY <1>5, NextPrime
<1> HIDE DEF m
<1>7. Right(v, lost)
  BY <1>1, <1>2, <1>6, Rehashing, RightRearranged
<1> HIDE DEF v
<1>8. CASE Completes(t, v, "keep", {})
  BY <1>1, <1>7, <1>8, CallNames, Completing
<1>9. CASE Throws(t, u, "keep", {})
  BY <1>1, <1>2, <1>9, CallNames, Throwing
<1>. QED BY <1>3, <1>8, <1>9

LEMMA CapacityStep ==
  ASSUME Inv, NEW t \in Tables, Capacity(t)
  PROVE  Inv'
<1>1. lost \in Nat /\ {} \in SUBSET Keys /\ BucketCounts \subseteq Nat
  BY InvFacts, HashAssumption
<1>2. Lives(t) => Right(table[t], lost) /\ table[t] \in Table
  BY InvFacts
<1>3. ASSUME NEW mlf \in MaxLoads, SetMaxLoad(t, mlf) PROVE Inv'
  <2> DEFINE u == table[t]
             v == [u EXCEPT !.mlf = mlf]
  <2>1. Lives(t) /\ Completes(t, v, "keep", {})
    BY <1>3 DEF SetMaxLoad
  <2>2. Right(u, lost) /\ u \in Table
    BY <1>2, <2>1
  <2> HIDE DEF u
  <2>3. v \in Table /\ v.bucket = u.bucket /\ v.size = u.size
    BY <2>2 DEF Table
  <2> HIDE DEF v
  <2>4. Right(v, lost)
    BY <2>2, <2>3 DEF Right, Sound, InOwnBuckets, Distinct, Nodes, Elements, bucket_count
  <2> QED BY <1>1, <2>1, <2>4, CallNames, Completing
<1>4. ASSUME NEW n \in BucketCounts, Rehash(t, n) PROVE Inv'
  BY <1>1, <1>4, RehashStep
<1>5. ASSUME NEW n \in BucketCounts, Reserve(t, n) PROVE Inv'
  <2>1. Lives(t) /\ Rehash(t, Ceil(n, table[t])) /\ n \in Nat
    BY <1>1, <1>5 DEF Reserve
  <2>2. Ceil(n, table[t]) \in Nat
    BY <1>2, <2>1, Rounding
  <2> QED BY <2>1, <2>2, RehashStep
<1>. QED BY <1>3, <1>4, <1>5 DEF Capacity

-----------------------------------------------------------------------------
LEMMA InvHolds == Spec => []Inv
<1>1. Init => Inv
  <2> SUFFICES ASSUME Init PROVE Inv
    OBVIOUS
  <2>1. TypeOK
    BY CallNames DEF Init, TypeOK
  <2>2. \A t \in Tables : ~Lives(t)
    BY DEF Init, Lives
  <2> QED BY <2>1, <2>2 DEF Inv
<1>2. Inv /\ [Next]_vars => Inv'
  <2> SUFFICES ASSUME Inv, [Next]_vars PROVE Inv'
    OBVIOUS
  <2>1. CASE UNCHANGED vars
    BY <2>1 DEF vars, Inv, TypeOK, Lives
  <2>2. ASSUME NEW t \in Tables, Insertion(t) PROVE Inv'
    BY <2>2, EmplaceStep, RangeInsertStep DEF Insertion
  <2>3. CASE Next
    BY <2>2, <2>3, LifetimeStep, AssignmentStep, RemovalStep, CapacityStep DEF Next
  <2> QED BY <2>1, <2>3
<1>. QED BY <1>1, <1>2, PTL DEF Spec

(* The types of the tables, of the count of lost nodes and of the calls.   *)
THEOREM HashTableTypes == Spec => []TypeOK
<1>1. Inv => TypeOK
  BY DEF Inv
<1>. QED BY <1>1, InvHolds, PTL

(* find looks for every element in the bucket it is in: for any hash       *)
(* function, whatever is rehashed, copied, erased or thrown out of.        *)
THEOREM ElementsInBuckets == Spec => []InBucket
<1>1. Inv => InBucket
  BY DEF Inv, Right, Sound, InOwnBuckets, InBucket
<1>. QED BY <1>1, InvHolds, PTL

(* size_ is the number of nodes, but for those that a throwing comparison  *)
(* left counted and unlinked.                                              *)
THEOREM SizesAccounted == Spec => []NodesAccounted
<1>1. ASSUME Inv PROVE NodesAccounted
  <2> SUFFICES ASSUME NEW t \in Tables, Lives(t)
               PROVE  table[t].size \in Nodes(table[t]) .. Nodes(table[t]) + lost
    BY DEF NodesAccounted, Nodes
  <2>1. Right(table[t], lost) /\ table[t] \in Table /\ lost \in Nat
    BY <1>1, InvFacts
  <2>2. table[t].size \in Nat /\ Nodes(table[t]) \in Nat
    BY <2>1, TableFacts
  <2> QED BY <2>1, <2>2 DEF Right
<1>. QED BY <1>1, InvHolds, PTL

(* In a table of unique keys no two nodes have equal keys.                 *)
THEOREM KeysAreUnique == Spec => []UniqueKeys
<1>1. ASSUME Inv PROVE UniqueKeys
  <2> SUFFICES ASSUME ~Multi, NEW t \in Tables, Lives(t)
               PROVE  SE!IsInjective(Elements(table[t]))
    BY DEF UniqueKeys
  <2>1. Right(table[t], lost)
    BY <1>1, InvFacts
  <2>2. Sound(table[t]) /\ Distinct(table[t])
    BY <2>1 DEF Right
  <2> QED BY <2>2, InjectiveElements
<1>. QED BY <1>1, InvHolds, PTL

-----------------------------------------------------------------------------
(* A table of unique keys implements a set. Gone must be no table and no   *)
(* set.                                                                    *)
UniqueTables == Multi = FALSE
GoneOutside  == Gone \notin Table /\ Gone \notin SUBSET (Keys \X {0})

Z(S) == S \X {0}
Shown(u) == IF u # Gone THEN Z(KeysIn(u)) ELSE Gone
shows == [t \in Tables |-> IF Lives(t) THEN KeysIn(table[t]) \X {0} ELSE Gone]

LEMMA KeysOfZ ==
  ASSUME NEW S
  PROVE  Map!KeysOfAll(Z(S)) = S
<1>1. \A k : k \in Map!KeysOfAll(Z(S)) <=> \E e \in Z(S) : k = e[1]
  BY DEF Map!KeysOfAll
<1>2. \A k \in S : <<k, 0>> \in Z(S) /\ <<k, 0>>[1] = k
  BY DEF Z
<1>3. \A e \in Z(S) : e[1] \in S
  BY DEF Z
<1>. QED BY <1>1, <1>2, <1>3

LEMMA ExtendsZ ==
  ASSUME NEW A, NEW B, NEW S, A \subseteq B, B \subseteq A \cup S
  PROVE  Map!Extends(Z(B), Z(A), Z(S))
<1>1. Z(A) \subseteq Z(B) /\ Z(B) \subseteq Z(A) \cup Z(S)
  BY DEF Z
<1>2. \A d, e \in Z(B) : d[1] = e[1] => d = e
  BY DEF Z
<1>. QED BY <1>1, <1>2 DEF Map!Extends

LEMMA JoinedZ ==
  ASSUME NEW A, NEW B, NEW S, B = A \cup S
  PROVE  Map!Joined(Z(B), Z(A), Z(S))
<1>1. Map!Extends(Z(B), Z(A), Z(S))
  BY ExtendsZ
<1>2. Map!KeysOfAll(Z(B)) = Map!KeysOfAll(Z(A)) \cup Map!KeysOfAll(Z(S))
  BY KeysOfZ
<1>. QED BY <1>1, <1>2 DEF Map!Joined

LEMMA ShownTable ==
  ASSUME GoneOutside, NEW u \in Table
  PROVE  u # Gone /\ Shown(u) = Z(KeysIn(u)) /\ Z(KeysIn(u)) # Gone
<1>1. KeysIn(u) \subseteq Keys
  BY TableFacts
<1>2. Z(KeysIn(u)) \in SUBSET (Keys \X {0})
  BY <1>1 DEF Z
<1>. QED BY <1>2 DEF GoneOutside, Shown

LEMMA ShowsFacts ==
  ASSUME NEW t \in Tables
  PROVE  /\ shows[t] = Shown(table[t])
         /\ shows'[t] = Shown(table'[t])
         /\ Map!Lives(t) <=> shows[t] # Gone
         /\ Map!Lives(t)' <=> shows'[t] # Gone
<1>1. shows[t] = Shown(table[t])
  BY DEF shows, Shown, Z, Lives
<1>2. shows'[t] = Shown(table'[t])
  BY DEF shows, Shown, Z, Lives, KeysIn, KeysOf, Elements
<1>3. Map!Lives(t) <=> shows[t] # Gone
  BY DEF shows, Map!Lives
<1>4. Map!Lives(t)' <=> shows'[t] # Gone
  BY DEF shows, Map!Lives
<1>. QED BY <1>1, <1>2, <1>3, <1>4

LEMMA OthersShow ==
  ASSUME NEW C, \A t \in Tables \ C : shows'[t] = shows[t]
  PROVE  Map!Others(C)
BY DEF Map!Others, shows

(* What one table shows becomes what new shows.                            *)
Turns(t, new) == shows'[t] = Shown(new) /\ Map!Others({t})

LEMMA Turning ==
  ASSUME TypeOK, NEW t \in Tables, NEW new, table' = [table EXCEPT ![t] = new]
  PROVE  Turns(t, new) /\ shows[t] = Shown(table[t])
<1>1. table'[t] = new /\ \A u \in Tables \ {t} : table'[u] = table[u]
  BY DEF TypeOK
<1>2. \A u \in Tables : shows[u] = Shown(table[u]) /\ shows'[u] = Shown(table'[u])
  BY ShowsFacts
<1>3. shows'[t] = Shown(new) /\ shows[t] = Shown(table[t])
  BY <1>1, <1>2
<1>4. \A u \in Tables \ {t} : shows'[u] = shows[u]
  BY <1>1, <1>2
<1>5. Map!Others({t})
  BY <1>4, OthersShow
<1>. QED BY <1>3, <1>5 DEF Turns

(* Nothing shows when the table shows what it showed.                      *)
LEMMA NothingShows ==
  ASSUME TypeOK, NEW t \in Tables, NEW new, table' = [table EXCEPT ![t] = new],
         Shown(new) = Shown(table[t])
  PROVE  Map!Others({})
<1>1. table'[t] = new /\ \A u \in Tables \ {t} : table'[u] = table[u]
  BY DEF TypeOK
<1>2. \A u \in Tables : shows[u] = Shown(table[u]) /\ shows'[u] = Shown(table'[u])
  BY ShowsFacts
<1>3. \A u \in Tables \ {} : shows'[u] = shows[u]
  BY <1>1, <1>2
<1>. QED BY <1>3, OthersShow

LEMMA Outcome ==
  ASSUME NEW what, NEW S, NEW b \in BOOLEAN, call' = <<what, S, b>>
  PROVE  /\ Map!Brought = Z(S)
         /\ \A w : /\ Map!Returned(w) <=> (w = what /\ ~b)
                   /\ Map!Threw(w) <=> (w = what /\ b)
<1>1. call'[1] = what /\ call'[2] = S /\ call'[3] = b
  OBVIOUS
<1>2. Map!Brought = Z(S)
  BY <1>1 DEF Map!Brought, Z
<1>3. ASSUME NEW w
      PROVE  /\ Map!Returned(w) <=> (w = what /\ ~b)
             /\ Map!Threw(w) <=> (w = what /\ b)
  BY <1>1 DEF Map!Returned, Map!Threw
<1>. QED BY <1>2, <1>3

(* A call that completes: what the table shows before and afterwards.      *)
Shows(t, new, what, S) ==
  /\ shows'[t] = Shown(new) /\ shows[t] = Shown(table[t]) /\ Map!Others({t})
  /\ Map!Brought = Z(S)
  /\ Map!Returned(what)

LEMMA CompletingShows ==
  ASSUME Inv, NEW t \in Tables, NEW new, NEW what, NEW S, Completes(t, new, what, S)
  PROVE  Shows(t, new, what, S)
<1>1. TypeOK
  BY DEF Inv
<1>2. table' = [table EXCEPT ![t] = new] /\ call' = <<what, S, FALSE>> /\ FALSE \in BOOLEAN
  BY DEF Completes
<1>3. shows'[t] = Shown(new) /\ shows[t] = Shown(table[t]) /\ Map!Others({t})
  BY <1>1, <1>2, Turning DEF Turns
<1>4. Map!Brought = Z(S) /\ Map!Returned(what)
  BY <1>2, Outcome
<1>. QED BY <1>3, <1>4 DEF Shows

LEMMA Begins ==
  ASSUME Inv, GoneOutside, NEW t \in Tables, ~Lives(t), NEW new \in Table,
         Completes(t, new, "construct", KeysIn(new))
  PROVE  Map!MapNext
<1>1. Shows(t, new, "construct", KeysIn(new))
  BY CompletingShows
<1>2. shows[t] = Gone /\ shows'[t] = Z(KeysIn(new)) /\ shows'[t] # Gone
  BY <1>1, ShownTable DEF Shows, Shown, Lives
<1>3. Z({}) = {}
  BY DEF Z
<1>4. Map!Joined(Z(KeysIn(new)), {}, Z(KeysIn(new)))
  <2>1. KeysIn(new) = {} \cup KeysIn(new)
    OBVIOUS
  <2> QED BY <1>3, <2>1, JoinedZ
<1>5. Map!Begin(t)
  BY <1>1, <1>2, <1>4, ShowsFacts DEF Shows, Map!Begin, shows
<1>. QED BY <1>5 DEF Map!MapNext

LEMMA Ends ==
  ASSUME Inv, GoneOutside, NEW t \in Tables, Lives(t),
         NEW S, Completes(t, Gone, "destroy", S)
  PROVE  Map!MapNext
<1>1. Shows(t, Gone, "destroy", S)
  BY CompletingShows
<1>2. table[t] \in Table
  BY InvFacts
<1>3. shows[t] # Gone /\ shows'[t] = Gone
  BY <1>1, <1>2, ShownTable DEF Shows, Shown
<1>4. Map!End(t)
  BY <1>1, <1>3, ShowsFacts DEF Shows, Map!End, shows
<1>. QED BY <1>4 DEF Map!MapNext

LEMMA Inserts ==
  ASSUME Inv, GoneOutside, NEW t \in Tables, Lives(t), NEW new \in Table, NEW S,
         KeysIn(new) = KeysIn(table[t]) \cup S, Completes(t, new, "insert", S)
  PROVE  Map!MapNext
<1>1. Shows(t, new, "insert", S)
  BY CompletingShows
<1>2. table[t] \in Table
  BY InvFacts
<1>3. /\ shows[t] = Z(KeysIn(table[t])) /\ shows[t] # Gone
      /\ shows'[t] = Z(KeysIn(new)) /\ shows'[t] # Gone
  BY <1>1, <1>2, ShownTable DEF Shows
<1>4. Map!Joined(Z(KeysIn(new)), Z(KeysIn(table[t])), Z(S))
  BY JoinedZ
<1>5. Map!Insert(t)
  BY <1>1, <1>3, <1>4, ShowsFacts DEF Shows, Map!Insert, shows
<1>. QED BY <1>5 DEF Map!MapNext

LEMMA Erases ==
  ASSUME Inv, GoneOutside, NEW t \in Tables, Lives(t), NEW new \in Table, NEW S,
         KeysIn(new) = KeysIn(table[t]) \ S, Completes(t, new, "erase", S)
  PROVE  Map!MapNext
<1>1. Shows(t, new, "erase", S)
  BY CompletingShows
<1>2. table[t] \in Table
  BY InvFacts
<1>3. /\ shows[t] = Z(KeysIn(table[t])) /\ shows[t] # Gone
      /\ shows'[t] = Z(KeysIn(new))
  BY <1>1, <1>2, ShownTable DEF Shows
<1>4. Z(KeysIn(new)) = Z(KeysIn(table[t])) \ Z(S)
  BY DEF Z
<1>5. Map!Erase(t)
  BY <1>1, <1>3, <1>4, ShowsFacts DEF Shows, Map!Erase, shows
<1>. QED BY <1>5 DEF Map!MapNext

LEMMA Renews ==
  ASSUME Inv, GoneOutside, NEW t \in Tables, Lives(t), NEW new \in Table,
         Completes(t, new, "assign", KeysIn(new))
  PROVE  Map!MapNext
<1>1. Shows(t, new, "assign", KeysIn(new))
  BY CompletingShows
<1>2. table[t] \in Table
  BY InvFacts
<1>3. shows[t] # Gone /\ shows'[t] = Z(KeysIn(new)) /\ shows'[t] # Gone
  BY <1>1, <1>2, ShownTable DEF Shows
<1>4. Z({}) = {}
  BY DEF Z
<1>5. Map!Joined(Z(KeysIn(new)), {}, Z(KeysIn(new)))
  <2>1. KeysIn(new) = {} \cup KeysIn(new)
    OBVIOUS
  <2> QED BY <1>4, <2>1, JoinedZ
<1>6. Map!Replace(t)
  BY <1>1, <1>3, <1>5, ShowsFacts DEF Shows, Map!Replace, shows
<1>. QED BY <1>6 DEF Map!MapNext

LEMMA Keeps ==
  ASSUME Inv, GoneOutside, NEW t \in Tables, Lives(t), NEW new \in Table,
         KeysIn(new) = KeysIn(table[t]), NEW S, Completes(t, new, "keep", S)
  PROVE  Map!MapNext
<1>1. TypeOK /\ table[t] \in Table
  BY InvFacts
<1>2. table' = [table EXCEPT ![t] = new] /\ call' = <<"keep", S, FALSE>> /\ FALSE \in BOOLEAN
  BY DEF Completes
<1>3. Shown(new) = Shown(table[t])
  BY <1>1, ShownTable
<1>4. Map!Others({})
  BY <1>1, <1>2, <1>3, NothingShows
<1>5. Map!Returned("keep")
  BY <1>2, Outcome
<1>. QED BY <1>4, <1>5 DEF Map!MapNext, Map!Keep

(* A throw that shows nothing.                                             *)
LEMMA Refuses ==
  ASSUME Inv, NEW t \in Tables, NEW new, Shown(new) = Shown(table[t]),
         NEW what \in {"construct", "keep", "insert"}, NEW S, NEW n,
         Loses(t, new, what, S, n)
  PROVE  Map!MapNext
<1>1. TypeOK
  BY InvFacts
<1>2. table' = [table EXCEPT ![t] = new] /\ call' = <<what, S, TRUE>> /\ TRUE \in BOOLEAN
  BY DEF Loses
<1>3. Map!Others({})
  BY <1>1, <1>2, NothingShows
<1>4. Map!Threw(what)
  BY <1>2, Outcome
<1>. QED BY <1>3, <1>4 DEF Map!MapNext, Map!Refuse

(* A throw that shows what was inserted before it.                         *)
LEMMA Breaks ==
  ASSUME Inv, GoneOutside, NEW t \in Tables, Lives(t), NEW new \in Table, NEW S,
         NEW what, Throws(t, new, what, S),
         \/ /\ what = "insert all"
            /\ KeysIn(table[t]) \subseteq KeysIn(new)
            /\ KeysIn(new) \subseteq KeysIn(table[t]) \cup S
         \/ what = "assign" /\ KeysIn(new) \subseteq S
  PROVE  Map!MapNext
<1>1. TypeOK /\ table[t] \in Table
  BY InvFacts
<1>2. table' = [table EXCEPT ![t] = new] /\ call' = <<what, S, TRUE>> /\ TRUE \in BOOLEAN
  BY DEF Throws, Loses
<1>3. shows'[t] = Shown(new) /\ shows[t] = Shown(table[t]) /\ Map!Others({t})
  BY <1>1, <1>2, Turning DEF Turns
<1>4. Map!Brought = Z(S) /\ Map!Threw(what)
  BY <1>2, Outcome
<1>5. /\ shows[t] = Z(KeysIn(table[t])) /\ shows[t] # Gone
      /\ shows'[t] = Z(KeysIn(new)) /\ shows'[t] # Gone
  BY <1>1, <1>3, ShownTable
<1>6. CASE /\ what = "insert all"
           /\ KeysIn(table[t]) \subseteq KeysIn(new)
           /\ KeysIn(new) \subseteq KeysIn(table[t]) \cup S
  <2>1. Map!Extends(Z(KeysIn(new)), Z(KeysIn(table[t])), Z(S))
    BY <1>6, ExtendsZ
  <2>2. Map!BreakOff(t)
    BY <1>3, <1>4, <1>5, <1>6, <2>1, ShowsFacts DEF Map!BreakOff, shows
  <2> QED BY <2>2 DEF Map!MapNext
<1>7. CASE what = "assign" /\ KeysIn(new) \subseteq S
  <2>1. {} \subseteq KeysIn(new) /\ KeysIn(new) \subseteq {} \cup S
    BY <1>7
  <2>2. Map!Extends(Z(KeysIn(new)), Z({}), Z(S)) /\ Z({}) = {}
    BY <2>1, ExtendsZ DEF Z
  <2>3. Map!BreakOff(t)
    BY <1>3, <1>4, <1>5, <1>7, <2>2, ShowsFacts DEF Map!BreakOff, shows
  <2> QED BY <2>3 DEF Map!MapNext
<1>. QED BY <1>6, <1>7

(* The elements of one table go to another, or of each to the other.       *)
LEMMA Takes ==
  ASSUME Inv, GoneOutside, NEW t \in Tables, NEW u \in Tables, t # u, Lives(u),
         table' = [table EXCEPT ![t] = table[u], ![u] = MovedFrom(table[u])],
         call' = <<"take", {}, FALSE>>
  PROVE  Map!MapNext
<1>1. DOMAIN table = Tables /\ lost \in Nat /\ table[u] \in Table /\ Right(table[u], lost)
  BY InvFacts
<1>2. table[u].mlf \in MaxLoads
  BY <1>1, TableFacts
<1>3. Right(MovedFrom(table[u]), lost) /\ KeysIn(MovedFrom(table[u])) = {}
  BY <1>1, <1>2, RightFresh DEF MovedFrom
<1>4. /\ table'[t] = table[u] /\ table'[u] = MovedFrom(table[u])
      /\ \A v \in Tables \ {t, u} : table'[v] = table[v]
  BY <1>1
<1>5. \A v \in Tables : shows[v] = Shown(table[v]) /\ shows'[v] = Shown(table'[v])
  BY ShowsFacts
<1>6. \A v \in Tables \ {t, u} : shows'[v] = shows[v]
  BY <1>4, <1>5
<1>7. Map!Others({t, u})
  BY <1>6, OthersShow
<1>8. MovedFrom(table[u]) \in Table
  BY <1>3 DEF Right, Sound
<1>9. shows'[u] = {}
  BY <1>3, <1>4, <1>5, <1>8, ShownTable DEF Z
<1>10. shows'[t] = shows[u] /\ shows[u] # Gone
  BY <1>1, <1>4, <1>5, ShownTable
<1>11. Map!Returned("take")
  <2>1. FALSE \in BOOLEAN
    OBVIOUS
  <2> QED BY <2>1, Outcome
<1>12. Map!Take(t, u)
  BY <1>7, <1>9, <1>10, <1>11, ShowsFacts DEF Map!Take, shows
<1>. QED BY <1>12 DEF Map!MapNext

LEMMA Exchanges ==
  ASSUME Inv, GoneOutside, NEW t \in Tables, NEW u \in Tables, Swap(t, u)
  PROVE  Map!MapNext
<1>1. DOMAIN table = Tables /\ Lives(t) /\ Lives(u)
      /\ table[t] \in Table /\ table[u] \in Table
  BY InvFacts DEF Swap
<1>2. /\ table' = [table EXCEPT ![t] = table[u], ![u] = table[t]]
      /\ call' = <<"swap", {}, FALSE>> /\ FALSE \in BOOLEAN
  BY DEF Swap
<1>3. /\ table'[t] = table[u] /\ table'[u] = table[t]
      /\ \A v \in Tables \ {t, u} : table'[v] = table[v]
  BY <1>1, <1>2
<1>4. \A v \in Tables : shows[v] = Shown(table[v]) /\ shows'[v] = Shown(table'[v])
  BY ShowsFacts
<1>5. \A v \in Tables \ {t, u} : shows'[v] = shows[v]
  BY <1>3, <1>4
<1>6. Map!Others({t, u})
  BY <1>5, OthersShow
<1>7. shows'[t] = shows[u] /\ shows'[u] = shows[t] /\ shows[t] # Gone /\ shows[u] # Gone
  BY <1>1, <1>3, <1>4, ShownTable
<1>8. Map!Returned("swap")
  BY <1>2, Outcome
<1>9. Map!Exchange(t, u)
  BY <1>6, <1>7, <1>8, ShowsFacts DEF Map!Exchange, shows
<1>. QED BY <1>9 DEF Map!MapNext

-----------------------------------------------------------------------------
LEMMA ConstructFromImplements ==
  ASSUME Inv, GoneOutside, NEW t \in Tables, NEW u, Right(u, lost), KeysIn(u) = {},
         NEW s \in Seq(Keys), NEW forward \in BOOLEAN, NEW multi \in BOOLEAN,
         Enters(s, multi), ConstructFrom(t, u, s, forward, multi)
  PROVE  Map!MapNext
<1> DEFINE room == IF forward THEN RoomForAll(u, Len(s)) ELSE u
           v == EmplacedAll(room, s, multi)
<1>1. lost \in Nat /\ ~Lives(t)
  BY InvFacts DEF ConstructFrom
<1>2. HasAll(room, v, KeysOf(s), lost) /\ KeysIn(room) = {}
  <2>1. room \in {u, RoomForAll(u, Len(s))}
    OBVIOUS
  <2> HIDE DEF room, v
  <2> QED BY <1>1, <2>1, Filling DEF v
<1>3. \/ Completes(t, v, "construct", KeysOf(s))
      \/ \E n : Loses(t, Gone, "construct", {}, n)
  BY DEF ConstructFrom, Throws
<1> HIDE DEF room, v
<1>4. v \in Table /\ KeysIn(v) = KeysOf(s)
  BY <1>2 DEF HasAll, Right, Sound
<1>5. CASE Completes(t, v, "construct", KeysOf(s))
  BY <1>1, <1>4, <1>5, Begins
<1>6. CASE \E n : Loses(t, Gone, "construct", {}, n)
  <2>1. table[t] = Gone
    BY <1>1 DEF Lives
  <2> QED BY <1>6, <2>1, Refuses
<1>. QED BY <1>3, <1>5, <1>6

LEMMA ReassignImplements ==
  ASSUME Inv, GoneOutside, NEW t \in Tables, Lives(t), NEW s \in Seq(Keys),
         NEW multi \in BOOLEAN, Enters(s, multi), Reassign(t, s, multi)
  PROVE  Map!MapNext
<1> DEFINE u == Cleared(table[t])
           room == RoomForAll(u, Len(s))
           v == EmplacedAll(room, s, multi)
<1>1. lost \in Nat
  BY InvFacts
<1>2. Right(u, lost) /\ KeysIn(u) = {}
  BY <1>1, InvFacts, RightCleared
<1>3. /\ HasAll(room, v, KeysOf(s), lost) /\ KeysIn(room) = {}
      /\ \A w \in Broken(room, s, multi) : HasPart(room, w, KeysOf(s), lost)
  <2> HIDE DEF u
  <2>1. room \in {u, RoomForAll(u, Len(s))}
    OBVIOUS
  <2> HIDE DEF room, v
  <2> QED BY <1>1, <1>2, <2>1, Filling DEF v
<1>4. \/ Completes(t, v, "assign", KeysOf(s))
      \/ \E w \in {u} \cup Broken(room, s, multi) : Throws(t, w, "assign", KeysOf(s))
  BY DEF Reassign
<1> HIDE DEF room, v, u
<1>5. v \in Table /\ KeysIn(v) = KeysOf(s)
  BY <1>3 DEF HasAll, Right, Sound
<1>6. CASE Completes(t, v, "assign", KeysOf(s))
  BY <1>5, <1>6, Renews
<1>7. CASE \E w \in {u} \cup Broken(room, s, multi) : Throws(t, w, "assign", KeysOf(s))
  <2>1. PICK w \in {u} \cup Broken(room, s, multi) : Throws(t, w, "assign", KeysOf(s))
    BY <1>7
  <2>2. w \in Table /\ KeysIn(w) \subseteq KeysOf(s)
    BY <1>2, <1>3 DEF HasPart, Right, Sound
  <2> QED BY <2>1, <2>2, Breaks
<1>. QED BY <1>4, <1>6, <1>7

LEMMA LifetimeImplements ==
  ASSUME Inv, GoneOutside, NEW t \in Tables, Lifetime(t)
  PROVE  Map!MapNext
<1>1. /\ lost \in Nat
      /\ \A u \in Tables : Lives(u) => Right(table[u], lost) /\ table[u] \in Table
  BY InvFacts
<1>2. Multi \in BOOLEAN /\ <<1, 1>> \in MaxLoads /\ BucketCounts \subseteq Nat
  BY HashAssumption
<1>3. CASE Destruct(t)
  BY <1>3, Ends DEF Destruct
<1>4. ASSUME NEW n \in BucketCounts, Construct(t, n) PROVE Map!MapNext
  <2> DEFINE u == Fresh(n, <<1, 1>>)
  <2>1. Right(u, lost) /\ KeysIn(u) = {}
    BY <1>1, <1>2, RightFresh
  <2>2. /\ ~Lives(t)
        /\ \/ Completes(t, u, "construct", {})
           \/ Loses(t, Gone, "construct", {}, 0)
    BY <1>4 DEF Construct, Throws
  <2> HIDE DEF u
  <2>3. u \in Table
    BY <2>1 DEF Right, Sound
  <2>4. CASE Completes(t, u, "construct", {})
    BY <2>1, <2>2, <2>3, <2>4, Begins
  <2>5. CASE Loses(t, Gone, "construct", {}, 0)
    BY <2>2, <2>5, Refuses DEF Lives
  <2> QED BY <2>2, <2>4, <2>5
<1>5. ASSUME NEW s \in Ranges, NEW forward \in BOOLEAN, NEW n \in BucketCounts,
             ConstructRange(t, s, forward, n)
      PROVE  Map!MapNext
  <2> DEFINE u == Fresh(n, <<1, 1>>)
  <2>1. s \in Seq(Keys) /\ Enters(s, Multi)
    BY RangeType, Entering
  <2>2. Right(u, lost) /\ KeysIn(u) = {}
    BY <1>1, <1>2, RightFresh
  <2>3. ConstructFrom(t, u, s, forward, Multi)
    BY <1>5 DEF ConstructRange
  <2> HIDE DEF u
  <2> QED BY <1>2, <2>1, <2>2, <2>3, ConstructFromImplements
<1>6. ASSUME NEW v \in Tables, CopyConstruct(t, v) PROVE Map!MapNext
  <2> DEFINE u == Fresh(bucket_count(table[v]), table[v].mlf)
             s == Elements(table[v])
  <2>1. Lives(v) /\ ConstructFrom(t, u, s, TRUE, TRUE)
    BY <1>6 DEF CopyConstruct
  <2>2. Right(table[v], lost) /\ table[v] \in Table
    BY <1>1, <2>1
  <2>3. bucket_count(table[v]) \in Nat /\ table[v].mlf \in MaxLoads
    BY <2>2, TableFacts
  <2>4. Right(u, lost) /\ KeysIn(u) = {}
    BY <1>1, <2>3, RightFresh
  <2>5. s \in Seq(Keys) /\ Enters(s, TRUE)
    BY <2>2, Entering
  <2>6. TRUE \in BOOLEAN
    OBVIOUS
  <2> HIDE DEF u, s
  <2> QED BY <2>1, <2>4, <2>5, <2>6, ConstructFromImplements
<1>7. ASSUME NEW u \in Tables, MoveConstruct(t, u) PROVE Map!MapNext
  BY <1>7, Takes DEF MoveConstruct
<1>. QED BY <1>3, <1>4, <1>5, <1>6, <1>7 DEF Lifetime

LEMMA AssignmentImplements ==
  ASSUME Inv, GoneOutside, NEW t \in Tables, Assignment(t)
  PROVE  Map!MapNext
<1>1. /\ lost \in Nat
      /\ \A u \in Tables : Lives(u) => Right(table[u], lost)
  BY InvFacts
<1>2. CASE Clear(t)
  <2>1. Lives(t) /\ Completes(t, Cleared(table[t]), "assign", {})
    BY <1>2 DEF Clear
  <2>2. Right(Cleared(table[t]), lost) /\ KeysIn(Cleared(table[t])) = {}
    BY <1>1, <2>1, RightCleared
  <2>3. Cleared(table[t]) \in Table
    BY <2>2 DEF Right, Sound
  <2> QED BY <2>1, <2>2, <2>3, Renews
<1>3. ASSUME NEW s \in Ranges, AssignList(t, s) PROVE Map!MapNext
  <2>1. Lives(t) /\ Reassign(t, s, FALSE) /\ FALSE \in BOOLEAN
    BY <1>3 DEF AssignList
  <2>2. s \in Seq(Keys) /\ Enters(s, FALSE)
    BY RangeType, Entering
  <2> QED BY <2>1, <2>2, ReassignImplements
<1>4. ASSUME NEW u \in Tables, CopyAssign(t, u) PROVE Map!MapNext
  <2> DEFINE s == Elements(table[u])
  <2>1. Lives(t) /\ Lives(u) /\ Reassign(t, s, TRUE) /\ TRUE \in BOOLEAN
    BY <1>4 DEF CopyAssign
  <2>2. s \in Seq(Keys) /\ Enters(s, TRUE)
    BY <1>1, <2>1, Entering
  <2> HIDE DEF s
  <2> QED BY <2>1, <2>2, ReassignImplements
<1>5. ASSUME NEW u \in Tables, MoveAssign(t, u) PROVE Map!MapNext
  BY <1>5, Takes DEF MoveAssign
<1>6. ASSUME NEW u \in Tables, Swap(t, u) PROVE Map!MapNext
  BY <1>6, Exchanges
<1>. QED BY <1>2, <1>3, <1>4, <1>5, <1>6 DEF Assignment

LEMMA InsertionImplements ==
  ASSUME Inv, GoneOutside, UniqueTables, NEW t \in Tables, Insertion(t)
  PROVE  Map!MapNext
<1> DEFINE u == table[t]
<1>1. lost \in Nat /\ Multi \in BOOLEAN /\ ~Multi
  BY InvFacts, HashAssumption DEF UniqueTables
<1>2. Lives(t) => Right(u, lost) /\ u \in Table
  BY InvFacts
<1>3. ASSUME NEW k \in Keys, Emplace(t, k) PROVE Map!MapNext
  <2> DEFINE room == Room(u)
             v == Link(room, k, Multi)
             more == [room EXCEPT !.size = @ + 1]
  <2>1. Lives(t)
    BY <1>3 DEF Emplace
  <2>2. \/ Completes(t, v, "insert", {k})
        \/ Loses(t, u, "insert", {k}, 0)
        \/ Loses(t, room, "insert", {k}, 0)
        \/ Loses(t, more, "insert", {k}, 1)
    BY <1>3 DEF Emplace, Throws
  <2> HIDE DEF u
  <2>3. Right(u, lost) /\ u \in Table
    BY <1>2, <2>1
  <2>4. Right(room, lost) /\ KeysIn(room) = KeysIn(u) /\ bucket_count(room) # 0
    <3>1. Sound(u)
      BY <2>3 DEF Right
    <3> QED BY <1>1, <2>3, <3>1, MakingRoom, Making
  <2> HIDE DEF room
  <2>5. Sound(room) /\ room \in Table
    BY <2>4 DEF Right, Sound
  <2>6. Grows(room, v, k)
    BY <1>1, <2>4, <2>5, Linking
  <2> HIDE DEF v
  <2>7. v \in Table /\ KeysIn(v) = KeysIn(u) \cup {k}
    BY <2>4, <2>5, <2>6 DEF Grows, Joins, Sound
  <2>8. CASE Completes(t, v, "insert", {k})
    BY <2>1, <2>7, <2>8, Inserts DEF u
  <2>9. Shown(room) = Shown(u)
    BY <2>3, <2>4, <2>5, ShownTable
  <2>10. more \in Table /\ KeysIn(more) = KeysIn(room)
    <3>1. more \in Table /\ more.bucket = room.bucket
      BY <2>5, Counting
    <3> QED BY <3>1 DEF KeysIn, Elements
  <2> HIDE DEF more
  <2>11. Shown(more) = Shown(u)
    BY <2>3, <2>4, <2>10, ShownTable
  <2>12. Shown(u) = Shown(table[t]) /\ Shown(room) = Shown(table[t])
         /\ Shown(more) = Shown(table[t]) /\ "insert" \in {"construct", "keep", "insert"}
    BY <2>9, <2>11 DEF u
  <2>13. CASE Loses(t, u, "insert", {k}, 0)
    BY <2>12, <2>13, Refuses
  <2>14. CASE Loses(t, room, "insert", {k}, 0)
    BY <2>12, <2>14, Refuses
  <2>15. CASE Loses(t, more, "insert", {k}, 1)
    BY <2>12, <2>15, Refuses
  <2> QED BY <2>2, <2>8, <2>13, <2>14, <2>15
<1>4. ASSUME NEW s \in Ranges, NEW forward \in BOOLEAN, RangeInsert(t, s, forward)
      PROVE  Map!MapNext
  <2> DEFINE room == IF forward THEN RoomForAll(u, Len(s)) ELSE u
             v == EmplacedAll(room, s, Multi)
  <2>1. s \in Seq(Keys)
    BY RangeType
  <2>2. Lives(t)
    BY <1>4 DEF RangeInsert
  <2>3. \/ Completes(t, v, "insert", KeysOf(s))
        \/ \E w \in Broken(room, s, Multi) : Throws(t, w, "insert all", KeysOf(s))
        \/ Throws(t, u, "insert all", KeysOf(s))
    BY <1>4 DEF RangeInsert
  <2> HIDE DEF u
  <2>4. Right(u, lost) /\ u \in Table
    BY <1>2, <2>2
  <2>5. Right(room, lost) /\ KeysIn(room) = KeysIn(u)
    <3>1. Len(s) \in Nat
      BY <2>1
    <3> QED BY <1>1, <2>4, <3>1, MakingRoom
  <2> HIDE DEF room
  <2>6. ~Multi => Fits(room, s, Multi)
    BY DEF Fits
  <2>7. HasAll(room, v, KeysOf(s), lost)
    BY <1>1, <2>1, <2>5, <2>6, InsertingAll
  <2> HIDE DEF v
  <2>8. v \in Table /\ KeysIn(v) = KeysIn(u) \cup KeysOf(s)
    BY <2>5, <2>7 DEF HasAll, Right, Sound
  <2>9. CASE Completes(t, v, "insert", KeysOf(s))
    BY <2>2, <2>8, <2>9, Inserts DEF u
  <2>10. CASE Throws(t, u, "insert all", KeysOf(s))
    BY <2>2, <2>4, <2>10, Breaks DEF u
  <2>11. ASSUME NEW w \in Broken(room, s, Multi), Throws(t, w, "insert all", KeysOf(s))
         PROVE  Map!MapNext
    <3>1. HasPart(room, w, KeysOf(s), lost)
      BY <1>1, <2>1, <2>5, <2>6, BreakingOff
    <3>2. /\ w \in Table /\ KeysIn(table[t]) \subseteq KeysIn(w)
          /\ KeysIn(w) \subseteq KeysIn(table[t]) \cup KeysOf(s)
      BY <2>5, <3>1 DEF HasPart, Right, Sound, u
    <3> QED BY <2>2, <2>11, <3>2, Breaks
  <2> QED BY <2>3, <2>9, <2>10, <2>11
<1>. QED BY <1>3, <1>4 DEF Insertion

LEMMA RemovalImplements ==
  ASSUME Inv, GoneOutside, UniqueTables, NEW t \in Tables, Removal(t)
  PROVE  Map!MapNext
<1> DEFINE u == table[t]
<1>1. lost \in Nat /\ MaxSize \in Nat /\ ~Multi
  BY InvFacts, HashAssumption DEF UniqueTables
<1>2. Lives(t) => /\ Right(u, lost) /\ Sound(u) /\ Nodes(u) <= u.size
                  /\ Nodes(u) \in Nat
  <2>1. ASSUME Lives(t)
        PROVE Right(u, lost) /\ Sound(u) /\ u \in Table /\ Nodes(u) <= u.size
    BY <2>1, InvFacts DEF Right
  <2> HIDE DEF u
  <2> QED BY <2>1, TableFacts
<1>3. ASSUME NEW first \in 1 .. MaxSize, NEW last \in 1 .. MaxSize, EraseRange(t, first, last)
      PROVE  Map!MapNext
  <2> DEFINE v == WithoutFrom(u, first, last)
             S == KeysIn(u) \ KeysIn(v)
  <2>1. Lives(t) /\ first <= last /\ last <= Nodes(u) /\ Completes(t, v, "erase", S)
    BY <1>3 DEF EraseRange, Nodes
  <2> HIDE DEF u
  <2>2. first \in Nat \ {0} /\ last \in Nat
    BY <1>1
  <2>3. Sheds(u, v)
    BY <1>2, <2>1, <2>2, ErasingFrom
  <2> HIDE DEF v
  <2>4. v \in Table /\ KeysIn(v) = KeysIn(u) \ S
    BY <2>3 DEF Sheds, Sound
  <2> HIDE DEF S
  <2> QED BY <2>1, <2>4, Erases DEF u
<1>4. ASSUME NEW S \in SUBSET Keys, EraseIf(t, S) PROVE Map!MapNext
  <2> DEFINE v == WithoutAll(u, S)
  <2>1. Lives(t) /\ Completes(t, v, "erase", S)
    BY <1>4 DEF EraseIf
  <2> HIDE DEF u
  <2>2. Sheds(u, v) /\ KeysIn(v) = KeysIn(u) \ S
    BY <1>2, <2>1, ErasingIf
  <2> HIDE DEF v
  <2>3. v \in Table
    BY <2>2 DEF Sheds, Sound
  <2> QED BY <2>1, <2>2, <2>3, Erases DEF u
<1>5. ASSUME NEW k \in Keys, EraseKey(t, k) PROVE Map!MapNext
  <2> DEFINE v == Shortened(u, k)
  <2>1. Lives(t) /\ Completes(t, v, "erase", {k})
    BY <1>5 DEF EraseKey, Shortened
  <2> HIDE DEF u
  <2>2. Right(v, lost) /\ KeysIn(v) = KeysIn(u) \ {k}
    BY <1>1, <1>2, <2>1, ErasingKey
  <2> HIDE DEF v
  <2>3. v \in Table
    BY <2>2 DEF Right, Sound
  <2> QED BY <2>1, <2>2, <2>3, Erases DEF u
<1>. QED BY <1>3, <1>4, <1>5 DEF Removal

LEMMA RehashImplements ==
  ASSUME Inv, GoneOutside, NEW t \in Tables, NEW n \in Nat, Rehash(t, n)
  PROVE  Map!MapNext
<1> DEFINE u == table[t]
           m == next_prime(Larger(n, Ceil(u.size, u)))
           v == Rehashed(u, m)
<1>1. Lives(t)
  BY DEF Rehash
<1>2. Sound(u) /\ u \in Table
  BY <1>1, InvFacts
<1>3. Completes(t, v, "keep", {}) \/ Loses(t, u, "keep", {}, 0)
  BY DEF Rehash, Throws
<1> HIDE DEF u
<1>4. u.size \in Nat
  BY <1>2, TableFacts
<1>5. Larger(n, Ceil(u.size, u)) \in Nat
  BY <1>2, <1>4, Rounding DEF Larger
<1>6. m \in Nat \ {0}
  BY <1>5, NextPrime
<1> HIDE DEF m
<1>7. Rearranges(u, v)
  BY <1>2, <1>6, Rehashing
<1> HIDE DEF v
<1>8. v \in Table /\ KeysIn(v) = KeysIn(u)
  BY <1>7 DEF Rearranges, Sound
<1>9. CASE Completes(t, v, "keep", {})
  BY <1>1, <1>8, <1>9, Keeps DEF u
<1>10. CASE Loses(t, u, "keep", {}, 0)
  <2>1. Shown(u) = Shown(table[t]) /\ "keep" \in {"construct", "keep", "insert"}
    BY DEF u
  <2> QED BY <1>10, <2>1, Refuses
<1>. QED BY <1>3, <1>9, <1>10

LEMMA CapacityImplements ==
  ASSUME Inv, GoneOutside, NEW t \in Tables, Capacity(t)
  PROVE  Map!MapNext
<1>1. BucketCounts \subseteq Nat
  BY HashAssumption
<1>2. Lives(t) => table[t] \in Table
  BY InvFacts
<1>3. ASSUME NEW mlf \in MaxLoads, SetMaxLoad(t, mlf) PROVE Map!MapNext
  <2> DEFINE u == table[t]
             v == [u EXCEPT !.mlf = mlf]
  <2>1. Lives(t) /\ Completes(t, v, "keep", {})
    BY <1>3 DEF SetMaxLoad
  <2>2. u \in Table
    BY <1>2, <2>1
  <2> HIDE DEF u
  <2>3. v \in Table /\ v.bucket = u.bucket
    BY <2>2 DEF Table
  <2> HIDE DEF v
  <2>4. KeysIn(v) = KeysIn(u)
    BY <2>3 DEF KeysIn, Elements
  <2> QED BY <2>1, <2>3, <2>4, Keeps DEF u
<1>4. ASSUME NEW n \in BucketCounts, Rehash(t, n) PROVE Map!MapNext
  BY <1>1, <1>4, RehashImplements
<1>5. ASSUME NEW n \in BucketCounts, Reserve(t, n) PROVE Map!MapNext
  <2>1. Lives(t) /\ Rehash(t, Ceil(n, table[t])) /\ n \in Nat
    BY <1>1, <1>5 DEF Reserve
  <2>2. Ceil(n, table[t]) \in Nat
    BY <1>2, <2>1, Rounding
  <2> QED BY <2>1, <2>2, RehashImplements
<1>. QED BY <1>3, <1>4, <1>5 DEF Capacity

(* A table of unique keys is a set of keys: each completed call has the    *)
(* effect it promises, and each one that throws leaves the set as it was   *)
(* or inserts some of its elements.                                        *)
THEOREM HashTableImplementsSet ==
  ASSUME GoneOutside, UniqueTables
  PROVE  Spec => ImplementsSet
<1>1. Init => Map!MapInit
  <2> SUFFICES ASSUME Init PROVE Map!MapInit
    OBVIOUS
  <2>1. table = [t \in Tables |-> Gone] /\ call = <<"keep", {}, FALSE>>
    BY DEF Init
  <2>2. shows = [t \in Tables |-> Gone]
    BY <2>1 DEF shows, Lives
  <2>3. <<call[1], call[2] \X {0}, call[3]>> = <<"keep", {}, FALSE>>
    BY <2>1
  <2> QED BY <2>2, <2>3 DEF Map!MapInit, shows
<1>2. Inv /\ [Next]_vars => [Map!MapNext]_(Map!mapVars)
  <2> SUFFICES ASSUME Inv, [Next]_vars PROVE [Map!MapNext]_(Map!mapVars)
    OBVIOUS
  <2>1. CASE UNCHANGED vars
    BY <2>1 DEF vars, Map!mapVars, Lives, KeysIn, Elements
  <2>2. CASE Next
    <3>1. Map!MapNext
      BY <2>2, LifetimeImplements, AssignmentImplements, InsertionImplements,
         RemovalImplements, CapacityImplements DEF Next
    <3> QED BY <3>1
  <2> QED BY <2>1, <2>2
<1>. QED BY <1>1, <1>2, InvHolds, PTL DEF Spec, ImplementsSet, Map!MapSpec
=============================================================================
