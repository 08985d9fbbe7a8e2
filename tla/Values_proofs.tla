---------------------------- MODULE Values_proofs ----------------------------
(***************************************************************************)
(* That the classes that hold one value own it once, and that each of      *)
(* their variables is, to the outside, one value or nothing.               *)
(*                                                                         *)
(* First unique_ptr, whose objects may own each other: what a deletion     *)
(* leads to through all the calls that it sets off, then the pictures of   *)
(* its variables as those of the other classes. Last the invariant of all  *)
(* four.                                                                   *)
(***************************************************************************)
EXTENDS Holders_proofs, FiniteSetTheorems

-----------------------------------------------------------------------------
(* unique_ptr: who owns whom. A place is Gone, owns nothing or owns a      *)
(* node; each node that lives has one owner, but those of S that have none *)
(* yet or any more.                                                        *)
Owners == [Blocks -> Nodes \cup {Null, Gone}]

Owning(o, S) ==
  /\ o \in Owners
  /\ \A p \in Blocks : o[p] \in Nodes => o[o[p]] # Gone /\ o[p] \notin S
  /\ \A p, q \in Blocks : o[p] \in Nodes /\ o[p] = o[q] => p = q
  /\ \A n \in Nodes : o[n] # Gone => n \in S \/ \E p \in Blocks : o[p] = n
  /\ \A n \in S : n \in Nodes /\ o[n] # Gone

JustNodes(x) == {x} \ {Null, Gone}

LEMMA OwnersAt ==
  ASSUME ToldApart, NEW o \in Owners, NEW p \in Blocks, NEW x \in Nodes \cup {Null, Gone}
  PROVE  /\ Changed(o, p, x) \in Owners
         /\ Changed(o, p, x)[p] = x
         /\ \A q \in Blocks : q # p => Changed(o, p, x)[q] = o[q]
         /\ o[p] \in Nodes \cup {Null, Gone}
         /\ Null \notin Nodes /\ Gone \notin Nodes /\ Null # Gone /\ Nodes \subseteq Blocks
         /\ \A y : y \in JustNodes(o[p]) <=> y = o[p] /\ y \in Nodes
<1>1. Null \notin Nodes /\ Gone \notin Nodes /\ Null # Gone /\ Nodes \subseteq Blocks
  BY SlotsAndNodes, CellAssumption DEF ToldApart
<1>2. /\ Changed(o, p, x) \in Owners
      /\ Changed(o, p, x)[p] = x
      /\ \A q \in Blocks : q # p => Changed(o, p, x)[q] = o[q]
      /\ o[p] \in Nodes \cup {Null, Gone}
  <2> DEFINE T == Nodes \cup {Null, Gone}
  <2>1. o \in [Blocks -> T] /\ x \in T /\ Owners = [Blocks -> T]
    BY DEF Owners
  <2> HIDE DEF T
  <2>2. /\ Changed(o, p, x) \in [Blocks -> T]
        /\ Changed(o, p, x)[p] = x
        /\ \A q \in Blocks : q # p => Changed(o, p, x)[q] = o[q]
    BY <2>1 DEF Changed
  <2>3. o[p] \in T
    BY <2>1
  <2> QED BY <2>1, <2>2, <2>3 DEF T
<1>3. \A y : y \in JustNodes(o[p]) <=> y = o[p] /\ y \in Nodes
  BY <1>1, <1>2 DEF JustNodes
<1>. QED BY <1>1, <1>2, <1>3

(* p gives up what it owns.                                                *)
LEMMA Unlinked ==
  ASSUME ToldApart, NEW o, NEW S, Owning(o, S), NEW p \in Blocks, o[p] # Gone
  PROVE  Owning(Changed(o, p, Null), S \cup JustNodes(o[p]))
<1> DEFINE c == Changed(o, p, Null)
           T == S \cup JustNodes(o[p])
<1>1. o \in Owners
  BY DEF Owning
<1>2. /\ c \in Owners /\ c[p] = Null /\ \A q \in Blocks : q # p => c[q] = o[q]
      /\ Null \notin Nodes /\ Gone \notin Nodes /\ Null # Gone /\ Nodes \subseteq Blocks
      /\ \A y : y \in T <=> y \in S \/ (y = o[p] /\ y \in Nodes)
  <2>1. \A y : y \in JustNodes(o[p]) <=> y = o[p] /\ y \in Nodes
    BY <1>1, OwnersAt
  <2>2. /\ c \in Owners /\ c[p] = Null /\ \A q \in Blocks : q # p => c[q] = o[q]
        /\ Null \notin Nodes /\ Gone \notin Nodes /\ Null # Gone /\ Nodes \subseteq Blocks
    BY <1>1, OwnersAt
  <2> QED BY <2>1, <2>2
<1> HIDE DEF c, T
<1>3. \A n \in Nodes : c[n] # Gone <=> o[n] # Gone
  BY <1>2
<1>4. ASSUME NEW q \in Blocks, c[q] \in Nodes PROVE c[c[q]] # Gone /\ c[q] \notin T
  <2>1. q # p /\ c[q] = o[q]
    BY <1>2, <1>4
  <2>2. o[q] \notin S /\ o[o[q]] # Gone
    BY <1>4, <2>1 DEF Owning
  <2>3. o[q] # o[p]
    BY <1>4, <2>1 DEF Owning
  <2> QED BY <1>2, <1>3, <1>4, <2>1, <2>2, <2>3
<1>5. ASSUME NEW q \in Blocks, NEW t \in Blocks, c[q] \in Nodes, c[q] = c[t] PROVE q = t
  BY <1>2, <1>5 DEF Owning
<1>6. ASSUME NEW n \in Nodes, c[n] # Gone PROVE n \in T \/ \E q \in Blocks : c[q] = n
  <2>1. CASE n \in S
    BY <1>2, <2>1
  <2>2. CASE n \notin S
    <3>1. PICK q \in Blocks : o[q] = n
      BY <1>3, <1>6, <2>2 DEF Owning
    <3> QED BY <1>2, <3>1
  <2> QED BY <2>1, <2>2
<1>7. \A n \in T : n \in Nodes /\ c[n] # Gone
  <2>1. ASSUME NEW n \in S PROVE n \in Nodes /\ c[n] # Gone
    BY <1>3 DEF Owning
  <2>2. ASSUME o[p] \in Nodes PROVE c[o[p]] # Gone
    BY <1>3, <2>2 DEF Owning
  <2> QED BY <1>2, <2>1, <2>2
<1>. QED BY <1>2, <1>4, <1>5, <1>6, <1>7 DEF Owning, c, T

(* p, which owned nothing, owns x.                                         *)
LEMMA Linked ==
  ASSUME ToldApart, NEW o, NEW S, Owning(o, S), NEW p \in Blocks, o[p] = Null,
         NEW x \in S \cup {Null}
  PROVE  Owning(Changed(o, p, x), S \ {x})
<1> DEFINE c == Changed(o, p, x)
           T == S \ {x}
<1>1. o \in Owners /\ x \in Nodes \cup {Null}
  BY DEF Owning
<1>2. /\ c \in Owners /\ c[p] = x /\ \A q \in Blocks : q # p => c[q] = o[q]
      /\ Null \notin Nodes /\ Gone \notin Nodes /\ Null # Gone /\ Nodes \subseteq Blocks
  BY <1>1, OwnersAt
<1> HIDE DEF c
<1>3. \A n \in Blocks : c[n] # Gone <=> o[n] # Gone
  BY <1>1, <1>2
<1>4. ASSUME NEW q \in Blocks, q # p, o[q] \in Nodes PROVE o[q] # x
  <2>1. o[q] \notin S
    BY <1>4 DEF Owning
  <2> QED BY <1>2, <1>4, <2>1
<1>5. ASSUME NEW q \in Blocks, c[q] \in Nodes PROVE c[c[q]] # Gone /\ c[q] \notin T
  <2>1. CASE q = p
    <3>1. x \in S /\ c[q] = x
      BY <1>2, <1>5, <2>1
    <3> QED BY <1>2, <1>3, <1>5, <3>1 DEF Owning
  <2>2. CASE q # p
    BY <1>2, <1>3, <1>5, <2>2 DEF Owning
  <2> QED BY <2>1, <2>2
<1>6. ASSUME NEW q \in Blocks, NEW t \in Blocks, c[q] \in Nodes, c[q] = c[t] PROVE q = t
  <2>1. CASE q = p /\ t # p
    BY <1>2, <1>4, <1>6, <2>1
  <2>2. CASE q # p /\ t = p
    BY <1>2, <1>4, <1>6, <2>2
  <2>3. CASE q # p /\ t # p
    BY <1>2, <1>6, <2>3 DEF Owning
  <2> QED BY <2>1, <2>2, <2>3
<1>7. ASSUME NEW n \in Nodes, c[n] # Gone PROVE n \in T \/ \E q \in Blocks : c[q] = n
  <2>1. CASE n = x
    BY <1>2, <2>1
  <2>2. CASE n # x
    <3>1. n \in S \/ \E q \in Blocks : o[q] = n
      BY <1>2, <1>3, <1>7 DEF Owning
    <3> QED BY <1>2, <2>2, <3>1
  <2> QED BY <2>1, <2>2
<1>8. \A n \in T : n \in Nodes /\ c[n] # Gone
  BY <1>2, <1>3 DEF Owning
<1>. QED BY <1>2, <1>5, <1>6, <1>7, <1>8 DEF Owning, c, T

(* A place that owns nothing, and is not owned, comes and goes.            *)
LEMMA Ended ==
  ASSUME ToldApart, NEW o, NEW S, Owning(o, S), NEW p \in Blocks, o[p] = Null,
         p \in Nodes => p \in S
  PROVE  Owning(Changed(o, p, Gone), S \ {p})
<1> DEFINE c == Changed(o, p, Gone)
           T == S \ {p}
<1>1. o \in Owners
  BY DEF Owning
<1>2. /\ c \in Owners /\ c[p] = Gone /\ \A q \in Blocks : q # p => c[q] = o[q]
      /\ Null \notin Nodes /\ Gone \notin Nodes /\ Null # Gone /\ Nodes \subseteq Blocks
  BY <1>1, OwnersAt
<1> HIDE DEF c
<1>3. ASSUME NEW q \in Blocks, c[q] \in Nodes PROVE c[c[q]] # Gone /\ c[q] \notin T
  <2>1. q # p /\ c[q] = o[q]
    BY <1>2, <1>3
  <2>2. o[q] \notin S /\ o[o[q]] # Gone
    BY <1>3, <2>1 DEF Owning
  <2> QED BY <1>2, <1>3, <2>1, <2>2
<1>4. ASSUME NEW q \in Blocks, NEW t \in Blocks, c[q] \in Nodes, c[q] = c[t] PROVE q = t
  BY <1>2, <1>4 DEF Owning
<1>5. ASSUME NEW n \in Nodes, c[n] # Gone PROVE n \in T \/ \E q \in Blocks : c[q] = n
  <2>1. n # p /\ o[n] # Gone
    BY <1>2, <1>5
  <2>2. n \in S \/ \E q \in Blocks : o[q] = n
    BY <2>1 DEF Owning
  <2> QED BY <1>2, <2>1, <2>2
<1>6. \A n \in T : n \in Nodes /\ c[n] # Gone
  BY <1>2 DEF Owning
<1>. QED BY <1>2, <1>3, <1>4, <1>5, <1>6 DEF Owning, c, T

LEMMA Begun ==
  ASSUME ToldApart, NEW o, NEW S, Owning(o, S), NEW p \in Blocks, o[p] = Gone
  PROVE  Owning(Changed(o, p, Null), S \cup ({p} \cap Nodes))
<1> DEFINE c == Changed(o, p, Null)
           T == S \cup ({p} \cap Nodes)
<1>1. o \in Owners
  BY DEF Owning
<1>2. /\ c \in Owners /\ c[p] = Null /\ \A q \in Blocks : q # p => c[q] = o[q]
      /\ Null \notin Nodes /\ Gone \notin Nodes /\ Null # Gone /\ Nodes \subseteq Blocks
  BY <1>1, OwnersAt
<1> HIDE DEF c
<1>3. ASSUME NEW q \in Blocks, c[q] \in Nodes PROVE c[c[q]] # Gone /\ c[q] \notin T
  <2>1. q # p /\ c[q] = o[q]
    BY <1>2, <1>3
  <2>2. o[q] \notin S /\ o[o[q]] # Gone
    BY <1>3, <2>1 DEF Owning
  <2> QED BY <1>2, <1>3, <2>1, <2>2
<1>4. ASSUME NEW q \in Blocks, NEW t \in Blocks, c[q] \in Nodes, c[q] = c[t] PROVE q = t
  BY <1>2, <1>4 DEF Owning
<1>5. ASSUME NEW n \in Nodes, c[n] # Gone PROVE n \in T \/ \E q \in Blocks : c[q] = n
  <2>1. CASE n = p
    BY <2>1
  <2>2. CASE n # p
    <3>1. o[n] # Gone
      BY <1>2, <1>5, <2>2
    <3>2. n \in S \/ \E q \in Blocks : o[q] = n
      BY <3>1 DEF Owning
    <3>3. ASSUME NEW q \in Blocks, o[q] = n PROVE c[q] = n
      BY <1>2, <3>3
    <3> QED BY <3>2, <3>3
  <2> QED BY <2>1, <2>2
<1>6. \A n \in T : n \in Nodes /\ c[n] # Gone
  BY <1>2 DEF Owning
<1>. QED BY <1>2, <1>3, <1>4, <1>5, <1>6 DEF Owning, c, T

(* The memory beside it: what is Gone has no block, a slot and an object   *)
(* of S whose life is over have a raw one, and every other node a value.   *)
Kept(m, o, S, b) ==
  /\ o[b] = Gone => m.cells[b] = Nothing
  /\ o[b] # Gone /\ b \in Slots \cup S => m.cells[b] = One(Raw)
  /\ o[b] # Gone /\ b \notin Slots \cup S => \E x \in Values : m.cells[b] = One(x)

Stocked(m, o, S) ==
  /\ m \in Memories /\ ~m.fault
  /\ \A b \in Blocks : Kept(m, o, S, b)

LEMMA StockedChanges ==
  ASSUME NEW m, NEW o, NEW S, Stocked(m, o, S), NEW n \in Memories, ~n.fault,
         NEW u, NEW T, NEW p, Kept(n, u, T, p),
         \A c \in Blocks : c # p => /\ n.cells[c] = m.cells[c]
                                    /\ u[c] = Gone <=> o[c] = Gone
                                    /\ c \in T <=> c \in S
  PROVE  Stocked(n, u, T)
<1>1. ASSUME NEW b \in Blocks, b # p PROVE Kept(n, u, T, b)
  <2>1. Kept(m, o, S, b)
    BY DEF Stocked
  <2> QED BY <1>1, <2>1 DEF Kept
<1>. QED BY <1>1 DEF Stocked

(* A change of what owns what is none of the memory.                       *)
LEMMA StockedStill ==
  ASSUME NEW m, NEW o, NEW S, Stocked(m, o, S), NEW u, NEW T,
         \A c \in Blocks : u[c] = Gone <=> o[c] = Gone, \A c : c \in T <=> c \in S
  PROVE  Stocked(m, u, T)
<1>1. ASSUME NEW b \in Blocks PROVE Kept(m, u, T, b)
  <2>1. Kept(m, o, S, b)
    BY DEF Stocked
  <2> QED BY <2>1 DEF Kept
<1>. QED BY <1>1 DEF Stocked

-----------------------------------------------------------------------------
(* The calls of the deleter that have not returned.                        *)
Opened(q)   == {q[i] : i \in 1 .. Len(q)}
Distinct(q) == \A i, j \in 1 .. Len(q) : q[i] = q[j] => i = j

LEMMA Pushed ==
  ASSUME NEW D, NEW q \in Seq(D), NEW b \in D, Distinct(q), b \notin Opened(q)
  PROVE  /\ Append(q, b) \in Seq(D) /\ Len(Append(q, b)) = Len(q) + 1
         /\ Distinct(Append(q, b))
         /\ \A y : y \in Opened(Append(q, b)) <=> y \in Opened(q) \/ y = b
<1> DEFINE a == Append(q, b)
<1>1. /\ a \in Seq(D) /\ Len(a) = Len(q) + 1 /\ Len(q) \in Nat /\ a[Len(q) + 1] = b
      /\ \A i \in 1 .. Len(q) : a[i] = q[i]
  OBVIOUS
<1> HIDE DEF a
<1>2. \A i \in 1 .. Len(q) : q[i] # b
  BY DEF Opened
<1>3. Distinct(a)
  BY <1>1, <1>2 DEF Distinct
<1>4. ASSUME NEW y PROVE y \in Opened(a) <=> y \in Opened(q) \/ y = b
  <2>1. ASSUME y \in Opened(a) PROVE y \in Opened(q) \/ y = b
    <3>1. PICK i \in 1 .. Len(a) : y = a[i]
      BY <2>1 DEF Opened
    <3>2. CASE i = Len(q) + 1
      BY <1>1, <3>1, <3>2
    <3>3. CASE i # Len(q) + 1
      <4>1. i \in 1 .. Len(q)
        BY <1>1, <3>3
      <4> QED BY <1>1, <3>1, <4>1 DEF Opened
    <3> QED BY <3>2, <3>3
  <2>2. ASSUME y \in Opened(q) PROVE y \in Opened(a)
    <3>1. PICK i \in 1 .. Len(q) : y = q[i]
      BY <2>2 DEF Opened
    <3>2. i \in 1 .. Len(a) /\ y = a[i]
      BY <1>1, <3>1
    <3> QED BY <3>2 DEF Opened
  <2>3. ASSUME y = b PROVE y \in Opened(a)
    <3>1. Len(a) \in 1 .. Len(a) /\ y = a[Len(a)]
      BY <1>1, <2>3
    <3> QED BY <3>1 DEF Opened
  <2> QED BY <2>1, <2>2, <2>3
<1>. QED BY <1>1, <1>3, <1>4 DEF a

LEMMA Popped ==
  ASSUME NEW D, NEW q \in Seq(D), Distinct(q), q # <<>>
  PROVE  /\ SubSeq(q, 1, Len(q) - 1) \in Seq(D) /\ Len(SubSeq(q, 1, Len(q) - 1)) = Len(q) - 1
         /\ Distinct(SubSeq(q, 1, Len(q) - 1)) /\ q[Len(q)] \in D /\ q[Len(q)] \in Opened(q)
         /\ \A y : y \in Opened(SubSeq(q, 1, Len(q) - 1)) <=> y \in Opened(q) /\ y # q[Len(q)]
<1> DEFINE a == SubSeq(q, 1, Len(q) - 1)
           b == q[Len(q)]
<1>1. Len(q) \in Nat /\ Len(q) # 0
  OBVIOUS
<1>2. /\ a \in Seq(D) /\ Len(a) = Len(q) - 1
      /\ \A i \in 1 .. Len(q) - 1 : a[i] = q[i]
  <2>1. PICK i \in Int, j \in Int : i = 1 /\ j = Len(q) - 1
    BY <1>1
  <2>2. i \in 1 .. Len(q) + 1 /\ j \in i - 1 .. Len(q) /\ i - 1 = 0
    BY <1>1, <2>1
  <2>3. /\ SubSeq(q, i, j) \in Seq(D) /\ Len(SubSeq(q, i, j)) = j - i + 1
        /\ \A k \in 1 .. j - i + 1 : SubSeq(q, i, j)[k] = q[i + k - 1]
    BY <2>1, <2>2, <1>1, SubSeqProperties
  <2>4. j - i + 1 = Len(q) - 1 /\ \A k \in 1 .. Len(q) - 1 : i + k - 1 = k
    BY <1>1, <2>1
  <2> QED BY <2>1, <2>3, <2>4
<1>3. b \in D /\ Len(q) \in 1 .. Len(q)
  BY <1>1
<1> HIDE DEF a
<1>4. Distinct(a)
  BY <1>1, <1>2 DEF Distinct
<1>5. ASSUME NEW y PROVE y \in Opened(a) <=> y \in Opened(q) /\ y # b
  <2>1. ASSUME y \in Opened(a) PROVE y \in Opened(q) /\ y # b
    <3>1. PICK i \in 1 .. Len(a) : y = a[i]
      BY <2>1 DEF Opened
    <3>2. i \in 1 .. Len(q) /\ i # Len(q) /\ y = q[i]
      BY <1>1, <1>2, <3>1
    <3>3. y # b
      BY <1>3, <3>2 DEF Distinct
    <3> QED BY <3>2, <3>3 DEF Opened
  <2>2. ASSUME y \in Opened(q), y # b PROVE y \in Opened(a)
    <3>1. PICK i \in 1 .. Len(q) : y = q[i]
      BY <2>2 DEF Opened
    <3>2. i # Len(q)
      BY <2>2, <3>1
    <3>3. i \in 1 .. Len(a) /\ y = a[i]
      BY <1>1, <1>2, <3>1, <3>2
    <3> QED BY <3>3 DEF Opened
  <2> QED BY <2>1, <2>2
<1>6. b \in Opened(q)
  BY <1>3 DEF Opened
<1>. QED BY <1>2, <1>3, <1>4, <1>5, <1>6 DEF a

(* A deletion under way, and its two kinds of steps.                       *)
Work(m, o, b, q) == [r |-> At(m, o), next |-> b, open |-> q]

LEMMA WorkOf ==
  ASSUME NEW m, NEW o, NEW b, NEW q
  PROVE  /\ Work(m, o, b, q).r = At(m, o) /\ Work(m, o, b, q).next = b
         /\ Work(m, o, b, q).open = q
BY DEF Work

LEMMA SetsPtr ==
  ASSUME NEW m, NEW o, NEW p, NEW b
  PROVE  /\ U!SetPtr(At(m, o), p, b) = At(m, Changed(o, p, b))
         /\ U!Superseded(At(m, o), p, b) = [r |-> At(m, Changed(o, p, b)), next |-> o[p]]
         /\ U!Release(At(m, o), p) = At(m, Changed(o, p, Null))
BY DEF U!SetPtr, U!Superseded, U!Release, At, Changed

LEMMA EntersAs ==
  ASSUME NEW m, NEW o, NEW b, NEW q, ~DestroyIn(m, b).fault
  PROVE  U!Entered(Work(m, o, b, q)) = Work(DestroyIn(m, b), Changed(o, b, Null), o[b], Append(q, b))
<1> DEFINE d == DestroyIn(m, b)
           dying == [At(m, o) EXCEPT !.m = U!DestroyIn(@, b)]
<1>1. U!DestroyIn(m, b) = d
  BY UniquePtrHolder
<1>2. dying = At(d, o) /\ dying.m = d
  BY <1>1 DEF At
<1>3. U!Superseded(dying, b, Null) = [r |-> At(d, Changed(o, b, Null)), next |-> o[b]]
  BY <1>2, SetsPtr
<1> HIDE DEF d
<1>4. Work(m, o, b, q).r = At(m, o) /\ Work(m, o, b, q).next = b /\ Work(m, o, b, q).open = q
  BY WorkOf
<1>5. ~dying.m.fault
  BY <1>2 DEF d
<1> DEFINE reset == [r |-> At(d, Changed(o, b, Null)), next |-> o[b]]
<1>6. reset.r = At(d, Changed(o, b, Null)) /\ reset.next = o[b]
  OBVIOUS
<1>7. (IF dying.m.fault THEN [r |-> dying, next |-> Null]
       ELSE U!Superseded(dying, b, Null)) = reset
  BY <1>3, <1>5
<1> HIDE DEF reset
<1>8. U!Entered(Work(m, o, b, q)) = [r |-> reset.r, next |-> reset.next, open |-> Append(q, b)]
  BY <1>4, <1>7 DEF U!Entered
<1>. QED BY <1>6, <1>8 DEF Work, d

LEMMA ReturnsAs ==
  ASSUME NEW m, NEW o, NEW b, NEW q, NEW c, c = q[Len(q)]
  PROVE  U!Returned(Work(m, o, b, q))
           = Work(Deallocate(m, c, 1), Changed(o, c, Gone), Null, SubSeq(q, 1, Len(q) - 1))
<1> DEFINE d == Deallocate(m, c, 1)
           freed == [At(m, o) EXCEPT !.m = U!Deallocate(@, c, 1)]
           x == At(d, Changed(o, c, Gone))
<1>1. U!Deallocate(m, c, 1) = d
  BY UniquePtrCells
<1>2. freed = At(d, o)
  BY <1>1 DEF At
<1>3. U!SetPtr(freed, c, Gone) = x
  BY <1>2, SetsPtr
<1>4. Work(m, o, b, q).r = At(m, o) /\ Work(m, o, b, q).next = b /\ Work(m, o, b, q).open = q
  BY WorkOf
<1> HIDE DEF x, d
<1>5. U!Returned(Work(m, o, b, q)) = [r |-> x, next |-> Null, open |-> SubSeq(q, 1, Len(q) - 1)]
  BY <1>3, <1>4 DEF U!Returned
<1>. QED BY <1>5 DEF Work, x, d

LEMMA JustNode ==
  ASSUME ToldApart, NEW b \in Nodes \cup {Null}
  PROVE  /\ \A y : y \in JustNodes(b) <=> y = b /\ y \in Nodes
         /\ Null \notin Nodes /\ Gone \notin Nodes /\ Null # Gone /\ Nodes \subseteq Blocks
<1>1. Null \notin Nodes /\ Gone \notin Nodes /\ Null # Gone /\ Nodes \subseteq Blocks
  BY SlotsAndNodes, CellAssumption DEF ToldApart
<1>. QED BY <1>1 DEF JustNodes

(* Halfway through a deletion that began with m0 and o0: b has no owner    *)
(* any more, and the objects of q are over and own nothing. Neither the    *)
(* slots nor the objects that live on have changed.                        *)
Remains(m, o, q, m0, o0) ==
  /\ \A v \in Slots : o[v] = o0[v]
  /\ \A n \in Nodes : o[n] # Gone /\ n \notin Opened(q) => m.cells[n] = m0.cells[n]

Undone(m, o, b, q, m0, o0) ==
  /\ b \in Nodes \cup {Null} /\ q \in Seq(Nodes) /\ Distinct(q) /\ b \notin Opened(q)
  /\ Owning(o, Opened(q) \cup JustNodes(b))
  /\ Stocked(m, o, Opened(q))
  /\ \A c \in Opened(q) : o[c] = Null
  /\ Remains(m, o, q, m0, o0)

(* The objects that no call has been made for.                             *)
Lives(o, q) == {n \in Nodes : o[n] # Gone /\ n \notin Opened(q)}

LEMMA UndoneEnters ==
  ASSUME ToldApart, NEW m, NEW o, NEW b, NEW q, NEW m0, NEW o0,
         Undone(m, o, b, q, m0, o0), b # Null
  PROVE  /\ ~DestroyIn(m, b).fault
         /\ Undone(DestroyIn(m, b), Changed(o, b, Null), o[b], Append(q, b), m0, o0)
         /\ Lives(Changed(o, b, Null), Append(q, b)) = Lives(o, q) \ {b} /\ b \in Lives(o, q)
<1> DEFINE S == Opened(q) \cup JustNodes(b)
           c == Changed(o, b, Null)
           a == Append(q, b)
<1>1. /\ b \in Nodes /\ b \in Blocks /\ q \in Seq(Nodes) /\ Distinct(q) /\ b \notin Opened(q)
      /\ Owning(o, S) /\ Stocked(m, o, Opened(q)) /\ Remains(m, o, q, m0, o0)
      /\ \A d \in Opened(q) : o[d] = Null
  BY SlotsAndNodes DEF Undone
<1>2. /\ \A y : y \in S <=> y \in Opened(q) \/ y = b
      /\ Null \notin Nodes /\ Gone \notin Nodes /\ Null # Gone /\ Nodes \subseteq Blocks
  BY <1>1, JustNode
<1>3. /\ a \in Seq(Nodes) /\ Distinct(a)
      /\ \A y : y \in Opened(a) <=> y \in Opened(q) \/ y = b
  BY <1>1, Pushed
<1>4. /\ o[b] # Gone /\ o \in Owners
      /\ o[b] \in Nodes => o[b] \notin S
      /\ \A n \in S : n \in Nodes /\ o[n] # Gone
  BY <1>1, <1>2 DEF Owning
<1>5. /\ c[b] = Null /\ \A d \in Blocks : d # b => c[d] = o[d]
      /\ o[b] \in Nodes \cup {Null}
      /\ \A y : y \in JustNodes(o[b]) <=> y = o[b] /\ y \in Nodes
  <2>1. /\ c[b] = Null /\ \A d \in Blocks : d # b => c[d] = o[d]
        /\ o[b] \in Nodes \cup {Null, Gone}
        /\ \A y : y \in JustNodes(o[b]) <=> y = o[b] /\ y \in Nodes
    BY <1>1, <1>4, OwnersAt
  <2> QED BY <1>4, <2>1
<1>6. Owning(c, Opened(a) \cup JustNodes(o[b]))
  <2>1. Owning(c, S \cup JustNodes(o[b]))
    BY <1>1, <1>4, Unlinked
  <2>2. S \cup JustNodes(o[b]) = Opened(a) \cup JustNodes(o[b])
    <3> HIDE DEF S
    <3> QED BY <1>2, <1>3
  <2> QED BY <2>1, <2>2
<1>7. o[b] \notin Opened(a)
  BY <1>2, <1>3, <1>4, <1>5
<1>8. \A d \in Opened(a) : c[d] = Null
  <2>1. \A d \in Opened(q) : d \in Blocks /\ d # b
    BY <1>1, <1>2, <1>4
  <2> QED BY <1>1, <1>3, <1>5, <2>1
<1>9. b \notin Slots
  BY <1>1, SlotsAndNodes
<1>10. PICK x \in Values : m.cells[b] = One(x) /\ m \in Memories /\ ~m.fault
  <2>1. Kept(m, o, Opened(q), b) /\ m \in Memories /\ ~m.fault
    BY <1>1 DEF Stocked
  <2> QED BY <1>1, <1>4, <1>9, <2>1 DEF Kept
<1> DEFINE n == With(m, b, One(Raw))
<1>11. DestroyIn(m, b) = n
  <2>1. x \in Cells \ {Raw}
    BY CellAssumption DEF Cells
  <2> QED BY <1>1, <1>10, <2>1, DestroysIn
<1>12. /\ n \in Memories /\ ~n.fault /\ n.cells[b] = One(Raw)
       /\ \A d \in Blocks : d # b => n.cells[d] = m.cells[d]
  <2>1. One(Raw) \in Seq(Cells)
    BY RawIsCell, OneCell
  <2> QED BY <1>1, <1>10, <2>1, WithCells
<1> HIDE DEF n, S, c, a
<1>13. Stocked(n, c, Opened(a))
  <2>1. Kept(n, c, Opened(a), b)
    BY <1>2, <1>3, <1>5, <1>12 DEF Kept
  <2>2. \A d \in Blocks : d # b => /\ n.cells[d] = m.cells[d]
                                   /\ c[d] = Gone <=> o[d] = Gone
                                   /\ d \in Opened(a) <=> d \in Opened(q)
    BY <1>3, <1>5, <1>12
  <2> QED BY <1>1, <1>12, <2>1, <2>2, StockedChanges
<1>14. Remains(n, c, a, m0, o0)
  <2>1. \A v \in Slots : c[v] = o0[v]
    BY <1>1, <1>5, <1>9, SlotsAndNodes DEF Remains
  <2>2. ASSUME NEW d \in Nodes, c[d] # Gone, d \notin Opened(a)
        PROVE  n.cells[d] = m0.cells[d]
    <3>1. d # b /\ d \in Blocks /\ d \notin Opened(q)
      BY <1>2, <1>3, <2>2
    <3> QED BY <1>1, <1>5, <1>12, <2>2, <3>1 DEF Remains
  <2> QED BY <2>1, <2>2 DEF Remains
<1>15. Lives(c, a) = Lives(o, q) \ {b} /\ b \in Lives(o, q)
  <2>1. \A d \in Nodes : d # b => c[d] = o[d]
    BY <1>2, <1>5
  <2> QED BY <1>1, <1>3, <1>4, <2>1 DEF Lives
<1>16. Undone(n, c, o[b], a, m0, o0)
  BY <1>3, <1>5, <1>6, <1>7, <1>8, <1>13, <1>14 DEF Undone
<1>. QED BY <1>11, <1>12, <1>15, <1>16 DEF c, a

LEMMA UndoneReturns ==
  ASSUME ToldApart, NEW m, NEW o, NEW q, NEW m0, NEW o0,
         Undone(m, o, Null, q, m0, o0), q # <<>>, NEW c, c = q[Len(q)]
  PROVE  /\ Undone(Deallocate(m, c, 1), Changed(o, c, Gone), Null, SubSeq(q, 1, Len(q) - 1),
                   m0, o0)
         /\ Lives(Changed(o, c, Gone), SubSeq(q, 1, Len(q) - 1)) = Lives(o, q)
<1> DEFINE S == Opened(q) \cup JustNodes(Null)
           u == Changed(o, c, Gone)
           a == SubSeq(q, 1, Len(q) - 1)
<1>1. /\ q \in Seq(Nodes) /\ Distinct(q)
      /\ Owning(o, S) /\ Stocked(m, o, Opened(q)) /\ Remains(m, o, q, m0, o0)
      /\ \A d \in Opened(q) : o[d] = Null
  BY DEF Undone
<1>2. /\ a \in Seq(Nodes) /\ Distinct(a) /\ c \in Nodes /\ c \in Opened(q)
      /\ \A y : y \in Opened(a) <=> y \in Opened(q) /\ y # c
  BY <1>1, Popped
<1>3. /\ \A y : y \in S <=> y \in Opened(q)
      /\ \A y : y \notin JustNodes(Null)
      /\ Null \notin Nodes /\ Gone \notin Nodes /\ Null # Gone /\ Nodes \subseteq Blocks
  <2>1. /\ \A y : y \in JustNodes(Null) <=> y = Null /\ y \in Nodes
        /\ Null \notin Nodes /\ Gone \notin Nodes /\ Null # Gone /\ Nodes \subseteq Blocks
    BY JustNode
  <2> QED BY <2>1
<1>4. c \in Blocks /\ o[c] = Null /\ o \in Owners /\ \A n \in S : n \in Nodes
  BY <1>1, <1>2, <1>3 DEF Owning
<1>5. u[c] = Gone /\ \A d \in Blocks : d # c => u[d] = o[d]
  BY <1>4, OwnersAt
<1>6. Owning(u, Opened(a) \cup JustNodes(Null))
  <2>1. Owning(u, S \ {c})
    BY <1>1, <1>2, <1>3, <1>4, Ended
  <2>2. S \ {c} = Opened(a) \cup JustNodes(Null)
    <3> HIDE DEF S
    <3> QED BY <1>2, <1>3
  <2> QED BY <2>1, <2>2
<1>7. Null \notin Opened(a)
  BY <1>2, <1>3, <1>4
<1>8. \A d \in Opened(a) : u[d] = Null
  BY <1>1, <1>2, <1>3, <1>4, <1>5
<1>9. c \notin Slots
  BY <1>2, SlotsAndNodes
<1>10. m.cells[c] = One(Raw) /\ m \in Memories /\ ~m.fault
  <2>1. Kept(m, o, Opened(q), c) /\ m \in Memories /\ ~m.fault
    BY <1>1, <1>4 DEF Stocked
  <2> QED BY <1>2, <1>3, <1>4, <2>1 DEF Kept
<1> DEFINE n == With(m, c, Nothing)
<1>11. Deallocate(m, c, 1) = n
  BY <1>4, <1>10, DeallocatesPlace
<1>12. /\ n \in Memories /\ ~n.fault /\ n.cells[c] = Nothing
       /\ \A d \in Blocks : d # c => n.cells[d] = m.cells[d]
  <2>1. Nothing \in Seq(Cells)
    BY NoCell
  <2> QED BY <1>4, <1>10, <2>1, WithCells
<1> HIDE DEF n, S, u, a
<1>13. Stocked(n, u, Opened(a))
  <2>1. Kept(n, u, Opened(a), c)
    BY <1>5, <1>12 DEF Kept
  <2>2. \A d \in Blocks : d # c => /\ n.cells[d] = m.cells[d]
                                   /\ u[d] = Gone <=> o[d] = Gone
                                   /\ d \in Opened(a) <=> d \in Opened(q)
    BY <1>2, <1>5, <1>12
  <2> QED BY <1>1, <1>12, <2>1, <2>2, StockedChanges
<1>14. Remains(n, u, a, m0, o0)
  <2>1. \A v \in Slots : u[v] = o0[v]
    BY <1>1, <1>5, <1>9, SlotsAndNodes DEF Remains
  <2>2. ASSUME NEW d \in Nodes, u[d] # Gone, d \notin Opened(a)
        PROVE  n.cells[d] = m0.cells[d]
    <3>1. d # c /\ d \in Blocks /\ d \notin Opened(q)
      BY <1>2, <1>3, <1>5, <2>2
    <3> QED BY <1>1, <1>5, <1>12, <2>2, <3>1 DEF Remains
  <2> QED BY <2>1, <2>2 DEF Remains
<1>15. Lives(u, a) = Lives(o, q)
  <2>1. \A d \in Nodes : d # c => u[d] = o[d]
    BY <1>3, <1>5
  <2> QED BY <1>2, <1>5, <2>1 DEF Lives
<1>16. Undone(n, u, Null, a, m0, o0)
  BY <1>2, <1>6, <1>7, <1>8, <1>13, <1>14 DEF Undone
<1>. QED BY <1>11, <1>15, <1>16 DEF u, a

(* f holds what base becomes in N steps on D.                              *)
IsRun(f, step, N, D, base) ==
  f \in [0 .. N -> D] /\ f[0] = base /\ \A i \in 1 .. N : f[i] = step[f[i - 1]]

LEMMA Iterates ==
  ASSUME NEW N \in Nat, NEW D, NEW base \in D, NEW step \in [D -> D]
  PROVE  \E f : IsRun(f, step, N, D, base)
<1> DEFINE T == {k \in 0 .. N : \E f : IsRun(f, step, k, D, base)}
<1>1. 0 \in T
  <2> DEFINE g == [i \in 0 .. 0 |-> base]
  <2>1. IsRun(g, step, 0, D, base)
    BY DEF IsRun
  <2> HIDE DEF g
  <2> QED BY <2>1
<1>2. ASSUME NEW k \in 1 .. N, k - 1 \in T PROVE k \in T
  <2>1. PICK f : IsRun(f, step, k - 1, D, base)
    BY <1>2
  <2> DEFINE g == [i \in 0 .. k |-> IF i = k THEN step[f[k - 1]] ELSE f[i]]
  <2>2. f[k - 1] \in D
    BY <2>1 DEF IsRun
  <2>3. g \in [0 .. k -> D]
    BY <2>1, <2>2 DEF IsRun
  <2>4. g[0] = base
    BY <2>1 DEF IsRun
  <2>5. ASSUME NEW i \in 1 .. k PROVE g[i] = step[g[i - 1]]
    <3>1. CASE i = k
      BY <3>1
    <3>2. CASE i # k
      <4>1. i \in 1 .. k - 1 /\ i - 1 \in 0 .. k /\ i - 1 # k
        BY <3>2
      <4> QED BY <2>1, <3>2, <4>1 DEF IsRun
    <3> QED BY <3>1, <3>2
  <2> HIDE DEF g
  <2>6. IsRun(g, step, k, D, base)
    BY <2>3, <2>4, <2>5 DEF IsRun
  <2> QED BY <2>6
<1> HIDE DEF T
<1>3. \A k \in 0 .. N : k \in T
  BY <1>1, <1>2, Induction
<1>. QED BY <1>3 DEF T

(* What is left to do: a call for each object that lives, which is entered *)
(* and left, and the calls that are open.                                  *)
IsUndone(w, m0, o0) ==
  \E m, o, b, q : w = Work(m, o, b, q) /\ Undone(m, o, b, q, m0, o0)
Over(w) == w.next = Null /\ w.open = <<>>
Left(w) == 2 * Cardinality(Lives(w.r.o, w.open)) + Len(w.open)

LEMMA LivesFinite ==
  ASSUME NEW o, NEW q
  PROVE  /\ IsFiniteSet(Lives(o, q)) /\ Cardinality(Lives(o, q)) \in Nat
         /\ Cardinality(Lives(o, q)) <= Cardinality(Nodes) /\ Cardinality(Nodes) \in Nat
<1>1. IsFiniteSet(Nodes) /\ Lives(o, q) \subseteq Nodes
  BY HolderAssumption DEF Lives
<1>2. IsFiniteSet(Lives(o, q)) /\ Cardinality(Lives(o, q)) <= Cardinality(Nodes)
  BY <1>1, FS_Subset
<1>. QED BY <1>1, <1>2, FS_CardinalityType

LEMMA DeletingStep ==
  ASSUME ToldApart, NEW m0, NEW o0, NEW w, IsUndone(w, m0, o0)
  PROVE  /\ IsUndone(U!Deleting(w), m0, o0)
         /\ Left(w) \in Nat /\ Left(U!Deleting(w)) \in Nat
         /\ Over(w) => U!Deleting(w) = w
         /\ ~Over(w) => Left(U!Deleting(w)) + 1 = Left(w)
<1>1. PICK m, o, b, q : w = Work(m, o, b, q) /\ Undone(m, o, b, q, m0, o0)
  BY DEF IsUndone
<1>2. w.r = At(m, o) /\ w.next = b /\ w.open = q
  BY <1>1, WorkOf
<1>3. w.r.o = o
  BY <1>2, StateOf
<1>4. q \in Seq(Nodes) /\ Len(q) \in Nat
  BY <1>1 DEF Undone
<1>5. Left(w) = 2 * Cardinality(Lives(o, q)) + Len(q)
  BY <1>2, <1>3 DEF Left
<1>6. IsFiniteSet(Lives(o, q)) /\ Cardinality(Lives(o, q)) \in Nat
  BY LivesFinite
<1>7. CASE b # Null
  <2> DEFINE n == DestroyIn(m, b)
             u == Changed(o, b, Null)
             a == Append(q, b)
  <2>1. /\ ~n.fault /\ Undone(n, u, o[b], a, m0, o0)
        /\ Lives(u, a) = Lives(o, q) \ {b} /\ b \in Lives(o, q)
    BY <1>1, <1>7, UndoneEnters
  <2>2. U!Deleting(w) = Work(n, u, o[b], a)
    BY <1>1, <1>2, <1>7, <2>1, EntersAs DEF U!Deleting
  <2>3. Len(a) = Len(q) + 1
    BY <1>4
  <2>4. Cardinality(Lives(u, a)) = Cardinality(Lives(o, q)) - 1
    BY <1>6, <2>1, FS_RemoveElement
  <2> HIDE DEF n, u, a
  <2>5. U!Deleting(w).r = At(n, u) /\ U!Deleting(w).open = a
    BY <2>2, WorkOf
  <2>6. U!Deleting(w).r.o = u
    BY <2>5, StateOf
  <2>7. Left(U!Deleting(w)) = 2 * Cardinality(Lives(u, a)) + Len(a)
    BY <2>5, <2>6 DEF Left
  <2>8. Cardinality(Lives(u, a)) \in Nat
    BY LivesFinite
  <2>9. IsUndone(U!Deleting(w), m0, o0)
    BY <2>1, <2>2 DEF IsUndone
  <2>10. ~Over(w)
    BY <1>2, <1>7 DEF Over
  <2>11. Left(U!Deleting(w)) = 2 * (Cardinality(Lives(o, q)) - 1) + Len(q) + 1
    BY <1>4, <1>6, <2>3, <2>4, <2>7
  <2>12. /\ Left(w) \in Nat /\ Left(U!Deleting(w)) \in Nat
         /\ Left(U!Deleting(w)) + 1 = Left(w)
    <3>1. Len(a) \in Nat
      BY <1>4, <2>3
    <3> QED BY <1>4, <1>5, <1>6, <2>7, <2>8, <2>11, <3>1
  <2> QED BY <2>9, <2>10, <2>12
<1>8. CASE b = Null /\ q # <<>>
  <2> DEFINE c == q[Len(q)]
             n == Deallocate(m, c, 1)
             u == Changed(o, c, Gone)
             a == SubSeq(q, 1, Len(q) - 1)
  <2>1. /\ Undone(n, u, Null, a, m0, o0)
        /\ Lives(u, a) = Lives(o, q)
    BY <1>1, <1>8, UndoneReturns
  <2>2. U!Deleting(w) = Work(n, u, Null, a)
    BY <1>1, <1>2, <1>8, ReturnsAs DEF U!Deleting
  <2>3. Len(a) = Len(q) - 1 /\ Len(a) \in Nat
    BY <1>1, <1>4, <1>8, Popped DEF Undone
  <2> HIDE DEF n, u, a, c
  <2>5. U!Deleting(w).r = At(n, u) /\ U!Deleting(w).open = a
    BY <2>2, WorkOf
  <2>6. U!Deleting(w).r.o = u
    BY <2>5, StateOf
  <2>7. Left(U!Deleting(w)) = 2 * Cardinality(Lives(u, a)) + Len(a)
    BY <2>5, <2>6 DEF Left
  <2>9. IsUndone(U!Deleting(w), m0, o0)
    BY <2>1, <2>2 DEF IsUndone
  <2>10. ~Over(w)
    BY <1>2, <1>8 DEF Over
  <2> QED BY <1>4, <1>5, <1>6, <2>1, <2>3, <2>7, <2>9, <2>10
<1>9. CASE b = Null /\ q = <<>>
  <2>1. U!Deleting(w) = w /\ Over(w)
    BY <1>2, <1>9 DEF U!Deleting, Over
  <2> QED BY <1>4, <1>5, <1>6, <2>1
<1>. QED BY <1>7, <1>8, <1>9

LEMMA CallsEnough ==
  U!MaxCalls = 2 * (Cardinality(Nodes) + 1)
BY DEF U!MaxCalls, U!Cardinality, Cardinality, U!IsFiniteSet, IsFiniteSet

Works == [r : [m : Memories, o : Owners], next : Nodes \cup {Null}, open : Seq(Nodes)]

LEMMA UndoneIsWork ==
  ASSUME NEW w, NEW m0, NEW o0, IsUndone(w, m0, o0)
  PROVE  w \in Works
<1>1. PICK m, o, b, q : w = Work(m, o, b, q) /\ Undone(m, o, b, q, m0, o0)
  BY DEF IsUndone
<1>2. m \in Memories /\ o \in Owners /\ b \in Nodes \cup {Null} /\ q \in Seq(Nodes)
  BY <1>1 DEF Undone, Owning, Stocked
<1>3. At(m, o) \in [m : Memories, o : Owners]
  BY <1>2 DEF At
<1>. QED BY <1>1, <1>2, <1>3 DEF Work, Works

(* The run that DeleteObject is defined by, as long as it is needed.       *)
IsDeletion(f, N, D, w0) ==
  f \in [0 .. N -> D] /\ f[0] = w0 /\ \A i \in 1 .. N : f[i] = U!Deleting(f[i - 1])

LEMMA DeletionRun ==
  ASSUME NEW N \in Nat, N = U!MaxCalls, NEW D, NEW m, NEW o, NEW b,
         Work(m, o, b, <<>>) \in D, \A w \in D : U!Deleting(w) \in D
  PROVE  \E f : /\ IsDeletion(f, N, D, Work(m, o, b, <<>>))
               /\ U!DeleteObject(At(m, o), b) = f[N].r
<1> DEFINE w0     == Work(m, o, b, <<>>)
           step   == [w \in D |-> U!Deleting(w)]
           Runs(run) == [i \in 0 .. N |-> IF i = 0 THEN w0 ELSE U!Deleting(run[i - 1])]
           run    == CHOOSE run : run = Runs(run)
<1>1. step \in [D -> D] /\ \A w \in D : step[w] = U!Deleting(w)
  OBVIOUS
<1>2. U!DeleteObject(At(m, o), b) = run[N].r
  BY DEF U!DeleteObject, Work
<1>3. w0 \in D
  OBVIOUS
<1> HIDE DEF step, w0
<1>4. PICK f : IsRun(f, step, N, D, w0)
  BY <1>1, <1>3, Iterates
<1>5. f \in [0 .. N -> D] /\ f[0] = w0 /\ \A i \in 1 .. N : f[i] = step[f[i - 1]]
  BY <1>4 DEF IsRun
<1>6. ASSUME NEW i \in 1 .. N PROVE f[i] = U!Deleting(f[i - 1])
  <2>1. f[i - 1] \in D
    BY <1>5
  <2> QED BY <1>1, <1>5, <2>1
<1>7. f = Runs(f)
  <2>1. ASSUME NEW i \in 0 .. N PROVE f[i] = IF i = 0 THEN w0 ELSE U!Deleting(f[i - 1])
    <3>1. CASE i = 0
      BY <1>5, <3>1
    <3>2. CASE i # 0
      BY <1>6, <3>2
    <3> QED BY <3>1, <3>2
  <2>2. f = [i \in 0 .. N |-> f[i]]
    BY <1>5
  <2> QED BY <2>1, <2>2
<1>8. run = Runs(run)
  BY <1>7
<1> HIDE DEF run
<1> DEFINE T == {i \in 0 .. N : run[i] = f[i]}
<1>9. 0 \in T
  BY <1>5, <1>8
<1>10. ASSUME NEW i \in 1 .. N, i - 1 \in T PROVE i \in T
  <2>1. run[i] = U!Deleting(run[i - 1])
    BY <1>8
  <2> QED BY <1>6, <1>10, <2>1
<1> HIDE DEF T
<1>11. \A i \in 0 .. N : i \in T
  BY <1>9, <1>10, Induction
<1>12. run[N] = f[N]
  BY <1>11 DEF T
<1>. QED BY <1>2, <1>5, <1>6, <1>12 DEF w0, IsDeletion

(* What is left when the deletion of b, which nobody owns, is over.        *)
Deleted(m, o, m0, o0) ==
  /\ Owning(o, {}) /\ Stocked(m, o, {})
  /\ \A v \in Slots : o[v] = o0[v]
  /\ \A n \in Nodes : o[n] # Gone => m.cells[n] = m0.cells[n]

(* Whoever owns whom, cycles included: the deletion of an object that      *)
(* nobody owns any more comes to an end, after at most a call for each     *)
(* object and its return. What lives then has its one owner again and the  *)
(* value it had, no variable has lost what it owns, and no block that was  *)
(* entered is left: each object was destroyed and freed once.              *)
THEOREM DeletesObject ==
  ASSUME ToldApart, NEW m0, NEW o0, NEW b \in Nodes, Owning(o0, {b}), Stocked(m0, o0, {})
  PROVE  \E m, o : U!DeleteObject(At(m0, o0), b) = At(m, o) /\ Deleted(m, o, m0, o0)
<1> DEFINE w0 == Work(m0, o0, b, <<>>)
           D  == {w \in Works : IsUndone(w, m0, o0)}
           N  == U!MaxCalls
<1>1. N \in Nat /\ N = 2 * Cardinality(Nodes) + 2 /\ Cardinality(Nodes) \in Nat
  <2>1. IsFiniteSet(Nodes)
    BY HolderAssumption
  <2> QED BY <2>1, FS_CardinalityType, CallsEnough
<1>2. \A w : w \in D <=> IsUndone(w, m0, o0)
  BY UndoneIsWork
<1>3. Undone(m0, o0, b, <<>>, m0, o0)
  <2>1. \A y : y \notin Opened(<<>>)
    BY DEF Opened
  <2>2. <<>> \in Seq(Nodes) /\ Distinct(<<>>)
    BY DEF Distinct
  <2>3. \A y : y \in JustNodes(b) <=> y = b
    BY JustNode
  <2>4. Opened(<<>>) \cup JustNodes(b) = {b} /\ Opened(<<>>) = {}
    BY <2>1, <2>3
  <2> QED BY <2>2, <2>4 DEF Undone, Remains
<1>4. w0 \in D
  BY <1>2, <1>3 DEF IsUndone
<1>5. \A w \in D : U!Deleting(w) \in D
  BY <1>2, DeletingStep
<1>6. Left(w0) <= 2 * Cardinality(Nodes)
  <2>1. w0.r = At(m0, o0) /\ w0.open = <<>>
    BY WorkOf
  <2>2. w0.r.o = o0
    BY <2>1, StateOf
  <2>3. Left(w0) = 2 * Cardinality(Lives(o0, <<>>))
    BY <2>1, <2>2, LivesFinite DEF Left
  <2> QED BY <2>3, LivesFinite
<1> HIDE DEF D, N
<1>7. PICK f :
        /\ f \in [0 .. N -> D] /\ f[0] = w0
        /\ \A i \in 1 .. N : f[i] = U!Deleting(f[i - 1])
        /\ U!DeleteObject(At(m0, o0), b) = f[N].r
  <2>1. N \in Nat /\ N = U!MaxCalls
    BY <1>1 DEF N
  <2>2. \E f : /\ IsDeletion(f, N, D, Work(m0, o0, b, <<>>))
               /\ U!DeleteObject(At(m0, o0), b) = f[N].r
    BY <2>1, <1>4, <1>5, DeletionRun
  <2> QED BY <2>2 DEF IsDeletion
<1> HIDE DEF w0
<1> DEFINE T == {i \in 0 .. N : Over(f[i]) \/ Left(f[i]) + i <= 2 * Cardinality(Nodes)}
<1>8. 0 \in T
  <2>1. Left(w0) \in Nat
    BY <1>2, <1>4, DeletingStep
  <2> QED BY <1>1, <1>6, <1>7, <2>1
<1>9. ASSUME NEW i \in 1 .. N, i - 1 \in T PROVE i \in T
  <2> DEFINE w == f[i - 1]
  <2>1. IsUndone(w, m0, o0) /\ f[i] = U!Deleting(w)
    <3>1. i - 1 \in 0 .. N
      BY <1>1
    <3>2. f[i - 1] \in D /\ f[i] = U!Deleting(f[i - 1])
      BY <1>7, <3>1
    <3> QED BY <1>2, <3>2
  <2>2. Over(w) \/ Left(w) + (i - 1) <= 2 * Cardinality(Nodes)
    BY <1>9
  <2> HIDE DEF w
  <2>3. /\ Left(w) \in Nat /\ Left(U!Deleting(w)) \in Nat
        /\ Over(w) => U!Deleting(w) = w
        /\ ~Over(w) => Left(U!Deleting(w)) + 1 = Left(w)
    BY <2>1, DeletingStep
  <2> QED BY <1>1, <2>1, <2>2, <2>3
<1> HIDE DEF T
<1>10. \A i \in 0 .. N : i \in T
  BY <1>1, <1>8, <1>9, Induction
<1>11. Over(f[N]) /\ IsUndone(f[N], m0, o0)
  <2>1. f[N] \in D
    BY <1>1, <1>7
  <2>2. IsUndone(f[N], m0, o0)
    BY <1>2, <2>1
  <2>3. Left(f[N]) \in Nat
    BY <2>2, DeletingStep
  <2>4. Over(f[N]) \/ Left(f[N]) + N <= 2 * Cardinality(Nodes)
    BY <1>1, <1>10 DEF T
  <2> QED BY <1>1, <2>2, <2>3, <2>4
<1>12. PICK m, o, c, q : f[N] = Work(m, o, c, q) /\ Undone(m, o, c, q, m0, o0)
  BY <1>11 DEF IsUndone
<1>13. f[N].r = At(m, o) /\ c = Null /\ q = <<>>
  BY <1>11, <1>12, WorkOf DEF Over
<1>14. Deleted(m, o, m0, o0)
  <2>1. \A y : y \notin Opened(q)
    BY <1>13 DEF Opened
  <2>2. \A y : y \notin JustNodes(c)
    BY <1>13, JustNode
  <2>3. Opened(q) \cup JustNodes(c) = {} /\ Opened(q) = {}
    BY <2>1, <2>2
  <2> QED BY <1>12, <2>1, <2>3 DEF Undone, Remains, Deleted
<1>. QED BY <1>7, <1>13, <1>14

-----------------------------------------------------------------------------
(* What a unique_ptr shows, and pictures while nobody owns the nodes S.    *)
Valued(m, b, x) ==
  \/ b = Null /\ x = Null
  \/ b \in Nodes /\ x \in Values /\ m.cells[b] = One(x)

Points(m, o, p, x) ==
  \/ o[p] = Gone /\ x = Gone
  \/ o[p] # Gone /\ Valued(m, o[p], x)

HoldsApart(r, s, S) ==
  /\ r = At(r.m, r.o)
  /\ Owning(r.o, S) /\ Stocked(r.m, r.o, {})
  /\ s \in Pictures /\ \A v \in Slots : Points(r.m, r.o, v, s[v])

HoldsUnique(r, s) == HoldsApart(r, s, {})

(* A place, which may be a slot, shows x from now on.                      *)
Sets(s, t, p, x) ==
  t \in Pictures /\ (p \in Slots => t[p] = x) /\ \A w \in Slots : w # p => t[w] = s[w]

LEMMA Repicture ==
  ASSUME NEW s \in Pictures, NEW p, NEW x \in Values \cup {Moved, Null, Gone}
  PROVE  \E t : Sets(s, t, p, x)
<1>1. CASE p \in Slots
  <2>1. Becomes(s, Changed(s, p, x), p, x)
    BY <1>1, BecomesChanged
  <2> QED BY <2>1 DEF Becomes, Sets
<1>2. CASE p \notin Slots
  BY <1>2 DEF Sets
<1>. QED BY <1>1, <1>2

(* No slot but p notices.                                                  *)
Unnoticed(m, o, n, u, p) ==
  \A v \in Slots : v # p => u[v] = o[v] /\ (o[v] \in Nodes => n.cells[o[v]] = m.cells[o[v]])

LEMMA ApartStep ==
  ASSUME NEW m, NEW o, NEW s, NEW S, HoldsApart(At(m, o), s, S), NEW n, NEW u, NEW T, NEW p, NEW x,
         NEW t, Sets(s, t, p, x), Owning(u, T), Stocked(n, u, {}),
         p \in Slots => Points(n, u, p, x),
         Unnoticed(m, o, n, u, p)
  PROVE  HoldsApart(At(n, u), t, T)
<1>1. At(m, o).m = m /\ At(m, o).o = o /\ At(n, u).m = n /\ At(n, u).o = u
  BY StateOf
<1>2. ASSUME NEW v \in Slots PROVE Points(n, u, v, t[v])
  <2>1. CASE v = p
    BY <2>1 DEF Sets
  <2>2. CASE v # p
    <3>1. Points(m, o, v, s[v]) /\ t[v] = s[v]
      BY <1>1, <2>2 DEF HoldsApart, Sets
    <3> QED BY <2>2, <3>1 DEF Points, Valued, Unnoticed
  <2> QED BY <2>1, <2>2
<1>3. At(n, u) = At(At(n, u).m, At(n, u).o)
  BY <1>1
<1>4. t \in Pictures
  BY DEF Sets
<1>. QED BY <1>1, <1>2, <1>3, <1>4 DEF HoldsApart

LEMMA ApartParts ==
  ASSUME NEW m, NEW o, NEW s, NEW S, HoldsApart(At(m, o), s, S)
  PROVE  /\ Owning(o, S) /\ Stocked(m, o, {}) /\ s \in Pictures /\ o \in Owners
         /\ m \in Memories /\ ~m.fault
         /\ \A v \in Slots : Points(m, o, v, s[v])
<1>1. At(m, o).m = m /\ At(m, o).o = o
  BY StateOf
<1>2. /\ Owning(o, S) /\ Stocked(m, o, {}) /\ s \in Pictures
      /\ \A v \in Slots : Points(m, o, v, s[v])
  BY <1>1 DEF HoldsApart
<1>. QED BY <1>2 DEF Owning, Stocked

(* p gives its node away, and p takes one.                                 *)
LEMMA ApartGives ==
  ASSUME ToldApart, NEW m, NEW o, NEW s, NEW S, HoldsApart(At(m, o), s, S),
         NEW p \in Blocks, o[p] # Gone
  PROVE  \E t : /\ HoldsApart(At(m, Changed(o, p, Null)), t, S \cup JustNodes(o[p]))
                /\ Sets(s, t, p, Null)
<1>1. Owning(o, S) /\ Stocked(m, o, {}) /\ s \in Pictures /\ o \in Owners
  BY ApartParts
<1> DEFINE u == Changed(o, p, Null)
<1>2. /\ u[p] = Null /\ Null # Gone /\ \A q \in Blocks : q # p => u[q] = o[q]
      /\ \A v \in Slots : v \in Blocks
  BY <1>1, OwnersAt, SlotsAndNodes
<1>3. Owning(u, S \cup JustNodes(o[p]))
  BY <1>1, Unlinked
<1> HIDE DEF u
<1>4. PICK t : Sets(s, t, p, Null)
  BY <1>1, Repicture
<1>5. Stocked(m, u, {})
  <2>1. \A c \in Blocks : u[c] = Gone <=> o[c] = Gone
    BY <1>2
  <2> QED BY <1>1, <2>1, StockedStill
<1>6. Points(m, u, p, Null)
  BY <1>2 DEF Points, Valued
<1>7. HoldsApart(At(m, u), t, S \cup JustNodes(o[p]))
  <2>1. Unnoticed(m, o, m, u, p)
    BY <1>2 DEF Unnoticed
  <2> QED BY <1>3, <1>4, <1>5, <1>6, <2>1, ApartStep
<1>. QED BY <1>4, <1>7 DEF u

LEMMA ApartTakes ==
  ASSUME ToldApart, NEW m, NEW o, NEW s, NEW S, HoldsApart(At(m, o), s, S),
         NEW p \in Blocks, o[p] = Null, NEW b \in S \cup {Null}, NEW x, Valued(m, b, x)
  PROVE  \E t : HoldsApart(At(m, Changed(o, p, b)), t, S \ {b}) /\ Sets(s, t, p, x)
<1>1. Owning(o, S) /\ Stocked(m, o, {}) /\ s \in Pictures /\ o \in Owners
  BY ApartParts
<1> DEFINE u == Changed(o, p, b)
<1>2. b \in Nodes \cup {Null}
  BY <1>1 DEF Owning
<1>3. /\ u[p] = b /\ Null # Gone /\ Gone \notin Nodes /\ \A q \in Blocks : q # p => u[q] = o[q]
      /\ \A v \in Slots : v \in Blocks
  <2>1. b \in Nodes \cup {Null, Gone}
    BY <1>2
  <2>2. /\ u[p] = b /\ Null # Gone /\ Gone \notin Nodes
        /\ \A q \in Blocks : q # p => u[q] = o[q]
    BY <1>1, <2>1, OwnersAt
  <2> QED BY <2>2, SlotsAndNodes
<1>4. Owning(u, S \ {b})
  BY <1>1, Linked
<1> HIDE DEF u
<1>5. PICK t : Sets(s, t, p, x)
  <2>1. x \in Values \cup {Moved, Null, Gone}
    BY DEF Valued
  <2> QED BY <1>1, <2>1, Repicture
<1>6. Stocked(m, u, {})
  <2>1. \A c \in Blocks : u[c] = Gone <=> o[c] = Gone
    BY <1>2, <1>3
  <2> QED BY <1>1, <2>1, StockedStill
<1>7. Points(m, u, p, x)
  BY <1>2, <1>3 DEF Points
<1>8. HoldsApart(At(m, u), t, S \ {b})
  <2>1. Unnoticed(m, o, m, u, p)
    BY <1>3 DEF Unnoticed
  <2> QED BY <1>4, <1>5, <1>6, <1>7, <2>1, ApartStep
<1>. QED BY <1>5, <1>8 DEF u

LEMMA ApartDeletes ==
  ASSUME ToldApart, NEW m, NEW o, NEW s, NEW d \in Nodes, HoldsApart(At(m, o), s, {d})
  PROVE  HoldsUnique(U!DeleteObject(At(m, o), d), s)
<1>1. Owning(o, {d}) /\ Stocked(m, o, {}) /\ s \in Pictures
  BY ApartParts
<1>2. PICK n, u : U!DeleteObject(At(m, o), d) = At(n, u) /\ Deleted(n, u, m, o)
  BY <1>1, DeletesObject
<1>3. /\ Owning(u, {}) /\ Stocked(n, u, {})
      /\ \A v \in Slots : u[v] = o[v]
      /\ \A c \in Nodes : u[c] # Gone => n.cells[c] = m.cells[c]
  BY <1>2 DEF Deleted
<1>4. \A v \in Slots : u[v] = o[v] /\ (o[v] \in Nodes => n.cells[o[v]] = m.cells[o[v]])
  <2>1. \A v \in Slots : u[v] \in Nodes => u[u[v]] # Gone
    BY <1>3, SlotsAndNodes DEF Owning
  <2> QED BY <1>3, <2>1
<1>5. d \notin Slots
  BY SlotsAndNodes
<1>6. Sets(s, s, d, Null)
  BY <1>1, <1>5 DEF Sets
<1>7. HoldsApart(At(n, u), s, {})
  <2>1. d \in Slots => Points(n, u, d, Null)
    BY <1>5
  <2>2. Unnoticed(m, o, n, u, d)
    BY <1>4 DEF Unnoticed
  <2> DEFINE S == {d}
             T == {}
  <2>3. /\ HoldsApart(At(m, o), s, S) /\ Owning(u, T)
        /\ Stocked(n, u, {}) /\ Sets(s, s, d, Null)
    BY <1>3, <1>6
  <2> HIDE DEF S, T
  <2>4. HoldsApart(At(n, u), s, T)
    BY ONLY <2>1, <2>2, <2>3, ApartStep
  <2> QED BY <2>4 DEF T
<1>. QED BY <1>2, <1>7 DEF HoldsUnique

LEMMA ChangedTwice ==
  ASSUME NEW o \in Owners, NEW p, NEW x, NEW y
  PROVE  Changed(Changed(o, p, x), p, y) = Changed(o, p, y)
BY DEF Changed, Owners

LEMMA SetsTwice ==
  ASSUME NEW s, NEW k, NEW t, NEW p, NEW x, NEW y, Sets(s, k, p, x), Sets(k, t, p, y)
  PROVE  Sets(s, t, p, y)
BY DEF Sets

(* reset: p takes b, which nobody owned, and what p owned is deleted.      *)
LEMMA UniqueReset ==
  ASSUME ToldApart, NEW m, NEW o, NEW s, NEW S, HoldsApart(At(m, o), s, S),
         NEW p \in Blocks, o[p] # Gone, NEW b \in S \cup {Null}, \A y \in S : y = b,
         NEW x, Valued(m, b, x)
  PROVE  \E t : HoldsUnique(U!ResetTo(At(m, o), p, b), t) /\ Sets(s, t, p, x)
<1>1. Owning(o, S) /\ o \in Owners
  BY ApartParts
<1> DEFINE c == Changed(o, p, Null)
           u == Changed(o, p, b)
           T == S \cup JustNodes(o[p])
<1>2. PICK k : HoldsApart(At(m, c), k, T) /\ Sets(s, k, p, Null)
  BY ApartGives
<1>3. c[p] = Null /\ u = Changed(c, p, b)
  <2>1. c[p] = Null
    BY <1>1, OwnersAt
  <2>2. u = Changed(c, p, b)
    BY <1>1, ChangedTwice
  <2> QED BY <2>1, <2>2
<1>4. o[p] \in Nodes \cup {Null} /\ (o[p] \in Nodes => o[p] \notin S)
  <2>1. o[p] \in Nodes \cup {Null, Gone}
    BY <1>1, OwnersAt
  <2> QED BY <1>1, <2>1 DEF Owning
<1>5. /\ \A y : y \in T \ {b} <=> y = o[p] /\ y \in Nodes
      /\ Null \notin Nodes
  <2>1. /\ \A y : y \in JustNodes(o[p]) <=> y = o[p] /\ y \in Nodes
        /\ Null \notin Nodes
    BY <1>4, JustNode
  <2> QED BY <1>4, <2>1
<1>6. PICK t : HoldsApart(At(m, u), t, T \ {b}) /\ Sets(k, t, p, x)
  <2>1. b \in T \cup {Null}
    OBVIOUS
  <2> HIDE DEF T, c, u
  <2> QED BY <1>2, <1>3, <2>1, ApartTakes
<1>7. Sets(s, t, p, x)
  BY <1>2, <1>6, SetsTwice
<1>8. U!Superseded(At(m, o), p, b).r = At(m, u) /\ U!Superseded(At(m, o), p, b).next = o[p]
  <2>1. U!Superseded(At(m, o), p, b) = [r |-> At(m, u), next |-> o[p]]
    BY SetsPtr
  <2> QED BY <2>1
<1> HIDE DEF T, u, c
<1>9. CASE o[p] = Null
  <2>1. T \ {b} = {}
    BY <1>5, <1>9
  <2>2. U!ResetTo(At(m, o), p, b) = At(m, u)
    BY <1>8, <1>9 DEF U!ResetTo
  <2> QED BY <1>6, <1>7, <2>1, <2>2 DEF HoldsUnique
<1>10. CASE o[p] \in Nodes
  <2>1. T \ {b} = {o[p]} /\ o[p] # Null
    BY <1>5, <1>10
  <2>2. U!ResetTo(At(m, o), p, b) = U!DeleteObject(At(m, u), o[p])
    BY <1>8, <2>1 DEF U!ResetTo
  <2>3. HoldsApart(At(m, u), t, {o[p]})
    BY <1>6, <2>1
  <2>4. HoldsUnique(U!DeleteObject(At(m, u), o[p]), t)
    BY <1>10, <2>3, ApartDeletes
  <2> QED BY <1>7, <2>2, <2>4
<1>. QED BY <1>4, <1>9, <1>10

(* A slot begins and ends.                                                 *)
LEMMA UniqueBorn ==
  ASSUME ToldApart, NEW m, NEW o, NEW s, HoldsUnique(At(m, o), s), NEW v \in Slots, o[v] = Gone
  PROVE  \E t : /\ HoldsUnique(At(Allocate(m, v, 1), Changed(o, v, Null)), t)
                /\ Sets(s, t, v, Null)
                /\ \A b, x : Valued(m, b, x) => Valued(Allocate(m, v, 1), b, x)
<1>1. /\ Owning(o, {}) /\ Stocked(m, o, {}) /\ s \in Pictures /\ o \in Owners
      /\ m \in Memories /\ ~m.fault /\ HoldsApart(At(m, o), s, {})
  BY ApartParts DEF HoldsUnique
<1> DEFINE u == Changed(o, v, Null)
           n == With(m, v, One(Raw))
<1>2. v \in Blocks /\ v \notin Nodes /\ Nodes \subseteq Blocks
  BY SlotsAndNodes
<1>3. u[v] = Null /\ Null # Gone /\ \A q \in Blocks : q # v => u[q] = o[q]
  BY <1>1, <1>2, OwnersAt
<1>4. Owning(u, {})
  <2>1. Owning(u, {} \cup ({v} \cap Nodes))
    BY <1>1, <1>2, Begun
  <2>2. {} \cup ({v} \cap Nodes) = {}
    BY <1>2
  <2> QED BY <2>1, <2>2
<1>5. Allocate(m, v, 1) = n
  BY <1>1, <1>2, AllocatesPlace
<1>6. /\ n \in Memories /\ ~n.fault /\ n.cells[v] = One(Raw)
      /\ \A d \in Blocks : d # v => n.cells[d] = m.cells[d]
  <2>1. One(Raw) \in Seq(Cells)
    BY RawIsCell, OneCell
  <2> QED BY <1>1, <1>2, <2>1, WithCells
<1> HIDE DEF u, n
<1>7. Stocked(n, u, {})
  <2>1. Kept(n, u, {}, v)
    BY <1>3, <1>6 DEF Kept
  <2>2. \A d \in Blocks : d # v => /\ n.cells[d] = m.cells[d]
                                   /\ u[d] = Gone <=> o[d] = Gone
                                   /\ d \in {} <=> d \in {}
    BY <1>3, <1>6
  <2> QED BY <1>1, <1>6, <2>1, <2>2, StockedChanges
<1>8. PICK t : Sets(s, t, v, Null)
  BY <1>1, Repicture
<1>9. Unnoticed(m, o, n, u, v) /\ Points(n, u, v, Null)
  <2>1. Points(n, u, v, Null)
    BY <1>3 DEF Points, Valued
  <2>2. Unnoticed(m, o, n, u, v)
    BY <1>2, <1>3, <1>6, SlotsAndNodes DEF Unnoticed
  <2> QED BY <2>1, <2>2
<1>10. HoldsApart(At(n, u), t, {})
  BY <1>1, <1>4, <1>7, <1>8, <1>9, ApartStep
<1>11. \A b, x : Valued(m, b, x) => Valued(n, b, x)
  BY <1>2, <1>6 DEF Valued
<1>. QED BY <1>5, <1>8, <1>10, <1>11 DEF HoldsUnique, u

LEMMA UniqueDead ==
  ASSUME ToldApart, NEW m, NEW o, NEW s, HoldsUnique(At(m, o), s), NEW v \in Slots, o[v] = Null
  PROVE  \E t : /\ HoldsUnique(At(Deallocate(m, v, 1), Changed(o, v, Gone)), t)
                /\ Sets(s, t, v, Gone)
<1>1. /\ Owning(o, {}) /\ Stocked(m, o, {}) /\ s \in Pictures /\ o \in Owners
      /\ m \in Memories /\ ~m.fault /\ HoldsApart(At(m, o), s, {})
  BY ApartParts DEF HoldsUnique
<1> DEFINE u == Changed(o, v, Gone)
           n == With(m, v, Nothing)
<1>2. v \in Blocks /\ v \notin Nodes /\ Nodes \subseteq Blocks
  BY SlotsAndNodes
<1>3. u[v] = Gone /\ Null # Gone /\ \A q \in Blocks : q # v => u[q] = o[q]
  BY <1>1, <1>2, OwnersAt
<1>4. Owning(u, {})
  <2>1. Owning(u, {} \ {v})
    BY <1>1, <1>2, Ended
  <2>2. {} \ {v} = {}
    OBVIOUS
  <2> QED BY <2>1, <2>2
<1>5. Deallocate(m, v, 1) = n
  <2>1. Kept(m, o, {}, v)
    BY <1>1, <1>2 DEF Stocked
  <2>2. m.cells[v] = One(Raw)
    BY <1>3, <2>1 DEF Kept
  <2> QED BY <1>1, <1>2, <2>2, DeallocatesPlace
<1>6. /\ n \in Memories /\ ~n.fault /\ n.cells[v] = Nothing
      /\ \A d \in Blocks : d # v => n.cells[d] = m.cells[d]
  <2>1. Nothing \in Seq(Cells)
    BY NoCell
  <2> QED BY <1>1, <1>2, <2>1, WithCells
<1> HIDE DEF u, n
<1>7. Stocked(n, u, {})
  <2>1. Kept(n, u, {}, v)
    BY <1>3, <1>6 DEF Kept
  <2>2. \A d \in Blocks : d # v => /\ n.cells[d] = m.cells[d]
                                   /\ u[d] = Gone <=> o[d] = Gone
                                   /\ d \in {} <=> d \in {}
    BY <1>3, <1>6
  <2> QED BY <1>1, <1>6, <2>1, <2>2, StockedChanges
<1>8. PICK t : Sets(s, t, v, Gone)
  BY <1>1, Repicture
<1>9. Unnoticed(m, o, n, u, v) /\ Points(n, u, v, Gone)
  <2>1. Points(n, u, v, Gone)
    BY <1>3 DEF Points
  <2>2. Unnoticed(m, o, n, u, v)
    BY <1>2, <1>3, <1>6, SlotsAndNodes DEF Unnoticed
  <2> QED BY <2>1, <2>2
<1>10. HoldsApart(At(n, u), t, {})
  BY <1>1, <1>4, <1>7, <1>8, <1>9, ApartStep
<1>. QED BY <1>5, <1>8, <1>10 DEF HoldsUnique, u

(* What the properties say of a variable of class unique_ptr.              *)
LEMMA UniqueValue ==
  ASSUME ToldApart, NEW m, NEW o, NEW s, HoldsUnique(At(m, o), s), NEW p \in Blocks, o[p] # Gone
  PROVE  /\ Valued(m, o[p], U!Shows(At(m, o), p))
         /\ p \in Slots => U!Shows(At(m, o), p) = s[p]
<1>1. /\ Owning(o, {}) /\ Stocked(m, o, {}) /\ o \in Owners /\ m \in Memories
      /\ \A v \in Slots : Points(m, o, v, s[v])
  BY ApartParts DEF HoldsUnique
<1>2. /\ o[p] \in Nodes \cup {Null} /\ Null \notin Nodes /\ Nodes \subseteq Blocks
      /\ Nodes \cap Slots = {}
  BY <1>1, OwnersAt, SlotsAndNodes
<1>3. At(m, o).m = m /\ At(m, o).o = o
  BY StateOf
<1>4. CASE o[p] = Null
  <2>1. U!Shows(At(m, o), p) = Null
    BY <1>3, <1>4 DEF U!Shows
  <2> QED BY <1>1, <1>2, <1>4, <2>1 DEF Valued, Points
<1>5. CASE o[p] \in Nodes
  <2> DEFINE d == o[p]
  <2>1. d \in Blocks /\ d \notin Slots /\ d \in Nodes
    BY <1>2, <1>5
  <2>2. o[d] # Gone
    BY <1>1, <1>5 DEF Owning
  <2>3. Kept(m, o, {}, d)
    BY <1>1, <2>1 DEF Stocked
  <2> HIDE DEF d
  <2>4. PICK x \in Values : m.cells[d] = One(x)
    BY <2>1, <2>2, <2>3 DEF Kept
  <2>5. Names(m, Value(d), x)
    BY <2>1, <2>4, CellAssumption DEF Names, Cells
  <2>6. Read(m, Value(d)) = x
    BY <1>1, <2>5, NamesReads DEF Reads
  <2>7. U!Shows(At(m, o), p) = x
    BY <1>2, <1>3, <1>5, <2>6, UniquePtrCells DEF U!Shows, d
  <2>8. Valued(m, o[p], x)
    BY <2>1, <2>4 DEF Valued, d
  <2>9. ASSUME p \in Slots PROVE x = s[p]
    <3>1. Points(m, o, p, s[p])
      BY <1>1, <2>9
    <3>2. Valued(m, d, s[p])
      BY <3>1 DEF Points, d
    <3>3. m.cells[d] = One(s[p])
      BY <1>2, <2>1, <3>2 DEF Valued
    <3> QED BY <2>4, <3>3, OneCell
  <2> QED BY <2>7, <2>8, <2>9
<1>. QED BY <1>2, <1>4, <1>5

LEMMA UniquePtrShows ==
  ASSUME ToldApart, NEW r, NEW s, HoldsUnique(r, s), NEW v \in Slots, r.o[v] # Gone
  PROVE  U!Shows(r, v) = s[v]
<1>1. r = At(r.m, r.o) /\ v \in Blocks
  BY SlotsAndNodes DEF HoldsUnique, HoldsApart
<1>2. HoldsUnique(At(r.m, r.o), s)
  BY <1>1
<1>3. U!Shows(At(r.m, r.o), v) = s[v]
  BY <1>1, <1>2, UniqueValue
<1>. QED BY <1>1, <1>3

LEMMA PointsGone ==
  ASSUME ToldApart, NEW m, NEW o, NEW p, NEW x, Points(m, o, p, x)
  PROVE  o[p] = Gone <=> x = Gone
BY DEF ToldApart, Points, Valued

-----------------------------------------------------------------------------
(* The calls of unique_ptr.                                                *)
UniqueAfter(s) ==
  \E t : HoldsUnique(At(mem', obj'), t) /\ Settled(t) /\ Outcome(s, t)

LEMMA UniqueEnded ==
  ASSUME NEW r, NEW t, HoldsUnique(r, t), NEW what, NEW x, NEW threw,
         U!Ends(r, what, x, threw)
  PROVE  HoldsUnique(At(mem', obj'), t) /\ Said(what, x, threw)
<1>1. mem' = r.m /\ obj' = r.o /\ Said(what, x, threw)
  BY DEF U!Ends, Said
<1>2. At(mem', obj') = r
  BY <1>1 DEF HoldsUnique, HoldsApart
<1>. QED BY <1>1, <1>2

LEMMA UniqueStart ==
  ASSUME ToldApart, NEW s, HoldsUnique(Now, s), Settled(s)
  PROVE  /\ U!Now = At(mem, obj) /\ Now = At(mem, obj)
         /\ HoldsUnique(At(mem, obj), s) /\ HoldsApart(At(mem, obj), s, {})
         /\ obj \in Owners /\ s \in Pictures /\ mem \in Memories
         /\ \A p \in Blocks : U!Alive(p) =>
              obj[p] # Gone /\ p # Temp /\ p # Spare /\ (p \in Slots <=> p \in Variables)
         /\ \A v \in Slots : obj[v] = Gone <=> s[v] = Gone
         /\ \A v : U!Unborn(v) => obj[v] = Gone
<1>1. U!Now = At(mem, obj) /\ Now = At(mem, obj)
  BY UniquePtrHolder DEF Now
<1>2. HoldsUnique(At(mem, obj), s)
  BY <1>1
<1>3. /\ obj \in Owners /\ s \in Pictures /\ mem \in Memories
      /\ \A v \in Slots : Points(mem, obj, v, s[v]) /\ HoldsApart(At(mem, obj), s, {})
  BY <1>2, ApartParts DEF HoldsUnique
<1>4. \A v \in Slots : obj[v] = Gone <=> s[v] = Gone
  BY <1>3, PointsGone
<1>5. obj[Temp] = Gone /\ obj[Spare] = Gone
  BY <1>4, SlotsAndNodes DEF Settled
<1>6. \A p \in Blocks : U!Alive(p) =>
        obj[p] # Gone /\ p # Temp /\ p # Spare /\ (p \in Slots <=> p \in Variables)
  BY <1>5 DEF U!Alive, Slots
<1>. QED BY <1>1, <1>2, <1>3, <1>4, <1>6 DEF U!Unborn, HoldsUnique

LEMMA SettledSets ==
  ASSUME NEW s, Settled(s), NEW t, NEW p, NEW x, Sets(s, t, p, x), p # Temp, p # Spare
  PROVE  /\ Settled(t)
         /\ p \in Variables => t[p] = x
         /\ \A u \in Variables : u # p => t[u] = s[u]
BY SlotsAndNodes DEF Settled, Sets

(* A call that sets p to x, or a member, which is no variable.             *)
LEMMA UniqueSets ==
  ASSUME ToldApart, NEW s, HoldsUnique(Now, s), Settled(s), NEW p \in Blocks, U!Alive(p),
         NEW r, NEW t, HoldsUnique(r, t), NEW x, Sets(s, t, p, x), U!EndsAt(r, p, "set", x)
  PROVE  UniqueAfter(s)
<1>1. p # Temp /\ p # Spare /\ (p \in Slots => s[p] # Gone)
  BY UniqueStart
<1>2. /\ Settled(t)
      /\ p \in Variables => t[p] = x
      /\ \A u \in Variables : u # p => t[u] = s[u]
  BY <1>1, SettledSets
<1>3. CASE p \in Variables
  <2>1. U!Ends(r, "set", x, FALSE)
    BY <1>3 DEF U!EndsAt
  <2>2. HoldsUnique(At(mem', obj'), t) /\ Said("set", x, FALSE)
    BY <2>1, UniqueEnded
  <2>3. Setting(s, t, p)
    BY <1>1, <1>2, <1>3, <2>2, SlotsAndNodes DEF Setting
  <2> QED BY <1>2, <1>3, <2>2, <2>3 DEF UniqueAfter, Outcome
<1>4. CASE p \notin Variables
  <2>1. U!Ends(r, "keep", x, FALSE)
    BY <1>4 DEF U!EndsAt
  <2>2. HoldsUnique(At(mem', obj'), t) /\ Said("keep", x, FALSE)
    BY <2>1, UniqueEnded
  <2>3. Keeping(s, t)
    BY <1>2, <1>4, <2>2 DEF Keeping
  <2> QED BY <1>2, <2>2, <2>3 DEF UniqueAfter, Outcome
<1>. QED BY <1>3, <1>4

LEMMA UniqueDefaultConstruct ==
  ASSUME ToldApart, NEW s, HoldsUnique(Now, s), Settled(s), NEW v \in Variables,
         U!DefaultConstruct(v)
  PROVE  UniqueAfter(s)
<1>1. /\ obj[v] = Gone /\ U!Now = At(mem, obj) /\ HoldsUnique(At(mem, obj), s) /\ obj \in Owners
      /\ v \in Slots /\ v \in Blocks /\ s[v] = Gone /\ v # Temp /\ v # Spare
  BY UniqueStart, SlotsAndNodes DEF U!DefaultConstruct
<1> DEFINE r == At(Allocate(mem, v, 1), Changed(obj, v, Null))
<1>2. U!Born(U!Now, v, Null) = r
  <2>1. U!Born(U!Now, v, Null) = Born(At(mem, obj), v, Null)
    BY <1>1, UniquePtrHolder
  <2>2. At(mem, obj).m = mem /\ At(mem, obj).o = obj
    BY StateOf
  <2>3. At(mem, obj).o \in [Blocks -> Nodes \cup {Null, Gone}]
    BY <1>1, <2>2 DEF Owners
  <2> QED BY <1>1, <2>1, <2>2, <2>3, BornDead
<1>3. PICK t : HoldsUnique(r, t) /\ Sets(s, t, v, Null)
  BY <1>1, UniqueBorn
<1>4. U!Ends(r, "construct", Null, FALSE)
  BY <1>2 DEF U!DefaultConstruct
<1> HIDE DEF r
<1>5. HoldsUnique(At(mem', obj'), t) /\ Said("construct", Null, FALSE)
  BY <1>3, <1>4, UniqueEnded
<1>6. Settled(t) /\ t[v] = Null /\ \A u \in Variables : u # v => t[u] = s[u]
  BY <1>1, <1>3, SettledSets
<1>7. Beginning(s, t, v)
  BY <1>1, <1>5, <1>6 DEF Beginning
<1>. QED BY <1>5, <1>6, <1>7 DEF UniqueAfter, Outcome

(* What reset leads to, with nothing to take.                              *)
LEMMA UniqueResetNull ==
  ASSUME ToldApart, NEW s, HoldsUnique(Now, s), Settled(s), NEW p \in Blocks, U!Alive(p)
  PROVE  \E t : HoldsUnique(U!ResetTo(U!Now, p, Null), t) /\ Sets(s, t, p, Null)
<1>1. U!Now = At(mem, obj) /\ HoldsApart(At(mem, obj), s, {}) /\ obj[p] # Gone
  BY UniqueStart
<1>2. Valued(mem, Null, Null)
  BY DEF Valued
<1> DEFINE S == {}
<1>3. HoldsApart(At(mem, obj), s, S) /\ Null \in S \cup {Null} /\ \A y \in S : y = Null
  BY <1>1
<1> HIDE DEF S
<1>4. \E t : HoldsUnique(U!ResetTo(At(mem, obj), p, Null), t) /\ Sets(s, t, p, Null)
  BY <1>1, <1>2, <1>3, UniqueReset
<1>. QED BY <1>1, <1>4

LEMMA UniqueResetCall ==
  ASSUME ToldApart, NEW s, HoldsUnique(Now, s), Settled(s), NEW p \in Blocks, U!Reset(p)
  PROVE  UniqueAfter(s)
<1>1. U!Alive(p) /\ U!EndsAt(U!ResetTo(U!Now, p, Null), p, "set", Null)
  BY DEF U!Reset
<1>2. PICK t : HoldsUnique(U!ResetTo(U!Now, p, Null), t) /\ Sets(s, t, p, Null)
  BY <1>1, UniqueResetNull
<1>. QED BY <1>1, <1>2, UniqueSets

LEMMA UniqueDestruct ==
  ASSUME ToldApart, NEW s, HoldsUnique(Now, s), Settled(s), NEW v \in Variables, U!Destruct(v)
  PROVE  UniqueAfter(s)
<1>1. /\ U!Alive(v) /\ U!Ends(U!Dead(U!ResetTo(U!Now, v, Null), v), "destroy", Null, FALSE)
      /\ v \in Slots /\ v \in Blocks
  BY SlotsAndNodes DEF U!Destruct
<1> DEFINE r == U!ResetTo(U!Now, v, Null)
<1>2. PICK k : HoldsUnique(r, k) /\ Sets(s, k, v, Null)
  BY <1>1, UniqueResetNull
<1> HIDE DEF r
<1>3. r = At(r.m, r.o)
  BY <1>2 DEF HoldsUnique, HoldsApart
<1>4. HoldsUnique(At(r.m, r.o), k)
  BY <1>2, <1>3
<1>5. r.o \in Owners /\ r.o[v] = Null
  <2>1. r.o \in Owners /\ Points(r.m, r.o, v, k[v])
    BY <1>1, <1>4, ApartParts DEF HoldsUnique
  <2>2. k[v] = Null
    BY <1>1, <1>2 DEF Sets
  <2> QED BY <2>1, <2>2 DEF Points, Valued, ToldApart
<1> DEFINE x == At(Deallocate(r.m, v, 1), Changed(r.o, v, Gone))
<1>6. PICK t : HoldsUnique(x, t) /\ Sets(k, t, v, Gone)
  BY <1>1, <1>4, <1>5, UniqueDead
<1>7. U!Dead(r, v) = x
  <2>1. r.o \in [Blocks -> Nodes \cup {Null, Gone}]
    BY <1>5 DEF Owners
  <2>2. Dead(r, v) = x
    BY <1>1, <2>1, BornDead
  <2> QED BY <2>2, UniquePtrHolder
<1>8. U!Ends(x, "destroy", Null, FALSE)
  BY <1>1, <1>7 DEF r
<1> HIDE DEF x
<1>9. HoldsUnique(At(mem', obj'), t) /\ Said("destroy", Null, FALSE)
  BY <1>6, <1>8, UniqueEnded
<1>10. Sets(s, t, v, Gone) /\ v # Temp /\ v # Spare /\ s[v] # Gone
  BY <1>1, <1>2, <1>6, SetsTwice, UniqueStart
<1>11. Settled(t) /\ t[v] = Gone /\ \A u \in Variables : u # v => t[u] = s[u]
  BY <1>10, SettledSets
<1>12. Ending(s, t, v)
  BY <1>9, <1>10, <1>11 DEF Ending
<1>. QED BY <1>9, <1>11, <1>12 DEF UniqueAfter, Outcome

(* make_unique.                                                            *)
LEMMA UniqueMade ==
  ASSUME ToldApart, NEW s, HoldsUnique(Now, s), Settled(s), NEW p \in Blocks, NEW x \in Values,
         U!Alive(p), FreeNodes(mem) # {}
  PROVE  \E t : HoldsUnique(U!MakeUnique(U!Now, p, x), t) /\ Sets(s, t, p, x)
<1> DEFINE b == NewNode(mem)
           k == With(mem, b, One(Raw))
           n == With(k, b, One(x))
           u == Changed(obj, b, Null)
<1>1. /\ U!Now = At(mem, obj) /\ HoldsUnique(At(mem, obj), s) /\ HoldsApart(At(mem, obj), s, {})
      /\ obj \in Owners /\ s \in Pictures /\ mem \in Memories /\ obj[p] # Gone
  BY UniqueStart
<1>2. Owning(obj, {}) /\ Stocked(mem, obj, {}) /\ ~mem.fault
  BY <1>1, ApartParts
<1>3. b \in Nodes /\ b \in Blocks /\ mem.cells[b] = Nothing /\ b \notin Slots
  BY FreeNode, SlotsAndNodes
<1> HIDE DEF b
<1>4. obj[b] = Gone /\ p # b
  <2>1. Kept(mem, obj, {}, b)
    BY <1>2, <1>3 DEF Stocked
  <2>2. \A y : One(y) # Nothing
    BY OneCell
  <2>3. obj[b] = Gone
    BY <1>3, <2>1, <2>2 DEF Kept
  <2> QED BY <1>1, <2>3
<1>5. One(x) \in Seq(Cells) /\ One(Raw) \in Seq(Cells) /\ x \in Cells \ {Raw}
  <2>1. x \in Cells \ {Raw}
    BY CellAssumption DEF Cells
  <2> QED BY <2>1, RawIsCell, OneCell
<1>6. /\ k \in Memories /\ ~k.fault /\ k.cells[b] = One(Raw)
      /\ \A c \in Blocks : c # b => k.cells[c] = mem.cells[c]
  BY <1>1, <1>2, <1>3, <1>5, WithCells
<1>7. AllocateOne(mem, b) = k
  BY <1>1, <1>3, AllocatesPlace DEF AllocateOne
<1> HIDE DEF k
<1>8. NewValue(mem, b, x) = n
  BY <1>3, <1>6, <1>7, ReadsValue, ConstructsIn DEF NewValue
<1>9. /\ n \in Memories /\ ~n.fault /\ n.cells[b] = One(x)
      /\ \A c \in Blocks : c # b => n.cells[c] = mem.cells[c]
  BY <1>3, <1>5, <1>6, WithCells
<1> HIDE DEF n
<1>10. /\ u[b] = Null /\ \A q \in Blocks : q # b => u[q] = obj[q]
       /\ Null \notin Nodes /\ Gone # Null
  BY <1>1, <1>3, OwnersAt
<1> DEFINE S == {} \cup ({b} \cap Nodes)
<1>11. Owning(u, S) /\ \A y : y \in S <=> y = b
  <2>1. Owning(u, S)
    BY <1>2, <1>3, <1>4, Begun
  <2>2. \A y : y \in S <=> y = b
    BY <1>3
  <2> QED BY <2>1, <2>2
<1> HIDE DEF u, S
<1>12. Stocked(n, u, {})
  <2>1. Kept(n, u, {}, b)
    BY <1>3, <1>9, <1>10 DEF Kept
  <2>2. \A d \in Blocks : d # b => /\ n.cells[d] = mem.cells[d]
                                   /\ u[d] = Gone <=> obj[d] = Gone
                                   /\ d \in {} <=> d \in {}
    BY <1>9, <1>10
  <2> QED BY <1>2, <1>9, <2>1, <2>2, StockedChanges
<1>13. Sets(s, s, b, Null) /\ (b \in Slots => Points(n, u, b, Null))
  BY <1>1, <1>3 DEF Sets
<1>14. Unnoticed(mem, obj, n, u, b)
  <2>1. ASSUME NEW v \in Slots, obj[v] \in Nodes PROVE obj[v] # b
    BY <1>2, <1>4, <2>1, SlotsAndNodes DEF Owning
  <2> QED BY <1>3, <1>9, <1>10, <2>1, SlotsAndNodes DEF Unnoticed
<1>15. HoldsApart(At(n, u), s, S)
  BY <1>1, <1>11, <1>12, <1>13, <1>14, ApartStep
<1>16. u[p] # Gone /\ b \in S \cup {Null} /\ (\A y \in S : y = b) /\ Valued(n, b, x)
  BY <1>1, <1>3, <1>4, <1>9, <1>10, <1>11 DEF Valued
<1>17. \E t : HoldsUnique(U!ResetTo(At(n, u), p, b), t) /\ Sets(s, t, p, x)
  BY <1>15, <1>16, UniqueReset
<1>18. U!MakeUnique(U!Now, p, x) = U!ResetTo(At(n, u), p, b)
  <2>1. At(mem, obj).m = mem
    BY StateOf
  <2>2. U!NewNode(At(mem, obj).m) = b
    BY <2>1, UniquePtrHolder DEF b
  <2>3. [At(mem, obj) EXCEPT !.m = U!NewValue(@, b, x)] = At(n, obj)
    <3>1. U!NewValue(mem, b, x) = n
      BY <1>8, UniquePtrHolder
    <3> QED BY <3>1 DEF At
  <2>4. U!SetPtr(At(n, obj), b, Null) = At(n, u)
    BY SetsPtr DEF u
  <2> QED BY <1>1, <2>2, <2>3, <2>4 DEF U!MakeUnique
<1>. QED BY <1>17, <1>18

LEMMA UniqueMake ==
  ASSUME ToldApart, NEW s, HoldsUnique(Now, s), Settled(s), NEW p \in Blocks, NEW x \in Values,
         U!Make(p, x)
  PROVE  UniqueAfter(s)
<1>1. U!Alive(p) /\ FreeNodes(mem) # {}
  BY UniquePtrHolder DEF U!Make, Room
<1>2. CASE U!EndsAt(U!MakeUnique(U!Now, p, x), p, "set", x)
  <2>1. PICK t : HoldsUnique(U!MakeUnique(U!Now, p, x), t) /\ Sets(s, t, p, x)
    BY <1>1, UniqueMade
  <2> QED BY <1>1, <1>2, <2>1, UniqueSets
<1>3. CASE U!Ends([U!Now EXCEPT !.m = U!Unused(@, U!NewNode(@))], "set", x, TRUE)
  <2>1. U!Now = At(mem, obj) /\ HoldsUnique(At(mem, obj), s) /\ mem \in Memories
    BY UniqueStart
  <2>2. U!Unused(mem, U!NewNode(mem)) = mem
    <3>1. NewNode(mem) \in FreeNodes(mem)
      BY <1>1, FreeNode
    <3>2. Unused(mem, NewNode(mem)) = mem
      BY <2>1, <3>1, UnusedNode
    <3> QED BY <3>2, UniquePtrHolder
  <2>3. [At(mem, obj) EXCEPT !.m = U!Unused(@, U!NewNode(@))] = At(mem, obj)
    BY <2>2 DEF At
  <2>4. U!Ends(At(mem, obj), "set", x, TRUE)
    BY <1>3, <2>1, <2>3
  <2>5. HoldsUnique(At(mem', obj'), s) /\ Said("set", x, TRUE)
    BY <2>1, <2>4, UniqueEnded
  <2>6. Refusing(s, s)
    BY <2>5 DEF Refusing
  <2> QED BY <2>5, <2>6 DEF UniqueAfter, Outcome
<1>. QED BY <1>2, <1>3 DEF U!Make

(* The members before and after a change, block by block.                  *)
BlockMap(o) == o = [e \in Blocks |-> o[e]]

LEMMA ChangedPointwise ==
  ASSUME NEW o, BlockMap(o), NEW p, NEW x
  PROVE  /\ BlockMap(Changed(o, p, x))
         /\ \A e \in Blocks : Changed(o, p, x)[e] = IF e = p THEN x ELSE o[e]
BY DEF BlockMap, Changed

LEMMA SamePointwise ==
  ASSUME NEW o, BlockMap(o), NEW c, BlockMap(c), \A e \in Blocks : o[e] = c[e]
  PROVE  o = c
BY DEF BlockMap

LEMMA OwnersPointwise ==
  ASSUME NEW o \in Owners
  PROVE  BlockMap(o)
BY DEF BlockMap, Owners

LEMMA ChangedApart ==
  ASSUME NEW o \in Owners, NEW v, NEW q, v # q, NEW x, NEW y, NEW z
  PROVE  /\ Changed(Changed(Changed(o, v, z), q, x), v, y) = Changed(Changed(o, v, y), q, x)
         /\ Changed(Changed(o, v, y), q, x) = Changed(Changed(o, q, x), v, y)
<1> DEFINE vz == Changed(o, v, z)
           vzq == Changed(vz, q, x)
           vzqv == Changed(vzq, v, y)
           vy == Changed(o, v, y)
           vyq == Changed(vy, q, x)
           qx == Changed(o, q, x)
           qxv == Changed(qx, v, y)
<1>1. BlockMap(o)
  BY OwnersPointwise
<1>2. BlockMap(vz) /\ \A e \in Blocks : vz[e] = IF e = v THEN z ELSE o[e]
  BY <1>1, ChangedPointwise
<1>3. BlockMap(vy) /\ \A e \in Blocks : vy[e] = IF e = v THEN y ELSE o[e]
  BY <1>1, ChangedPointwise
<1>4. BlockMap(qx) /\ \A e \in Blocks : qx[e] = IF e = q THEN x ELSE o[e]
  BY <1>1, ChangedPointwise
<1> HIDE DEF vz, vy, qx
<1>5. BlockMap(vzq) /\ \A e \in Blocks : vzq[e] = IF e = q THEN x ELSE vz[e]
  BY <1>2, ChangedPointwise
<1>6. BlockMap(vyq) /\ \A e \in Blocks : vyq[e] = IF e = q THEN x ELSE vy[e]
  BY <1>3, ChangedPointwise
<1>7. BlockMap(qxv) /\ \A e \in Blocks : qxv[e] = IF e = v THEN y ELSE qx[e]
  BY <1>4, ChangedPointwise
<1> HIDE DEF vzq, vyq, qxv
<1>8. BlockMap(vzqv) /\ \A e \in Blocks : vzqv[e] = IF e = v THEN y ELSE vzq[e]
  BY <1>5, ChangedPointwise
<1> HIDE DEF vzqv
<1>9. vzqv = vyq
  BY <1>2, <1>3, <1>5, <1>6, <1>8, SamePointwise
<1>10. vyq = qxv
  BY <1>3, <1>4, <1>6, <1>7, SamePointwise
<1>. QED BY <1>9, <1>10 DEF vz, vzq, vzqv, vy, vyq, qx, qxv

(* v, which begins, takes what q owned.                                    *)
LEMMA UniqueTakes ==
  ASSUME ToldApart, NEW m, NEW o, NEW s, HoldsUnique(At(m, o), s), NEW v \in Slots, o[v] = Gone,
         NEW q \in Blocks, o[q] # Gone, NEW x, Valued(m, o[q], x)
  PROVE  \E k, t : /\ HoldsUnique(At(Allocate(m, v, 1), Changed(Changed(o, v, o[q]), q, Null)), t)
                   /\ Sets(s, k, q, Null) /\ Sets(k, t, v, x)
<1> DEFINE n == Allocate(m, v, 1)
           c == Changed(o, v, Null)
           d == Changed(c, q, Null)
           b == o[q]
           T == {} \cup JustNodes(c[q])
<1>1. v \in Blocks /\ v # q /\ o \in Owners
  BY SlotsAndNodes, ApartParts DEF HoldsUnique
<1>2. PICK i : /\ HoldsUnique(At(n, c), i) /\ Sets(s, i, v, Null)
               /\ \A e, y : Valued(m, e, y) => Valued(n, e, y)
  BY UniqueBorn
<1>3. c[q] = b /\ c[v] = Null /\ b \in Nodes \cup {Null} /\ c \in Owners
  BY <1>1, OwnersAt
<1> HIDE DEF n, c
<1>4. PICK j : HoldsApart(At(n, d), j, T) /\ Sets(i, j, q, Null)
  <2>1. HoldsApart(At(n, c), i, {}) /\ c[q] # Gone
    BY <1>2, <1>3 DEF HoldsUnique
  <2> QED BY <2>1, ApartGives
<1>5. d[v] = Null
  <2>1. Null \in Nodes \cup {Null, Gone}
    OBVIOUS
  <2>2. \A e \in Blocks : e # q => Changed(c, q, Null)[e] = c[e]
    BY <1>3, <2>1, OwnersAt
  <2> QED BY <1>1, <1>3, <2>2
<1>6. b \in T \cup {Null} /\ T \ {b} = {}
  <2>1. \A y : y \in JustNodes(b) <=> y = b /\ y \in Nodes
    BY <1>3, JustNode
  <2> QED BY <1>3, <2>1
<1> HIDE DEF d, T, b
<1>7. Valued(n, b, x)
  BY <1>2 DEF b
<1>8. PICK t : HoldsApart(At(n, Changed(d, v, b)), t, T \ {b}) /\ Sets(j, t, v, x)
  BY <1>1, <1>4, <1>5, <1>6, <1>7, ApartTakes
<1>9. HoldsUnique(At(n, Changed(d, v, b)), t)
  BY <1>6, <1>8 DEF HoldsUnique
<1>10. Changed(d, v, b) = Changed(Changed(o, v, b), q, Null)
  BY <1>1, ChangedApart DEF d, c
<1>11. s \in Pictures
  BY ApartParts DEF HoldsUnique
<1>12. PICK k : Sets(s, k, q, Null)
  BY <1>11, Repicture
<1>13. Sets(k, t, v, x)
  BY <1>1, <1>2, <1>4, <1>8, <1>12 DEF Sets
<1>. QED BY <1>9, <1>10, <1>12, <1>13 DEF n, b

LEMMA UniqueMoveConstruct ==
  ASSUME ToldApart, NEW s, HoldsUnique(Now, s), Settled(s), NEW v \in Variables, NEW q \in Blocks,
         U!MoveConstruct(v, q)
  PROVE  UniqueAfter(s)
<1>1. /\ U!Now = At(mem, obj) /\ HoldsUnique(At(mem, obj), s) /\ obj \in Owners
      /\ obj[v] = Gone /\ obj[q] # Gone /\ v \in Slots /\ v \in Blocks /\ s[v] = Gone
      /\ v # Temp /\ v # Spare /\ q # Temp /\ q # Spare /\ v # q
      /\ q \in Variables => s[q] # Gone
  BY UniqueStart, SlotsAndNodes DEF U!MoveConstruct
<1> DEFINE x == U!Shows(At(mem, obj), q)
           r == At(Allocate(mem, v, 1), Changed(Changed(obj, v, obj[q]), q, Null))
<1>2. Valued(mem, obj[q], x) /\ (q \in Variables => x = s[q])
  BY <1>1, UniqueValue, SlotsAndNodes
<1>3. PICK k, t : HoldsUnique(r, t) /\ Sets(s, k, q, Null) /\ Sets(k, t, v, x)
  <2> HIDE DEF x
  <2> QED BY <1>1, <1>2, UniqueTakes
<1>4. U!Release(U!Born(U!Now, v, obj[q]), q) = r
  <2>1. U!Born(U!Now, v, obj[q]) = Born(At(mem, obj), v, obj[q])
    BY <1>1, UniquePtrHolder
  <2>2. At(mem, obj).m = mem /\ At(mem, obj).o = obj
    BY StateOf
  <2>3. At(mem, obj).o \in [Blocks -> Nodes \cup {Null, Gone}]
    BY <1>1, <2>2 DEF Owners
  <2>4. Born(At(mem, obj), v, obj[q]) = At(Allocate(mem, v, 1), Changed(obj, v, obj[q]))
    BY <1>1, <2>2, <2>3, BornDead
  <2> QED BY <2>1, <2>4, SetsPtr
<1>5. U!Ends(r, IF q \in Variables THEN "take" ELSE "construct", x, FALSE)
  BY <1>1, <1>4 DEF U!MoveConstruct
<1> HIDE DEF r, x
<1>6. Settled(k) /\ \A u \in Variables : k[u] = IF u = q THEN Null ELSE s[u]
  BY <1>1, <1>3, SettledSets
<1>7. Settled(t) /\ t[v] = x /\ \A u \in Variables : u # v => t[u] = k[u]
  BY <1>1, <1>3, <1>6, SettledSets
<1>8. CASE q \in Variables
  <2>1. HoldsUnique(At(mem', obj'), t) /\ Said("take", x, FALSE)
    BY <1>3, <1>5, <1>8, UniqueEnded
  <2>2. Taking(s, t, v, q)
    BY <1>1, <1>2, <1>6, <1>7, <1>8, <2>1 DEF Taking
  <2> QED BY <1>7, <1>8, <2>1, <2>2 DEF UniqueAfter, Outcome
<1>9. CASE q \notin Variables
  <2>1. HoldsUnique(At(mem', obj'), t) /\ Said("construct", x, FALSE)
    BY <1>3, <1>5, <1>9, UniqueEnded
  <2>2. Beginning(s, t, v)
    BY <1>1, <1>6, <1>7, <1>9, <2>1 DEF Beginning
  <2> QED BY <1>7, <2>1, <2>2 DEF UniqueAfter, Outcome
<1>. QED BY <1>8, <1>9

(* p gives up its own node for the one of q.                               *)
LEMMA UniqueMoved ==
  ASSUME ToldApart, ~StatefulDeleter, NEW s, HoldsUnique(Now, s), Settled(s), NEW p \in Blocks,
         NEW q \in Blocks, U!Alive(p), U!Alive(q), NEW x, Valued(mem, obj[q], x)
  PROVE  \E k, t : /\ HoldsUnique(U!MoveTo(U!Now, p, q), t)
                   /\ Sets(s, k, q, Null) /\ Sets(k, t, p, x)
<1> DEFINE c == Changed(obj, q, Null)
           b == obj[q]
           T == {} \cup JustNodes(b)
<1>1. /\ U!Now = At(mem, obj) /\ HoldsApart(At(mem, obj), s, {}) /\ obj \in Owners
      /\ obj[p] # Gone /\ obj[q] # Gone
  BY UniqueStart
<1>2. PICK k : HoldsApart(At(mem, c), k, T) /\ Sets(s, k, q, Null)
  BY <1>1, ApartGives
<1>3. c[p] # Gone /\ b \in Nodes \cup {Null}
  BY <1>1, OwnersAt
<1>4. b \in T \cup {Null} /\ \A y \in T : y = b
  <2>1. \A y : y \in JustNodes(b) <=> y = b /\ y \in Nodes
    BY <1>3, JustNode
  <2> QED BY <1>3, <2>1
<1> HIDE DEF c, T
<1>5. PICK t : HoldsUnique(U!ResetTo(At(mem, c), p, b), t) /\ Sets(k, t, p, x)
  BY <1>2, <1>3, <1>4, UniqueReset
<1> DEFINE r == U!ResetTo(At(mem, c), p, b)
<1>6. U!MoveTo(U!Now, p, q) = r
  <2>1. U!Release(At(mem, obj), q) = At(mem, c) /\ At(mem, obj).o = obj
    BY SetsPtr, StateOf DEF c
  <2>2. U!ResetTo(U!Release(U!Now, q), p, U!Now.o[q]) = r
    BY <1>1, <2>1
  <2>3. r = At(r.m, r.o)
    BY <1>5 DEF HoldsUnique, HoldsApart
  <2> HIDE DEF r
  <2>4. \A a : U!Require(r.m, StatefulDeleter => a) = r.m
    BY DEF U!Require
  <2>5. [r EXCEPT !.m = r.m] = r
    BY <2>3 DEF At
  <2> QED BY <2>2, <2>4, <2>5 DEF U!MoveTo
<1>. QED BY <1>2, <1>5, <1>6

LEMMA UniqueMoveAssign ==
  ASSUME ToldApart, ~StatefulDeleter, NEW s, HoldsUnique(Now, s), Settled(s), NEW p \in Blocks,
         NEW q \in Blocks, U!MoveAssign(p, q)
  PROVE  UniqueAfter(s)
<1> DEFINE x == U!Shows(At(mem, obj), q)
           r == U!MoveTo(U!Now, p, q)
<1>1. /\ U!Now = At(mem, obj) /\ HoldsUnique(At(mem, obj), s) /\ U!Alive(p) /\ U!Alive(q)
      /\ obj[p] # Gone /\ obj[q] # Gone /\ s \in Pictures
      /\ p # Temp /\ p # Spare /\ q # Temp /\ q # Spare
      /\ p \in Variables => s[p] # Gone
      /\ q \in Variables => s[q] # Gone
  BY UniqueStart, SlotsAndNodes DEF U!MoveAssign
<1>2. Valued(mem, obj[q], x) /\ (q \in Variables => x = s[q])
  BY <1>1, UniqueValue, SlotsAndNodes
<1>3. IF p \in Variables THEN U!Ends(r, IF q \in Variables THEN "take" ELSE "set", x, FALSE)
      ELSE U!EndsAt(r, q, "set", Null)
  BY <1>1 DEF U!MoveAssign
<1> HIDE DEF x
<1>4. PICK k, t : HoldsUnique(r, t) /\ Sets(s, k, q, Null) /\ Sets(k, t, p, x)
  BY <1>1, <1>2, UniqueMoved
<1> HIDE DEF r
<1>5. Settled(k) /\ \A u \in Variables : k[u] = IF u = q THEN Null ELSE s[u]
  BY <1>1, <1>4, SettledSets
<1>6. Settled(t) /\ (p \in Variables => t[p] = x) /\ \A u \in Variables : u # p => t[u] = k[u]
  BY <1>1, <1>4, <1>5, SettledSets
<1>7. CASE p \in Variables /\ q \in Variables
  <2>1. HoldsUnique(At(mem', obj'), t) /\ Said("take", x, FALSE)
    BY <1>3, <1>4, <1>7, UniqueEnded
  <2>2. Taking(s, t, p, q)
    BY <1>1, <1>2, <1>5, <1>6, <1>7, <2>1 DEF Taking
  <2> QED BY <1>6, <1>7, <2>1, <2>2 DEF UniqueAfter, Outcome
<1>8. CASE p \in Variables /\ q \notin Variables
  <2>1. HoldsUnique(At(mem', obj'), t) /\ Said("set", x, FALSE)
    BY <1>3, <1>4, <1>8, UniqueEnded
  <2>2. Setting(s, t, p)
    BY <1>1, <1>5, <1>6, <1>8, <2>1 DEF Setting
  <2> QED BY <1>6, <1>8, <2>1, <2>2 DEF UniqueAfter, Outcome
<1>9. CASE p \notin Variables
  <2>1. Sets(s, t, q, Null)
    <3>1. p \notin Slots
      BY <1>1, <1>9 DEF Slots
    <3> QED BY <1>4, <3>1 DEF Sets
  <2> QED BY <1>1, <1>3, <1>4, <1>9, <2>1, UniqueSets
<1>. QED BY <1>7, <1>8, <1>9

(* p and q exchange what they own: each gives up its node and takes that   *)
(* of the other.                                                           *)
LEMMA UniqueExchanged ==
  ASSUME ToldApart, NEW m, NEW o, NEW s, HoldsUnique(At(m, o), s), NEW p \in Blocks,
         NEW q \in Blocks, p # q, o[p] # Gone, o[q] # Gone,
         NEW x, Valued(m, o[p], x), NEW y, Valued(m, o[q], y)
  PROVE  \E k, t : /\ HoldsUnique(At(m, Changed(Changed(o, p, o[q]), q, o[p])), t)
                   /\ Sets(s, k, p, y) /\ Sets(k, t, q, x)
<1> DEFINE a == o[p]
           b == o[q]
           S == {} \cup JustNodes(a)
           c == Changed(o, p, Null)
           T == S \cup JustNodes(c[q])
           d == Changed(c, q, Null)
           e == Changed(d, p, b)
           f == Changed(e, q, a)
<1>1. HoldsApart(At(m, o), s, {}) /\ Owning(o, {}) /\ o \in Owners
  BY ApartParts DEF HoldsUnique
<1>2. /\ a \in Nodes \cup {Null} /\ b \in Nodes \cup {Null}
      /\ a = b => a = Null
  <2>1. a \in Nodes \cup {Null, Gone} /\ b \in Nodes \cup {Null, Gone}
    BY <1>1, OwnersAt
  <2>2. a \in Nodes /\ a = b => p = q
    BY <1>1 DEF Owning
  <2> QED BY <2>1, <2>2
<1>3. PICK s1 : HoldsApart(At(m, c), s1, S) /\ Sets(s, s1, p, Null)
  BY <1>1, ApartGives
<1>4. c \in Owners /\ c[p] = Null /\ c[q] = b
  BY <1>1, OwnersAt
<1> HIDE DEF c
<1>5. PICK s2 : HoldsApart(At(m, d), s2, T) /\ Sets(s1, s2, q, Null)
  <2>1. c[q] # Gone
    BY <1>4
  <2> HIDE DEF S
  <2> QED BY <1>3, <2>1, ApartGives
<1>6. d \in Owners /\ d[p] = Null /\ d[q] = Null
  BY <1>4, OwnersAt
<1>7. \A n : n \in T <=> n \in Nodes /\ (n = a \/ n = b)
  <2>1. \A n : n \in JustNodes(a) <=> n = a /\ n \in Nodes
    BY <1>2, JustNode
  <2>2. \A n : n \in JustNodes(c[q]) <=> n = b /\ n \in Nodes
    BY <1>2, <1>4, JustNode
  <2> QED BY <2>1, <2>2
<1> HIDE DEF T, d
<1>8. PICK s3 : HoldsApart(At(m, e), s3, T \ {b}) /\ Sets(s2, s3, p, y)
  <2>1. b \in T \cup {Null} /\ Valued(m, b, y)
    BY <1>2, <1>7
  <2> HIDE DEF b
  <2> QED BY <1>5, <1>6, <2>1, ApartTakes
<1>9. e[q] = Null
  <2>1. b \in Nodes \cup {Null, Gone}
    BY <1>2
  <2>2. \A n \in Blocks : n # p => e[n] = d[n]
    BY <1>6, <2>1, OwnersAt
  <2> QED BY <1>6, <2>2
<1>10. a \in (T \ {b}) \cup {Null} /\ (T \ {b}) \ {a} = {}
  <2>1. a \in Nodes => a \in T /\ a # b
    BY <1>2, <1>7, <1>1, OwnersAt
  <2> QED BY <1>2, <1>7, <2>1
<1>11. PICK s4 : HoldsApart(At(m, f), s4, (T \ {b}) \ {a}) /\ Sets(s3, s4, q, x)
  <2>1. Valued(m, a, x)
    OBVIOUS
  <2> HIDE DEF a, b, e
  <2> QED BY <1>8, <1>9, <1>10, <2>1, ApartTakes
<1>12. HoldsUnique(At(m, f), s4)
  BY <1>10, <1>11 DEF HoldsUnique
<1>13. f = Changed(Changed(o, p, b), q, a)
  <2>1. e = Changed(Changed(o, p, b), q, Null)
    BY <1>1, ChangedApart DEF d, c
  <2>2. Changed(o, p, b) \in Owners
    BY <1>1, <1>2, OwnersAt
  <2> HIDE DEF e
  <2>3. Changed(e, q, a) = Changed(Changed(o, p, b), q, a)
    BY <2>1, <2>2, ChangedTwice
  <2> QED BY <2>3
<1>14. PICK k : Sets(s, k, p, y)
  <2>1. s \in Pictures
    BY ApartParts DEF HoldsUnique
  <2>2. y \in Values \cup {Moved, Null, Gone}
    BY DEF Valued
  <2> QED BY <2>1, <2>2, Repicture
<1>15. Sets(k, s4, q, x)
  BY <1>3, <1>5, <1>8, <1>11, <1>14 DEF Sets
<1>. QED BY <1>12, <1>13, <1>14, <1>15 DEF f, a, b

LEMMA UniqueSwap ==
  ASSUME ToldApart, NEW s, HoldsUnique(Now, s), Settled(s), NEW p \in Blocks,
         NEW q \in Blocks, U!Swap(p, q)
  PROVE  UniqueAfter(s)
<1> DEFINE x == U!Shows(At(mem, obj), p)
           y == U!Shows(At(mem, obj), q)
           r == At(mem, Changed(Changed(obj, p, obj[q]), q, obj[p]))
<1>1. /\ U!Now = At(mem, obj) /\ HoldsUnique(At(mem, obj), s) /\ U!Alive(p) /\ U!Alive(q)
      /\ obj[p] # Gone /\ obj[q] # Gone /\ s \in Pictures /\ obj \in Owners
      /\ p # Temp /\ p # Spare /\ q # Temp /\ q # Spare
      /\ p \in Variables => s[p] # Gone
      /\ q \in Variables => s[q] # Gone
  BY UniqueStart, SlotsAndNodes DEF U!Swap
<1>2. /\ Valued(mem, obj[p], x) /\ (p \in Variables => x = s[p])
      /\ Valued(mem, obj[q], y) /\ (q \in Variables => y = s[q])
  BY <1>1, UniqueValue, SlotsAndNodes
<1>3. U!SetPtr(U!SetPtr(U!Now, p, obj[q]), q, obj[p]) = r
  BY <1>1, SetsPtr
<1>4. IF q \in Variables THEN U!EndsAt(r, p, "swap", Null) /\ p \in Variables
      ELSE U!EndsAt(r, p, "set", y)
  BY <1>1, <1>3 DEF U!Swap
<1>5. \E k, t : HoldsUnique(r, t) /\ Sets(s, k, p, y) /\ Sets(k, t, q, x)
  <2>1. CASE p # q
    <3> HIDE DEF x, y
    <3> QED BY <1>1, <1>2, <2>1, UniqueExchanged
  <2>2. CASE p = q
    <3>1. Changed(Changed(obj, p, obj[q]), q, obj[p]) = obj
      BY <1>1, <2>2 DEF Changed, Owners
    <3>2. r = At(mem, obj) /\ x = y
      BY <2>2, <3>1
    <3>3. p \in Slots => s[p] = y
      BY <1>1, <2>2, UniqueValue
    <3>4. Sets(s, s, p, y) /\ Sets(s, s, q, x)
      BY <1>1, <2>2, <3>2, <3>3 DEF Sets
    <3> QED BY <1>1, <3>2, <3>4
  <2> QED BY <2>1, <2>2
<1> HIDE DEF r, x, y
<1>6. PICK k, t : HoldsUnique(r, t) /\ Sets(s, k, p, y) /\ Sets(k, t, q, x)
  BY <1>5
<1>7. CASE q \in Variables
  <2>1. Settled(k) /\ k[p] = y /\ \A u \in Variables : u # p => k[u] = s[u]
    BY <1>1, <1>4, <1>6, <1>7, SettledSets
  <2>2. Settled(t) /\ t[q] = x /\ \A u \in Variables : u # q => t[u] = k[u]
    BY <1>1, <1>6, <1>7, <2>1, SettledSets
  <2>3. U!Ends(r, "swap", Null, FALSE) /\ p \in Variables
    BY <1>4, <1>7 DEF U!EndsAt
  <2>4. HoldsUnique(At(mem', obj'), t) /\ Said("swap", Null, FALSE)
    BY <1>6, <2>3, UniqueEnded
  <2>5. Exchanging(s, t, p, q)
    <3>1. p = q => x = y
      BY DEF x, y
    <3>2. s[p] # Gone /\ s[q] # Gone /\ s[p] = x /\ s[q] = y
      BY <1>1, <1>2, <1>7, <2>3
    <3>3. t[p] = y /\ t[q] = x
      BY <2>1, <2>2, <2>3, <3>1
    <3>4. \E z : Said("swap", z, FALSE)
      BY <2>4
    <3>5. \A u \in Variables : u # p /\ u # q => t[u] = s[u]
      BY <2>1, <2>2
    <3> QED BY <3>2, <3>3, <3>4, <3>5 DEF Exchanging
  <2> QED BY <1>7, <2>2, <2>3, <2>4, <2>5 DEF UniqueAfter, Outcome
<1>8. CASE q \notin Variables
  <2>1. q \notin Slots
    BY <1>1, <1>8 DEF Slots
  <2>2. Sets(s, t, p, y)
    BY <1>6, <2>1 DEF Sets
  <2> QED BY <1>1, <1>4, <1>6, <1>8, <2>2, UniqueSets
<1>. QED BY <1>7, <1>8

(* A step of a unique_ptr whose deleter has no state: objects that own     *)
(* each other included, it leaves every object owned once, and its outcome *)
(* is one of an optional.                                                  *)
LEMMA UniqueNext ==
  ASSUME ToldApart, ~StatefulDeleter, NEW s, HoldsUnique(Now, s), Settled(s), U!Next
  PROVE  UniqueAfter(s)
<1>1. ASSUME NEW v \in Variables, U!DefaultConstruct(v) PROVE UniqueAfter(s)
  BY <1>1, UniqueDefaultConstruct
<1>2. ASSUME NEW v \in Variables, U!Destruct(v) PROVE UniqueAfter(s)
  BY <1>2, UniqueDestruct
<1>3. ASSUME NEW v \in Variables, NEW q \in Blocks, U!MoveConstruct(v, q) PROVE UniqueAfter(s)
  BY <1>3, UniqueMoveConstruct
<1>4. ASSUME NEW p \in Blocks, U!Reset(p) PROVE UniqueAfter(s)
  BY <1>4, UniqueResetCall
<1>5. ASSUME NEW p \in Blocks, NEW x \in Values, U!Make(p, x) PROVE UniqueAfter(s)
  BY <1>5, UniqueMake
<1>6. ASSUME NEW p \in Blocks, NEW q \in Blocks, U!MoveAssign(p, q) PROVE UniqueAfter(s)
  BY <1>6, UniqueMoveAssign
<1>7. ASSUME NEW p \in Blocks, NEW q \in Blocks, U!Swap(p, q) PROVE UniqueAfter(s)
  BY <1>7, UniqueSwap
<1>. QED BY <1>1, <1>2, <1>3, <1>4, <1>5, <1>6, <1>7 DEF U!Next

-----------------------------------------------------------------------------
(* From a picture to the properties: what the variables and members own is *)
(* what lives.                                                             *)
EachOwned  == \A b : b \in Objects <=> \E p \in Living : b \in Owns(p)
OwnersOnce == \A p, q \in Living : \A b : b \in Owns(p) /\ b \in Owns(q) => p = q
NodesUsed  == \A n \in Nodes : mem.cells[n] # Nothing => n \in Objects
AllMatch   == \A p \in Living : Matches(p)

LEMMA ObjectsAre ==
  \A b : b \in Objects <=> b \in Blocks /\ mem.cells[b] # Nothing /\ mem.cells[b] # One(Raw)
BY DEF Objects, Allocated, One, Nothing

LEMMA OwnedOnceIf ==
  ASSUME ~mem.fault, EachOwned, OwnersOnce, NodesUsed, AllMatch
  PROVE  OwnedOnce
<1>1. Objects = UNION {Owns(p) : p \in Living}
  BY DEF EachOwned
<1>2. \A p, q \in Living : p # q => Owns(p) \cap Owns(q) = {}
  BY DEF OwnersOnce
<1>3. Allocated(mem) \cap Nodes \subseteq Objects
  BY DEF NodesUsed, Allocated, Nothing
<1>. QED BY <1>1, <1>2, <1>3 DEF OwnedOnce, AllMatch

(* P says where the value of each slot is, and that is what it owns.       *)
LEMMA OwnedPlaces ==
  ASSUME ToldApart, NEW P, NEW s, Shape(mem, P, s),
         \A p : p \in Living <=> p \in Slots /\ s[p] # Gone,
         \A p \in Living : \A b : b \in Owns(p) <=> b = P[p] /\ s[p] \in Values
  PROVE  EachOwned /\ OwnersOnce /\ NodesUsed
<1>1. /\ Slots \subseteq Blocks /\ Nodes \subseteq Blocks /\ Slots \cap Nodes = {}
      /\ Blocks = Slots \cup Nodes
  BY SlotsAndNodes
<1>2. Raw \notin Values /\ Gone \notin Values /\ Null \notin Values /\ Small \subseteq Values
  BY CellAssumption, HolderAssumption DEF ToldApart
<1>3. \A v \in Slots : Placed(mem, v, P[v], s[v])
  BY DEF Shape
<1>4. /\ \A v, w \in Slots : P[v] \in Nodes /\ P[v] = P[w] => v = w
      /\ \A n \in Nodes : mem.cells[n] = Nothing \/ \E v \in Slots : P[v] = n
  BY DEF Shape
<1>5. /\ \A x, y : One(x) = One(y) => x = y
      /\ \A x : One(x) # Nothing
  BY OneCell
<1>6. Null \notin Blocks /\ Gone \notin Blocks
  BY CellAssumption DEF ToldApart
<1>7. ASSUME NEW v \in Slots
      PROVE  /\ s[v] \in Values => /\ P[v] = v \/ P[v] \in Nodes
                                   /\ P[v] \in Blocks /\ mem.cells[P[v]] = One(s[v])
             /\ P[v] = v \/ P[v] \in Nodes => s[v] \in Values /\ s[v] # Gone
             /\ mem.cells[v] # Nothing /\ mem.cells[v] # One(Raw) => P[v] = v
  <2>1. Placed(mem, v, P[v], s[v]) /\ v \in Blocks /\ v \notin Nodes
    BY <1>1, <1>3
  <2> QED BY <1>1, <1>2, <1>6, <2>1 DEF Placed
<1>8. ASSUME NEW b PROVE b \in Objects <=> \E v \in Slots : P[v] = b /\ s[v] \in Values
  <2>1. b \in Objects <=> b \in Blocks /\ mem.cells[b] # Nothing /\ mem.cells[b] # One(Raw)
    BY ObjectsAre
  <2>2. ASSUME NEW v \in Slots, P[v] = b, s[v] \in Values PROVE b \in Objects
    BY <1>2, <1>5, <1>7, <2>1, <2>2
  <2>3. ASSUME b \in Objects PROVE \E v \in Slots : P[v] = b /\ s[v] \in Values
    <3>1. CASE b \in Slots
      BY <1>7, <2>1, <2>3, <3>1
    <3>2. CASE b \in Nodes
      BY <1>4, <1>7, <2>1, <2>3, <3>2
    <3> QED BY <1>1, <2>1, <2>3, <3>1, <3>2
  <2> QED BY <2>2, <2>3
<1>9. EachOwned
  BY <1>2, <1>8 DEF EachOwned
<1>10. OwnersOnce
  <2>1. ASSUME NEW p \in Living, NEW q \in Living, NEW b, b \in Owns(p), b \in Owns(q)
        PROVE  p = q
    <3>1. p \in Slots /\ q \in Slots /\ P[p] = P[q] /\ s[p] \in Values /\ s[q] \in Values
      BY <2>1
    <3>2. (P[p] = p \/ P[p] \in Nodes) /\ (P[q] = q \/ P[q] \in Nodes)
      BY <1>7, <3>1
    <3> QED BY <1>1, <1>4, <3>1, <3>2
  <2> QED BY <2>1 DEF OwnersOnce
<1>11. NodesUsed
  <2>1. ASSUME NEW n \in Nodes, mem.cells[n] # Nothing PROVE n \in Objects
    <3>1. PICK v \in Slots : P[v] = n
      BY <1>4, <2>1
    <3> QED BY <1>7, <1>8, <3>1
  <2> QED BY <2>1 DEF NodesUsed
<1>. QED BY <1>9, <1>10, <1>11

LEMMA AnyOwned ==
  ASSUME ToldApart, class = "any", NEW s, HoldsAny(Now, s)
  PROVE  OwnedOnce
<1>1. /\ Now.m = mem /\ Now.o = obj /\ A!Now = Now
      /\ HoldsAny(Now, s) /\ Shape(mem, AnyPlaces(obj), s) /\ \A b \in Nodes : obj[b] = Gone
  BY AnyHolder, StateOf DEF HoldsAny, Now
<1>2. ASSUME NEW v \in Slots
      PROVE  /\ s[v] = Gone <=> obj[v] = Gone
             /\ s[v] # Gone => (s[v] \in Values <=> obj[v].h # Null)
             /\ s[v] \in Values => A!Place(Now, v) = AnyPlaces(obj)[v]
             /\ s[v] \in Values => Kind(s[v]) = obj[v].h
  <2>1. /\ s[v] = Gone <=> obj[v] = Gone
        /\ s[v] # Gone => (s[v] = Null <=> obj[v].h = Null)
        /\ s[v] # Gone => (s[v] \in Small <=> obj[v].h = "small")
        /\ s[v] # Gone => (s[v] \in Values \ Small <=> obj[v].h = "large")
        /\ s[v] \in Values <=> s[v] \notin {Gone, Null}
        /\ s[v] \in Values => A!Place(Now, v) = AnyPlaces(obj)[v]
    BY <1>1, AnyOf
  <2> QED BY <2>1 DEF Kind
<1>3. \A p : p \in Living <=> p \in Slots /\ s[p] # Gone
  BY <1>1, <1>2, SlotsAndNodes DEF Living
<1>4. ASSUME NEW p \in Living, NEW b
      PROVE  b \in Owns(p) <=> b = AnyPlaces(obj)[p] /\ s[p] \in Values
  <2>1. Owns(p) = A!Owns(p)
    BY DEF Owns
  <2>2. b \in A!Owns(p) <=> obj[p].h # Null /\ b = A!Place(Now, p)
    BY <1>1 DEF A!Owns
  <2> QED BY <1>2, <1>3, <2>1, <2>2
<1>5. AllMatch
  <2>1. ASSUME NEW p \in Living PROVE A!Matches(p)
    <3>1. p \in Slots /\ s[p] # Gone /\ obj[p] # Gone
      BY <1>2, <1>3
    <3>2. A!Shows(Now, p) = s[p]
      BY <1>1, <3>1, AnyShows
    <3>3. obj[p].h # Null => Kind(s[p]) = obj[p].h
      BY <1>2, <3>1
    <3> QED BY <1>1, <3>2, <3>3, AnyHolder DEF A!Matches
  <2>2. \A p : Matches(p) = A!Matches(p)
    BY DEF Matches
  <2> QED BY <2>1, <2>2 DEF AllMatch
<1>6. EachOwned /\ OwnersOnce /\ NodesUsed
  BY <1>1, <1>3, <1>4, OwnedPlaces
<1>7. ~mem.fault
  BY <1>1 DEF Shape
<1>. QED BY <1>5, <1>6, <1>7, OwnedOnceIf

LEMMA FunctionOwned ==
  ASSUME ToldApart, class = "function", NEW s, HoldsFunction(Now, s)
  PROVE  OwnedOnce
<1>1. /\ Now.m = mem /\ Now.o = obj /\ F!Now = Now
      /\ HoldsFunction(Now, s) /\ Shape(mem, FunctionPlaces(obj), s)
      /\ \A b \in Nodes : obj[b] = Gone
  BY FunctionHolder, StateOf DEF HoldsFunction, Now
<1>2. ASSUME NEW v \in Slots
      PROVE  /\ s[v] = Gone <=> obj[v] = Gone
             /\ s[v] # Gone => (s[v] \in Values <=> obj[v] # Null)
             /\ FunctionPlaces(obj)[v] = obj[v]
             /\ obj[v] = v <=> s[v] \in Small
    BY <1>1, FunctionOf
<1>3. \A p : p \in Living <=> p \in Slots /\ s[p] # Gone
  BY <1>1, <1>2, SlotsAndNodes DEF Living
<1>4. ASSUME NEW p \in Living, NEW b
      PROVE  b \in Owns(p) <=> b = FunctionPlaces(obj)[p] /\ s[p] \in Values
  <2>1. Owns(p) = F!Owns(p)
    BY DEF Owns
  <2>2. b \in F!Owns(p) <=> obj[p] # Null /\ b = obj[p]
    BY DEF F!Owns, F!Empty
  <2> QED BY <1>2, <1>3, <2>1, <2>2
<1>5. AllMatch
  <2>1. ASSUME NEW p \in Living PROVE F!Matches(p)
    <3>1. p \in Slots /\ s[p] # Gone /\ obj[p] # Gone
      BY <1>2, <1>3
    <3>2. F!Shows(Now, p) = s[p]
      BY <1>1, <3>1, FunctionShows
    <3>3. obj[p] = p <=> s[p] \in Small
      BY <1>2, <3>1
    <3> QED BY <1>1, <3>2, <3>3 DEF F!Matches, F!InBuffer
  <2>2. \A p : Matches(p) = F!Matches(p)
    BY DEF Matches
  <2> QED BY <2>1, <2>2 DEF AllMatch
<1>6. EachOwned /\ OwnersOnce /\ NodesUsed
  BY <1>1, <1>3, <1>4, OwnedPlaces
<1>7. ~mem.fault
  BY <1>1 DEF Shape
<1>. QED BY <1>5, <1>6, <1>7, OwnedOnceIf

LEMMA VariantOwned ==
  ASSUME ToldApart, class = "variant", NEW s, HoldsVariant(Now, s)
  PROVE  OwnedOnce
<1>1. /\ Now.m = mem /\ Now.o = obj /\ V!Now = Now /\ HoldsVariant(Now, s)
      /\ Filled(mem, s) /\ \A b \in Nodes : obj[b] = Gone
  BY VariantHolder, StateOf DEF HoldsVariant, Loose, Now
<1>2. /\ ~mem.fault /\ s \in Pictures
      /\ \A v \in Slots : mem.cells[v] = CellOf(s[v])
      /\ \A n \in Nodes : mem.cells[n] = Nothing
  BY <1>1 DEF Filled
<1>3. ASSUME NEW v \in Slots
      PROVE  /\ s[v] = Gone <=> obj[v] = Gone
             /\ s[v] # Gone => /\ s[v] \in Values \cup {Moved}
                               /\ obj[v].handler = obj[v].index
                               /\ s[v] \in Values => Kind(s[v]) = obj[v].index
    BY <1>1, VariantOf
<1>4. \A p : p \in Living <=> p \in Slots /\ s[p] # Gone
  BY <1>1, <1>3, SlotsAndNodes DEF Living
<1>5. \A b : b \in Objects <=> b \in Living
  <2>1. ASSUME NEW b PROVE b \in Objects <=> b \in Living
    <3>1. b \in Objects <=> b \in Blocks /\ mem.cells[b] # Nothing /\ mem.cells[b] # One(Raw)
      BY ObjectsAre
    <3>2. CASE b \in Slots
      <4>1. s[b] \in Values \cup {Moved, Null, Gone} /\ mem.cells[b] = CellOf(s[b])
        BY <1>2, <3>2 DEF Pictures
      <4>2. s[b] = Gone => mem.cells[b] = Nothing
        BY <4>1 DEF CellOf
      <4>3. s[b] # Gone => mem.cells[b] # Nothing /\ mem.cells[b] # One(Raw)
        <5>1. s[b] # Gone => mem.cells[b] = One(s[b]) /\ s[b] \in Cells \ {Raw}
          BY <1>3, <3>2, <4>1, CellsOf
        <5>2. \A x, y : One(x) # Nothing /\ (One(x) = One(y) => x = y)
          BY OneCell
        <5> QED BY <5>1, <5>2
      <4> QED BY <1>4, <3>1, <3>2, <4>2, <4>3, SlotsAndNodes
    <3>3. CASE b \in Nodes
      BY <1>2, <1>4, <3>1, <3>3, SlotsAndNodes
    <3> QED BY <1>4, <3>1, <3>2, <3>3, SlotsAndNodes
  <2> QED BY <2>1
<1>6. \A p, b : b \in Owns(p) <=> b = p
  BY DEF Owns, V!Owns
<1>7. EachOwned /\ OwnersOnce
  BY <1>5, <1>6 DEF EachOwned, OwnersOnce
<1>8. NodesUsed
  BY <1>2 DEF NodesUsed
<1>9. AllMatch
  <2>1. ASSUME NEW p \in Living PROVE V!Matches(p)
    <3>1. p \in Slots /\ s[p] # Gone /\ obj[p] # Gone
      BY <1>3, <1>4
    <3>2. V!Shows(Now, p) = s[p]
      BY <1>1, <3>1, VariantShows
    <3>3. obj[p].handler = obj[p].index /\ (s[p] \in Values => Kind(s[p]) = obj[p].index)
      BY <1>3, <3>1
    <3> QED BY <1>1, <3>2, <3>3, VariantHolder DEF V!Matches
  <2>2. \A p : Matches(p) = V!Matches(p)
    BY DEF Matches
  <2> QED BY <2>1, <2>2 DEF AllMatch
<1>. QED BY <1>2, <1>7, <1>8, <1>9, OwnedOnceIf

LEMMA UniqueOwned ==
  ASSUME ToldApart, class = "unique_ptr", NEW s, HoldsUnique(Now, s)
  PROVE  OwnedOnce
<1>1. Owning(obj, {}) /\ Stocked(mem, obj, {}) /\ obj \in Owners
  <2>1. HoldsApart(At(mem, obj), s, {})
    BY DEF HoldsUnique, Now
  <2> QED BY <2>1, ApartParts
<1>2. /\ \A p \in Blocks : obj[p] \in Nodes => obj[obj[p]] # Gone
      /\ \A p, q \in Blocks : obj[p] \in Nodes /\ obj[p] = obj[q] => p = q
      /\ \A n \in Nodes : obj[n] # Gone => \E p \in Blocks : obj[p] = n
  BY <1>1 DEF Owning
<1>3. ~mem.fault /\ \A b \in Blocks : Kept(mem, obj, {}, b)
  BY <1>1 DEF Stocked
<1>4. \A p \in Blocks : obj[p] \in Nodes \cup {Null, Gone}
  BY <1>1 DEF Owners
<1>5. /\ Slots \subseteq Blocks /\ Nodes \subseteq Blocks /\ Slots \cap Nodes = {}
      /\ Blocks = Slots \cup Nodes /\ Null \notin Nodes /\ Gone \notin Nodes
  BY SlotsAndNodes, CellAssumption DEF ToldApart
<1>6. \A p, b : b \in Owns(p) <=> b = obj[p] /\ b # Null
  BY DEF Owns, U!Owns
<1>7. ASSUME NEW b PROVE b \in Objects <=> b \in Nodes /\ obj[b] # Gone
  <2>1. b \in Objects <=> b \in Blocks /\ mem.cells[b] # Nothing /\ mem.cells[b] # One(Raw)
    BY ObjectsAre
  <2>2. b \in Blocks => Kept(mem, obj, {}, b)
    BY <1>3
  <2>3. \A x, y : One(x) # Nothing /\ (One(x) = One(y) => x = y)
    BY OneCell
  <2>4. Raw \notin Values
    BY CellAssumption
  <2> QED BY <1>5, <2>1, <2>2, <2>3, <2>4 DEF Kept
<1>8. EachOwned
  <2>1. ASSUME NEW b, b \in Objects PROVE \E p \in Living : b \in Owns(p)
    <3>1. b \in Nodes /\ obj[b] # Gone
      BY <1>7, <2>1
    <3>2. PICK p \in Blocks : obj[p] = b
      BY <1>2, <3>1
    <3> QED BY <1>5, <1>6, <3>1, <3>2 DEF Living
  <2>2. ASSUME NEW p \in Living, NEW b \in Owns(p) PROVE b \in Objects
    <3>1. p \in Blocks /\ obj[p] # Gone /\ b = obj[p] /\ b # Null
      BY <1>6 DEF Living
    <3>2. b \in Nodes
      BY <1>4, <3>1
    <3> QED BY <1>2, <1>7, <3>1, <3>2
  <2> QED BY <2>1, <2>2 DEF EachOwned
<1>9. OwnersOnce
  <2>1. ASSUME NEW p \in Living, NEW q \in Living, NEW b, b \in Owns(p), b \in Owns(q)
        PROVE  p = q
    BY <1>2, <1>4, <1>6, <2>1 DEF Living
  <2> QED BY <2>1 DEF OwnersOnce
<1>10. NodesUsed
  <2>1. ASSUME NEW n \in Nodes, mem.cells[n] # Nothing PROVE n \in Objects
    BY <1>3, <1>5, <1>7, <2>1 DEF Kept
  <2> QED BY <2>1 DEF NodesUsed
<1>11. AllMatch
  <2>1. ASSUME NEW p \in Living PROVE U!Matches(p)
    <3>1. p \in Nodes => mem.cells[p] # Nothing
      <4>1. p \in Blocks /\ Kept(mem, obj, {}, p) /\ obj[p] # Gone
        BY <1>3 DEF Living
      <4>2. \A x : One(x) # Nothing
        BY OneCell
      <4> QED BY <1>5, <4>1, <4>2 DEF Kept
    <3>2. p \in Nodes => p \in Allocated(mem)
      BY <1>5, <3>1 DEF Allocated, Nothing
    <3> QED BY <3>2, UniquePtrHeap DEF U!Matches
  <2>2. \A p : Matches(p) = U!Matches(p)
    BY DEF Matches
  <2> QED BY <2>1, <2>2 DEF AllMatch
<1>. QED BY <1>3, <1>8, <1>9, <1>10, <1>11, OwnedOnceIf

-----------------------------------------------------------------------------
(* The invariant: memory and members are a picture in which no temporary   *)
(* lives, and it is what the variables show.                               *)
Holds(r, s) ==
  \/ class = "any" /\ HoldsAny(r, s)
  \/ class = "function" /\ HoldsFunction(r, s)
  \/ class = "variant" /\ HoldsVariant(r, s)
  \/ class = "unique_ptr" /\ HoldsUnique(r, s)

Shows(s) == Holds(Now, s) /\ Settled(s) /\ shown = Seen(s)

ValuesInv == class \in Classes /\ call[1] \in CallNames /\ \E s : Shows(s)

(* What each class leaves of the memory and members of a temporary.        *)
NoTrace(v) == mem.cells[v] = Nothing /\ obj[v] = Gone

LEMMA AnyTyped ==
  ASSUME ToldApart, NEW s, HoldsAny(Now, s)
  PROVE  A!TypeOK /\ \A v \in Slots : s[v] = Gone => NoTrace(v)
<1>1. Now.m = mem /\ Now.o = obj /\ HoldsAny(Now, s) /\ Shape(mem, AnyPlaces(obj), s)
  BY StateOf DEF HoldsAny, Now
<1>2. mem \in Memories /\ obj \in [Blocks -> A!Members \cup {Gone}]
  BY <1>1 DEF HoldsAny, Shape
<1>3. A!TypeOK
  BY <1>2, AnyHeap DEF A!TypeOK
<1>4. ASSUME NEW v \in Slots, s[v] = Gone PROVE NoTrace(v)
  <2>1. mem.cells[v] = Nothing
    BY <1>1, <1>4, ShapeOf
  <2>2. obj[v] = Gone
    BY <1>1, <1>4, AnyOf
  <2> QED BY <2>1, <2>2 DEF NoTrace
<1>. QED BY <1>3, <1>4

LEMMA FunctionTyped ==
  ASSUME ToldApart, NEW s, HoldsFunction(Now, s)
  PROVE  F!TypeOK /\ \A v \in Slots : s[v] = Gone => NoTrace(v)
<1>1. /\ Now.m = mem /\ Now.o = obj /\ HoldsFunction(Now, s)
      /\ Shape(mem, FunctionPlaces(obj), s)
  BY StateOf DEF HoldsFunction, Now
<1>2. mem \in Memories /\ obj \in [Blocks -> Blocks \cup {Null, Gone}]
  BY <1>1 DEF HoldsFunction, Shape
<1>3. F!TypeOK
  BY <1>2, FunctionHeap DEF F!TypeOK, F!Empty
<1>4. ASSUME NEW v \in Slots, s[v] = Gone PROVE NoTrace(v)
  <2>1. mem.cells[v] = Nothing
    BY <1>1, <1>4, ShapeOf
  <2>2. obj[v] = Gone
    BY <1>1, <1>4, FunctionOf
  <2> QED BY <2>1, <2>2 DEF NoTrace
<1>. QED BY <1>3, <1>4

LEMMA VariantTyped ==
  ASSUME ToldApart, NEW s, HoldsVariant(Now, s)
  PROVE  V!TypeOK /\ \A v \in Slots : s[v] = Gone => NoTrace(v)
<1>1. Now.m = mem /\ Now.o = obj /\ HoldsVariant(Now, s) /\ Loose(Now, s) /\ Filled(mem, s)
  BY StateOf DEF HoldsVariant, Loose, Now
<1>2. mem \in Memories /\ obj \in [Blocks -> V!Members \cup {Gone}]
  BY <1>1 DEF Loose, Filled
<1>3. V!TypeOK
  BY <1>2, VariantHeap DEF V!TypeOK
<1>4. ASSUME NEW v \in Slots, s[v] = Gone PROVE NoTrace(v)
  <2>1. mem.cells[v] = Nothing
    BY <1>1, <1>4 DEF Filled, CellOf
  <2>2. obj[v] = Gone
    BY <1>1, <1>4, VariantOf
  <2> QED BY <2>1, <2>2 DEF NoTrace
<1>. QED BY <1>3, <1>4

LEMMA UniqueTyped ==
  ASSUME ToldApart, NEW s, HoldsUnique(Now, s)
  PROVE  U!TypeOK /\ \A v \in Slots : s[v] = Gone => NoTrace(v)
<1>1. /\ obj \in Owners /\ mem \in Memories /\ Stocked(mem, obj, {})
      /\ \A v \in Slots : Points(mem, obj, v, s[v])
  <2>1. HoldsApart(At(mem, obj), s, {})
    BY DEF HoldsUnique, Now
  <2> QED BY <2>1, ApartParts
<1>2. U!TypeOK
  BY <1>1, UniquePtrHeap DEF U!TypeOK, Owners
<1>3. ASSUME NEW v \in Slots, s[v] = Gone PROVE NoTrace(v)
  <2>1. obj[v] = Gone
    BY <1>1, <1>3, PointsGone
  <2>2. Kept(mem, obj, {}, v)
    BY <1>1, SlotsAndNodes DEF Stocked
  <2> QED BY <2>1, <2>2 DEF NoTrace, Kept
<1>. QED BY <1>2, <1>3

-----------------------------------------------------------------------------
LEMMA ValuesTyped ==
  ASSUME ToldApart, ValuesInv
  PROVE  TypeOK
<1>1. PICK s : Holds(Now, s) /\ Settled(s)
  BY DEF ValuesInv, Shows
<1>2. /\ CASE class = "any"        -> A!TypeOK
           [] class = "function"   -> F!TypeOK
           [] class = "variant"    -> V!TypeOK
           [] class = "unique_ptr" -> U!TypeOK
      /\ \A v \in Slots : s[v] = Gone => NoTrace(v)
  BY <1>1, AnyTyped, FunctionTyped, VariantTyped, UniqueTyped DEF Holds
<1>3. NoTrace(Temp) /\ NoTrace(Spare)
  BY <1>1, <1>2, SlotsAndNodes DEF Settled
<1>4. {Temp, Spare} \cap Allocated(mem) = {} /\ obj[Temp] = Gone /\ obj[Spare] = Gone
  BY <1>3 DEF NoTrace, Allocated, Nothing
<1>. QED BY <1>2, <1>4 DEF TypeOK, ValuesInv, CallNames

LEMMA ValuesOwned ==
  ASSUME ToldApart, ValuesInv
  PROVE  OwnedOnce
<1>1. PICK s : Holds(Now, s)
  BY DEF ValuesInv, Shows
<1>. QED BY <1>1, AnyOwned, FunctionOwned, VariantOwned, UniqueOwned DEF Holds

(* What each variable shows is what the picture says.                      *)
LEMMA ShownIs ==
  ASSUME ToldApart, NEW r, NEW s, Holds(r, s), NEW v \in Slots
  PROVE  Shown(r, v) = s[v]
<1>1. CASE class = "any" /\ HoldsAny(r, s)
  <2>1. r.o[v] = Gone <=> s[v] = Gone
    BY <1>1, AnyOf
  <2>2. r.o[v] # Gone => A!Shows(r, v) = s[v]
    BY <1>1, AnyShows
  <2> QED BY <1>1, <2>1, <2>2 DEF Shown
<1>2. CASE class = "function" /\ HoldsFunction(r, s)
  <2>1. r.o[v] = Gone <=> s[v] = Gone
    BY <1>2, FunctionOf
  <2>2. r.o[v] # Gone => F!Shows(r, v) = s[v]
    BY <1>2, FunctionShows
  <2> QED BY <1>2, <2>1, <2>2 DEF Shown
<1>3. CASE class = "variant" /\ HoldsVariant(r, s)
  <2>1. r.o[v] = Gone <=> s[v] = Gone
    BY <1>3, VariantOf
  <2>2. r.o[v] # Gone => V!Shows(r, v) = s[v]
    BY <1>3, VariantShows
  <2> QED BY <1>3, <2>1, <2>2 DEF Shown
<1>4. CASE class = "unique_ptr" /\ HoldsUnique(r, s)
  <2>1. r.o[v] = Gone <=> s[v] = Gone
    <3>1. Points(r.m, r.o, v, s[v])
      BY <1>4 DEF HoldsUnique, HoldsApart
    <3> QED BY <3>1, PointsGone
  <2>2. r.o[v] # Gone => U!Shows(r, v) = s[v]
    BY <1>4, UniquePtrShows
  <2> QED BY <1>4, <2>1, <2>2 DEF Shown
<1>. QED BY <1>1, <1>2, <1>3, <1>4 DEF Holds

-----------------------------------------------------------------------------
(* At first there is nothing.                                              *)
LEMMA EmptyMemory ==
  /\ NoMemory \in Memories /\ ~NoMemory.fault
  /\ \A b \in Blocks : NoMemory.cells[b] = Nothing
BY DEF NoMemory, Memories, Nothing

LEMMA ValuesInit ==
  ASSUME ToldApart, MCInit
  PROVE  ValuesInv
<1> DEFINE s == [v \in Slots |-> Gone]
<1>1. /\ mem \in Memories /\ ~mem.fault /\ \A b \in Blocks : mem.cells[b] = Nothing
      /\ \A b \in Blocks : obj[b] = Gone
  BY EmptyMemory DEF MCInit, Init
<1>2. /\ obj \in [Blocks -> A!Members \cup {Gone}]
      /\ obj \in [Blocks -> Blocks \cup {Null, Gone}]
      /\ obj \in [Blocks -> V!Members \cup {Gone}]
      /\ obj \in Owners
  BY DEF MCInit, Init, Owners
<1>3. s \in Pictures /\ \A v \in Slots : s[v] = Gone
  BY DEF Pictures
<1>4. shown = Seen(s)
  BY SlotsAndNodes DEF MCInit, Seen
<1>5. Now = At(mem, obj) /\ Now.m = mem /\ Now.o = obj
  BY StateOf DEF Now
<1> HIDE DEF s
<1>6. Settled(s)
  BY <1>3, SlotsAndNodes DEF Settled
<1>7. Slots \subseteq Blocks /\ Nodes \subseteq Blocks /\ Slots \cap Nodes = {}
  BY SlotsAndNodes
<1>8. Gone \notin Nodes /\ Gone # Null /\ Gone \notin A!Members
  BY <1>7 DEF ToldApart
<1>9. ASSUME NEW P, P \in Places, \A v \in Slots : P[v] = Gone PROVE Shape(mem, P, s)
  BY <1>1, <1>3, <1>7, <1>8, <1>9 DEF Shape, Placed
<1>10. HoldsAny(Now, s)
  <2>1. AnyPlaces(obj) \in Places /\ \A v \in Slots : AnyPlaces(obj)[v] = Gone
    BY <1>1, <1>7 DEF AnyPlaces, AnyPlace, Places
  <2>2. Shape(mem, AnyPlaces(obj), s)
    BY <1>9, <2>1
  <2>3. \A b \in Blocks : AnyMember(obj[b])
    BY <1>1, <1>8 DEF AnyMember
  <2> QED BY <1>1, <1>2, <1>5, <1>7, <2>2, <2>3 DEF HoldsAny
<1>11. HoldsFunction(Now, s)
  <2>1. FunctionPlaces(obj) \in Places /\ \A v \in Slots : FunctionPlaces(obj)[v] = Gone
    BY <1>1, <1>7 DEF FunctionPlaces, Places
  <2>2. Shape(mem, FunctionPlaces(obj), s)
    BY <1>9, <2>1
  <2> QED BY <1>1, <1>2, <1>5, <1>7, <2>2 DEF HoldsFunction
<1>12. HoldsVariant(Now, s)
  <2>1. Filled(mem, s)
    BY <1>1, <1>3, <1>7 DEF Filled, CellOf
  <2>2. Loose(Now, s)
    BY <1>1, <1>2, <1>3, <1>5, <1>7, <2>1 DEF Loose
  <2> QED BY <1>3, <2>2 DEF HoldsVariant, Fits
<1>13. HoldsUnique(Now, s)
  <2>1. Owning(obj, {})
    BY <1>1, <1>2, <1>7, <1>8 DEF Owning
  <2>2. Stocked(mem, obj, {})
    BY <1>1 DEF Stocked, Kept
  <2>3. \A v \in Slots : Points(mem, obj, v, s[v])
    BY <1>1, <1>3, <1>7 DEF Points
  <2> QED BY <1>3, <1>5, <2>1, <2>2, <2>3 DEF HoldsUnique, HoldsApart
<1>14. class \in Classes /\ Holds(Now, s)
  BY <1>10, <1>11, <1>12, <1>13, ValuesAssumption DEF MCInit, Holds
<1>15. call[1] \in CallNames
  BY DEF MCInit, Init, CallNames
<1>. QED BY <1>4, <1>6, <1>14, <1>15 DEF ValuesInv, Shows

(* The calls that break the classes are kept out, as each run does.        *)
Excluded ==
  /\ AssignThrows => "function" \notin Classes /\ "variant" \notin Classes
  /\ AliasAssign => "variant" \notin Classes
  /\ StatefulDeleter => "unique_ptr" \notin Classes

(* A step of the class leads from one picture to the next.                 *)
LEMMA ClassNext ==
  ASSUME ToldApart, Excluded, NEW s, Holds(Now, s), Settled(s), class \in Classes, MCNext
  PROVE  \E t : Holds(At(mem', obj'), t) /\ Settled(t) /\ Outcome(s, t)
<1>1. CASE class = "any" /\ A!Next /\ HoldsAny(Now, s)
  BY <1>1, AnyNext DEF AnyAfter, Holds
<1>2. CASE class = "function" /\ F!Next /\ HoldsFunction(Now, s)
  <2>1. ~AssignThrows
    BY <1>2, HolderAssumption DEF Excluded
  <2> QED BY <1>2, <2>1, FunctionNext DEF FunctionAfter, Holds
<1>3. CASE class = "variant" /\ V!Next /\ HoldsVariant(Now, s)
  <2>1. ~AssignThrows /\ ~AliasAssign
    BY <1>3, HolderAssumption, ValuesAssumption DEF Excluded
  <2> QED BY <1>3, <2>1, VariantNext DEF VariantAfter, Holds
<1>4. CASE class = "unique_ptr" /\ U!Next /\ HoldsUnique(Now, s)
  <2>1. ~StatefulDeleter
    BY <1>4, ValuesAssumption DEF Excluded
  <2> QED BY <1>4, <2>1, UniqueNext DEF UniqueAfter, Holds
<1>. QED BY <1>1, <1>2, <1>3, <1>4 DEF MCNext, Holds

LEMMA ValuesStep ==
  ASSUME ToldApart, Excluded, ValuesInv, MCNext
  PROVE  ValuesInv' /\ Optionals!OptNext
<1>1. PICK s : Holds(Now, s) /\ Settled(s) /\ shown = Seen(s)
  BY DEF ValuesInv, Shows
<1>2. class \in Classes /\ class' = class
  BY DEF ValuesInv, MCNext
<1>3. PICK t : Holds(At(mem', obj'), t) /\ Settled(t) /\ Outcome(s, t)
  BY <1>1, <1>2, ClassNext
<1>4. \A v \in Variables : Shown(At(mem', obj'), v) = t[v]
  BY <1>3, ShownIs, SlotsAndNodes
<1>5. shown' = Seen(t)
  BY <1>4 DEF MCNext, Seen
<1>6. Optionals!OptNext /\ call'[1] \in CallNames
  BY <1>1, <1>3, <1>5, OutcomeIsOptional
<1>7. Holds(Now, t)'
  BY <1>2, <1>3 DEF Holds, Now
<1>8. Shows(t)'
  BY <1>3, <1>5, <1>7 DEF Shows
<1>. QED BY <1>2, <1>6, <1>8 DEF ValuesInv

LEMMA ValuesStutter ==
  ASSUME ValuesInv, UNCHANGED mcVars
  PROVE  ValuesInv' /\ UNCHANGED Optionals!optVars
<1>1. mem' = mem /\ obj' = obj /\ call' = call /\ class' = class /\ shown' = shown
  BY DEF mcVars
<1>2. PICK s : Shows(s)
  BY DEF ValuesInv
<1>3. Shows(s)'
  BY <1>1, <1>2 DEF Shows, Holds, Now
<1>. QED BY <1>1, <1>3 DEF ValuesInv, Optionals!optVars

LEMMA ValuesInvariant ==
  ASSUME ToldApart, Excluded
  PROVE  MCSpec => []ValuesInv
<1>1. ValuesInv /\ [MCNext]_mcVars => ValuesInv'
  BY ValuesStep, ValuesStutter
<1>. QED BY <1>1, ValuesInit, PTL DEF MCSpec

(* Of any, function, variant and unique_ptr: members and memory stay of    *)
(* their types, and no temporary of a member function outlives the call,   *)
(* neither the buffer that an exchange goes through nor a new value that   *)
(* took the place of the old one or did not get to.                        *)
THEOREM ValuesTypes ==
  ASSUME Excluded
  PROVE  MCSpec => []TypeOK
BY ToldApartAssumption, ValuesInvariant, ValuesTyped, PTL

(* Nothing is destroyed twice or read after its life; every object in a    *)
(* buffer or on the heap has one owner, the members of objects included    *)
(* that own each other; no heap block is lost; and a variable never takes  *)
(* its value for one of another type or place than it has.                 *)
THEOREM ValuesOwnedOnce ==
  ASSUME Excluded
  PROVE  MCSpec => []OwnedOnce
BY ToldApartAssumption, ValuesInvariant, ValuesOwned, PTL

(* To the outside each variable is one value or nothing: an assignment of  *)
(* what a variable holds itself is like any other, a throw leaves the old  *)
(* value (nothing, where it has to go first), a move leaves the other      *)
(* variable its own, and a call changes the variables it names and no      *)
(* other, whatever deletions it sets off.                                  *)
THEOREM ValuesImplementOptional ==
  ASSUME Excluded
  PROVE  MCSpec => ImplementsOptional
<1>1. MCInit => Optionals!OptInit
  BY DEF MCInit, Init, Optionals!OptInit
<1>2. ValuesInv /\ [MCNext]_mcVars => [Optionals!OptNext]_(Optionals!optVars)
  BY ToldApartAssumption, ValuesStep, ValuesStutter
<1>. QED
  BY <1>1, <1>2, ToldApartAssumption, ValuesInvariant, PTL
     DEF MCSpec, ImplementsOptional, Optionals!OptSpec
=============================================================================
