--------------------------------- MODULE Any ---------------------------------
(***************************************************************************)
(* ciel::any: a value of any type, in the buffer or on the heap, and the   *)
(* handler of its type, which knows how to destroy, copy and move it. The  *)
(* handler is null while there is no value.                                *)
(***************************************************************************)
EXTENDS Holder

Members  == [h : Kinds \cup {Null}, ptr : Nodes \cup {Null}]
NoMember == [h |-> Null, ptr |-> Null]

TypeOK ==
  /\ mem \in Memories
  /\ obj \in [Blocks -> Members \cup {Gone}]

(* Where the value of v is.                                                *)
Place(r, v) == IF r.o[v].h = "small" THEN v ELSE r.o[v].ptr

(* The address that any_cast<T> of v gives.                                *)
Cast(r, v, kind) == IF r.o[v].h = kind THEN Place(r, v) ELSE Null

-----------------------------------------------------------------------------
(* The handlers. create is called of a variable without a value.           *)

SetHandler(r, v, h) == [r EXCEPT !.o = [@ EXCEPT ![v].h = h]]

(* create, which may be left at a throw of the value's constructor.        *)
Create(r, v, a) ==
  LET kind == Kind(Read(r.m, a))
      b    == NewNode(r.m)
  IN IF kind = "small" THEN SetHandler([r EXCEPT !.m = ConstructIn(@, v, a)], v, kind)
     ELSE At(NewValue(r.m, b, a), [r.o EXCEPT ![v] = [h |-> kind, ptr |-> b]])

CreateFails(r, v, a) ==
  IF Kind(Read(r.m, a)) = "small" THEN r ELSE [r EXCEPT !.m = Unused(@, NewNode(@))]

DestroyValue(r, v) ==
  LET b == Place(r, v)
      m == IF b = v THEN DestroyIn(r.m, b) ELSE DeleteValue(r.m, b)
  IN SetHandler([r EXCEPT !.m = m], v, Null)

(* The value of v goes over to w: out of the buffer as an object, from the *)
(* heap as a pointer.                                                      *)
MoveValue(r, v, w) ==
  IF r.o[v].h = "small"
  THEN LET moved == Create(r, w, Value(v))
       IN DestroyValue([moved EXCEPT !.m = MoveFrom(@, v, 0, 1)], v)
  ELSE SetHandler(At(r.m, [r.o EXCEPT ![w] = r.o[v]]), v, Null)

-----------------------------------------------------------------------------
ResetOf(r, v)    == IF r.o[v].h = Null THEN r ELSE DestroyValue(r, v)
MoveOf(r, v, w)  == IF r.o[v].h = Null THEN r ELSE MoveValue(r, v, w)
New(r, v)        == Born(r, v, NoMember)
Destructed(r, v) == Dead(ResetOf(r, v), v)

SwapOf(r, v, w) ==
  IF v = w THEN r
  ELSE IF r.o[v].h # Null /\ r.o[w].h # Null
  THEN LET out  == MoveValue(New(r, Spare), w, Spare)
           over == MoveValue(out, v, w)
       IN Destructed(MoveValue(over, Spare, v), Spare)
  ELSE IF r.o[v].h # Null THEN MoveValue(r, v, w) ELSE MoveOf(r, w, v)

(* Mutant: the temporary is never destroyed.                               *)
SwapInKept(r, v) == SwapOf(r, Temp, v)

(* A temporary is exchanged with v and takes the old value away.           *)
SwapIn(r, v) == Destructed(SwapOf(r, Temp, v), Temp)

(* Mutant: assignment in place of the old value.                           *)
ValueAssignInPlace(v, a) ==
  /\ Alive(v)
  /\ Room
  /\ \/ Ends(Create(ResetOf(Now, v), v, a), "set", Read(mem, a), FALSE)
     \/ Ends(CreateFails(ResetOf(Now, v), v, a), "set", Read(mem, a), TRUE)

ValueAssign(v, a) ==
  /\ Alive(v)
  /\ Room
  /\ \/ Ends(SwapIn(Create(New(Now, Temp), Temp, a), v), "set", Read(mem, a), FALSE)
     \/ Ends(Dead(CreateFails(New(Now, Temp), Temp, a), Temp), "set", Read(mem, a), TRUE)

DefaultConstruct(v) ==
  /\ Unborn(v)
  /\ Ends(New(Now, v), "construct", Null, FALSE)

ValueConstruct(v, a) ==
  /\ Unborn(v)
  /\ Room
  /\ \/ Ends(Create(New(Now, v), v, a), "construct", Read(mem, a), FALSE)
     \/ Ends(Dead(CreateFails(New(Now, v), v, a), v), "construct", Read(mem, a), TRUE)

CopyOf(r, w, v) ==
  IF r.o[w].h = Null THEN r ELSE Create(r, v, Value(Place(r, w)))

CopyConstruct(v, w) ==
  /\ Unborn(v) /\ Alive(w)
  /\ Room
  /\ \/ Ends(CopyOf(New(Now, v), w, v), "copy", Null, FALSE)
     \/ /\ obj[w].h # Null
        /\ LET a == Value(Place(Now, w))
           IN Ends(Dead(CreateFails(New(Now, v), v, a), v), "copy", Null, TRUE)

MoveConstruct(v, w) ==
  /\ Unborn(v) /\ Alive(w)
  /\ Ends(MoveOf(New(Now, v), w, v), "take", Null, FALSE)

Destruct(v) ==
  /\ Alive(v)
  /\ Ends(Destructed(Now, v), "destroy", Null, FALSE)

CopyAssign(v, w) ==
  /\ Alive(v) /\ Alive(w)
  /\ Room
  /\ \/ Ends(SwapIn(CopyOf(New(Now, Temp), w, Temp), v), "copy", Null, FALSE)
     \/ /\ obj[w].h # Null
        /\ LET a == Value(Place(Now, w))
           IN Ends(Dead(CreateFails(New(Now, Temp), Temp, a), Temp), "copy", Null, TRUE)

MoveAssign(v, w) ==
  /\ Alive(v) /\ Alive(w)
  /\ Ends(SwapIn(MoveOf(New(Now, Temp), w, Temp), v), "take", Null, FALSE)

(* The old value goes first: its own parts are no arguments.               *)
Emplace(v, x) ==
  /\ Alive(v)
  /\ Room
  /\ \/ Ends(Create(ResetOf(Now, v), v, x), "set", x, FALSE)
     \/ Ends(CreateFails(ResetOf(Now, v), v, x), "replace", x, TRUE)

Reset(v) ==
  /\ Alive(v)
  /\ Ends(ResetOf(Now, v), "set", Null, FALSE)

Swap(v, w) ==
  /\ Alive(v) /\ Alive(w)
  /\ Ends(SwapOf(Now, v, w), "swap", Null, FALSE)

Next == \E v \in Variables :
  \/ DefaultConstruct(v) \/ Destruct(v) \/ Reset(v)
  \/ \E a \in Given : ValueConstruct(v, a) \/ ValueAssign(v, a)
  \/ \E x \in Values : Emplace(v, x)
  \/ \E w \in Variables :
       \/ CopyConstruct(v, w) \/ MoveConstruct(v, w)
       \/ CopyAssign(v, w) \/ MoveAssign(v, w) \/ Swap(v, w)

-----------------------------------------------------------------------------
(* What any_cast with the type of its value shows of v.                    *)
Shows(r, v) ==
  IF r.o[v].h = Null THEN Null ELSE Read(r.m, Value(Cast(r, v, r.o[v].h)))

(* The places that v owns, and what its handler takes them for.            *)
Owns(v)    == IF obj[v].h = Null THEN {} ELSE {Place(Now, v)}
Matches(v) == obj[v].h = Null \/ Kind(Shows(Now, v)) = obj[v].h
=============================================================================
