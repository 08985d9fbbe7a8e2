------------------------------- MODULE Function -------------------------------
(***************************************************************************)
(* ciel::function: a callable that f_ points to, in the buffer of the      *)
(* variable or on the heap; f_ is null while there is none. A callable in  *)
(* the buffer is never moved but cloned.                                   *)
(***************************************************************************)
EXTENDS Holder

Empty == Null

(* f_ of each variable.                                                    *)
TypeOK ==
  /\ mem \in Memories
  /\ obj \in [Blocks -> Blocks \cup {Empty, Gone}]

InBuffer(r, v) == r.o[v] = v
Point(r, v, b) == [r EXCEPT !.o = [@ EXCEPT ![v] = b]]

-----------------------------------------------------------------------------
Clear(r, v) ==
  LET b == r.o[v]
      m == IF InBuffer(r, v) THEN DestroyIn(r.m, v)
           ELSE IF b # Empty THEN DeleteValue(r.m, b) ELSE r.m
  IN Point([r EXCEPT !.m = m], v, Empty)

CloneTo(m, from, to) == ConstructIn(m, to, Value(from))

New(r, v)        == Born(r, v, Empty)
Destructed(r, v) == Dead(Clear(r, v), v)

(* v, which is empty, gets a callable of its own; left at a throw, a small *)
(* one has been announced already.                                         *)
Create(r, v, a) ==
  LET b == IF Read(r.m, a) \in Small THEN v ELSE NewNode(r.m)
      m == IF b = v THEN ConstructIn(r.m, v, a) ELSE NewValue(r.m, b, a)
  IN Point([r EXCEPT !.m = m], v, b)

CreateFails(r, v, a) ==
  IF Read(r.m, a) \in Small THEN r ELSE [r EXCEPT !.m = Unused(@, NewNode(@))]

CloneOf(r, w, v) == IF r.o[w] = Empty THEN r ELSE Create(r, v, Value(r.o[w]))

CloneFails(r, w, v) ==
  IF InBuffer(r, w) THEN Point(r, v, v) ELSE [r EXCEPT !.m = Unused(@, NewNode(@))]

(* The callable of w goes over to v: a small one is cloned and stays.      *)
TakeOf(r, w, v) ==
  IF InBuffer(r, w) THEN Point([r EXCEPT !.m = CloneTo(@, w, v)], v, v)
  ELSE Point(Point(r, v, r.o[w]), w, Empty)

(* v's callable is in its buffer, w's is not.                              *)
SwapBuffer(r, v, w) ==
  LET m == DestroyIn(CloneTo(r.m, v, w), v)
  IN Point(Point([r EXCEPT !.m = m], v, r.o[w]), w, w)

SwapBuffers(r, v, w) ==
  LET spare == DestroyIn(CloneTo(AllocateOne(r.m, Spare), v, Spare), v)
      over  == DestroyIn(CloneTo(spare, w, v), w)
      back  == DestroyIn(CloneTo(over, Spare, w), Spare)
  IN [r EXCEPT !.m = Deallocate(back, Spare, 1)]

SwapOf(r, v, w) ==
  IF v = w THEN r
  ELSE CASE InBuffer(r, v) /\ InBuffer(r, w)   -> SwapBuffers(r, v, w)
         [] InBuffer(r, v) /\ ~InBuffer(r, w)  -> SwapBuffer(r, v, w)
         [] ~InBuffer(r, v) /\ InBuffer(r, w)  -> SwapBuffer(r, w, v)
         [] OTHER                              -> Point(Point(r, v, r.o[w]), w, r.o[v])

-----------------------------------------------------------------------------
(* Of a null pointer to a function, too.                                   *)
DefaultConstruct(v) ==
  /\ Unborn(v)
  /\ Ends(New(Now, v), "construct", Empty, FALSE)

ValueConstruct(v, a) ==
  /\ Unborn(v)
  /\ Room
  /\ \/ Ends(Create(New(Now, v), v, a), "construct", Read(mem, a), FALSE)
     \/ Ends(Dead(CreateFails(New(Now, v), v, a), v), "construct", Read(mem, a), TRUE)

CopyConstruct(v, w) ==
  /\ Unborn(v) /\ Alive(w)
  /\ Room
  /\ \/ Ends(CloneOf(New(Now, v), w, v), "copy", Empty, FALSE)
     \/ /\ obj[w] # Empty
        /\ Ends(Dead(CloneFails(New(Now, v), w, v), v), "copy", Empty, TRUE)

MoveConstruct(v, w) ==
  /\ Unborn(v) /\ Alive(w)
  /\ Ends(TakeOf(New(Now, v), w, v), "take", Empty, FALSE)

Destruct(v) ==
  /\ Alive(v)
  /\ Ends(Destructed(Now, v), "destroy", Empty, FALSE)

(* The old callable is gone when the copy of the other one throws.         *)
CopyAssign(v, w) ==
  /\ Alive(v) /\ Alive(w)
  /\ Room
  /\ IF v = w THEN Ends(Now, "copy", Empty, FALSE)
     ELSE \/ Ends(CloneOf(Clear(Now, v), w, v), "copy", Empty, FALSE)
          \/ /\ obj[w] # Empty
             /\ AssignThrows \/ ~InBuffer(Now, w)
             /\ Ends(CloneFails(Clear(Now, v), w, v), "replace", Empty, TRUE)

MoveAssign(v, w) ==
  /\ Alive(v) /\ Alive(w)
  /\ IF v = w THEN Ends(Now, "take", Empty, FALSE)
     ELSE Ends(TakeOf(Clear(Now, v), w, v), "take", Empty, FALSE)

ClearAll(v) ==
  /\ Alive(v)
  /\ Ends(Clear(Now, v), "set", Empty, FALSE)

(* A temporary is exchanged with v and takes the old callable away.        *)
ValueAssign(v, a) ==
  /\ Alive(v)
  /\ Room
  /\ \/ Ends(Destructed(SwapOf(Create(New(Now, Temp), Temp, a), Temp, v), Temp),
             "set", Read(mem, a), FALSE)
     \/ Ends(Dead(CreateFails(New(Now, Temp), Temp, a), Temp), "set", Read(mem, a), TRUE)

Swap(v, w) ==
  /\ Alive(v) /\ Alive(w)
  /\ Ends(SwapOf(Now, v, w), "swap", Empty, FALSE)

Next == \E v \in Variables :
  \/ DefaultConstruct(v) \/ Destruct(v) \/ ClearAll(v)
  \/ \E a \in Given : ValueConstruct(v, a) \/ ValueAssign(v, a)
  \/ \E w \in Variables :
       \/ CopyConstruct(v, w) \/ MoveConstruct(v, w)
       \/ CopyAssign(v, w) \/ MoveAssign(v, w) \/ Swap(v, w)

-----------------------------------------------------------------------------
(* The callable that operator() calls.                                     *)
Shows(r, v) == IF r.o[v] = Empty THEN Empty ELSE Read(r.m, Value(r.o[v]))

Owns(v)    == {obj[v]} \ {Empty}
Matches(v) == obj[v] = Empty \/ (InBuffer(Now, v) <=> Shows(Now, v) \in Small)
=============================================================================
