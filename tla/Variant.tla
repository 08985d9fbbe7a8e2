------------------------------- MODULE Variant -------------------------------
(***************************************************************************)
(* ciel::variant of types of which one is not trivially destructible: the  *)
(* buffer always holds an object, index_ says of which type, and handler_  *)
(* knows how to destroy, copy and move it. Both types fit into the buffer. *)
(***************************************************************************)
EXTENDS Holder

CONSTANTS
  Default,       (* the value of a default constructed variant             *)
  AliasAssign    (* may a variant be assigned the value that it holds, or  *)
                 (* be exchanged with itself?                              *)

Members == [index : Kinds, handler : Kinds \cup {Null}]

TypeOK ==
  /\ mem \in Memories
  /\ obj \in [Blocks -> Members \cup {Gone}]

-----------------------------------------------------------------------------
(* variant_storage                                                         *)

DestroyStorage(r, v) ==
  IF r.o[v].handler = Null THEN r ELSE [r EXCEPT !.m = DestroyIn(@, v)]

SetHandler(r, v, h) == [r EXCEPT !.o = [@ EXCEPT ![v].handler = h]]
SetIndex(r, v, i)   == [r EXCEPT !.o = [@ EXCEPT ![v].index = i]]

SetAs(r, v, a) ==
  SetHandler([r EXCEPT !.m = ConstructIn(@, v, a)], v, Kind(Read(r.m, a)))

(* Copy of the object of w; left at a throw, the handler is w's already.   *)
CopyStorage(r, v, w) ==
  LET destroyed == DestroyStorage(r, v)
  IN SetHandler([destroyed EXCEPT !.m = ConstructIn(@, v, Value(w))], v, r.o[w].handler)
CopyStorageFails(r, v, w) == SetHandler(DestroyStorage(r, v), v, r.o[w].handler)

(* Move: the object of w lives on.                                         *)
MoveStorage(r, v, w) == [CopyStorage(r, v, w) EXCEPT !.m = MoveFrom(@, w, 0, 1)]

New(r, v, i)     == Born(r, v, [index |-> i, handler |-> Null])
Destructed(r, v) == Dead(DestroyStorage(r, v), v)

-----------------------------------------------------------------------------
ValueConstruct(v, a) ==
  /\ Unborn(v)
  /\ \/ Ends(SetAs(New(Now, v, Kind(Read(mem, a))), v, a), "construct", Read(mem, a), FALSE)
     \/ Ends(Dead(New(Now, v, Kind(Read(mem, a))), v), "construct", Read(mem, a), TRUE)

DefaultConstruct(v) == ValueConstruct(v, Default)

CopyConstruct(v, w) ==
  /\ Unborn(v) /\ Alive(w)
  /\ LET r == New(Now, v, obj[w].index)
     IN \/ Ends(CopyStorage(r, v, w), "copy", Null, FALSE)
        \/ Ends(Dead(CopyStorageFails(r, v, w), v), "copy", Null, TRUE)

MoveConstruct(v, w) ==
  /\ Unborn(v) /\ Alive(w)
  /\ Ends(MoveStorage(New(Now, v, obj[w].index), v, w), "take", Null, FALSE)

Destruct(v) ==
  /\ Alive(v)
  /\ Ends(Destructed(Now, v), "destroy", Null, FALSE)

CopyAssign(v, w) ==
  /\ Alive(v) /\ Alive(w)
  /\ LET r == SetIndex(Now, v, obj[w].index)
     IN IF v = w THEN Ends(Now, "copy", Null, FALSE)
        ELSE \/ Ends(CopyStorage(r, v, w), "copy", Null, FALSE)
             \/ /\ AssignThrows
                /\ Ends(CopyStorageFails(r, v, w), "copy", Null, TRUE)

(* The converting assignment: the value is read when the old one is gone.  *)
ValueAssign(v, a) ==
  /\ Alive(v)
  /\ AliasAssign \/ a # Value(v)
  /\ LET i == Kind(Read(mem, a))
         r == SetIndex(DestroyStorage(Now, v), v, i)
     IN \/ Ends(SetAs(r, v, a), "set", Read(mem, a), FALSE)
        \/ /\ AssignThrows
           /\ Ends(r, "set", Read(mem, a), TRUE)

(* The storages are exchanged by three moves.                              *)
Swap(v, w) ==
  /\ Alive(v) /\ Alive(w)
  /\ AliasAssign \/ v # w
  /\ LET swapped == SetIndex(SetIndex(Now, v, obj[w].index), w, obj[v].index)
         out  == MoveStorage(New(swapped, Temp, obj[v].index), Temp, v)
         over == MoveStorage(out, v, w)
         back == MoveStorage(over, w, Temp)
     IN Ends(Destructed(back, Temp), "swap", Null, FALSE)

Next == \E v \in Variables :
  \/ DefaultConstruct(v) \/ Destruct(v)
  \/ \E a \in Given : ValueConstruct(v, a) \/ ValueAssign(v, a)
  \/ \E w \in Variables :
       CopyConstruct(v, w) \/ MoveConstruct(v, w) \/ CopyAssign(v, w) \/ Swap(v, w)

-----------------------------------------------------------------------------
(* What get<index()> shows of v.                                           *)
Shows(r, v) == Read(r.m, Value(v))

Owns(v)    == {v}
Matches(v) ==
  /\ obj[v].handler = obj[v].index
  /\ Shows(Now, v) \in Values => Kind(Shows(Now, v)) = obj[v].index
=============================================================================
