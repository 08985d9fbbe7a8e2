------------------------------ MODULE UniquePtr ------------------------------
(***************************************************************************)
(* ciel::unique_ptr: a pointer to an object that it deletes, where an      *)
(* object has a unique_ptr for a member itself. Deleting an object deletes *)
(* what its member owns, and that may be or hold the very unique_ptr that  *)
(* is at work: objects can own each other.                                 *)
(*                                                                         *)
(* A place names the unique_ptr that it holds: a variable, or the member   *)
(* of the object in that block.                                            *)
(***************************************************************************)
EXTENDS Holder

CONSTANT StatefulDeleter   (* is there state in the deleter that is moved?  *)

(* ptr_ of each unique_ptr.                                                *)
TypeOK ==
  /\ mem \in Memories
  /\ obj \in [Blocks -> Nodes \cup {Null, Gone}]

SetPtr(r, p, b) == [r EXCEPT !.o = [@ EXCEPT ![p] = b]]

-----------------------------------------------------------------------------
(* reset up to its call of the deleter: ptr_ is b already, and the old      *)
(* object is still to go.                                                  *)
Superseded(r, p, b) == [r |-> SetPtr(r, p, b), next |-> r.o[p]]

(* default_delete: the life of the object is over, then its member is      *)
(* reset, and when that has returned the block is freed. The reset may     *)
(* delete an object in turn: `open' are the calls that have not returned,  *)
(* `next' is what the innermost one is to delete first.                    *)
Entered(s) ==
  LET b     == s.next
      dying == [s.r EXCEPT !.m = DestroyIn(@, b)]
      reset == IF dying.m.fault THEN [r |-> dying, next |-> Null]
               ELSE Superseded(dying, b, Null)
  IN [r |-> reset.r, next |-> reset.next, open |-> Append(s.open, b)]

Returned(s) ==
  LET b     == s.open[Len(s.open)]
      freed == [s.r EXCEPT !.m = Deallocate(@, b, 1)]
  IN [r |-> SetPtr(freed, b, Gone), next |-> Null, open |-> SubSeq(s.open, 1, Len(s.open) - 1)]

Deleting(s) ==
  IF s.next # Null THEN Entered(s) ELSE IF s.open # <<>> THEN Returned(s) ELSE s

(* Bound: a call for each object, each entered and left, and one that      *)
(* finds its object gone.                                                  *)
MaxCalls == 2 * (Cardinality(Nodes) + 1)

DeleteObject(r, b) ==
  LET run[i \in 0 .. MaxCalls] ==
        IF i = 0 THEN [r |-> r, next |-> b, open |-> <<>>] ELSE Deleting(run[i - 1])
  IN run[MaxCalls].r

(* Mutant: the old object goes while ptr_ still points to it.              *)
ResetLate(r, p, b) ==
  SetPtr(IF r.o[p] = Null THEN r ELSE DeleteObject(r, r.o[p]), p, b)

(* reset(b): the deletion of the old object may end the life of p.         *)
ResetTo(r, p, b) ==
  LET set == Superseded(r, p, b)
  IN IF set.next = Null THEN set.r ELSE DeleteObject(set.r, set.next)

Release(r, p) == SetPtr(r, p, Null)

(* reset(r.release()), and then the deleter of q is moved to that of p.    *)
MoveTo(r, p, q) ==
  LET moved == ResetTo(Release(r, q), p, r.o[q])
      alive == moved.o[p] # Gone /\ moved.o[q] # Gone
  IN [moved EXCEPT !.m = Require(@, StatefulDeleter => alive)]

(* make_unique: an object whose member is empty.                           *)
MakeUnique(r, p, x) ==
  LET b == NewNode(r.m)
  IN ResetTo(SetPtr([r EXCEPT !.m = NewValue(@, b, x)], b, Null), p, b)

(* The value that a unique_ptr points to.                                  *)
Shows(r, p) == IF r.o[p] = Null THEN Null ELSE Read(r.m, Value(r.o[p]))

-----------------------------------------------------------------------------
(* A step on the member of an object is none of the variables'.            *)
EndsAt(r, p, what, x) ==
  Ends(r, IF p \in Variables THEN what ELSE "keep", x, FALSE)

DefaultConstruct(v) ==
  /\ Unborn(v)
  /\ Ends(Born(Now, v, Null), "construct", Null, FALSE)

Destruct(v) ==
  /\ Alive(v)
  /\ Ends(Dead(ResetTo(Now, v, Null), v), "destroy", Null, FALSE)

(* v begins its life with what q owns.                                     *)
MoveConstruct(v, q) ==
  /\ Unborn(v) /\ Alive(q)
  /\ Ends(Release(Born(Now, v, obj[q]), q),
          IF q \in Variables THEN "take" ELSE "construct", Shows(Now, q), FALSE)

(* A new object takes the place of the old one, or its constructor throws. *)
Make(p, x) ==
  /\ Alive(p)
  /\ Room
  /\ \/ EndsAt(MakeUnique(Now, p, x), p, "set", x)
     \/ Ends([Now EXCEPT !.m = Unused(@, NewNode(@))], "set", x, TRUE)

Reset(p) ==
  /\ Alive(p)
  /\ EndsAt(ResetTo(Now, p, Null), p, "set", Null)

MoveAssign(p, q) ==
  /\ Alive(p) /\ Alive(q)
  /\ LET moved == MoveTo(Now, p, q)
     IN IF p \in Variables
        THEN Ends(moved, IF q \in Variables THEN "take" ELSE "set", Shows(Now, q), FALSE)
        ELSE EndsAt(moved, q, "set", Null)

Swap(p, q) ==
  /\ Alive(p) /\ Alive(q)
  /\ LET swapped == SetPtr(SetPtr(Now, p, obj[q]), q, obj[p])
     IN IF q \in Variables THEN EndsAt(swapped, p, "swap", Null) /\ p \in Variables
        ELSE EndsAt(swapped, p, "set", Shows(Now, q))

Next ==
  \/ \E v \in Variables :
       \/ DefaultConstruct(v) \/ Destruct(v)
       \/ \E q \in Blocks : MoveConstruct(v, q)
  \/ \E p \in Blocks :
       \/ Reset(p)
       \/ \E x \in Values : Make(p, x)
       \/ \E q \in Blocks : MoveAssign(p, q) \/ Swap(p, q)

-----------------------------------------------------------------------------
Owns(p)    == {obj[p]} \ {Null}
Matches(p) == p \in Nodes => p \in Allocated(mem)
=============================================================================
