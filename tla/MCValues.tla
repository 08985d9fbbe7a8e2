------------------------------- MODULE MCValues -------------------------------
(***************************************************************************)
(* Instances of the classes that hold one value, for TLC. A behaviour is   *)
(* one of one class; the classes share the memory and what is promised.    *)
(***************************************************************************)
EXTENDS Holder

CONSTANTS Classes, Default, AliasAssign, StatefulDeleter

ASSUME ValuesAssumption ==
  /\ Classes \subseteq {"any", "function", "variant", "unique_ptr"}
  /\ Default \in Small
  /\ AliasAssign \in BOOLEAN /\ StatefulDeleter \in BOOLEAN

VARIABLES
  class,   (* the class of the variables                                   *)
  shown    (* what each variable holds: a history variable                 *)

mcVars == <<mem, obj, call, class, shown>>

A == INSTANCE Any
F == INSTANCE Function
V == INSTANCE Variant
U == INSTANCE UniquePtr

(* The constants are told apart: no variable outside its lifetime looks    *)
(* like one that lives, nullptr is no value, and an address is none.       *)
ToldApart ==
  /\ Gone \notin Values \cup Blocks \cup {Moved, Null}
  /\ Gone \notin A!Members \cup V!Members
  /\ Null \notin Values \cup Kinds \cup {Moved}
  /\ \A b \in Blocks : Value(b) \notin Values

ASSUME ToldApartAssumption == ToldApart

(* The properties see every step; what the last call was is no part of a   *)
(* state.                                                                  *)
Holding == <<mem, obj, class>>

Shown(r, v) ==
  IF r.o[v] = Gone THEN Gone ELSE
  CASE class = "any"        -> A!Shows(r, v)
    [] class = "function"   -> F!Shows(r, v)
    [] class = "variant"    -> V!Shows(r, v)
    [] class = "unique_ptr" -> U!Shows(r, v)

MCInit ==
  /\ Init
  /\ class \in Classes
  /\ shown = [v \in Variables |-> Gone]

MCNext ==
  /\ UNCHANGED class
  /\ \/ class = "any" /\ A!Next
     \/ class = "function" /\ F!Next
     \/ class = "variant" /\ V!Next
     \/ class = "unique_ptr" /\ U!Next
  /\ shown' = [v \in Variables |-> Shown(At(mem', obj'), v)]

MCSpec == MCInit /\ [][MCNext]_mcVars

-----------------------------------------------------------------------------
(* Members, memory and the last call have the types of their class, and no *)
(* temporary of a member function outlives it.                             *)
TypeOK ==
  /\ CASE class = "any"        -> A!TypeOK
       [] class = "function"   -> F!TypeOK
       [] class = "variant"    -> V!TypeOK
       [] class = "unique_ptr" -> U!TypeOK
  /\ call[1] \in {"keep", "construct", "destroy", "copy", "take", "swap", "set", "replace"}
  /\ {Temp, Spare} \cap Allocated(mem) = {} /\ obj[Temp] = Gone /\ obj[Spare] = Gone

Living  == {p \in Blocks : obj[p] # Gone}
Objects == {b \in Allocated(mem) : mem.cells[b] # <<Raw>>}

Owns(p) ==
  CASE class = "any"        -> A!Owns(p)
    [] class = "function"   -> F!Owns(p)
    [] class = "variant"    -> V!Owns(p)
    [] class = "unique_ptr" -> U!Owns(p)

Matches(p) ==
  CASE class = "any"        -> A!Matches(p)
    [] class = "function"   -> F!Matches(p)
    [] class = "variant"    -> V!Matches(p)
    [] class = "unique_ptr" -> U!Matches(p)

(* Nothing is destroyed twice, read after its life or constructed over;    *)
(* every object that lives, in a buffer or on the heap, is owned by one    *)
(* variable or member and by no other one; no block is kept without an     *)
(* object; and what a variable takes its value for is what it is.          *)
OwnedOnce ==
  /\ ~mem.fault
  /\ Objects = UNION {Owns(p) : p \in Living}
  /\ \A p, q \in Living : p # q => Owns(p) \cap Owns(q) = {}
  /\ Allocated(mem) \cap Nodes \subseteq Objects
  /\ \A p \in Living : Matches(p)

(* To the outside a variable holds one value or nothing: assigning a value *)
(* that it holds itself is no different from assigning any other one, a    *)
(* throw leaves the old value (or nothing, after emplace and in the copy   *)
(* assignment of a function), and nothing but the call that names it       *)
(* changes a variable.                                                     *)
Optionals == INSTANCE OptionalValue WITH
  Holders <- Variables, Nothing <- Null, contents <- shown

ImplementsOptional == Optionals!OptSpec
=============================================================================
