------------------------------ MODULE Container ------------------------------
(***************************************************************************)
(* What the sequence containers have in common: variables of the container *)
(* type over one memory, and how a call of a member function ends.         *)
(*                                                                         *)
(* A member function is one action: the classes are not meant to be shared *)
(* between threads. What makes it hard is that an allocation or a copy of  *)
(* an element may throw anywhere in it, so that every function has the     *)
(* outcomes it has in the code: it completes, or it is left at a throw     *)
(* with what it had done until then undone, or not.                        *)
(*                                                                         *)
(* Functions are written as the code writes them, as operators from a      *)
(* state of the call, a pair of the memory m and the container o, to the   *)
(* next one. Elements do not throw when they are moved: the classes assert *)
(* it of the element type.                                                 *)
(***************************************************************************)
EXTENDS Heap, Removal

CONSTANTS
  Objects,       (* variables of the container type                        *)
  Default,       (* the value of a value-initialized element               *)
  Gone,          (* a variable outside its lifetime                        *)
  MaxCapacity,   (* bound: allocations beyond it are not tried             *)
  MaxRange,      (* bound: elements a call brings along                    *)
  Constructing,  (* may an element throw inside a constructor?             *)
  StaleArguments (* may an argument refer to an element that moves before  *)
                 (* the argument is read?                                  *)

ASSUME ContainerAssumption ==
  /\ Default \in Values
  /\ MaxCapacity \in Nat /\ MaxRange \in Nat
  /\ Constructing \in BOOLEAN /\ StaleArguments \in BOOLEAN

VARIABLES
  mem,    (* the memory                                                    *)
  obj,    (* the members of each variable                                  *)
  call    (* the last call: what it does, where, with which elements, and  *)
          (* whether it threw                                              *)

vars == <<mem, obj, call>>

Calls == {"construct", "destroy", "assign", "insert", "erase", "remove", "keep",
          "take", "swap"}
CallOK == call \in [what : Calls, at : Nat, to : Nat, with : Seq(Values), threw : BOOLEAN]

(* A call that was made; brings the elements s to the position at; cuts    *)
(* the elements from first up to last out; or was left at a throw.         *)
Made(what)           == [what |-> what, at |-> 0, to |-> 0, with |-> <<>>, threw |-> FALSE]
Brought(what, at, s) == [Made(what) EXCEPT !.at = at, !.to = at, !.with = s]
Cut(first, last)     == [Made("erase") EXCEPT !.at = first, !.to = last]
Threw(what)          == [Made(what) EXCEPT !.threw = TRUE]

Init ==
  /\ mem = NoMemory
  /\ obj = [v \in Objects |-> Gone]
  /\ call = Made("keep")

(* The inputs: sequences of at most MaxRange values.                       *)
Ranges == UNION {[1 .. n -> Values] : n \in 0 .. MaxRange}

(* An allocation returns a block that is free; one that returns at all is  *)
(* within the bound.                                                       *)
NewBlock(m)    == CHOOSE b \in Blocks : b \in Free(m)
Allocatable(n) == n <= MaxCapacity

-----------------------------------------------------------------------------
(* The state of a call.                                                    *)
At(m, o) == [m |-> m, o |-> o]

(* A program that met undefined behaviour has no next step.                *)
Unborn(v) == ~mem.fault /\ obj[v] = Gone
Alive(v)  == ~mem.fault /\ obj[v] # Gone
Here(v)   == At(mem, obj[v])

Finish(v, r) ==
  /\ mem' = r.m
  /\ obj' = [obj EXCEPT ![v] = r.o]

Completes(v, r, what)     == Finish(v, r) /\ call' = Made(what)
Brings(v, r, what, at, s) == Finish(v, r) /\ call' = Brought(what, at, s)
Cuts(v, r, first, last)   == Finish(v, r) /\ call' = Cut(first, last)
Throws(v, r, what)        == Finish(v, r) /\ call' = Threw(what)

-----------------------------------------------------------------------------
(* No step is undefined behaviour: nothing is freed twice or with objects  *)
(* in it, no element is destroyed twice or constructed over, nothing is    *)
(* read where no object lives, and every CIEL_PRECONDITION holds.          *)
NoFault == ~mem.fault
=============================================================================
