-------------------------------- MODULE Holder --------------------------------
(***************************************************************************)
(* What the classes have in common that hold one value: variables whose    *)
(* value lives in a buffer inside them or in a block of the heap.          *)
(*                                                                         *)
(* A place of memory is a block of one cell. The buffer of a variable is   *)
(* the place that has the variable's name, and exists while the variable   *)
(* does; Nodes are what the allocator hands out. Temp and Spare are the    *)
(* temporaries of the member functions. The state of a call is the memory  *)
(* m and the members o of everything that lives.                           *)
(***************************************************************************)
EXTENDS Heap, FiniteSets

CONSTANTS
  Variables,     (* the program's variables of the class                   *)
  Temp, Spare,   (* the variables of member functions                      *)
  Nodes,         (* heap blocks                                            *)
  Small,         (* the values of a small type: one that fits into the     *)
                 (* buffer and does not throw when it is moved             *)
  Gone,          (* outside its lifetime                                   *)
  AssignThrows   (* may an element throw inside an assignment that has     *)
                 (* overwritten the members before?                        *)

ASSUME HolderAssumption ==
  /\ Blocks = Variables \cup {Temp, Spare} \cup Nodes
  /\ Nodes \cap (Variables \cup {Temp, Spare}) = {}
  /\ {Temp, Spare} \cap Variables = {} /\ Temp # Spare
  /\ IsFiniteSet(Nodes)
  /\ Small \subseteq Values
  /\ AssignThrows \in BOOLEAN

VARIABLES
  mem,    (* the memory                                                    *)
  obj,    (* the members of every variable                                 *)
  call    (* the last call: what, the value it brings, whether it threw    *)

vars == <<mem, obj, call>>

(* An empty variable shows Null.                                           *)
Init ==
  /\ mem = NoMemory
  /\ obj = [b \in Blocks |-> Gone]
  /\ call = <<"keep", Null, FALSE>>

At(m, o) == [m |-> m, o |-> o]
Now      == At(mem, obj)
Unborn(v) == ~mem.fault /\ obj[v] = Gone
Alive(v)  == ~mem.fault /\ obj[v] # Gone

Ends(r, what, x, threw) == mem' = r.m /\ obj' = r.o /\ call' = <<what, x, threw>>

(* A variable comes and goes together with its buffer. A destructor leaves *)
(* no object in it.                                                        *)
Born(r, v, members) ==
  At(Allocate(r.m, v, 1), [b \in Blocks |-> IF b = v THEN members ELSE r.o[b]])
Dead(r, v) ==
  At(Deallocate(r.m, v, 1), [b \in Blocks |-> IF b = v THEN Gone ELSE r.o[b]])

(* The types of the values, and how they are held.                         *)
Kind(x) == IF x \in Small THEN "small" ELSE "large"
Kinds   == {"small", "large"}

(* The value of one place.                                                 *)
ConstructIn(m, b, a) ==
  Construct(Require(m, Readable(m, a)), b, 0, <<Read(m, a)>>)
DestroyIn(m, b) == Destroy(m, b, 0, 1)
Value(b)        == Ref(b, 0)

(* One object in a heap block, and out again.                              *)
FreeNodes(m)  == Free(m) \cap Nodes
NewNode(m)    == CHOOSE b \in FreeNodes(m) : TRUE
AllocateOne(m, b) == Allocate(m, b, 1)
NewValue(m, b, a) == ConstructIn(AllocateOne(m, b), b, a)
Unused(m, b)      == Deallocate(AllocateOne(m, b), b, 1)
DeleteValue(m, b) == Deallocate(DestroyIn(m, b), b, 1)

(* Bound: nothing is created when the heap is full.                        *)
Room == FreeNodes(mem) # {}

(* What a call brings along: a value or a reference to one that is held.   *)
Held  == {Value(b) : b \in {c \in Allocated(mem) : mem.cells[c][1] \in Values}}
Given == Values \cup Held
=============================================================================
