----------------------------- MODULE MCSequences -----------------------------
(***************************************************************************)
(* Instances of the sequence containers for TLC. A behaviour is one of one *)
(* kind of container; the kinds share the memory, the variables and what   *)
(* is promised of them.                                                   *)
(***************************************************************************)
EXTENDS Container, FiniteSets

CONSTANTS
  Kinds,               (* the classes of this run                            *)
  RingCapacity,        (* MaxCapacity of a circular_buffer                   *)
  ReserveNothing, SubarraySize, InsertInputs,
  MoveEmpty

(* With blocks of one or two cells the first emplace_front of a deque      *)
(* leaves end() outside of the only block.                                 *)
ASSUME SequencesAssumption ==
  /\ {ReserveNothing, InsertInputs, MoveEmpty} \subseteq BOOLEAN
  /\ SubarraySize \in Nat /\ SubarraySize >= 3
  /\ RingCapacity \in Nat

VARIABLES
  kind,    (* the class                                                     *)
  shown    (* what the memory shows of each variable: a history variable    *)

mcVars == <<mem, obj, call, kind, shown>>

V == INSTANCE Vector
S == INSTANCE SplitBuffer
C == INSTANCE CircularBuffer WITH MaxCapacity <- RingCapacity
D == INSTANCE Deque
O == INSTANCE DeprecatedDeque
L == INSTANCE List
F == INSTANCE ForwardList

(* What the last call was is nothing the next one asks for, and which of   *)
(* the blocks hold the elements is nothing a call depends on: states that  *)
(* differ in no more are one state. The properties see every step.         *)
CellsOf(b) == IF b \in Blocks THEN mem.cells[b] ELSE <<>>

Anonymous(v) ==
  LET o == obj[v] IN
  IF o = Gone THEN Gone ELSE
  CASE kind = "vector" -> <<o.end, o.cap, CellsOf(o.begin)>>
    [] kind \in {"deque", "old_deque"} ->
         <<o.begin, o.size, [i \in DOMAIN o.map |-> CellsOf(o.map[i])]>>
    [] kind = "list" -> <<o.size, shown[v], L!InPlace(v)>>
    [] kind = "forward_list" -> <<shown[v], F!InPlace(v)>>
    [] OTHER -> <<[o EXCEPT !.block = Null], CellsOf(o.block)>>

Shape == <<kind, mem.fault, Cardinality(Allocated(mem)), [v \in Objects |-> Anonymous(v)]>>

(* The sequence that memory m shows of variable v, when o are the members  *)
(* of all variables.                                                       *)
Shown(m, o, v) ==
  IF o[v] = Gone THEN Gone ELSE
  CASE kind = "vector"       -> V!Contents(m, o[v])
    [] kind = "split_buffer" -> S!Contents(m, o[v])
    [] kind = "circular_buffer" -> C!Contents(m, o[v])
    [] kind = "deque"        -> D!Contents(m, o[v])
    [] kind = "old_deque"    -> O!Contents(m, o[v])
    [] kind = "list"         -> L!Contents(At(m, o), v)
    [] kind = "forward_list" -> F!Contents(At(m, o), v)

MCInit ==
  /\ Init
  /\ kind \in Kinds
  /\ shown = [v \in Objects |-> Gone]

MCNext ==
  /\ UNCHANGED kind
  /\ \/ kind = "vector" /\ V!Next
     \/ kind = "split_buffer" /\ S!Next
     \/ kind = "circular_buffer" /\ C!Next
     \/ kind = "deque" /\ D!Next
     \/ kind = "old_deque" /\ O!Next
     \/ kind = "list" /\ L!Next
     \/ kind = "forward_list" /\ F!Next
  /\ shown' = [v \in Objects |-> Shown(mem', obj', v)]

MCSpec == MCInit /\ [][MCNext]_mcVars

-----------------------------------------------------------------------------
(* Members, memory and the last call have the types of their kind.         *)
TypeOK ==
  CASE kind = "vector"       -> V!TypeOK
    [] kind = "split_buffer" -> S!TypeOK
    [] kind = "circular_buffer" -> C!TypeOK
    [] kind = "deque"        -> D!TypeOK
    [] kind = "old_deque"    -> O!TypeOK
    [] kind = "list"         -> L!TypeOK
    [] kind = "forward_list" -> F!TypeOK

(* The elements live where begin_ and end_ say they do, and none of them   *)
(* is one that was moved from.                                             *)
ElementsInPlace == \A v \in Objects : obj[v] # Gone =>
  CASE kind = "vector"       -> V!InPlace(v)
    [] kind = "split_buffer" -> S!InPlace(v)
    [] kind = "circular_buffer" -> C!InPlace(v)
    [] kind = "deque"        -> D!InPlace(v)
    [] kind = "old_deque"    -> O!InPlace(v)
    [] kind = "list"         -> L!InPlace(v)
    [] kind = "forward_list" -> F!InPlace(v)

(* Every allocated block belongs to exactly one variable: nothing leaks    *)
(* and nothing is shared.                                                  *)
Storage(v) ==
  IF obj[v] = Gone THEN {} ELSE
  CASE kind = "vector"       -> V!Storage(v)
    [] kind = "split_buffer" -> S!Storage(v)
    [] kind = "circular_buffer" -> C!Storage(v)
    [] kind = "deque"        -> D!Storage(v)
    [] kind = "old_deque"    -> O!Storage(v)
    [] kind = "list"         -> L!Storage(v)
    [] kind = "forward_list" -> F!Storage(v)

StorageOwned ==
  /\ Allocated(mem) = UNION {Storage(v) : v \in Objects}
  /\ \A v, w \in Objects : v # w => Storage(v) \cap Storage(w) = {}

(* What the memory shows of the variables is sequences, and every call     *)
(* does to them what it promises: one that throws out of emplace, insert,  *)
(* resize or reserve does nothing.                                         *)
Seqs == INSTANCE SequenceContainer WITH Containers <- Objects, contents <- shown

ImplementsSequences == Seqs!SeqSpec
=============================================================================
