------------------------------ MODULE SharedPtr ------------------------------
(***************************************************************************)
(* The reference counting of ciel::shared_ptr, ciel::weak_ptr and          *)
(* ciel::enable_shared_from_this.                                          *)
(*                                                                         *)
(* Threads run the member functions of shared pointer variables. A member  *)
(* function is a chain of atomic read-modify-writes on the two counters of *)
(* a control block, so it is a chain of actions here, one per access to a  *)
(* counter, with the thread-local work of the function folded into the     *)
(* neighbouring access. Every assignment of the class is written           *)
(* `temporary(r).swap( *this)': the temporary is tmp[t], the constructor   *)
(* fills it, the swap exchanges it with the target and the destructor      *)
(* releases what the target held before.                                   *)
(*                                                                         *)
(* The atomics are sequentially consistent here (see the README).          *)
(***************************************************************************)
EXTENDS Integers, FiniteSets

CONSTANTS
  Threads,      (* threads of the client program                           *)
  SharedVars,   (* variables of type shared_ptr                            *)
  WeakVars,     (* variables of type weak_ptr                              *)
  Objects,      (* managed objects; a control block is named by its object *)
  Null,         (* nullptr                                                 *)
  Enabled,      (* objects that derive from enable_shared_from_this        *)
  Lockers,      (* threads that call weak_ptr::lock                        *)
  Promoters,    (* threads that construct a shared_ptr from a weak_ptr     *)
  Cloners,      (* threads that copy objects of Enabled                    *)
  Assigners,    (* threads that move objects of Enabled and assign to them *)
  MaxOverdrawn  (* bound: see Followed                                     *)

Vars   == SharedVars \cup WeakVars
Object == Objects \cup {Null}

ASSUME FiniteAssumption ==
  /\ IsFiniteSet(Threads)
  /\ IsFiniteSet(SharedVars)
  /\ IsFiniteSet(WeakVars)
  /\ IsFiniteSet(Objects)

(* A reference is named by who holds it: a variable, a thread's temporary  *)
(* or an object's weak_this_.                                              *)
ASSUME DistinctAssumption ==
  /\ Null \notin Threads \cup Vars \cup Objects
  /\ SharedVars \cap WeakVars = {}
  /\ Threads \cap (Vars \cup Objects) = {}
  /\ Vars \cap Objects = {}

ASSUME ClientAssumption ==
  /\ Enabled \subseteq Objects
  /\ Lockers \subseteq Threads
  /\ Promoters \subseteq Threads
  /\ Cloners \subseteq Threads
  /\ Assigners \subseteq Threads
  /\ MaxOverdrawn \in Nat

VARIABLES
  count_,                   (* the control block each variable refers to   *)
  weak_this_,               (* the same for the weak_this_ of each object  *)
  shared_count_,            (* per control block                           *)
  shared_and_weak_count_,   (* per control block                           *)
  block,                    (* memory of each control block                *)
  object,                   (* life of each managed object                 *)
  left_,                    (* what a destroyed weak_this_ still shows     *)
  overdrawn,                (* history: units released a second time       *)
  pc,                       (* what each thread still owes                 *)
  tmp,                      (* control block of each thread's temporary    *)
  src,                      (* variable each thread is reading             *)
  dst                       (* variable each thread is writing             *)

counters   == <<shared_count_, shared_and_weak_count_>>
threadVars == <<pc, tmp, src, dst>>
remains    == <<left_, overdrawn>>
vars == <<count_, weak_this_, counters, block, object, remains, threadVars>>

Blocks == {"none", "live", "freed"}
Lives  == {"none", "alive", "dead", "dead twice"}
Steps  == {"idle", "addTotal", "promote", "release", "destroy", "dropSelf",
           "decTotal"}

TypeOK ==
  /\ count_ \in [Vars -> Object]
  /\ weak_this_ \in [Objects -> Object]
  /\ shared_count_ \in [Objects -> Nat]
  /\ shared_and_weak_count_ \in [Objects -> Int]
  /\ overdrawn \in [Objects -> Nat]
  /\ \A o \in Objects : shared_and_weak_count_[o] + overdrawn[o] >= 0
  /\ block \in [Objects -> Blocks]
  /\ object \in [Objects -> Lives]
  /\ left_ \in [Objects -> Object]
  /\ pc \in [Threads -> Steps]
  /\ tmp \in [Threads -> Object]
  /\ src \in [Threads -> Vars \cup {Null}]
  /\ dst \in [Threads -> SharedVars \cup {Null}]

Init ==
  /\ count_ = [v \in Vars |-> Null]
  /\ weak_this_ = [o \in Objects |-> Null]
  /\ shared_count_ = [o \in Objects |-> 0]
  /\ shared_and_weak_count_ = [o \in Objects |-> 0]
  /\ block = [o \in Objects |-> "none"]
  /\ object = [o \in Objects |-> "none"]
  /\ left_ = [o \in Objects |-> Null]
  /\ overdrawn = [o \in Objects |-> 0]
  /\ pc = [t \in Threads |-> "idle"]
  /\ tmp = [t \in Threads |-> Null]
  /\ src = [t \in Threads |-> Null]
  /\ dst = [t \in Threads |-> Null]

-----------------------------------------------------------------------------
(* The client obeys the rule of the language for unsynchronised variables: *)
(* a variable that is being written is not read or written elsewhere, a    *)
(* variable that is being read is not written elsewhere.                   *)
Readable(v) == \A t \in Threads : dst[t] # v
Writable(v) == \A t \in Threads : dst[t] # v /\ src[t] # v

(* It calls member functions of a managed object only while that lives.    *)
Pointee(s) == count_[s] \in Enabled /\ object[count_[s]] = "alive"

(* swap of the temporary, which refers to o, with variable d, followed by  *)
(* the start of the temporary's destructor.                                *)
SwapIn(t, d, o, next) ==
  /\ count_' = [count_ EXCEPT ![d] = o]
  /\ tmp' = [tmp EXCEPT ![t] = count_[d]]
  /\ pc' = [pc EXCEPT ![t] = IF count_[d] = Null THEN "idle" ELSE next]

(* Read-modify-writes on the counters of block o.                          *)
IncShared(o) == shared_count_' = [shared_count_ EXCEPT ![o] = @ + 1]
DecShared(o) == shared_count_' = [shared_count_ EXCEPT ![o] = @ - 1]
IncTotal(o) ==
  shared_and_weak_count_' = [shared_and_weak_count_ EXCEPT ![o] = @ + 1]

(* shared_and_weak_count_release: the thread that takes the count to zero  *)
(* frees the control block.                                                *)
TotalRelease(o) ==
  /\ shared_and_weak_count_' = [shared_and_weak_count_ EXCEPT ![o] = @ - 1]
  /\ block' = [block EXCEPT ![o] =
                 IF shared_and_weak_count_[o] = 1 THEN "freed" ELSE @]

(* add_ref, first half: the thread remembers the block in its temporary    *)
(* and still owes the second counter.                                      *)
AddRef(t, o, s, d) ==
  /\ IncShared(o)
  /\ tmp' = [tmp EXCEPT ![t] = o]
  /\ src' = [src EXCEPT ![t] = s]
  /\ dst' = [dst EXCEPT ![t] = d]
  /\ pc' = [pc EXCEPT ![t] = "addTotal"]
  /\ UNCHANGED <<count_, weak_this_, shared_and_weak_count_, block, object,
                 remains>>

(* The result is empty: nothing is counted.                                *)
AssignEmpty(t, d) ==
  /\ SwapIn(t, d, Null, "release")
  /\ UNCHANGED <<weak_this_, counters, block, object, remains, src, dst>>

-----------------------------------------------------------------------------
(* Birth of objects and control blocks.                                    *)

(* The client evaluates `new T'.                                           *)
New(t, o) ==
  /\ pc[t] = "idle"
  /\ object[o] = "none"
  /\ object' = [object EXCEPT ![o] = "alive"]
  /\ UNCHANGED <<count_, weak_this_, counters, block, remains, threadVars>>

(* The client evaluates `new T( *s)': the defaulted copy constructor of     *)
(* enable_shared_from_this copies weak_this_.                              *)
Clone(t, s, o) ==
  /\ pc[t] = "idle"
  /\ t \in Cloners
  /\ Readable(s) /\ Pointee(s)
  /\ o \in Enabled /\ object[o] = "none"
  /\ LET p == weak_this_[count_[s]] IN
       /\ weak_this_' = [weak_this_ EXCEPT ![o] = p]
       /\ IF p = Null THEN UNCHANGED shared_and_weak_count_ ELSE IncTotal(p)
  /\ object' = [object EXCEPT ![o] = "alive"]
  /\ UNCHANGED <<count_, shared_count_, block, remains, threadVars>>

(* It writes to an object while no thread reads a variable that refers to  *)
(* it: moves and assigns to it, or moves it.                               *)
Unread(o) == \A t \in Threads : src[t] # Null => count_[src[t]] # o

(* The client evaluates `new T(std::move( *s))'.                            *)
MoveClone(t, s, o) ==
  /\ pc[t] = "idle"
  /\ t \in Assigners
  /\ Readable(s) /\ Pointee(s) /\ Unread(count_[s])
  /\ o \in Enabled /\ object[o] = "none"
  /\ weak_this_' = [weak_this_ EXCEPT ![o] = weak_this_[count_[s]],
                                      ![count_[s]] = Null]
  /\ object' = [object EXCEPT ![o] = "alive"]
  /\ UNCHANGED <<count_, counters, block, remains, threadVars>>

(* The client evaluates `*d = *s': weak_this_ is assigned to.              *)
AssignObject(t, s, d) ==
  /\ pc[t] = "idle"
  /\ t \in Assigners
  /\ Readable(s) /\ Pointee(s)
  /\ Readable(d) /\ Pointee(d) /\ Unread(count_[d])
  /\ LET p   == weak_this_[count_[s]]
         old == weak_this_[count_[d]]
     IN /\ IF p = Null THEN UNCHANGED shared_and_weak_count_ ELSE IncTotal(p)
        /\ weak_this_' = [weak_this_ EXCEPT ![count_[d]] = p]
        /\ tmp' = [tmp EXCEPT ![t] = old]
        /\ pc' = [pc EXCEPT ![t] = IF old = Null THEN "idle" ELSE "decTotal"]
  /\ UNCHANGED <<count_, shared_count_, block, object, remains, src, dst>>

(* The client evaluates `*d = std::move( *s)'.                              *)
MoveAssignObject(t, s, d) ==
  /\ pc[t] = "idle"
  /\ t \in Assigners
  /\ count_[s] # count_[d]
  /\ Readable(s) /\ Pointee(s) /\ Unread(count_[s])
  /\ Readable(d) /\ Pointee(d) /\ Unread(count_[d])
  /\ LET old == weak_this_[count_[d]]
     IN /\ weak_this_' = [weak_this_ EXCEPT ![count_[d]] = weak_this_[count_[s]],
                                            ![count_[s]] = Null]
        /\ tmp' = [tmp EXCEPT ![t] = old]
        /\ pc' = [pc EXCEPT ![t] = IF old = Null THEN "idle" ELSE "decTotal"]
  /\ UNCHANGED <<count_, counters, block, object, remains, src, dst>>

Raw(o) == object[o] = "alive" /\ block[o] = "none"

Expired(p) == p = Null \/ shared_count_[p] = 0

(* Mutant: the constructor forgets enable_weak_this.                       *)
AdoptForgetsSelf(t, d, o) ==
  /\ pc[t] = "idle"
  /\ Writable(d) /\ count_[d] = Null
  /\ Raw(o)
  /\ count_' = [count_ EXCEPT ![d] = o]
  /\ block' = [block EXCEPT ![o] = "live"]
  /\ shared_count_' = [shared_count_ EXCEPT ![o] = 1]
  /\ shared_and_weak_count_' = [shared_and_weak_count_ EXCEPT ![o] = 1]
  /\ UNCHANGED <<weak_this_, object, remains, threadVars>>

(* The constructors from a raw pointer and from a unique_ptr: a control    *)
(* block with both counters at one, then enable_weak_this, whose temporary *)
(* shared_ptr nobody else can see. What weak_this_ held before is released *)
(* last.                                                                   *)
Adopt(t, d, o) ==
  /\ pc[t] = "idle"
  /\ Writable(d) /\ count_[d] = Null
  /\ Raw(o)
  /\ count_' = [count_ EXCEPT ![d] = o]
  /\ block' = [block EXCEPT ![o] = "live"]
  /\ shared_count_' = [shared_count_ EXCEPT ![o] = 1]
  /\ IF o \in Enabled /\ Expired(weak_this_[o])
     THEN /\ weak_this_' = [weak_this_ EXCEPT ![o] = o]
          /\ shared_and_weak_count_' = [shared_and_weak_count_ EXCEPT ![o] = 2]
          /\ tmp' = [tmp EXCEPT ![t] = weak_this_[o]]
          /\ pc' = [pc EXCEPT ![t] =
                      IF weak_this_[o] = Null THEN "idle" ELSE "decTotal"]
     ELSE /\ shared_and_weak_count_' = [shared_and_weak_count_ EXCEPT ![o] = 1]
          /\ UNCHANGED <<weak_this_, tmp, pc>>
  /\ UNCHANGED <<object, remains, src, dst>>

(* alloc_control_block throws in a constructor from a raw pointer: the     *)
(* holder destroys the object, and with it its weak_this_.                 *)
AdoptFails(t, o) ==
  /\ pc[t] = "idle"
  /\ Raw(o)
  /\ object' = [object EXCEPT ![o] = "dead"]
  /\ weak_this_' = [weak_this_ EXCEPT ![o] = Null]
  /\ tmp' = [tmp EXCEPT ![t] = weak_this_[o]]
  /\ pc' = [pc EXCEPT ![t] =
              IF weak_this_[o] = Null THEN "idle" ELSE "decTotal"]
  /\ UNCHANGED <<count_, counters, block, remains, src, dst>>

-----------------------------------------------------------------------------
(* Member functions of shared_ptr.                                         *)

(* Copy construction, copy assignment and the aliasing constructor.        *)
CopyShared(t, s, d) ==
  /\ pc[t] = "idle"
  /\ Readable(s) /\ Writable(d)
  /\ IF count_[s] = Null THEN AssignEmpty(t, d) ELSE AddRef(t, count_[s], s, d)

(* Mutant: add_ref counts owners only.                                     *)
AddTotalForgotten(t) ==
  /\ pc[t] = "addTotal"
  /\ SwapIn(t, dst[t], tmp[t], "release")
  /\ src' = [src EXCEPT ![t] = Null]
  /\ dst' = [dst EXCEPT ![t] = Null]
  /\ UNCHANGED <<weak_this_, counters, block, object, remains>>

(* add_ref, second half, then the swap of the temporary with the target.   *)
AddTotal(t) ==
  /\ pc[t] = "addTotal"
  /\ IncTotal(tmp[t])
  /\ SwapIn(t, dst[t], tmp[t], "release")
  /\ src' = [src EXCEPT ![t] = Null]
  /\ dst' = [dst EXCEPT ![t] = Null]
  /\ UNCHANGED <<weak_this_, shared_count_, block, object, remains>>

(* Mutant: the source of a move keeps its pointer.                         *)
MoveSharedKeeps(t, s, d) ==
  /\ pc[t] = "idle"
  /\ s # d /\ Writable(s) /\ Writable(d)
  /\ SwapIn(t, d, count_[s], "release")
  /\ UNCHANGED <<weak_this_, counters, block, object, remains, src, dst>>

(* Move construction and move assignment.                                  *)
MoveShared(t, s, d) ==
  /\ pc[t] = "idle"
  /\ s # d /\ Writable(s) /\ Writable(d)
  /\ count_' = [count_ EXCEPT ![d] = count_[s], ![s] = Null]
  /\ tmp' = [tmp EXCEPT ![t] = count_[d]]
  /\ pc' = [pc EXCEPT ![t] = IF count_[d] = Null THEN "idle" ELSE "release"]
  /\ UNCHANGED <<weak_this_, counters, block, object, remains, src, dst>>

(* reset() and the destructor.                                             *)
ResetShared(t, d) ==
  /\ pc[t] = "idle"
  /\ Writable(d) /\ count_[d] # Null
  /\ AssignEmpty(t, d)

(* swap of two variables of one type.                                      *)
SwapVars(t, a, b) ==
  /\ pc[t] = "idle"
  /\ Writable(a) /\ Writable(b) /\ count_[a] # count_[b]
  /\ count_' = [count_ EXCEPT ![a] = count_[b], ![b] = count_[a]]
  /\ UNCHANGED <<weak_this_, counters, block, object, remains, threadVars>>

(* Mutant: the last but one owner runs the deleter already.                *)
ReleaseEarly(t) ==
  /\ pc[t] = "release"
  /\ DecShared(tmp[t])
  /\ pc' = [pc EXCEPT ![t] =
              IF shared_count_[tmp[t]] <= 2 THEN "destroy" ELSE "decTotal"]
  /\ UNCHANGED <<count_, weak_this_, shared_and_weak_count_, block, object,
                 remains, tmp, src, dst>>

(* Mutant: nobody runs the deleter.                                        *)
ReleaseSilent(t) ==
  /\ pc[t] = "release"
  /\ DecShared(tmp[t])
  /\ pc' = [pc EXCEPT ![t] = "decTotal"]
  /\ UNCHANGED <<count_, weak_this_, shared_and_weak_count_, block, object,
                 remains, tmp, src, dst>>

(* shared_count_release: the thread that takes the count to zero goes on   *)
(* to delete_pointer, the others to the second counter.                    *)
Release(t) ==
  /\ pc[t] = "release"
  /\ DecShared(tmp[t])
  /\ pc' = [pc EXCEPT ![t] =
              IF shared_count_[tmp[t]] = 1 THEN "destroy" ELSE "decTotal"]
  /\ UNCHANGED <<count_, weak_this_, shared_and_weak_count_, block, object,
                 remains, tmp, src, dst>>

(* delete_pointer runs the deleter on the object, whose destructor ends    *)
(* with that of weak_this_. ~weak_ptr does not null its pointer, so that a *)
(* second destruction finds the same block there.                          *)
Destroy(t) ==
  /\ pc[t] = "destroy"
  /\ LET o == tmp[t] IN
       IF object[o] = "alive"
       THEN /\ object' = [object EXCEPT ![o] = "dead"]
            /\ left_' = [left_ EXCEPT ![o] = weak_this_[o]]
            /\ pc' = [pc EXCEPT ![t] =
                        IF weak_this_[o] = Null THEN "decTotal" ELSE "dropSelf"]
       ELSE /\ object' = [object EXCEPT ![o] = "dead twice"]
            /\ pc' = [pc EXCEPT ![t] =
                        IF left_[o] = Null THEN "decTotal" ELSE "dropSelf"]
            /\ UNCHANGED left_
  /\ UNCHANGED <<count_, weak_this_, counters, block, overdrawn, tmp, src, dst>>

(* ~weak_ptr of weak_this_. A reference that is released already is        *)
(* released again.                                                         *)
DropSelf(t) ==
  /\ pc[t] = "dropSelf"
  /\ LET p == left_[tmp[t]] IN
       /\ TotalRelease(p)
       /\ overdrawn' = [overdrawn EXCEPT ![p] =
                          IF weak_this_[tmp[t]] = Null THEN @ + 1 ELSE @]
  /\ weak_this_' = [weak_this_ EXCEPT ![tmp[t]] = Null]
  /\ pc' = [pc EXCEPT ![t] = "decTotal"]
  /\ UNCHANGED <<count_, shared_count_, object, left_, tmp, src, dst>>

(* Mutant: a release leaves the second counter alone.                      *)
DecTotalForgotten(t) ==
  /\ pc[t] = "decTotal"
  /\ tmp' = [tmp EXCEPT ![t] = Null]
  /\ pc' = [pc EXCEPT ![t] = "idle"]
  /\ UNCHANGED <<count_, weak_this_, counters, block, object, remains, src,
                 dst>>

(* The last access a reference makes to its control block.                 *)
DecTotal(t) ==
  /\ pc[t] = "decTotal"
  /\ TotalRelease(tmp[t])
  /\ tmp' = [tmp EXCEPT ![t] = Null]
  /\ pc' = [pc EXCEPT ![t] = "idle"]
  /\ UNCHANGED <<count_, weak_this_, shared_count_, object, remains, src, dst>>

-----------------------------------------------------------------------------
(* Member functions of weak_ptr.                                           *)

(* Mutant: a weak reference is counted as an owner.                        *)
WeakAssignOwner(t, w, o) ==
  /\ IF o = Null THEN UNCHANGED counters
     ELSE IncShared(o) /\ IncTotal(o)
  /\ SwapIn(t, w, o, "decTotal")
  /\ UNCHANGED <<weak_this_, block, object, remains, src, dst>>

(* A weak_ptr variable w takes a reference to o; what it held is released. *)
WeakAssign(t, w, o) ==
  /\ IF o = Null THEN UNCHANGED shared_and_weak_count_ ELSE IncTotal(o)
  /\ SwapIn(t, w, o, "decTotal")
  /\ UNCHANGED <<weak_this_, shared_count_, block, object, remains, src, dst>>

(* Copy construction and assignment from a weak_ptr or a shared_ptr.       *)
CopyWeak(t, s, w) ==
  /\ pc[t] = "idle"
  /\ Readable(s) /\ Writable(w)
  /\ WeakAssign(t, w, count_[s])

(* weak_from_this, called through the shared_ptr s.                        *)
WeakFromThis(t, s, w) ==
  /\ pc[t] = "idle"
  /\ Readable(s) /\ Pointee(s) /\ Writable(w)
  /\ WeakAssign(t, w, weak_this_[count_[s]])

MoveWeak(t, s, w) ==
  /\ pc[t] = "idle"
  /\ s # w /\ Writable(s) /\ Writable(w)
  /\ count_' = [count_ EXCEPT ![w] = count_[s], ![s] = Null]
  /\ tmp' = [tmp EXCEPT ![t] = count_[w]]
  /\ pc' = [pc EXCEPT ![t] = IF count_[w] = Null THEN "idle" ELSE "decTotal"]
  /\ UNCHANGED <<weak_this_, counters, block, object, remains, src, dst>>

(* reset() and the destructor.                                             *)
ResetWeak(t, w) ==
  /\ pc[t] = "idle"
  /\ Writable(w) /\ count_[w] # Null
  /\ WeakAssign(t, w, Null)

-----------------------------------------------------------------------------
(* From a weak reference to a shared one.                                  *)

(* Bound: an object is brought back until its destructor has released that *)
(* many units too many.                                                    *)
Followed(o) == left_[o] # Null => overdrawn[left_[o]] < MaxOverdrawn

(* lock: a test of the count, then a constructor that does not look at it  *)
(* again.                                                                  *)
Lock(t, w, d) ==
  /\ pc[t] = "idle"
  /\ t \in Lockers
  /\ Readable(w) /\ Writable(d)
  /\ IF Expired(count_[w])
     THEN AssignEmpty(t, d)
     ELSE /\ Followed(count_[w])
          /\ pc' = [pc EXCEPT ![t] = "promote"]
          /\ tmp' = [tmp EXCEPT ![t] = count_[w]]
          /\ src' = [src EXCEPT ![t] = w]
          /\ dst' = [dst EXCEPT ![t] = d]
          /\ UNCHANGED <<count_, weak_this_, counters, block, object, remains>>

Promote(t) ==
  /\ pc[t] = "promote"
  /\ IncShared(tmp[t])
  /\ pc' = [pc EXCEPT ![t] = "addTotal"]
  /\ UNCHANGED <<count_, weak_this_, shared_and_weak_count_, block, object,
                 remains, tmp, src, dst>>

(* shared_ptr(const weak_ptr&): the count is not tested.                   *)
FromWeak(t, w, d) ==
  /\ pc[t] = "idle"
  /\ t \in Promoters
  /\ Readable(w) /\ Writable(d)
  /\ IF count_[w] = Null THEN AssignEmpty(t, d)
     ELSE Followed(count_[w]) /\ AddRef(t, count_[w], w, d)

(* shared_from_this, called through the shared_ptr s.                      *)
SharedFromThis(t, s, d) ==
  /\ pc[t] = "idle"
  /\ Readable(s) /\ Pointee(s) /\ Writable(d)
  /\ LET p == weak_this_[count_[s]] IN
       IF p = Null THEN AssignEmpty(t, d)
       ELSE Followed(p) /\ AddRef(t, p, s, d)

-----------------------------------------------------------------------------
(* A thread inside a member function goes on with it.                      *)
Continue(t) ==
  \/ AddTotal(t)
  \/ Promote(t)
  \/ Release(t)
  \/ Destroy(t)
  \/ DropSelf(t)
  \/ DecTotal(t)

(* An idle thread calls a member function.                                 *)
Call(t) ==
  \/ \E o \in Objects : New(t, o) \/ AdoptFails(t, o)
  \/ \E o \in Objects, s \in SharedVars :
       Clone(t, s, o) \/ MoveClone(t, s, o) \/ Adopt(t, s, o)
  \/ \E s, d \in SharedVars :
       \/ CopyShared(t, s, d)
       \/ MoveShared(t, s, d)
       \/ SwapVars(t, s, d)
       \/ SharedFromThis(t, s, d)
       \/ AssignObject(t, s, d)
       \/ MoveAssignObject(t, s, d)
  \/ \E d \in SharedVars : ResetShared(t, d)
  \/ \E s \in Vars, w \in WeakVars : CopyWeak(t, s, w)
  \/ \E s \in SharedVars, w \in WeakVars :
       \/ WeakFromThis(t, s, w)
       \/ Lock(t, w, s)
       \/ FromWeak(t, w, s)
  \/ \E s, w \in WeakVars : MoveWeak(t, s, w) \/ SwapVars(t, s, w)
  \/ \E w \in WeakVars : ResetWeak(t, w)

Next == \E t \in Threads : Call(t) \/ Continue(t)

(* No member function waits for another thread, so a thread that entered   *)
(* one completes it; nothing makes a client call.                          *)
Fairness == \A t \in Threads : WF_vars(Continue(t))

Spec     == Init /\ [][Next]_vars
FairSpec == Spec /\ Fairness

-----------------------------------------------------------------------------
(* References.                                                             *)

(* Who holds one unit of shared_count_ of o: the variables that refer to   *)
(* it and the threads between the increment and the swap, or between the   *)
(* swap and the decrement.                                                 *)
SharedRefs(o) ==
  {s \in SharedVars : count_[s] = o} \cup
  {t \in Threads : tmp[t] = o /\ pc[t] \in {"addTotal", "release"}}

(* Who holds one unit of shared_and_weak_count_ of o.                      *)
TotalRefs(o) ==
  {v \in Vars : count_[v] = o} \cup
  {p \in Objects : weak_this_[p] = o} \cup
  {t \in Threads : tmp[t] = o /\
                   pc[t] \in {"release", "destroy", "dropSelf", "decTotal"}}

(* The counter of owners tells how many owners there are.                  *)
SharedCountExact ==
  \A o \in Objects : shared_count_[o] = Cardinality(SharedRefs(o))

(* The counter of references tells how many references there are, less the *)
(* units that the destructors of objects which died twice took a second    *)
(* time: no interleaving of the copies, the moves and the two-step release *)
(* loses or duplicates any other unit.                                     *)
TotalCountExact ==
  \A o \in Objects :
    shared_and_weak_count_[o] = Cardinality(TotalRefs(o)) - overdrawn[o]

(* No thread's next access, and no variable, refers to a control block     *)
(* that was freed or never allocated, unless a second destruction took a   *)
(* unit of that very block.                                                *)
Pinned(o) == o # Null /\ overdrawn[o] = 0 => block[o] = "live"
BlockPinned ==
  /\ \A v \in Vars : Pinned(count_[v])
  /\ \A o \in Objects : Pinned(weak_this_[o])
  /\ \A t \in Threads : Pinned(tmp[t])

(* A control block is freed when nothing refers to it any more: a live     *)
(* block has a reference.                                                  *)
BlockNotLeaked ==
  \A o \in Objects : block[o] = "live" => TotalRefs(o) # {}

(* A shared_ptr variable that is not empty refers to an object that is     *)
(* alive.                                                                  *)
OwnedAlive ==
  \A s \in SharedVars : count_[s] # Null => object[count_[s]] = "alive"

(* An object is destroyed once: the tests count constructor and destructor *)
(* calls.                                                                  *)
DestroyedOnce == \A o \in Objects : object[o] # "dead twice"

(* The managed object is gone before its control block, which holds the    *)
(* deleter, is freed.                                                      *)
DestroyedBeforeFreed ==
  \A o \in Objects : block[o] = "freed" => object[o] # "alive"

(* When no thread is inside a member function, the object of a block is    *)
(* alive exactly when some shared_ptr refers to it, and use_count tells    *)
(* how many do.                                                            *)
QuiescentUseCount ==
  (\A t \in Threads : pc[t] = "idle") =>
     \A o \in Objects : block[o] # "none" =>
        /\ object[o] = "alive" <=> \E s \in SharedVars : count_[s] = o
        /\ shared_count_[o] = Cardinality({s \in SharedVars : count_[s] = o})

(* An expired weak_ptr stays expired: once the owners of an allocated      *)
(* block are gone, use_count() is zero for good.                           *)
ExpiredForever ==
  [][\A o \in Objects :
       block[o] # "none" /\ shared_count_[o] = 0 => shared_count_'[o] = 0]_vars

(* The object a shared_ptr manages points to its own control block.        *)
SelfReference ==
  \A s \in SharedVars :
     count_[s] \in Enabled => weak_this_[count_[s]] = count_[s]

(* An object whose last shared_ptr variable is gone is destroyed, unless a *)
(* thread that still reads an owner gives it a new one.                    *)
UnownedDies ==
  \A o \in Objects :
    (block[o] = "live" /\ \A s \in SharedVars : count_[s] # o)
      ~> (object[o] # "alive" \/ \E s \in SharedVars : count_[s] = o)

(* A control block that no variable and no object refers to is freed.      *)
UnreachableFreed ==
  \A o \in Objects :
    (block[o] = "live" /\ (\A v \in Vars : count_[v] # o)
                       /\ \A p \in Objects : weak_this_[p] # o)
      ~> (block[o] = "freed" \/ \E v \in Vars : count_[v] = o)

-----------------------------------------------------------------------------
(* What the variables show of the counting is shared ownership.            *)
Own == INSTANCE Ownership WITH
         Owners    <- SharedVars,
         Observers <- WeakVars,
         owns      <- [s \in SharedVars |-> count_[s]],
         observes  <- [w \in WeakVars |-> count_[w]],
         life      <- object,
         storage   <- block

(* Every behaviour of the counters is a behaviour of the promise: objects  *)
(* die once and only unowned, ownership never comes from nothing, and the  *)
(* control block outlives whoever refers to it.                            *)
ImplementsOwnership == Own!OwnSpec
=============================================================================
