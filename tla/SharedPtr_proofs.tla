--------------------------- MODULE SharedPtr_proofs ---------------------------
(***************************************************************************)
(* Proofs about SharedPtr, for any number of threads, variables and        *)
(* objects.                                                                *)
(***************************************************************************)
EXTENDS SharedPtr, FiniteSetTheorems, TLAPS

-----------------------------------------------------------------------------
(* How the cardinality of a finite set follows the gain, the loss and the  *)
(* replacement of an element.                                              *)
LEMMA CardGain ==
  ASSUME NEW S, IsFiniteSet(S), NEW x, x \notin S
  PROVE  Cardinality(S \cup {x}) = Cardinality(S) + 1
BY FS_AddElement

LEMMA CardLoss ==
  ASSUME NEW S, IsFiniteSet(S), NEW x, x \in S
  PROVE  /\ Cardinality(S \ {x}) = Cardinality(S) - 1
         /\ Cardinality(S) \in Nat \ {0}
<1>1. Cardinality(S \ {x}) = Cardinality(S) - 1
  BY FS_RemoveElement
<1>2. Cardinality(S) \in Nat /\ Cardinality(S \ {x}) \in Nat
  BY FS_RemoveElement, FS_CardinalityType
<1> QED BY <1>1, <1>2

LEMMA CardSwap ==
  ASSUME NEW S, IsFiniteSet(S), NEW x, x \in S, NEW y, y \notin S
  PROVE  Cardinality((S \ {x}) \cup {y}) = Cardinality(S)
<1>1. IsFiniteSet(S \ {x}) /\ Cardinality(S \ {x}) = Cardinality(S) - 1
  BY FS_RemoveElement
<1>2. Cardinality(S) \in Nat
  BY FS_CardinalityType
<1>3. Cardinality((S \ {x}) \cup {y}) = Cardinality(S \ {x}) + 1
  BY <1>1, FS_AddElement
<1> QED BY <1>1, <1>2, <1>3

(* The references of a control block are finitely many.                    *)
LEMMA RefsFinite ==
  ASSUME NEW o
  PROVE  /\ IsFiniteSet(SharedRefs(o)) /\ Cardinality(SharedRefs(o)) \in Nat
         /\ IsFiniteSet(TotalRefs(o)) /\ Cardinality(TotalRefs(o)) \in Nat
<1>1. IsFiniteSet(Vars) /\ IsFiniteSet(SharedVars \cup Threads)
  BY FiniteAssumption, FS_Union DEF Vars
<1>2. IsFiniteSet((Vars \cup Objects) \cup Threads)
  BY <1>1, FiniteAssumption, FS_Union
<1>3. SharedRefs(o) \in SUBSET (SharedVars \cup Threads)
  BY DEF SharedRefs
<1>4. TotalRefs(o) \in SUBSET ((Vars \cup Objects) \cup Threads)
  BY DEF TotalRefs
<1> QED BY <1>1, <1>2, <1>3, <1>4, FS_Subset, FS_CardinalityType

-----------------------------------------------------------------------------
(* The strengthening.                                                      *)

(* What a thread remembers at each point of a member function.             *)
Adding(t) == pc[t] \in {"addTotal", "promote"}

(* The block that a thread is about to count once more is pinned by the    *)
(* variable it reads, or by weak_this_ of the object the variable owns.    *)
Lent(t) ==
  \/ count_[src[t]] = tmp[t]
  \/ /\ src[t] \in SharedVars /\ count_[src[t]] # Null
     /\ weak_this_[count_[src[t]]] = tmp[t]

ThreadInv ==
  \A t \in Threads :
    /\ pc[t] = "idle" <=> tmp[t] = Null
    /\ Adding(t) => src[t] \in Vars /\ dst[t] \in SharedVars /\ Lent(t)
    /\ ~Adding(t) => src[t] = Null /\ dst[t] = Null
    /\ pc[t] = "promote" => t \in Lockers

(* The client's rule: nobody reads what another thread writes.             *)
Exclusive ==
  \A t, u \in Threads : t # u /\ dst[t] # Null => src[u] # dst[t]

(* A copy of an object refers to the control block of another object, and  *)
(* that object to its own, if to any.                                      *)
Foreign(o) == weak_this_[o] \notin {o, Null}

OneDeep == \A o \in Objects : weak_this_[o] # Null => ~Foreign(weak_this_[o])

(* Nothing refers to a copy through weak_this_, so nothing brings it back  *)
(* once its owners are gone, and it lives while it has one.                *)
CopiesOwned ==
  \A o \in Objects : Foreign(o) =>
    /\ Cloners # {}
    /\ shared_count_[o] # 0 => object[o] = "alive"
    /\ \A t \in Threads : pc[t] = "destroy" /\ tmp[t] = o => shared_count_[o] = 0

(* A thread that runs the destructor of a weak_this_ found a block there,  *)
(* and what a dead object still refers to is what its destructor found.    *)
Dropping ==
  /\ \A t \in Threads :
       pc[t] = "dropSelf" => left_[tmp[t]] # Null /\ object[tmp[t]] # "alive"
  /\ \A o \in Objects :
       object[o] # "alive" /\ weak_this_[o] # Null => left_[o] = weak_this_[o]

(* An object that was not created has no control block and no weak_this_.  *)
Born ==
  \A o \in Objects :
    object[o] = "none" => block[o] = "none" /\ weak_this_[o] = Null

(* Nothing refers to a control block that was never allocated, not even    *)
(* the remains of a weak_this_, and nothing was taken from it.             *)
Given(o) == o # Null => block[o] # "none"
Allocated ==
  /\ \A v \in Vars : Given(count_[v])
  /\ \A o \in Objects : Given(weak_this_[o]) /\ Given(left_[o])
  /\ \A t \in Threads : Given(tmp[t])
  /\ \A o \in Objects : block[o] = "none" => overdrawn[o] = 0

(* Either objects are copied or weak references are promoted, and none is  *)
(* moved or assigned to. A promotion can bring back an object whose        *)
(* destructor is about to release its weak_this_; if that object is a      *)
(* copy, the block behind it goes with it. Assignments let the weak_this_  *)
(* of objects refer to one another in chains, which OneDeep excludes.      *)
CopiesOrPromotions ==
  Assigners = {} /\ (Cloners = {} \/ (Lockers = {} /\ Promoters = {}))

Inv ==
  /\ TypeOK
  /\ SharedCountExact
  /\ TotalCountExact
  /\ BlockPinned
  /\ Allocated
  /\ ThreadInv
  /\ Exclusive
  /\ Dropping
  /\ Born
  /\ OneDeep
  /\ CopiesOwned

-----------------------------------------------------------------------------
(* A shared_ptr that is not empty counts.                                  *)
LEMMA OwnerCounts ==
  ASSUME Inv, NEW h, NEW o \in Objects, h \in SharedRefs(o)
  PROVE  shared_count_[o] # 0
BY RefsFinite, CardLoss DEF Inv, SharedCountExact

(* What pins the block that a thread is about to count stays: the variable *)
(* is being read, and an object that is owned keeps its weak_this_.        *)
LEMMA LentStays ==
  ASSUME Inv, NEW t \in Threads, Adding(t),
         src'[t] = src[t], tmp'[t] = tmp[t], count_'[src[t]] = count_[src[t]],
         \A o \in Objects :
           Foreign(o) /\ object[o] = "alive" /\ shared_count_[o] # 0
             => weak_this_'[o] = weak_this_[o]
  PROVE  Lent(t)'
<1> DEFINE q == count_[src[t]]
<1>1. CASE q = tmp[t]
  BY <1>1 DEF Lent
<1>2. CASE q # tmp[t]
  <2>1. /\ src[t] \in SharedVars /\ q # Null /\ weak_this_[q] = tmp[t]
        /\ tmp[t] # Null
    BY <1>2 DEF Inv, ThreadInv, Lent, Adding
  <2>2. q \in Objects
    BY <2>1 DEF Inv, TypeOK, Object, Vars
  <2>3. Foreign(q) /\ shared_count_[q] # 0
    BY <1>2, <2>1, <2>2, OwnerCounts DEF Foreign, SharedRefs
  <2>4. weak_this_'[q] = weak_this_[q]
    BY <2>2, <2>3 DEF Inv, CopiesOwned
  <2> QED BY <2>1, <2>4 DEF Lent
<1> QED BY <1>1, <1>2

(* Steps that neither count owners nor touch an object leave the copies    *)
(* alone.                                                                  *)
LEMMA CopiesStay ==
  ASSUME Inv, NEW t \in Threads,
         UNCHANGED <<weak_this_, shared_count_, object, left_, overdrawn>>,
         \A u \in Threads : u # t => pc'[u] = pc[u] /\ tmp'[u] = tmp[u],
         pc'[t] # "destroy"
  PROVE  OneDeep' /\ CopiesOwned'
BY DEF Inv, OneDeep, CopiesOwned, Foreign

-----------------------------------------------------------------------------
(* One lemma per kind of step.                                             *)

(* add_ref counts a new owner; until the swap that owner is the thread.    *)
LEMMA AddRefStep ==
  ASSUME Inv, NEW t \in Threads, NEW s \in Vars, NEW d \in SharedVars,
         NEW o \in Objects, pc[t] = "idle", Readable(s), Writable(d),
         \/ count_[s] = o
         \/ s \in SharedVars /\ count_[s] # Null /\ weak_this_[count_[s]] = o,
         Foreign(o) => shared_count_[o] # 0,
         AddRef(t, o, s, d)
  PROVE  Inv'
<1>1. o # Null /\ block[o] # "none" /\ Pinned(o)
  BY DistinctAssumption
     DEF Inv, TypeOK, BlockPinned, Allocated, Given, Object, Vars
<1>2. /\ shared_count_' = [shared_count_ EXCEPT ![o] = @ + 1]
      /\ tmp' = [tmp EXCEPT ![t] = o]
      /\ src' = [src EXCEPT ![t] = s]
      /\ dst' = [dst EXCEPT ![t] = d]
      /\ pc' = [pc EXCEPT ![t] = "addTotal"]
      /\ UNCHANGED <<count_, weak_this_, shared_and_weak_count_, block,
                     object, left_, overdrawn>>
  BY DEF AddRef, IncShared, remains
<1>3. TypeOK'
  BY <1>1, <1>2 DEF Inv, TypeOK, Steps, Object
<1>4. SharedCountExact'
  <2> SUFFICES ASSUME NEW p \in Objects
               PROVE  shared_count_'[p] = Cardinality(SharedRefs(p)')
    BY DEF SharedCountExact
  <2>1. CASE p = o
    <3>1. t \notin SharedRefs(o)
      BY DistinctAssumption DEF Inv, TypeOK, SharedRefs, Vars
    <3>2. SharedRefs(o)' = SharedRefs(o) \cup {t}
      BY <1>2 DEF Inv, TypeOK, SharedRefs
    <3>3. Cardinality(SharedRefs(o)') = shared_count_[o] + 1
      BY <3>1, <3>2, <1>1, RefsFinite, CardGain DEF Inv, SharedCountExact
    <3> QED BY <2>1, <3>3, <1>1, <1>2 DEF Inv, TypeOK
  <2>2. CASE p # o
    <3>1. SharedRefs(p)' = SharedRefs(p)
      BY <1>2, <2>2 DEF Inv, TypeOK, ThreadInv, SharedRefs
    <3> QED BY <2>2, <3>1, <1>2 DEF Inv, TypeOK, SharedCountExact
  <2> QED BY <2>1, <2>2
<1>5. TotalCountExact'
  <2>1. \A p \in Objects : TotalRefs(p)' = TotalRefs(p)
    BY <1>2 DEF Inv, TypeOK, ThreadInv, TotalRefs
  <2> QED BY <2>1, <1>2 DEF Inv, TotalCountExact
<1>6. BlockPinned' /\ Allocated'
  BY <1>1, <1>2 DEF Inv, TypeOK, BlockPinned, Pinned, Allocated, Given
<1>7. ThreadInv' /\ Exclusive'
  BY <1>1, <1>2, DistinctAssumption
     DEF Inv, TypeOK, ThreadInv, Exclusive, Adding, Lent, Readable, Writable,
     Vars
<1>8. Dropping' /\ Born'
  BY <1>2 DEF Inv, TypeOK, Dropping, Born
<1>9. OneDeep' /\ CopiesOwned'
  BY <1>2 DEF Inv, TypeOK, ThreadInv, OneDeep, CopiesOwned, Foreign
<1> QED BY <1>3, <1>4, <1>5, <1>6, <1>7, <1>8, <1>9 DEF Inv

(* An assignment of an empty temporary hands the old reference of the      *)
(* target to the thread.                                                   *)
LEMMA AssignEmptyStep ==
  ASSUME Inv, NEW t \in Threads, NEW d \in SharedVars,
         pc[t] = "idle", Writable(d), AssignEmpty(t, d)
  PROVE  Inv'
<1> DEFINE o == count_[d]
<1>1. o \in Object /\ d \in Vars
  BY DEF Inv, TypeOK, Vars
<1>2. /\ count_' = [count_ EXCEPT ![d] = Null]
      /\ tmp' = [tmp EXCEPT ![t] = o]
      /\ pc' = [pc EXCEPT ![t] = IF o = Null THEN "idle" ELSE "release"]
      /\ UNCHANGED <<weak_this_, shared_count_, shared_and_weak_count_, block,
                     object, left_, overdrawn, src, dst>>
  BY DEF AssignEmpty, SwapIn, counters, remains
<1>3. TypeOK'
  BY <1>1, <1>2 DEF Inv, TypeOK, Steps, Object
<1>4. ASSUME NEW p \in Objects
      PROVE  /\ Cardinality(SharedRefs(p)') = Cardinality(SharedRefs(p))
             /\ Cardinality(TotalRefs(p)') = Cardinality(TotalRefs(p))
  <2>1. CASE p = o
    <3>1. d \in SharedRefs(p) /\ d \in TotalRefs(p)
      BY <2>1, <1>1 DEF SharedRefs, TotalRefs
    <3>2. t \notin SharedRefs(p) /\ t \notin TotalRefs(p)
      BY DistinctAssumption DEF Inv, TypeOK, SharedRefs, TotalRefs, Vars
    <3>3. SharedRefs(p)' = (SharedRefs(p) \ {d}) \cup {t}
      BY <2>1, <1>1, <1>2, DistinctAssumption
         DEF Inv, TypeOK, SharedRefs, Vars
    <3>4. TotalRefs(p)' = (TotalRefs(p) \ {d}) \cup {t}
      BY <2>1, <1>1, <1>2, DistinctAssumption
         DEF Inv, TypeOK, TotalRefs, Vars
    <3> QED BY <3>1, <3>2, <3>3, <3>4, RefsFinite, CardSwap
  <2>2. CASE p # o
    <3>1. SharedRefs(p)' = SharedRefs(p) /\ TotalRefs(p)' = TotalRefs(p)
      BY <2>2, <1>1, <1>2, DistinctAssumption
         DEF Inv, TypeOK, ThreadInv, SharedRefs, TotalRefs, Vars
    <3> QED BY <3>1
  <2> QED BY <2>1, <2>2
<1>5. SharedCountExact' /\ TotalCountExact'
  BY <1>2, <1>4 DEF Inv, SharedCountExact, TotalCountExact
<1>6. BlockPinned' /\ Allocated'
  BY <1>1, <1>2 DEF Inv, TypeOK, BlockPinned, Pinned, Allocated, Given
<1>7. ThreadInv' /\ Exclusive'
  BY <1>1, <1>2, DistinctAssumption
     DEF Inv, TypeOK, ThreadInv, Exclusive, Adding, Lent, Writable, Vars
<1>8. Dropping' /\ Born'
  BY <1>2 DEF Inv, TypeOK, Dropping, Born
<1>9. OneDeep' /\ CopiesOwned'
  BY <1>2, CopiesStay DEF Inv, TypeOK
<1> QED BY <1>3, <1>5, <1>6, <1>7, <1>8, <1>9 DEF Inv

(* A weak_ptr that takes a reference to a pinned block hands the old one   *)
(* to the thread.                                                          *)
LEMMA WeakAssignStep ==
  ASSUME Inv, NEW t \in Threads, NEW w \in WeakVars, NEW o \in Object,
         pc[t] = "idle", Writable(w), Pinned(o), Given(o),
         WeakAssign(t, w, o)
  PROVE  Inv'
<1> DEFINE old == count_[w]
<1>1. old \in Object /\ w \in Vars
  BY DEF Inv, TypeOK, Vars
<1>2. /\ count_' = [count_ EXCEPT ![w] = o]
      /\ tmp' = [tmp EXCEPT ![t] = old]
      /\ pc' = [pc EXCEPT ![t] = IF old = Null THEN "idle" ELSE "decTotal"]
      /\ UNCHANGED <<weak_this_, shared_count_, block, object, left_,
                     overdrawn, src, dst>>
  BY DEF WeakAssign, SwapIn, remains
<1>3. shared_and_weak_count_' =
        IF o = Null THEN shared_and_weak_count_
        ELSE [shared_and_weak_count_ EXCEPT ![o] = @ + 1]
  BY DEF WeakAssign, IncTotal
<1>4. TypeOK'
  BY <1>1, <1>2, <1>3 DEF Inv, TypeOK, Steps, Object
<1>5. SharedCountExact'
  <2>1. \A p \in Objects : SharedRefs(p)' = SharedRefs(p)
    BY <1>1, <1>2, DistinctAssumption DEF Inv, TypeOK, SharedRefs, Vars
  <2> QED BY <2>1, <1>2 DEF Inv, SharedCountExact
<1>6. TotalCountExact'
  <2> SUFFICES ASSUME NEW p \in Objects
               PROVE  shared_and_weak_count_'[p] =
                        Cardinality(TotalRefs(p)') - overdrawn'[p]
    BY DEF TotalCountExact
  <2>1. p # Null /\ t \notin TotalRefs(p)
    BY DistinctAssumption DEF Inv, TypeOK, TotalRefs, Vars
  <2>2. CASE p = o
    <3>1. TotalRefs(p)' = TotalRefs(p) \cup {IF old = p THEN t ELSE w}
      BY <2>1, <2>2, <1>1, <1>2, DistinctAssumption
         DEF Inv, TypeOK, TotalRefs, Vars
    <3>2. (IF old = p THEN t ELSE w) \notin TotalRefs(p)
      BY <2>1, <1>1, DistinctAssumption DEF TotalRefs, Vars
    <3>3. Cardinality(TotalRefs(p)') = Cardinality(TotalRefs(p)) + 1
      BY <3>1, <3>2, RefsFinite, CardGain
    <3> QED BY <2>1, <2>2, <3>3, <1>2, <1>3, RefsFinite
               DEF Inv, TypeOK, TotalCountExact
  <2>3. CASE p # o /\ p = old
    <3>1. TotalRefs(p)' = (TotalRefs(p) \ {w}) \cup {t}
      BY <2>1, <2>3, <1>1, <1>2, DistinctAssumption
         DEF Inv, TypeOK, TotalRefs, Vars
    <3>2. w \in TotalRefs(p)
      BY <2>3, <1>1 DEF TotalRefs
    <3>3. Cardinality(TotalRefs(p)') = Cardinality(TotalRefs(p))
      BY <3>1, <3>2, <2>1, RefsFinite, CardSwap
    <3> QED BY <2>3, <3>3, <1>2, <1>3, RefsFinite
               DEF Inv, TypeOK, TotalCountExact
  <2>4. CASE p # o /\ p # old
    <3>1. TotalRefs(p)' = TotalRefs(p)
      BY <2>1, <2>4, <1>1, <1>2, DistinctAssumption
         DEF Inv, TypeOK, TotalRefs, Vars
    <3> QED BY <2>4, <3>1, <1>2, <1>3, RefsFinite
               DEF Inv, TypeOK, TotalCountExact
  <2> QED BY <2>2, <2>3, <2>4
<1>7. BlockPinned' /\ Allocated'
  BY <1>1, <1>2 DEF Inv, TypeOK, BlockPinned, Pinned, Allocated, Given
<1>8. ThreadInv' /\ Exclusive'
  BY <1>1, <1>2, DistinctAssumption
     DEF Inv, TypeOK, ThreadInv, Exclusive, Adding, Lent, Writable, Vars
<1>9. Dropping' /\ Born'
  BY <1>2 DEF Inv, TypeOK, Dropping, Born
<1>10. OneDeep' /\ CopiesOwned'
  BY <1>2, CopiesStay DEF Inv, TypeOK
<1> QED BY <1>4, <1>5, <1>6, <1>7, <1>8, <1>9, <1>10 DEF Inv

(* A move takes the reference of its source and hands the old reference of *)
(* the target to the thread; `next' is what the thread owes for it.        *)
LEMMA MoveStep ==
  ASSUME Inv, NEW t \in Threads, NEW s \in Vars, NEW d \in Vars,
         s # d, s \in SharedVars <=> d \in SharedVars,
         pc[t] = "idle", Writable(s), Writable(d),
         count_' = [count_ EXCEPT ![d] = count_[s], ![s] = Null],
         tmp' = [tmp EXCEPT ![t] = count_[d]],
         pc' = [pc EXCEPT ![t] =
                  IF count_[d] = Null THEN "idle"
                  ELSE IF d \in SharedVars THEN "release" ELSE "decTotal"],
         UNCHANGED <<weak_this_, shared_count_, shared_and_weak_count_, block,
                     object, left_, overdrawn, src, dst>>
  PROVE  Inv'
<1> DEFINE a == count_[s]
           b == count_[d]
<1>1. a \in Object /\ b \in Object
  BY DEF Inv, TypeOK
<1>2. TypeOK'
  BY <1>1 DEF Inv, TypeOK, Steps, Object
<1>3. SharedCountExact'
  <2> SUFFICES ASSUME NEW p \in Objects
               PROVE  Cardinality(SharedRefs(p)') = Cardinality(SharedRefs(p))
    BY DEF Inv, SharedCountExact
  <2>1. p # Null /\ t \notin SharedRefs(p)
    BY DistinctAssumption DEF Inv, TypeOK, SharedRefs, Vars
  <2>2. CASE d \in SharedVars /\ p = a
    <3>1. SharedRefs(p)' = (SharedRefs(p) \ {s}) \cup {IF b = p THEN t ELSE d}
      BY <2>1, <2>2, <1>1, DistinctAssumption
         DEF Inv, TypeOK, SharedRefs, Vars
    <3>2. s \in SharedRefs(p) /\ (IF b = p THEN t ELSE d) \notin SharedRefs(p)
      BY <2>1, <2>2, DistinctAssumption DEF SharedRefs, Vars
    <3> QED BY <3>1, <3>2, RefsFinite, CardSwap
  <2>3. CASE d \in SharedVars /\ p # a /\ p = b
    <3>1. SharedRefs(p)' = (SharedRefs(p) \ {d}) \cup {t}
      BY <2>1, <2>3, <1>1, DistinctAssumption
         DEF Inv, TypeOK, SharedRefs, Vars
    <3>2. d \in SharedRefs(p)
      BY <2>3 DEF SharedRefs
    <3> QED BY <3>1, <3>2, <2>1, RefsFinite, CardSwap
  <2>4. CASE d \notin SharedVars \/ (p # a /\ p # b)
    <3>1. SharedRefs(p)' = SharedRefs(p)
      BY <2>1, <2>4, <1>1, DistinctAssumption
         DEF Inv, TypeOK, SharedRefs, Vars
    <3> QED BY <3>1
  <2> QED BY <2>2, <2>3, <2>4
<1>4. TotalCountExact'
  <2> SUFFICES ASSUME NEW p \in Objects
               PROVE  Cardinality(TotalRefs(p)') = Cardinality(TotalRefs(p))
    BY DEF Inv, TotalCountExact
  <2>1. p # Null /\ t \notin TotalRefs(p)
    BY DistinctAssumption DEF Inv, TypeOK, TotalRefs, Vars
  <2>2. CASE p = a
    <3>1. TotalRefs(p)' = (TotalRefs(p) \ {s}) \cup {IF b = p THEN t ELSE d}
      BY <2>1, <2>2, <1>1, DistinctAssumption
         DEF Inv, TypeOK, TotalRefs, Vars
    <3>2. s \in TotalRefs(p) /\ (IF b = p THEN t ELSE d) \notin TotalRefs(p)
      BY <2>1, <2>2, DistinctAssumption DEF TotalRefs
    <3> QED BY <3>1, <3>2, RefsFinite, CardSwap
  <2>3. CASE p # a /\ p = b
    <3>1. TotalRefs(p)' = (TotalRefs(p) \ {d}) \cup {t}
      BY <2>1, <2>3, <1>1, DistinctAssumption
         DEF Inv, TypeOK, TotalRefs, Vars
    <3>2. d \in TotalRefs(p)
      BY <2>3 DEF TotalRefs
    <3> QED BY <3>1, <3>2, <2>1, RefsFinite, CardSwap
  <2>4. CASE p # a /\ p # b
    <3>1. TotalRefs(p)' = TotalRefs(p)
      BY <2>1, <2>4, <1>1, DistinctAssumption
         DEF Inv, TypeOK, TotalRefs, Vars
    <3> QED BY <3>1
  <2> QED BY <2>2, <2>3, <2>4
<1>5. BlockPinned' /\ Allocated'
  BY <1>1 DEF Inv, TypeOK, BlockPinned, Pinned, Allocated, Given
<1>6. ThreadInv' /\ Exclusive'
  BY <1>1, DistinctAssumption
     DEF Inv, TypeOK, ThreadInv, Exclusive, Adding, Lent, Writable, Vars
<1>7. Dropping' /\ Born'
  BY DEF Inv, TypeOK, Dropping, Born
<1>8. OneDeep' /\ CopiesOwned'
  BY CopiesStay DEF Inv, TypeOK
<1> QED BY <1>2, <1>3, <1>4, <1>5, <1>6, <1>7, <1>8 DEF Inv

(* A swap of two variables renames two holders.                            *)
LEMMA SwapStep ==
  ASSUME Inv, NEW t \in Threads, NEW a \in Vars, NEW b \in Vars,
         a \in SharedVars <=> b \in SharedVars,
         SwapVars(t, a, b)
  PROVE  Inv'
<1> DEFINE m == count_[a]
           n == count_[b]
<1>1. m \in Object /\ n \in Object /\ m # n /\ a # b
  BY DEF Inv, TypeOK, SwapVars
<1>2. /\ count_' = [count_ EXCEPT ![a] = n, ![b] = m]
      /\ pc[t] = "idle" /\ Writable(a) /\ Writable(b)
      /\ UNCHANGED <<weak_this_, shared_count_, shared_and_weak_count_, block,
                     object, pc, tmp, left_, overdrawn, src, dst>>
  BY DEF SwapVars, counters, remains, threadVars
<1>3. TypeOK'
  BY <1>1, <1>2 DEF Inv, TypeOK
<1>4. SharedCountExact'
  <2> SUFFICES ASSUME NEW p \in Objects
               PROVE  Cardinality(SharedRefs(p)') = Cardinality(SharedRefs(p))
    BY <1>2 DEF Inv, SharedCountExact
  <2>1. CASE a \in SharedVars /\ p = m
    <3>1. SharedRefs(p)' = (SharedRefs(p) \ {a}) \cup {b}
      BY <2>1, <1>1, <1>2, DistinctAssumption
         DEF Inv, TypeOK, SharedRefs, Vars
    <3>2. a \in SharedRefs(p) /\ b \notin SharedRefs(p)
      BY <2>1, <1>1, DistinctAssumption DEF SharedRefs, Vars
    <3> QED BY <3>1, <3>2, RefsFinite, CardSwap
  <2>2. CASE a \in SharedVars /\ p = n
    <3>1. SharedRefs(p)' = (SharedRefs(p) \ {b}) \cup {a}
      BY <2>2, <1>1, <1>2, DistinctAssumption
         DEF Inv, TypeOK, SharedRefs, Vars
    <3>2. b \in SharedRefs(p) /\ a \notin SharedRefs(p)
      BY <2>2, <1>1, DistinctAssumption DEF SharedRefs, Vars
    <3> QED BY <3>1, <3>2, RefsFinite, CardSwap
  <2>3. CASE a \notin SharedVars \/ (p # m /\ p # n)
    <3>1. SharedRefs(p)' = SharedRefs(p)
      BY <2>3, <1>1, <1>2, DistinctAssumption
         DEF Inv, TypeOK, SharedRefs, Vars
    <3> QED BY <3>1
  <2> QED BY <2>1, <2>2, <2>3
<1>5. TotalCountExact'
  <2> SUFFICES ASSUME NEW p \in Objects
               PROVE  Cardinality(TotalRefs(p)') = Cardinality(TotalRefs(p))
    BY <1>2 DEF Inv, TotalCountExact
  <2>1. CASE p = m
    <3>1. TotalRefs(p)' = (TotalRefs(p) \ {a}) \cup {b}
      BY <2>1, <1>1, <1>2, DistinctAssumption
         DEF Inv, TypeOK, TotalRefs, Vars
    <3>2. a \in TotalRefs(p) /\ b \notin TotalRefs(p)
      BY <2>1, <1>1, DistinctAssumption DEF TotalRefs, Vars
    <3> QED BY <3>1, <3>2, RefsFinite, CardSwap
  <2>2. CASE p = n
    <3>1. TotalRefs(p)' = (TotalRefs(p) \ {b}) \cup {a}
      BY <2>2, <1>1, <1>2, DistinctAssumption
         DEF Inv, TypeOK, TotalRefs, Vars
    <3>2. b \in TotalRefs(p) /\ a \notin TotalRefs(p)
      BY <2>2, <1>1, DistinctAssumption DEF TotalRefs, Vars
    <3> QED BY <3>1, <3>2, RefsFinite, CardSwap
  <2>3. CASE p # m /\ p # n
    <3>1. TotalRefs(p)' = TotalRefs(p)
      BY <2>3, <1>1, <1>2 DEF Inv, TypeOK, TotalRefs
    <3> QED BY <3>1
  <2> QED BY <2>1, <2>2, <2>3
<1>6. BlockPinned' /\ Allocated'
  BY <1>1, <1>2 DEF Inv, TypeOK, BlockPinned, Pinned, Allocated, Given
<1>7. ThreadInv' /\ Exclusive'
  BY <1>1, <1>2, DistinctAssumption
     DEF Inv, TypeOK, ThreadInv, Exclusive, Adding, Lent, Writable, Vars
<1>8. Dropping' /\ Born'
  BY <1>2 DEF Inv, TypeOK, Dropping, Born
<1>9. OneDeep' /\ CopiesOwned'
  BY <1>2, CopiesStay DEF Inv, TypeOK
<1> QED BY <1>3, <1>4, <1>5, <1>6, <1>7, <1>8, <1>9 DEF Inv

(* The second half of add_ref and the swap: the new owner is counted a     *)
(* second time as it moves from the thread into the target, and the old    *)
(* owner of the target moves into the thread.                              *)
LEMMA AddTotalStep ==
  ASSUME Inv, NEW t \in Threads, AddTotal(t)
  PROVE  Inv'
<1> DEFINE o == tmp[t]
           d == dst[t]
           old == count_[d]
<1>1. /\ pc[t] = "addTotal" /\ o \in Objects /\ o # Null
      /\ d \in SharedVars /\ d \in Vars /\ old \in Object
  BY DistinctAssumption
     DEF Inv, TypeOK, ThreadInv, Adding, AddTotal, Object, Vars
<1>2. /\ shared_and_weak_count_' = [shared_and_weak_count_ EXCEPT ![o] = @ + 1]
      /\ count_' = [count_ EXCEPT ![d] = o]
      /\ tmp' = [tmp EXCEPT ![t] = old]
      /\ pc' = [pc EXCEPT ![t] = IF old = Null THEN "idle" ELSE "release"]
      /\ src' = [src EXCEPT ![t] = Null]
      /\ dst' = [dst EXCEPT ![t] = Null]
      /\ UNCHANGED <<weak_this_, shared_count_, block, object, left_,
                     overdrawn>>
  BY DEF AddTotal, IncTotal, SwapIn, remains
<1>3. TypeOK'
  BY <1>1, <1>2 DEF Inv, TypeOK, Steps, Object
<1>4. SharedCountExact'
  <2> SUFFICES ASSUME NEW p \in Objects
               PROVE  Cardinality(SharedRefs(p)') = Cardinality(SharedRefs(p))
    BY <1>2 DEF Inv, SharedCountExact
  <2>1. CASE p = old
    <3>1. CASE p = o
      <4>1. SharedRefs(p)' = SharedRefs(p)
        BY <2>1, <3>1, <1>1, <1>2, DistinctAssumption
           DEF Inv, TypeOK, SharedRefs, Vars
      <4> QED BY <4>1
    <3>2. CASE p # o
      <4>1. SharedRefs(p)' = (SharedRefs(p) \ {d}) \cup {t}
        BY <2>1, <3>2, <1>1, <1>2, DistinctAssumption
           DEF Inv, TypeOK, SharedRefs, Vars
      <4>2. d \in SharedRefs(p) /\ t \notin SharedRefs(p)
        BY <2>1, <3>2, <1>1, DistinctAssumption DEF SharedRefs, Vars
      <4> QED BY <4>1, <4>2, RefsFinite, CardSwap
    <3> QED BY <3>1, <3>2
  <2>2. CASE p # old /\ p = o
    <3>1. SharedRefs(p)' = (SharedRefs(p) \ {t}) \cup {d}
      BY <2>2, <1>1, <1>2, DistinctAssumption
         DEF Inv, TypeOK, SharedRefs, Vars
    <3>2. t \in SharedRefs(p) /\ d \notin SharedRefs(p)
      BY <2>2, <1>1, DistinctAssumption DEF SharedRefs, Vars
    <3> QED BY <3>1, <3>2, RefsFinite, CardSwap
  <2>3. CASE p # old /\ p # o
    <3>1. SharedRefs(p)' = SharedRefs(p)
      BY <2>3, <1>1, <1>2, DistinctAssumption
         DEF Inv, TypeOK, SharedRefs, Vars
    <3> QED BY <3>1
  <2> QED BY <2>1, <2>2, <2>3
<1>5. TotalCountExact'
  <2> SUFFICES ASSUME NEW p \in Objects
               PROVE  shared_and_weak_count_'[p] =
                        Cardinality(TotalRefs(p)') - overdrawn'[p]
    BY DEF TotalCountExact
  <2>1. p # Null /\ t \notin TotalRefs(p)
    BY <1>1, DistinctAssumption DEF TotalRefs, Vars
  <2>2. CASE p = o
    <3>1. TotalRefs(p)' = TotalRefs(p) \cup {IF old = p THEN t ELSE d}
      BY <2>1, <2>2, <1>1, <1>2, DistinctAssumption
         DEF Inv, TypeOK, TotalRefs, Vars
    <3>2. (IF old = p THEN t ELSE d) \notin TotalRefs(p)
      BY <2>1, <1>1, DistinctAssumption DEF TotalRefs, Vars
    <3>3. Cardinality(TotalRefs(p)') = Cardinality(TotalRefs(p)) + 1
      BY <3>1, <3>2, RefsFinite, CardGain
    <3> QED BY <2>2, <3>3, <1>2, RefsFinite DEF Inv, TypeOK, TotalCountExact
  <2>3. CASE p # o /\ p = old
    <3>1. TotalRefs(p)' = (TotalRefs(p) \ {d}) \cup {t}
      BY <2>1, <2>3, <1>1, <1>2, DistinctAssumption
         DEF Inv, TypeOK, TotalRefs, Vars
    <3>2. d \in TotalRefs(p)
      BY <2>3, <1>1 DEF TotalRefs
    <3>3. Cardinality(TotalRefs(p)') = Cardinality(TotalRefs(p))
      BY <3>1, <3>2, <2>1, RefsFinite, CardSwap
    <3> QED BY <2>3, <3>3, <1>2, RefsFinite DEF Inv, TypeOK, TotalCountExact
  <2>4. CASE p # o /\ p # old
    <3>1. TotalRefs(p)' = TotalRefs(p)
      BY <2>1, <2>4, <1>1, <1>2, DistinctAssumption
         DEF Inv, TypeOK, TotalRefs, Vars
    <3> QED BY <2>4, <3>1, <1>2 DEF Inv, TypeOK, TotalCountExact
  <2> QED BY <2>2, <2>3, <2>4
<1>6. BlockPinned' /\ Allocated'
  BY <1>1, <1>2 DEF Inv, TypeOK, BlockPinned, Pinned, Allocated, Given
<1>7. ThreadInv'
  BY <1>1, <1>2, DistinctAssumption
     DEF Inv, TypeOK, ThreadInv, Exclusive, Adding, Lent, Vars
<1>8. Exclusive'
  BY <1>1, <1>2, DistinctAssumption
     DEF Inv, TypeOK, ThreadInv, Exclusive, Adding, Lent, Vars
<1>9. Dropping' /\ Born'
  BY <1>2 DEF Inv, TypeOK, Dropping, Born
<1>10. OneDeep' /\ CopiesOwned'
  BY <1>2, CopiesStay DEF Inv, TypeOK
<1> QED BY <1>3, <1>4, <1>5, <1>6, <1>7, <1>8, <1>9, <1>10 DEF Inv

(* lock found the count above zero and goes on to the constructor.         *)
LEMMA LockStep ==
  ASSUME Inv, NEW t \in Threads, NEW w \in WeakVars, NEW d \in SharedVars,
         Lock(t, w, d), ~Expired(count_[w])
  PROVE  Inv'
<1> DEFINE o == count_[w]
<1>1. o \in Objects /\ w \in Vars
  BY DEF Inv, TypeOK, Expired, Object, Vars
<1>2. /\ pc[t] = "idle" /\ Readable(w) /\ Writable(d) /\ t \in Lockers
      /\ pc' = [pc EXCEPT ![t] = "promote"]
      /\ tmp' = [tmp EXCEPT ![t] = o]
      /\ src' = [src EXCEPT ![t] = w]
      /\ dst' = [dst EXCEPT ![t] = d]
      /\ UNCHANGED <<count_, weak_this_, shared_count_,
                     shared_and_weak_count_, block, object, left_, overdrawn>>
  BY DEF Lock, counters, remains
<1>3. TypeOK'
  BY <1>1, <1>2 DEF Inv, TypeOK, Steps, Object
<1>4. \A p \in Objects : /\ SharedRefs(p)' = SharedRefs(p)
                         /\ TotalRefs(p)' = TotalRefs(p)
  BY <1>2 DEF Inv, TypeOK, SharedRefs, TotalRefs
<1>5. SharedCountExact' /\ TotalCountExact'
  BY <1>2, <1>4 DEF Inv, SharedCountExact, TotalCountExact
<1>6. BlockPinned' /\ Allocated'
  BY <1>1, <1>2 DEF Inv, TypeOK, BlockPinned, Pinned, Allocated, Given
<1>7. ThreadInv' /\ Exclusive'
  BY <1>1, <1>2, DistinctAssumption
     DEF Inv, TypeOK, ThreadInv, Exclusive, Adding, Lent, Readable, Writable,
     Vars
<1>8. Dropping' /\ Born'
  BY <1>2 DEF Inv, TypeOK, Dropping, Born
<1>9. OneDeep' /\ CopiesOwned'
  BY <1>2, CopiesStay DEF Inv, TypeOK
<1> QED BY <1>3, <1>5, <1>6, <1>7, <1>8, <1>9 DEF Inv

(* The constructor that lock goes on to counts the owner.                  *)
LEMMA PromoteStep ==
  ASSUME CopiesOrPromotions, Inv, NEW t \in Threads, Promote(t)
  PROVE  Inv'
<1> DEFINE o == tmp[t]
<1>1. pc[t] = "promote" /\ o \in Objects
  BY DEF Inv, TypeOK, ThreadInv, Promote, Object
<1>2. /\ shared_count_' = [shared_count_ EXCEPT ![o] = @ + 1]
      /\ pc' = [pc EXCEPT ![t] = "addTotal"]
      /\ UNCHANGED <<count_, weak_this_, shared_and_weak_count_, block,
                     object, tmp, left_, overdrawn, src, dst>>
  BY DEF Promote, IncShared, remains
<1>3. TypeOK'
  BY <1>1, <1>2 DEF Inv, TypeOK, Steps
<1>4. SharedCountExact'
  <2> SUFFICES ASSUME NEW p \in Objects
               PROVE  shared_count_'[p] = Cardinality(SharedRefs(p)')
    BY DEF SharedCountExact
  <2>1. CASE p = o
    <3>1. t \notin SharedRefs(p)
      BY <1>1, DistinctAssumption DEF SharedRefs, Vars
    <3>2. SharedRefs(p)' = SharedRefs(p) \cup {t}
      BY <2>1, <1>1, <1>2 DEF Inv, TypeOK, SharedRefs
    <3>3. Cardinality(SharedRefs(p)') = Cardinality(SharedRefs(p)) + 1
      BY <3>1, <3>2, RefsFinite, CardGain
    <3> QED BY <2>1, <3>3, <1>2 DEF Inv, TypeOK, SharedCountExact
  <2>2. CASE p # o
    <3>1. SharedRefs(p)' = SharedRefs(p)
      BY <2>2, <1>1, <1>2 DEF Inv, TypeOK, SharedRefs
    <3> QED BY <2>2, <3>1, <1>2 DEF Inv, TypeOK, SharedCountExact
  <2> QED BY <2>1, <2>2
<1>5. TotalCountExact'
  <2>1. \A p \in Objects : TotalRefs(p)' = TotalRefs(p)
    BY <1>1, <1>2 DEF Inv, TypeOK, TotalRefs
  <2> QED BY <2>1, <1>2 DEF Inv, TotalCountExact
<1>6. BlockPinned' /\ Allocated' /\ ThreadInv' /\ Exclusive'
  BY <1>1, <1>2
     DEF Inv, TypeOK, BlockPinned, Pinned, Allocated, Given, ThreadInv,
     Exclusive, Adding, Lent
<1>7. Dropping' /\ Born'
  BY <1>1, <1>2 DEF Inv, TypeOK, Dropping, Born
<1>8. OneDeep' /\ CopiesOwned'
  <2>1. ~Foreign(o)
    BY <1>1 DEF CopiesOrPromotions, Inv, ThreadInv, CopiesOwned
  <2>2. \A p \in Objects : p # o => shared_count_'[p] = shared_count_[p]
    BY <1>2 DEF Inv, TypeOK
  <2>3. \A u \in Threads : pc'[u] = "destroy" => pc[u] = "destroy"
    BY <1>2 DEF Inv, TypeOK
  <2> QED BY <1>2, <2>1, <2>2, <2>3 DEF Inv, OneDeep, CopiesOwned, Foreign
<1> QED BY <1>3, <1>4, <1>5, <1>6, <1>7, <1>8 DEF Inv

(* The first half of a release drops one owner; the thread keeps the       *)
(* reference that pins the block.                                          *)
LEMMA ReleaseStep ==
  ASSUME Inv, NEW t \in Threads, Release(t)
  PROVE  Inv'
<1> DEFINE o == tmp[t]
<1>1. pc[t] = "release" /\ o \in Objects
  BY DEF Inv, TypeOK, ThreadInv, Release, Object
<1>2. /\ shared_count_' = [shared_count_ EXCEPT ![o] = @ - 1]
      /\ pc' = [pc EXCEPT ![t] =
                  IF shared_count_[o] = 1 THEN "destroy" ELSE "decTotal"]
      /\ UNCHANGED <<count_, weak_this_, shared_and_weak_count_, block,
                     object, tmp, left_, overdrawn, src, dst>>
  BY DEF Release, DecShared, remains
<1>3. /\ t \in SharedRefs(o)
      /\ SharedRefs(o)' = SharedRefs(o) \ {t}
  BY <1>1, <1>2, DistinctAssumption DEF Inv, TypeOK, SharedRefs, Vars
<1>4. /\ Cardinality(SharedRefs(o)') = shared_count_[o] - 1
      /\ shared_count_[o] \in Nat \ {0}
  BY <1>1, <1>3, RefsFinite, CardLoss DEF Inv, SharedCountExact
<1>5. TypeOK'
  BY <1>1, <1>2, <1>4 DEF Inv, TypeOK, Steps
<1>6. SharedCountExact'
  <2> SUFFICES ASSUME NEW p \in Objects, p # o
               PROVE  shared_count_'[p] = Cardinality(SharedRefs(p)')
    BY <1>1, <1>2, <1>4 DEF Inv, TypeOK, SharedCountExact
  <2>1. SharedRefs(p)' = SharedRefs(p)
    BY <1>1, <1>2 DEF Inv, TypeOK, SharedRefs
  <2> QED BY <2>1, <1>2 DEF Inv, TypeOK, SharedCountExact
<1>7. TotalCountExact'
  <2>1. \A p \in Objects : TotalRefs(p)' = TotalRefs(p)
    BY <1>1, <1>2 DEF Inv, TypeOK, TotalRefs
  <2> QED BY <2>1, <1>2 DEF Inv, TotalCountExact
<1>8. BlockPinned' /\ Allocated' /\ ThreadInv' /\ Exclusive'
  BY <1>1, <1>2
     DEF Inv, TypeOK, BlockPinned, Pinned, Allocated, Given, ThreadInv,
     Exclusive, Adding, Lent
<1>9. Dropping' /\ Born'
  BY <1>1, <1>2 DEF Inv, TypeOK, Dropping, Born
<1>10. OneDeep' /\ CopiesOwned'
  <2>1. /\ shared_count_'[o] = shared_count_[o] - 1
        /\ shared_count_[o] # 0
        /\ \A p \in Objects : p # o => shared_count_'[p] = shared_count_[p]
    BY <1>1, <1>2, <1>4 DEF Inv, TypeOK
  <2>2. \A u \in Threads : u # t => pc'[u] = pc[u]
    BY <1>2 DEF Inv, TypeOK
  <2>3. pc'[t] = "destroy" => shared_count_'[o] = 0
    BY <1>1, <1>2, <1>4, <2>1 DEF Inv, TypeOK
  <2>4. \A p \in Objects : Foreign(p)' = Foreign(p)
    BY <1>2 DEF Foreign
  <2>5. OneDeep'
    BY <1>2 DEF Inv, OneDeep, Foreign
  <2>6. \A p \in Objects : shared_count_'[p] # 0 => shared_count_[p] # 0
    BY <2>1
  <2>7. \A p \in Objects, u \in Threads :
           Foreign(p) /\ pc'[u] = "destroy" /\ tmp[u] = p
             => shared_count_'[p] = 0
    BY <1>1, <2>1, <2>2, <2>3 DEF Inv, CopiesOwned
  <2> QED BY <1>2, <2>4, <2>5, <2>6, <2>7 DEF Inv, CopiesOwned
<1> QED BY <1>5, <1>6, <1>7, <1>8, <1>9, <1>10 DEF Inv

(* The deleter runs.                                                       *)
LEMMA DestroyStep ==
  ASSUME Inv, NEW t \in Threads, Destroy(t)
  PROVE  Inv'
<1> DEFINE o     == tmp[t]
           first == object[o] = "alive"
           r     == IF first THEN weak_this_[o] ELSE left_[o]
<1>1. pc[t] = "destroy" /\ o \in Objects /\ r \in Object
  BY DEF Inv, TypeOK, ThreadInv, Destroy, Object
<1>2. /\ object' = [object EXCEPT ![o] = IF first THEN "dead" ELSE "dead twice"]
      /\ left_' = [left_ EXCEPT ![o] = r]
      /\ pc' = [pc EXCEPT ![t] = IF r = Null THEN "decTotal" ELSE "dropSelf"]
      /\ UNCHANGED <<count_, weak_this_, shared_count_, shared_and_weak_count_,
                     block, overdrawn, tmp, src, dst>>
  BY DEF Destroy, counters, Inv, TypeOK
<1>3. TypeOK'
  BY <1>1, <1>2 DEF Inv, TypeOK, Steps, Lives
<1>4. \A p \in Objects : /\ SharedRefs(p)' = SharedRefs(p)
                         /\ TotalRefs(p)' = TotalRefs(p)
  BY <1>1, <1>2 DEF Inv, TypeOK, SharedRefs, TotalRefs
<1>5. SharedCountExact' /\ TotalCountExact'
  BY <1>2, <1>4 DEF Inv, SharedCountExact, TotalCountExact
<1>6. BlockPinned' /\ Allocated' /\ ThreadInv' /\ Exclusive'
  <2>1. BlockPinned'
    BY <1>2 DEF Inv, BlockPinned, Pinned
  <2>4. /\ pc'[t] \in {"decTotal", "dropSelf"}
        /\ \A u \in Threads : u # t => pc'[u] = pc[u]
    BY <1>1, <1>2 DEF Inv, TypeOK
  <2>5. ThreadInv' /\ Exclusive'
    BY <1>1, <1>2, <2>4 DEF Inv, ThreadInv, Exclusive, Adding, Lent
  <2>2. \A p \in Objects : left_'[p] \in {left_[p], weak_this_[p]}
    BY <1>1, <1>2 DEF Inv, TypeOK
  <2>3. Allocated'
    BY <1>1, <1>2, <2>2 DEF Inv, Allocated, Given
  <2> QED BY <2>1, <2>3, <2>5
<1>7. OneDeep' /\ CopiesOwned' /\ Born'
  <2>1. \A p \in Objects : p # o => object'[p] = object[p]
    BY <1>2 DEF Inv, TypeOK
  <2>2. \A u \in Threads : pc'[u] = "destroy" => pc[u] = "destroy"
    BY <1>2 DEF Inv, TypeOK
  <2>3. object[o] # "none" /\ object'[o] # "none"
    <3>1. block[o] # "none"
      BY <1>1, DistinctAssumption DEF Inv, Allocated, Given
    <3> QED BY <3>1, <1>1, <1>2 DEF Inv, TypeOK, Born
  <2>4. Foreign(o) => shared_count_[o] = 0
    BY <1>1 DEF Inv, CopiesOwned
  <2>5. OneDeep'
    BY <1>2 DEF Inv, OneDeep, Foreign
  <2>6. CopiesOwned'
    BY <1>2, <2>1, <2>2, <2>4 DEF Inv, CopiesOwned, Foreign
  <2>7. Born'
    BY <1>2, <2>1, <2>3 DEF Inv, Born
  <2> QED BY <2>5, <2>6, <2>7
<1>8. Dropping'
  <2>1. object'[o] # "alive" /\ left_'[o] = r
    BY <1>1, <1>2 DEF Inv, TypeOK
  <2>2. \A p \in Objects : p # o => object'[p] = object[p] /\ left_'[p] = left_[p]
    BY <1>2 DEF Inv, TypeOK
  <2>3. \A u \in Threads : u # t => pc'[u] = pc[u] /\ tmp'[u] = tmp[u]
    BY <1>2 DEF Inv, TypeOK
  <2>4. pc'[t] = "dropSelf" => r # Null
    BY <1>1, <1>2 DEF Inv, TypeOK
  <2>5. ASSUME NEW u \in Threads, pc'[u] = "dropSelf"
        PROVE  left_'[tmp'[u]] # Null /\ object'[tmp'[u]] # "alive"
    <3>1. CASE tmp[u] = o
      <4>1. u # t => left_[o] # Null /\ ~first
        BY <3>1, <2>3, <2>5 DEF Inv, Dropping
      <4> QED BY <4>1, <3>1, <1>2, <2>1, <2>4, <2>5
    <3>2. CASE tmp[u] # o
      <4>1. pc[u] = "dropSelf" /\ tmp[u] \in Objects
        BY <3>2, <2>3, <2>5 DEF Inv, TypeOK, ThreadInv, Object
      <4>2. left_[tmp[u]] # Null /\ object[tmp[u]] # "alive"
        BY <4>1 DEF Inv, Dropping
      <4> QED BY <4>1, <4>2, <3>2, <1>2, <2>2
    <3> QED BY <3>1, <3>2
  <2>6. ASSUME NEW p \in Objects, object'[p] # "alive", weak_this_'[p] # Null
        PROVE  left_'[p] = weak_this_'[p]
    <3>1. CASE p = o
      BY <3>1, <1>2, <2>1, <2>6 DEF Inv, Dropping
    <3>2. CASE p # o
      BY <3>2, <1>2, <2>2, <2>6 DEF Inv, Dropping
    <3> QED BY <3>1, <3>2
  <2> QED BY <2>5, <2>6 DEF Dropping
<1> QED BY <1>3, <1>5, <1>6, <1>7, <1>8 DEF Inv

(* The destructor of weak_this_ drops a reference, or one more than there  *)
(* is. If the block had one reference and loses it, nobody is about to     *)
(* count the block once more: the object that could lend it is the one     *)
(* that dies.                                                              *)
LEMMA DropSelfStep ==
  ASSUME Inv, NEW t \in Threads, DropSelf(t)
  PROVE  Inv'
<1>0. PICK o \in Objects, r \in Objects : o = tmp[t] /\ r = left_[o]
  BY DEF Inv, TypeOK, ThreadInv, Dropping, DropSelf, Object
<1> DEFINE first == weak_this_[o] # Null
<1>1. /\ pc[t] = "dropSelf" /\ o = tmp[t] /\ r = left_[o]
      /\ first => weak_this_[o] = r
      /\ object[o] # "alive" /\ o # Null /\ r # Null
  BY <1>0, DistinctAssumption DEF Inv, Dropping, DropSelf
<1>2. /\ shared_and_weak_count_' = [shared_and_weak_count_ EXCEPT ![r] = @ - 1]
      /\ block' = [block EXCEPT ![r] =
                     IF shared_and_weak_count_[r] = 1 THEN "freed" ELSE @]
      /\ overdrawn' = [overdrawn EXCEPT ![r] = IF first THEN @ ELSE @ + 1]
      /\ weak_this_' = [weak_this_ EXCEPT ![o] = Null]
      /\ pc' = [pc EXCEPT ![t] = "decTotal"]
      /\ UNCHANGED <<count_, shared_count_, object, left_, tmp, src, dst>>
  BY <1>1 DEF DropSelf, TotalRelease, Inv, TypeOK
<1>3. /\ first => o \in TotalRefs(r)
      /\ TotalRefs(r)' = IF first THEN TotalRefs(r) \ {o} ELSE TotalRefs(r)
  BY <1>1, <1>2, DistinctAssumption DEF Inv, TypeOK, TotalRefs, Vars
<1>4. /\ shared_and_weak_count_'[r] = shared_and_weak_count_[r] - 1
      /\ overdrawn'[r] = IF first THEN overdrawn[r] ELSE overdrawn[r] + 1
      /\ overdrawn'[r] \in Nat
      /\ shared_and_weak_count_[r] \in Int /\ overdrawn[r] \in Nat
  BY <1>2 DEF Inv, TypeOK
<1>5. /\ shared_and_weak_count_'[r] = Cardinality(TotalRefs(r)') - overdrawn'[r]
      /\ Cardinality(TotalRefs(r)') \in Nat
  <2>1. Cardinality(TotalRefs(r)) - overdrawn[r] = shared_and_weak_count_[r]
    BY DEF Inv, TotalCountExact
  <2>2. CASE first
    <3>1. /\ Cardinality(TotalRefs(r)') = Cardinality(TotalRefs(r)) - 1
          /\ Cardinality(TotalRefs(r)) \in Nat \ {0}
      BY <2>2, <1>3, RefsFinite, CardLoss
    <3> QED BY <3>1, <2>1, <2>2, <1>4
  <2>3. CASE ~first
    <3>1. /\ Cardinality(TotalRefs(r)') = Cardinality(TotalRefs(r))
          /\ Cardinality(TotalRefs(r)) \in Nat
      BY <2>3, <1>3, RefsFinite
    <3> QED BY <3>1, <2>1, <2>3, <1>4
  <2> QED BY <2>2, <2>3
<1>6. \A p \in Objects : p # r =>
         /\ shared_and_weak_count_'[p] = shared_and_weak_count_[p]
         /\ overdrawn'[p] = overdrawn[p]
         /\ block'[p] = block[p]
  BY <1>2 DEF Inv, TypeOK
<1>7. TypeOK'
  <2>1. /\ weak_this_' \in [Objects -> Object] /\ left_' \in [Objects -> Object]
        /\ pc' \in [Threads -> Steps]
    BY <1>2 DEF Inv, TypeOK, Steps, Object
  <2>2. /\ shared_and_weak_count_' \in [Objects -> Int]
        /\ overdrawn' \in [Objects -> Nat]
        /\ block' \in [Objects -> Blocks]
    BY <1>2, <1>4 DEF Inv, TypeOK, Blocks
  <2>3. shared_and_weak_count_'[r] + overdrawn'[r] >= 0
    BY <1>4, <1>5
  <2>4. \A p \in Objects : shared_and_weak_count_'[p] + overdrawn'[p] >= 0
    BY <2>3, <1>6 DEF Inv, TypeOK
  <2> QED BY <1>2, <2>1, <2>2, <2>4 DEF Inv, TypeOK
<1>8. SharedCountExact'
  <2>1. \A p \in Objects : SharedRefs(p)' = SharedRefs(p)
    BY <1>1, <1>2 DEF Inv, TypeOK, SharedRefs
  <2> QED BY <2>1, <1>2 DEF Inv, SharedCountExact
<1>9. TotalCountExact'
  <2> SUFFICES ASSUME NEW p \in Objects, p # r
               PROVE  shared_and_weak_count_'[p] =
                        Cardinality(TotalRefs(p)') - overdrawn'[p]
    BY <1>5 DEF TotalCountExact
  <2>1. TotalRefs(p)' = TotalRefs(p)
    BY <1>1, <1>2, DistinctAssumption DEF Inv, TypeOK, TotalRefs
  <2> QED BY <2>1, <1>6 DEF Inv, TotalCountExact
<1>10. BlockPinned'
  <2>1. CASE shared_and_weak_count_[r] # 1 \/ overdrawn'[r] # 0
    <3>1. \A p \in Objects : Pinned(p) => Pinned(p)'
      BY <2>1, <1>2, <1>4, <1>6 DEF Inv, TypeOK, Pinned
    <3>2. \A p \in Objects : weak_this_'[p] \in {weak_this_[p], Null}
      BY <1>2 DEF Inv, TypeOK
    <3> QED BY <3>1, <3>2, <1>2 DEF Inv, TypeOK, BlockPinned, Pinned, Object
  <2>2. CASE shared_and_weak_count_[r] = 1 /\ overdrawn'[r] = 0
    <3>0. first
      BY <2>2, <1>4
    <3>1. IsFiniteSet(TotalRefs(r) \ {o})
      BY RefsFinite, FS_RemoveElement
    <3>2. TotalRefs(r) \ {o} = {}
      BY <3>0, <3>1, <2>2, <1>3, <1>4, <1>5, FS_EmptySet
    <3>3. \A v \in Vars : count_[v] # r
      BY <3>2, DistinctAssumption DEF TotalRefs, Vars
    <3>4. \A p \in Objects : p # o => weak_this_[p] # r
      BY <3>2, DistinctAssumption DEF TotalRefs, Vars
    <3>5. ASSUME NEW u \in Threads, Adding(u), tmp[u] = r
          PROVE  FALSE
      <4>1. src[u] \in SharedVars /\ weak_this_[count_[src[u]]] = r
            /\ count_[src[u]] \in Objects
        BY <3>3, <3>5 DEF Inv, TypeOK, ThreadInv, Lent, Object, Vars
      <4>2. count_[src[u]] = o
        BY <4>1, <3>4
      <4>3. Foreign(o)
        BY <4>1, <4>2, <3>3, <1>1 DEF Foreign, Vars
      <4>4. shared_count_[o] # 0
        BY <4>1, <4>2, OwnerCounts DEF SharedRefs
      <4> QED BY <4>3, <4>4, <1>1 DEF Inv, CopiesOwned
    <3>6. \A u \in Threads : ~Adding(u) => tmp[u] # r
      BY <3>2, <1>1, DistinctAssumption
         DEF Inv, TypeOK, ThreadInv, Adding, TotalRefs, Steps
    <3>7. \A p \in Objects : p # r => Pinned(p)' = Pinned(p)
      BY <1>6 DEF Pinned
    <3> QED BY <3>3, <3>4, <3>5, <3>6, <3>7, <1>1, <1>2
            DEF Inv, TypeOK, BlockPinned, Pinned, Object
  <2> QED BY <2>1, <2>2
<1>11. Allocated'
  <2>1. \A p \in Objects : block[p] # "none" => block'[p] # "none"
    BY <1>2 DEF Inv, TypeOK
  <2>2. \A p \in Objects : weak_this_'[p] \in {weak_this_[p], Null}
    BY <1>2 DEF Inv, TypeOK
  <2>3. \A p \in Objects : block'[p] = "none" => overdrawn'[p] = 0
    <3>1. block'[r] # "none"
      BY <1>1, <2>1 DEF Inv, Allocated, Given
    <3> QED BY <3>1, <1>6 DEF Inv, Allocated
  <2> QED BY <2>1, <2>2, <2>3, <1>2 DEF Inv, TypeOK, Allocated, Given, Object
<1>12. ThreadInv' /\ Exclusive'
  <2>1. \A u \in Threads : Adding(u) => Lent(u)'
    BY <1>1, <1>2, LentStays DEF Inv, TypeOK
  <2> QED BY <2>1, <1>1, <1>2 DEF Inv, TypeOK, ThreadInv, Exclusive, Adding
<1>13. Dropping' /\ Born'
  <2>1. \A u \in Threads : pc'[u] = "dropSelf" => pc[u] = "dropSelf"
    BY <1>2 DEF Inv, TypeOK
  <2>2. \A p \in Objects : /\ p # o => weak_this_'[p] = weak_this_[p]
                           /\ p = o => weak_this_'[p] = Null
    BY <1>2 DEF Inv, TypeOK
  <2>3. Dropping'
    BY <1>2, <2>1, <2>2 DEF Inv, Dropping
  <2>4. object[r] # "none" /\ object[o] # "none"
    BY <1>1 DEF Inv, Allocated, Given, Born
  <2> QED BY <1>2, <1>6, <2>2, <2>3, <2>4 DEF Inv, Born
<1>14. OneDeep' /\ CopiesOwned'
  <2>1. \A p \in Objects : weak_this_'[p] \in {weak_this_[p], Null}
    BY <1>2 DEF Inv, TypeOK
  <2>2. \A p \in Objects : weak_this_[p] \in Objects \cup {Null}
    BY DEF Inv, TypeOK, Object
  <2>3. \A p \in Objects : Foreign(p)' => Foreign(p)
    BY <2>1 DEF Foreign
  <2>4. OneDeep'
    BY <2>1, <2>2, <2>3 DEF Inv, OneDeep
  <2>5. \A u \in Threads : pc'[u] = "destroy" => pc[u] = "destroy"
    BY <1>2 DEF Inv, TypeOK
  <2>6. CopiesOwned'
    BY <1>2, <2>3, <2>5 DEF Inv, CopiesOwned
  <2> QED BY <2>4, <2>6
<1> QED BY <1>7, <1>8, <1>9, <1>10, <1>11, <1>12, <1>13, <1>14 DEF Inv

(* The last access of a reference: the thread that takes the count to zero *)
(* was the only holder left.                                               *)
LEMMA DecTotalStep ==
  ASSUME Inv, NEW t \in Threads, DecTotal(t)
  PROVE  Inv'
<1>0. PICK o \in Objects : o = tmp[t]
  BY DEF Inv, TypeOK, ThreadInv, DecTotal, Object
<1>1. pc[t] = "decTotal" /\ o # Null /\ o = tmp[t]
  BY <1>0, DistinctAssumption DEF DecTotal
<1>2. /\ shared_and_weak_count_' = [shared_and_weak_count_ EXCEPT ![o] = @ - 1]
      /\ block' = [block EXCEPT ![o] =
                     IF shared_and_weak_count_[o] = 1 THEN "freed" ELSE @]
      /\ tmp' = [tmp EXCEPT ![t] = Null]
      /\ pc' = [pc EXCEPT ![t] = "idle"]
      /\ UNCHANGED <<count_, weak_this_, shared_count_, object, left_,
                     overdrawn, src, dst>>
  BY <1>1 DEF DecTotal, TotalRelease, remains
<1>3. /\ t \in TotalRefs(o)
      /\ TotalRefs(o)' = TotalRefs(o) \ {t}
  BY <1>1, <1>2, DistinctAssumption DEF Inv, TypeOK, TotalRefs, Vars
<1>4. /\ Cardinality(TotalRefs(o)') = shared_and_weak_count_[o] + overdrawn[o] - 1
      /\ Cardinality(TotalRefs(o)') \in Nat
  <2>1. Cardinality(TotalRefs(o)) - overdrawn[o] = shared_and_weak_count_[o]
    BY DEF Inv, TotalCountExact
  <2>2. overdrawn[o] \in Nat /\ shared_and_weak_count_[o] \in Int
    BY DEF Inv, TypeOK
  <2>3. /\ Cardinality(TotalRefs(o)') = Cardinality(TotalRefs(o)) - 1
        /\ Cardinality(TotalRefs(o)) \in Nat \ {0}
    BY <1>3, RefsFinite, CardLoss
  <2> QED BY <2>1, <2>2, <2>3
<1>5. TypeOK'
  <2>1. \A p \in Objects : shared_and_weak_count_'[p] + overdrawn'[p] >= 0
    BY <1>2, <1>4 DEF Inv, TypeOK
  <2> QED BY <2>1, <1>1, <1>2 DEF Inv, TypeOK, Steps, Blocks, Object
<1>6. SharedCountExact'
  <2>1. \A p \in Objects : SharedRefs(p)' = SharedRefs(p)
    BY <1>1, <1>2, DistinctAssumption DEF Inv, TypeOK, SharedRefs
  <2> QED BY <2>1, <1>2 DEF Inv, SharedCountExact
<1>7. TotalCountExact'
  <2> SUFFICES ASSUME NEW p \in Objects, p # o
               PROVE  shared_and_weak_count_'[p] =
                        Cardinality(TotalRefs(p)') - overdrawn'[p]
    <3>1. shared_and_weak_count_'[o] = Cardinality(TotalRefs(o)') - overdrawn'[o]
      BY <1>2, <1>4 DEF Inv, TypeOK
    <3> QED BY <3>1 DEF TotalCountExact
  <2>1. TotalRefs(p)' = TotalRefs(p)
    BY <1>1, <1>2, DistinctAssumption DEF Inv, TypeOK, TotalRefs
  <2> QED BY <2>1, <1>2 DEF Inv, TypeOK, TotalCountExact
<1>8. BlockPinned'
  <2>0. \A p \in Objects : p # o => Pinned(p)' = Pinned(p)
    BY <1>2 DEF Inv, TypeOK, Pinned
  <2>1. CASE shared_and_weak_count_[o] # 1 \/ overdrawn[o] # 0
    <3>1. Pinned(o) => Pinned(o)'
      BY <2>1, <1>2 DEF Inv, TypeOK, Pinned
    <3> QED BY <3>1, <2>0, <1>1, <1>2
            DEF Inv, TypeOK, BlockPinned, Pinned, Object
  <2>2. CASE shared_and_weak_count_[o] = 1 /\ overdrawn[o] = 0
    <3>1. IsFiniteSet(TotalRefs(o) \ {t})
      BY RefsFinite, FS_RemoveElement
    <3>2. TotalRefs(o) \ {t} = {}
      BY <3>1, <2>2, <1>3, <1>4, FS_EmptySet
    <3>3. \A v \in Vars : count_[v] # o
      BY <3>2, DistinctAssumption DEF TotalRefs, Vars
    <3>4. \A p \in Objects : weak_this_[p] # o
      BY <3>2, DistinctAssumption DEF TotalRefs, Vars
    <3>5. \A u \in Threads : u # t => tmp[u] # o
      BY <3>2, <3>3, <3>4, <1>1
         DEF Inv, TypeOK, ThreadInv, Adding, Lent, TotalRefs, Steps, Object,
         Vars
    <3> QED BY <3>3, <3>4, <3>5, <2>0, <1>1, <1>2
            DEF Inv, TypeOK, BlockPinned, Pinned, Object
  <2> QED BY <2>1, <2>2
<1>12. Allocated'
  <2>1. \A p \in Objects : block[p] # "none" => block'[p] # "none"
    BY <1>2 DEF Inv, TypeOK
  <2> QED BY <2>1, <1>2 DEF Inv, TypeOK, Allocated, Given, Object
<1>9. ThreadInv' /\ Exclusive'
  BY <1>1, <1>2 DEF Inv, TypeOK, ThreadInv, Exclusive, Adding, Lent
<1>10. Dropping' /\ Born'
  <2>1. object[o] # "none"
    BY <1>1 DEF Inv, Allocated, Given, Born
  <2>2. \A p \in Objects : p # o => block'[p] = block[p]
    BY <1>2 DEF Inv, TypeOK
  <2>3. Born'
    BY <1>2, <2>1, <2>2 DEF Inv, Born
  <2>4. Dropping'
    BY <1>1, <1>2 DEF Inv, TypeOK, Dropping
  <2> QED BY <2>3, <2>4
<1>11. OneDeep' /\ CopiesOwned'
  <2>1. pc'[t] = "idle" /\ \A u \in Threads : u # t => /\ pc'[u] = pc[u]
                                                       /\ tmp'[u] = tmp[u]
    BY <1>2 DEF Inv, TypeOK
  <2> QED BY <1>2, <2>1, CopiesStay
<1> QED BY <1>5, <1>6, <1>7, <1>8, <1>9, <1>10, <1>11, <1>12 DEF Inv

(* A raw object is referred to by nothing.                                 *)
LEMMA RawUnreferenced ==
  ASSUME Inv, NEW o \in Objects, block[o] = "none"
  PROVE  /\ SharedRefs(o) = {} /\ TotalRefs(o) = {}
         /\ \A v \in Vars : count_[v] # o
         /\ \A p \in Objects : weak_this_[p] # o
         /\ \A t \in Threads : tmp[t] # o
         /\ shared_count_[o] = 0
<1>1. o # Null
  BY DistinctAssumption
<1>2. /\ \A v \in Vars : count_[v] # o
      /\ \A p \in Objects : weak_this_[p] # o
      /\ \A t \in Threads : tmp[t] # o
  BY <1>1 DEF Inv, Allocated, Given
<1>3. SharedRefs(o) = {} /\ TotalRefs(o) = {}
  BY <1>2 DEF SharedRefs, TotalRefs, Vars
<1> QED BY <1>2, <1>3, FS_EmptySet DEF Inv, SharedCountExact

(* `new T' touches the object only.                                        *)
LEMMA NewStep ==
  ASSUME Inv, NEW t \in Threads, NEW o \in Objects, New(t, o)
  PROVE  Inv'
<1>1. /\ object[o] = "none" /\ block[o] = "none"
      /\ object' = [object EXCEPT ![o] = "alive"]
      /\ UNCHANGED <<count_, weak_this_, shared_count_,
                     shared_and_weak_count_, block, pc, tmp, left_, overdrawn,
                     src, dst>>
  BY DEF New, Inv, Born, counters, remains, threadVars
<1>2. TypeOK'
  BY <1>1 DEF Inv, TypeOK, Lives
<1>3. \A p \in Objects : /\ SharedRefs(p)' = SharedRefs(p)
                         /\ TotalRefs(p)' = TotalRefs(p)
  BY <1>1 DEF SharedRefs, TotalRefs
<1>4. SharedCountExact' /\ TotalCountExact'
  BY <1>1, <1>3 DEF Inv, SharedCountExact, TotalCountExact
<1>5. BlockPinned' /\ Allocated' /\ ThreadInv' /\ Exclusive'
  BY <1>1
     DEF Inv, BlockPinned, Pinned, Allocated, Given, ThreadInv, Exclusive,
     Adding, Lent
<1>6. Dropping' /\ Born'
  <2>1. \A u \in Threads : tmp[u] # o
    BY <1>1, RawUnreferenced
  <2>2. \A u \in Threads : pc[u] = "dropSelf" => tmp[u] \in Objects
    BY DEF Inv, TypeOK, ThreadInv, Object
  <2> QED BY <1>1, <2>1, <2>2 DEF Inv, TypeOK, Dropping, Born
<1>7. OneDeep' /\ CopiesOwned'
  BY <1>1 DEF Inv, TypeOK, OneDeep, CopiesOwned, Foreign
<1> QED BY <1>2, <1>4, <1>5, <1>6, <1>7 DEF Inv

(* A failed adoption destroys the object; what its weak_this_ referred to  *)
(* is the thread's to release.                                             *)
LEMMA AdoptFailsStep ==
  ASSUME Inv, NEW t \in Threads, NEW o \in Objects, AdoptFails(t, o)
  PROVE  Inv'
<1> DEFINE r == weak_this_[o]
<1>1. /\ pc[t] = "idle" /\ tmp[t] = Null
      /\ object[o] = "alive" /\ block[o] = "none" /\ o # Null
      /\ r \in Object /\ r # o
      /\ \A p \in Objects : weak_this_[p] # o
      /\ \A u \in Threads : tmp[u] # o
      /\ shared_count_[o] = 0
  BY RawUnreferenced, DistinctAssumption
     DEF AdoptFails, Raw, Inv, TypeOK, ThreadInv
<1>2. /\ object' = [object EXCEPT ![o] = "dead"]
      /\ weak_this_' = [weak_this_ EXCEPT ![o] = Null]
      /\ tmp' = [tmp EXCEPT ![t] = r]
      /\ pc' = [pc EXCEPT ![t] = IF r = Null THEN "idle" ELSE "decTotal"]
      /\ UNCHANGED <<count_, shared_count_, shared_and_weak_count_, block,
                     left_, overdrawn, src, dst>>
  BY DEF AdoptFails, counters, remains
<1>3. TypeOK'
  BY <1>1, <1>2 DEF Inv, TypeOK, Lives, Steps, Object
<1>4. SharedCountExact'
  <2>1. \A p \in Objects : SharedRefs(p)' = SharedRefs(p)
    BY <1>1, <1>2 DEF Inv, TypeOK, SharedRefs
  <2> QED BY <2>1, <1>2 DEF Inv, SharedCountExact
<1>5. TotalCountExact'
  <2> SUFFICES ASSUME NEW p \in Objects
               PROVE  Cardinality(TotalRefs(p)') = Cardinality(TotalRefs(p))
    BY <1>2 DEF Inv, TotalCountExact
  <2>1. p # Null /\ t \notin TotalRefs(p)
    BY <1>1, DistinctAssumption DEF TotalRefs, Vars
  <2>2. CASE p = r
    <3>1. TotalRefs(p)' = (TotalRefs(p) \ {o}) \cup {t}
      BY <2>1, <2>2, <1>1, <1>2, DistinctAssumption
         DEF Inv, TypeOK, TotalRefs, Vars
    <3>2. o \in TotalRefs(p)
      BY <2>2 DEF TotalRefs
    <3> QED BY <3>1, <3>2, <2>1, RefsFinite, CardSwap
  <2>3. CASE p # r
    <3>1. TotalRefs(p)' = TotalRefs(p)
      BY <2>1, <2>3, <1>1, <1>2, DistinctAssumption
         DEF Inv, TypeOK, TotalRefs, Vars
    <3> QED BY <3>1
  <2> QED BY <2>2, <2>3
<1>6. BlockPinned' /\ Allocated'
  BY <1>1, <1>2 DEF Inv, TypeOK, BlockPinned, Pinned, Allocated, Given
<1>7. ThreadInv' /\ Exclusive'
  <2>1. \A u \in Threads : Adding(u) => u # t /\ Lent(u)'
    BY <1>1, <1>2, LentStays DEF Inv, TypeOK, Adding
  <2> QED BY <2>1, <1>1, <1>2 DEF Inv, TypeOK, ThreadInv, Exclusive, Adding
<1>8. Dropping' /\ Born'
  BY <1>1, <1>2 DEF Inv, TypeOK, ThreadInv, Dropping, Born, Object
<1>9. OneDeep' /\ CopiesOwned'
  BY <1>1, <1>2 DEF Inv, TypeOK, OneDeep, CopiesOwned, Foreign
<1> QED BY <1>3, <1>4, <1>5, <1>6, <1>7, <1>8, <1>9 DEF Inv

(* A copy of an object takes a reference to the block that the original's  *)
(* weak_this_ refers to.                                                   *)
LEMMA CloneStep ==
  ASSUME Inv, NEW t \in Threads, NEW s \in SharedVars, NEW o \in Objects,
         Clone(t, s, o)
  PROVE  Inv'
<1> DEFINE q == count_[s]
           r == weak_this_[q]
<1>1. /\ pc[t] = "idle" /\ t \in Cloners /\ q \in Objects /\ r \in Object
      /\ object[o] = "none" /\ block[o] = "none" /\ weak_this_[o] = Null
      /\ o # Null /\ r # o
      /\ \A p \in Objects : weak_this_[p] # o
      /\ \A u \in Threads : tmp[u] # o
      /\ shared_count_[o] = 0
  BY RawUnreferenced, DistinctAssumption, ClientAssumption
     DEF Clone, Pointee, Inv, TypeOK, Born
<1>2. /\ object' = [object EXCEPT ![o] = "alive"]
      /\ weak_this_' = [weak_this_ EXCEPT ![o] = r]
      /\ shared_and_weak_count_' =
           IF r = Null THEN shared_and_weak_count_
           ELSE [shared_and_weak_count_ EXCEPT ![r] = @ + 1]
      /\ UNCHANGED <<count_, shared_count_, block, pc, tmp, left_, overdrawn,
                     src, dst>>
  BY DEF Clone, IncTotal, threadVars, remains
<1>3. TypeOK'
  <2>1. /\ object' \in [Objects -> Lives]
        /\ weak_this_' \in [Objects -> Object]
    BY <1>1, <1>2 DEF Inv, TypeOK, Lives
  <2>2. /\ shared_and_weak_count_' \in [Objects -> Int]
        /\ \A p \in Objects : shared_and_weak_count_'[p] + overdrawn'[p] >= 0
        /\ overdrawn' \in [Objects -> Nat] /\ left_' \in [Objects -> Object]
    BY <1>1, <1>2 DEF Inv, TypeOK, Object
  <2>3. /\ count_' \in [Vars -> Object] /\ shared_count_' \in [Objects -> Nat]
        /\ block' \in [Objects -> Blocks] /\ pc' \in [Threads -> Steps]
    BY <1>2 DEF Inv, TypeOK
  <2>4. /\ tmp' \in [Threads -> Object] /\ src' \in [Threads -> Vars \cup {Null}]
        /\ dst' \in [Threads -> SharedVars \cup {Null}]
    BY <1>2 DEF Inv, TypeOK
  <2> QED BY <2>1, <2>2, <2>3, <2>4 DEF TypeOK
<1>4. SharedCountExact'
  <2>1. \A p \in Objects : SharedRefs(p)' = SharedRefs(p)
    BY <1>2 DEF SharedRefs
  <2> QED BY <2>1, <1>2 DEF Inv, SharedCountExact
<1>5. TotalCountExact'
  <2> SUFFICES ASSUME NEW p \in Objects
               PROVE  shared_and_weak_count_'[p] =
                        Cardinality(TotalRefs(p)') - overdrawn'[p]
    BY DEF TotalCountExact
  <2>1. p # Null
    BY DistinctAssumption
  <2>2. CASE p = r
    <3>1. TotalRefs(p)' = TotalRefs(p) \cup {o}
      BY <2>1, <2>2, <1>1, <1>2 DEF Inv, TypeOK, TotalRefs
    <3>2. o \notin TotalRefs(p)
      BY <2>1, <1>1, DistinctAssumption DEF TotalRefs, Vars
    <3>3. Cardinality(TotalRefs(p)') = Cardinality(TotalRefs(p)) + 1
      BY <3>1, <3>2, RefsFinite, CardGain
    <3> QED BY <2>1, <2>2, <3>3, <1>2, RefsFinite
               DEF Inv, TypeOK, TotalCountExact
  <2>3. CASE p # r
    <3>1. TotalRefs(p)' = TotalRefs(p)
      BY <2>1, <2>3, <1>1, <1>2 DEF Inv, TypeOK, TotalRefs
    <3> QED BY <2>3, <3>1, <1>2 DEF Inv, TypeOK, TotalCountExact
  <2> QED BY <2>2, <2>3
<1>6. BlockPinned' /\ Allocated'
  BY <1>1, <1>2 DEF Inv, TypeOK, BlockPinned, Pinned, Allocated, Given
<1>7. ThreadInv' /\ Exclusive'
  <2>1. \A u \in Threads : Adding(u) => Lent(u)'
    BY <1>1, <1>2, LentStays DEF Inv, TypeOK
  <2> QED BY <2>1, <1>2 DEF Inv, ThreadInv, Exclusive, Adding
<1>8. Dropping' /\ Born'
  BY <1>1, <1>2 DEF Inv, TypeOK, ThreadInv, Dropping, Born, Object
<1>9. OneDeep' /\ CopiesOwned'
  <2>1. ~Foreign(r) \/ r = Null
    BY <1>1 DEF Inv, OneDeep
  <2>2. \A p \in Objects : p # o => weak_this_'[p] = weak_this_[p]
    BY <1>2 DEF Inv, TypeOK
  <2>3. weak_this_'[o] = r
    BY <1>2 DEF Inv, TypeOK
  <2>4. \A p \in Objects : weak_this_[p] \in Objects \cup {Null}
    BY DEF Inv, TypeOK, Object
  <2>5. OneDeep'
    BY <1>1, <2>1, <2>2, <2>3, <2>4 DEF Inv, OneDeep, Foreign
  <2>6. CopiesOwned'
    BY <1>1, <1>2 DEF Inv, TypeOK, CopiesOwned, Foreign
  <2> QED BY <2>5, <2>6
<1> QED BY <1>3, <1>4, <1>5, <1>6, <1>7, <1>8, <1>9 DEF Inv

(* The first owner of an object brings its control block. An object that   *)
(* derives from enable_shared_from_this refers to it too, unless it is a   *)
(* copy of an object that still has owners.                                *)
LEMMA AdoptStep ==
  ASSUME Inv, NEW t \in Threads, NEW d \in SharedVars, NEW o \in Objects,
         Adopt(t, d, o)
  PROVE  Inv'
<1> DEFINE r == weak_this_[o]
           self == o \in Enabled /\ Expired(r)
<1>1. /\ pc[t] = "idle" /\ Writable(d) /\ count_[d] = Null
      /\ object[o] = "alive" /\ block[o] = "none" /\ tmp[t] = Null
      /\ r \in Object /\ r # o /\ shared_count_[o] = 0
      /\ SharedRefs(o) = {} /\ TotalRefs(o) = {}
      /\ \A u \in Threads : tmp[u] # o
      /\ \A p \in Objects : weak_this_[p] # o
  BY RawUnreferenced DEF Adopt, Raw, Inv, TypeOK, ThreadInv
<1>2. d \in Vars /\ d \notin Threads /\ d # o /\ o # Null
  BY DistinctAssumption DEF Vars
<1>3. /\ count_' = [count_ EXCEPT ![d] = o]
      /\ block' = [block EXCEPT ![o] = "live"]
      /\ shared_count_' = [shared_count_ EXCEPT ![o] = 1]
      /\ weak_this_' = [weak_this_ EXCEPT ![o] = IF self THEN o ELSE r]
      /\ shared_and_weak_count_' =
           [shared_and_weak_count_ EXCEPT ![o] = IF self THEN 2 ELSE 1]
      /\ tmp' = [tmp EXCEPT ![t] = IF self THEN r ELSE Null]
      /\ pc' = [pc EXCEPT ![t] =
                  IF self /\ r # Null THEN "decTotal" ELSE "idle"]
      /\ UNCHANGED <<object, left_, overdrawn, src, dst>>
  BY <1>1 DEF Adopt, Inv, TypeOK, remains
<1>4. TypeOK'
  BY <1>1, <1>2, <1>3 DEF Inv, TypeOK, Blocks, Steps, Object
<1>5. SharedCountExact'
  <2>1. SharedRefs(o)' = {d}
    BY <1>1, <1>2, <1>3 DEF Inv, TypeOK, SharedRefs
  <2>2. \A p \in Objects : p # o => SharedRefs(p)' = SharedRefs(p)
    BY <1>1, <1>2, <1>3, DistinctAssumption DEF Inv, TypeOK, SharedRefs
  <2> QED BY <2>1, <2>2, <1>3, FS_Singleton DEF Inv, TypeOK, SharedCountExact
<1>6. TotalCountExact'
  <2>1. TotalRefs(o)' = IF self THEN {d} \cup {o} ELSE {d}
    BY <1>1, <1>2, <1>3 DEF Inv, TypeOK, TotalRefs
  <2>2. Cardinality({d}) = 1 /\ IsFiniteSet({d})
    BY FS_Singleton
  <2>3. Cardinality({d} \cup {o}) = Cardinality({d}) + 1
    BY <1>2, <2>2, CardGain
  <2>4. Cardinality(TotalRefs(o)') = IF self THEN 2 ELSE 1
    BY <2>1, <2>2, <2>3
  <2>5. ASSUME NEW p \in Objects, p # o
        PROVE  Cardinality(TotalRefs(p)') = Cardinality(TotalRefs(p))
    <3>1. p # Null /\ t \notin TotalRefs(p)
      BY <1>1, DistinctAssumption DEF TotalRefs, Vars
    <3>2. CASE self /\ p = r
      <4>1. TotalRefs(p)' = (TotalRefs(p) \ {o}) \cup {t}
        BY <2>5, <3>1, <3>2, <1>1, <1>2, <1>3, DistinctAssumption
           DEF Inv, TypeOK, TotalRefs, Vars
      <4>2. o \in TotalRefs(p)
        BY <3>2 DEF TotalRefs
      <4> QED BY <4>1, <4>2, <3>1, RefsFinite, CardSwap
    <3>3. CASE ~self \/ p # r
      <4>1. TotalRefs(p)' = TotalRefs(p)
        BY <2>5, <3>1, <3>3, <1>1, <1>2, <1>3, DistinctAssumption
           DEF Inv, TypeOK, TotalRefs, Vars
      <4> QED BY <4>1
    <3> QED BY <3>2, <3>3
  <2>6. overdrawn[o] = 0
    BY <1>1 DEF Inv, Allocated
  <2> QED BY <2>4, <2>5, <2>6, <1>3 DEF Inv, TypeOK, TotalCountExact
<1>7. BlockPinned' /\ Allocated'
  BY <1>1, <1>2, <1>3 DEF Inv, TypeOK, BlockPinned, Pinned, Allocated, Given
<1>8. ThreadInv' /\ Exclusive'
  <2>1. \A u \in Threads : Adding(u) => u # t /\ Lent(u)'
    BY <1>1, <1>2, <1>3, LentStays
       DEF Inv, TypeOK, ThreadInv, Adding, Writable
  <2> QED BY <2>1, <1>1, <1>3 DEF Inv, TypeOK, ThreadInv, Exclusive, Adding
<1>9. Dropping' /\ Born'
  BY <1>1, <1>2, <1>3 DEF Inv, TypeOK, ThreadInv, Dropping, Born, Object
<1>10. OneDeep' /\ CopiesOwned'
  <2>1. \A p \in Objects : p # o => weak_this_'[p] = weak_this_[p]
    BY <1>3 DEF Inv, TypeOK
  <2>2. weak_this_'[o] = IF self THEN o ELSE r
    BY <1>3 DEF Inv, TypeOK
  <2>3. \A p \in Objects : weak_this_[p] \in Objects \cup {Null}
    BY DEF Inv, TypeOK, Object
  <2>4. OneDeep'
    BY <1>1, <1>2, <2>1, <2>2, <2>3 DEF Inv, OneDeep, Foreign
  <2>5. CopiesOwned'
    <3>1. \A p \in Objects : p # o => /\ shared_count_'[p] = shared_count_[p]
                                      /\ Foreign(p)' = Foreign(p)
      BY <1>3, <2>1 DEF Inv, TypeOK, Foreign
    <3>2. \A u \in Threads : pc'[u] = "destroy" => /\ pc[u] = "destroy"
                                                   /\ tmp'[u] = tmp[u]
      BY <1>1, <1>3 DEF Inv, TypeOK
    <3>3. Foreign(o)' => Foreign(o)
      BY <1>1, <2>2 DEF Foreign
    <3>4. object'[o] = "alive" /\ \A u \in Threads : pc'[u] = "destroy" => tmp'[u] # o
      BY <1>1, <1>3, <3>2
    <3> QED BY <1>3, <3>1, <3>2, <3>3, <3>4 DEF Inv, CopiesOwned
  <2> QED BY <2>4, <2>5
<1> QED BY <1>4, <1>5, <1>6, <1>7, <1>8, <1>9, <1>10 DEF Inv

-----------------------------------------------------------------------------
(* The invariant holds at first.                                           *)
LEMMA InitInv == Init => Inv
<1> SUFFICES ASSUME Init PROVE Inv
  OBVIOUS
<1>1. TypeOK
  BY DEF Init, TypeOK, Object, Vars, Blocks, Lives, Steps
<1>2. \A o \in Objects : SharedRefs(o) = {} /\ TotalRefs(o) = {}
  BY DistinctAssumption DEF Init, SharedRefs, TotalRefs, Vars
<1>3. SharedCountExact /\ TotalCountExact
  <2>1. \A o \in Objects : /\ shared_count_[o] = 0
                           /\ shared_and_weak_count_[o] = 0 /\ overdrawn[o] = 0
    BY DEF Init
  <2> QED BY <1>2, <2>1, FS_EmptySet DEF SharedCountExact, TotalCountExact
<1>4. BlockPinned /\ Allocated /\ ThreadInv /\ Exclusive
  BY
     DEF Init, BlockPinned, Pinned, Allocated, Given, ThreadInv, Exclusive,
     Adding
<1>5. Dropping /\ Born /\ OneDeep /\ CopiesOwned
  BY DEF Init, Dropping, Born, OneDeep, CopiesOwned, Foreign
<1> QED BY <1>1, <1>3, <1>4, <1>5 DEF Inv

(* Every member function preserves it.                                     *)
LEMMA NextInv ==
  ASSUME CopiesOrPromotions, Inv, [Next]_vars
  PROVE  Inv'
<1>1. CASE UNCHANGED vars
  BY <1>1
     DEF vars, counters, remains, threadVars, Inv, TypeOK, SharedCountExact,
     TotalCountExact, SharedRefs, TotalRefs, BlockPinned, Pinned, Allocated,
     Given, ThreadInv, Exclusive, Adding, Lent, Dropping, Born, OneDeep,
     CopiesOwned, Foreign
<1>2. ASSUME NEW t \in Threads, Continue(t)
      PROVE  Inv'
  BY <1>2, AddTotalStep, PromoteStep, ReleaseStep, DestroyStep, DropSelfStep,
     DecTotalStep DEF Continue
<1>3. ASSUME NEW t \in Threads, Call(t)
      PROVE  Inv'
  <2> USE DEF Vars
  <2>1. ASSUME NEW o \in Objects, New(t, o) \/ AdoptFails(t, o)
        PROVE  Inv'
    BY <2>1, NewStep, AdoptFailsStep
  <2>2. ASSUME NEW o \in Objects, NEW s \in SharedVars,
               Clone(t, s, o) \/ MoveClone(t, s, o) \/ Adopt(t, s, o)
        PROVE  Inv'
    BY <2>2, AdoptStep, CloneStep DEF CopiesOrPromotions, MoveClone
  <2>3. ASSUME NEW s \in SharedVars, NEW d \in SharedVars, CopyShared(t, s, d)
        PROVE  Inv'
    <3>1. CASE count_[s] = Null
      BY <2>3, <3>1, AssignEmptyStep DEF CopyShared
    <3>2. CASE count_[s] # Null
      <4>1. count_[s] \in Objects /\ s \in SharedRefs(count_[s])
        BY <3>2 DEF Inv, TypeOK, Object, SharedRefs
      <4> QED BY <2>3, <3>2, <4>1, OwnerCounts, AddRefStep DEF CopyShared
    <3> QED BY <3>1, <3>2
  <2>4. ASSUME NEW s \in SharedVars, NEW d \in SharedVars, MoveShared(t, s, d)
        PROVE  Inv'
    BY <2>4, MoveStep DEF MoveShared, counters, remains
  <2>5. ASSUME NEW s \in SharedVars, NEW d \in SharedVars, SwapVars(t, s, d)
        PROVE  Inv'
    BY <2>5, SwapStep
  <2>6. ASSUME NEW s \in SharedVars, NEW d \in SharedVars,
               SharedFromThis(t, s, d)
        PROVE  Inv'
    <3> DEFINE q == count_[s]
               p == weak_this_[q]
    <3>1. q \in Objects /\ q # Null
      BY <2>6, ClientAssumption, DistinctAssumption DEF SharedFromThis, Pointee
    <3>2. CASE p = Null
      BY <2>6, <3>1, <3>2, AssignEmptyStep DEF SharedFromThis
    <3>3. CASE p # Null
      <4>1. p \in Objects /\ ~Foreign(p)
        BY <3>1, <3>3 DEF Inv, TypeOK, OneDeep, Object
      <4>2. pc[t] = "idle" /\ Readable(s) /\ Writable(d) /\ AddRef(t, p, s, d)
        BY <2>6, <3>3 DEF SharedFromThis
      <4> QED BY <3>1, <4>1, <4>2, AddRefStep
    <3> QED BY <3>2, <3>3
  <2>7. ASSUME NEW d \in SharedVars, ResetShared(t, d)
        PROVE  Inv'
    BY <2>7, AssignEmptyStep DEF ResetShared
  <2>8. ASSUME NEW s \in Vars, NEW w \in WeakVars, CopyWeak(t, s, w)
        PROVE  Inv'
    <3>1. /\ count_[s] \in Object
          /\ Pinned(count_[s]) /\ Given(count_[s])
      BY DEF Inv, TypeOK, BlockPinned, Pinned, Allocated, Given
    <3> QED BY <2>8, <3>1, WeakAssignStep DEF CopyWeak
  <2>9. ASSUME NEW s \in SharedVars, NEW w \in WeakVars, WeakFromThis(t, s, w)
        PROVE  Inv'
    <3>1. count_[s] \in Objects
      BY <2>9, ClientAssumption DEF WeakFromThis, Pointee
    <3> DEFINE p == weak_this_[count_[s]]
    <3>2. p \in Object /\ Pinned(p) /\ Given(p)
      BY <3>1 DEF Inv, TypeOK, BlockPinned, Pinned, Allocated, Given
    <3> QED BY <2>9, <3>2, WeakAssignStep DEF WeakFromThis
  <2>10. ASSUME NEW d \in SharedVars, NEW w \in WeakVars, Lock(t, w, d)
         PROVE  Inv'
    <3>1. CASE Expired(count_[w])
      BY <2>10, <3>1, AssignEmptyStep DEF Lock
    <3>2. CASE ~Expired(count_[w])
      BY <2>10, <3>2, LockStep
    <3> QED BY <3>1, <3>2
  <2>11. ASSUME NEW d \in SharedVars, NEW w \in WeakVars, FromWeak(t, w, d)
         PROVE  Inv'
    <3>1. CASE count_[w] = Null
      BY <2>11, <3>1, AssignEmptyStep DEF FromWeak
    <3>2. CASE count_[w] # Null
      <4>1. count_[w] \in Objects
        BY <3>2 DEF Inv, TypeOK, Object
      <4>2. ~Foreign(count_[w])
        BY <2>11, <4>1 DEF FromWeak, CopiesOrPromotions, Inv, CopiesOwned
      <4> QED BY <2>11, <3>2, <4>1, <4>2, AddRefStep DEF FromWeak
    <3> QED BY <3>1, <3>2
  <2>12. ASSUME NEW s \in WeakVars, NEW w \in WeakVars, MoveWeak(t, s, w)
         PROVE  Inv'
    BY <2>12, MoveStep, DistinctAssumption DEF MoveWeak, counters, remains
  <2>13. ASSUME NEW s \in WeakVars, NEW w \in WeakVars, SwapVars(t, s, w)
         PROVE  Inv'
    BY <2>13, SwapStep, DistinctAssumption
  <2>14. ASSUME NEW w \in WeakVars, ResetWeak(t, w)
         PROVE  Inv'
    BY <2>14, WeakAssignStep DEF ResetWeak, Object, Pinned, Given
  <2>15. ASSUME NEW s \in SharedVars, NEW d \in SharedVars,
                AssignObject(t, s, d) \/ MoveAssignObject(t, s, d)
         PROVE  Inv'
    BY <2>15 DEF CopiesOrPromotions, AssignObject, MoveAssignObject
  <2> QED
    BY <1>3, <2>1, <2>2, <2>3, <2>4, <2>5, <2>6, <2>7, <2>8, <2>9, <2>10,
       <2>11, <2>12, <2>13, <2>14, <2>15 DEF Call
<1> QED BY <1>1, <1>2, <1>3 DEF Next

LEMMA InvHolds ==
  ASSUME CopiesOrPromotions
  PROVE  Spec => []Inv
<1>1. Inv /\ [Next]_vars => Inv'
  BY NextInv
<1> QED BY InitInv, <1>1, PTL DEF Spec

(* The variables keep their types; in particular no decrement takes a      *)
(* counter below zero, but for the decrements of destructors that run a    *)
(* second time.                                                            *)
THEOREM CountersNeverNegative ==
  ASSUME CopiesOrPromotions
  PROVE  Spec => []TypeOK
<1>1. Inv => TypeOK
  BY DEF Inv
<1> QED BY InvHolds, <1>1, PTL

(* shared_count_ tells exactly how many owners there are: for any number   *)
(* of threads, in any interleaving, with racing calls of lock, promotions  *)
(* of expired references or copies of objects whose weak_this_ refers to   *)
(* another block.                                                          *)
THEOREM OwnersExact ==
  ASSUME CopiesOrPromotions
  PROVE  Spec => []SharedCountExact
<1>1. Inv => SharedCountExact
  BY DEF Inv
<1> QED BY InvHolds, <1>1, PTL

(* shared_and_weak_count_ tells exactly how many references there are,     *)
(* less the units that destructors which ran a second time took again.     *)
THEOREM CountersExact ==
  ASSUME CopiesOrPromotions
  PROVE  Spec => []TotalCountExact
<1>1. Inv => TotalCountExact
  BY DEF Inv
<1> QED BY InvHolds, <1>1, PTL

(* No variable, no object and no thread inside a member function refers to *)
(* a control block that was freed or never allocated, unless a destructor  *)
(* that ran a second time took a unit of that block.                       *)
THEOREM BlocksPinned ==
  ASSUME CopiesOrPromotions
  PROVE  Spec => []BlockPinned
<1>1. Inv => BlockPinned
  BY DEF Inv
<1> QED BY InvHolds, <1>1, PTL

-----------------------------------------------------------------------------
(* The thread that takes the second counter to zero frees the block, so    *)
(* that the counter of a live block is above zero.                         *)
Counted ==
  \A o \in Objects : block[o] = "live" => shared_and_weak_count_[o] >= 1

LEMMA TotalReleaseCounted ==
  ASSUME Inv, Counted, NEW o \in Objects, TotalRelease(o)
  PROVE  Counted'
<1>1. /\ shared_and_weak_count_'[o] = shared_and_weak_count_[o] - 1
      /\ block'[o] = IF shared_and_weak_count_[o] = 1 THEN "freed" ELSE block[o]
      /\ \A p \in Objects : p # o =>
           /\ shared_and_weak_count_'[p] = shared_and_weak_count_[p]
           /\ block'[p] = block[p]
  BY DEF TotalRelease, Inv, TypeOK
<1>2. block'[o] = "live" => shared_and_weak_count_'[o] >= 1
  <2>1. shared_and_weak_count_[o] \in Int
    BY DEF Inv, TypeOK
  <2>2. block[o] = "live" => shared_and_weak_count_[o] >= 1
    BY DEF Counted
  <2> QED BY <2>1, <2>2, <1>1
<1> QED BY <1>1, <1>2 DEF Counted

LEMMA NextCounted ==
  ASSUME CopiesOrPromotions, Inv, Counted, [Next]_vars
  PROVE  Counted'
<1>1. CASE UNCHANGED vars
  BY <1>1 DEF vars, counters, Counted
<1>2. ASSUME UNCHANGED <<shared_and_weak_count_, block>>
      PROVE  Counted'
  BY <1>2 DEF Counted
<1>3. ASSUME NEW o \in Objects, IncTotal(o), UNCHANGED block
      PROVE  Counted'
  BY <1>3 DEF IncTotal, Counted, Inv, TypeOK
<1>4. ASSUME NEW t \in Threads, Continue(t)
      PROVE  Counted'
  <2>1. CASE AddTotal(t)
    <3>1. tmp[t] \in Objects
      BY <2>1 DEF AddTotal, Inv, TypeOK, ThreadInv, Object
    <3> QED BY <2>1, <3>1, <1>3 DEF AddTotal
  <2>2. CASE DecTotal(t)
    <3>1. tmp[t] \in Objects
      BY <2>2 DEF DecTotal, Inv, TypeOK, ThreadInv, Object
    <3> QED BY <2>2, <3>1, TotalReleaseCounted DEF DecTotal
  <2>3. CASE DropSelf(t)
    <3>1. left_[tmp[t]] \in Objects
      BY <2>3 DEF DropSelf, Inv, TypeOK, ThreadInv, Dropping, Object
    <3> QED BY <2>3, <3>1, TotalReleaseCounted DEF DropSelf
  <2>4. CASE Promote(t) \/ Release(t) \/ Destroy(t)
    BY <1>2, <2>4 DEF Promote, Release, Destroy, counters
  <2> QED BY <1>4, <2>1, <2>2, <2>3, <2>4 DEF Continue
<1>5. ASSUME NEW t \in Threads, Call(t)
      PROVE  Counted'
  <2>1. ASSUME NEW w \in WeakVars, NEW o \in Object, WeakAssign(t, w, o)
        PROVE  Counted'
    BY <2>1, <1>2, <1>3 DEF WeakAssign, Object
  <2>2. ASSUME NEW o \in Objects, NEW d \in SharedVars,
               Clone(t, d, o) \/ MoveClone(t, d, o) \/ Adopt(t, d, o)
        PROVE  Counted'
    <3>1. CASE Adopt(t, d, o)
      <4>1. /\ block' = [block EXCEPT ![o] = "live"]
            /\ \E n \in {1, 2} : shared_and_weak_count_' =
                                    [shared_and_weak_count_ EXCEPT ![o] = n]
        BY <3>1 DEF Adopt
      <4> QED BY <4>1 DEF Counted, Inv, TypeOK
    <3>2. CASE Clone(t, d, o)
      <4>1. weak_this_[count_[d]] \in Object
        BY <3>2, ClientAssumption DEF Clone, Pointee, Inv, TypeOK
      <4> QED BY <3>2, <4>1, <1>2, <1>3 DEF Clone, Object
    <3> QED BY <2>2, <3>1, <3>2 DEF CopiesOrPromotions, MoveClone
  <2>3. ASSUME NEW s \in Vars, NEW w \in WeakVars, CopyWeak(t, s, w)
        PROVE  Counted'
    BY <2>1, <2>3 DEF CopyWeak, Inv, TypeOK
  <2>4. ASSUME NEW s \in SharedVars, NEW w \in WeakVars, WeakFromThis(t, s, w)
        PROVE  Counted'
    <3>1. weak_this_[count_[s]] \in Object
      BY <2>4, ClientAssumption DEF WeakFromThis, Pointee, Inv, TypeOK
    <3> QED BY <2>1, <2>4, <3>1 DEF WeakFromThis
  <2>5. ASSUME NEW w \in WeakVars, ResetWeak(t, w)
        PROVE  Counted'
    BY <2>1, <2>5 DEF ResetWeak, Object
  <2>6. ASSUME NEW s \in SharedVars, NEW d \in SharedVars,
               AssignObject(t, s, d) \/ MoveAssignObject(t, s, d)
        PROVE  Counted'
    BY <2>6 DEF CopiesOrPromotions, AssignObject, MoveAssignObject
  <2> QED
    BY <1>2, <1>5, <2>2, <2>3, <2>4, <2>5, <2>6
       DEF Call, New, AdoptFails, CopyShared, MoveShared, SwapVars,
       SharedFromThis, ResetShared, Lock, FromWeak, MoveWeak, AssignEmpty,
       AddRef, counters, remains
<1> QED BY <1>1, <1>4, <1>5 DEF Next

(* A live control block is always referred to: none is leaked.             *)
THEOREM NoBlockLeaks ==
  ASSUME CopiesOrPromotions
  PROVE  Spec => []BlockNotLeaked
<1>1. Init => Counted
  BY DEF Init, Counted
<1>2. Inv /\ [Next]_vars => Inv'
  BY NextInv
<1>3. Inv /\ Counted /\ [Next]_vars => Counted'
  BY NextCounted
<1>4. Inv /\ Counted => BlockNotLeaked
  <2> SUFFICES ASSUME Inv, Counted, NEW o \in Objects, block[o] = "live"
               PROVE  TotalRefs(o) # {}
    BY DEF BlockNotLeaked
  <2>1. Cardinality(TotalRefs(o)) = shared_and_weak_count_[o] + overdrawn[o]
    BY RefsFinite DEF Inv, TypeOK, TotalCountExact
  <2>2. shared_and_weak_count_[o] >= 1 /\ shared_and_weak_count_[o] \in Int
        /\ overdrawn[o] \in Nat
    BY DEF Inv, TypeOK, Counted
  <2> QED BY <2>1, <2>2, FS_EmptySet
<1> QED BY InitInv, <1>1, <1>2, <1>3, <1>4, PTL DEF Spec
=============================================================================
