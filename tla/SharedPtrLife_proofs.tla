------------------------- MODULE SharedPtrLife_proofs -------------------------
(***************************************************************************)
(* Proofs about the life of managed objects. They hold for the part of the *)
(* interface that makes a shared_ptr only from a shared_ptr: no thread     *)
(* calls lock or constructs a shared_ptr from a weak_ptr, and no object    *)
(* that derives from enable_shared_from_this is copied, moved or assigned  *)
(* to.                                                                     *)
(***************************************************************************)
EXTENDS SharedPtr_proofs

OwnersOnly ==
  Lockers = {} /\ Promoters = {} /\ Cloners = {} /\ Assigners = {}

(* A new owner is copied from an owner.                                    *)
FromOwner ==
  \A t \in Threads : Adding(t) => pc[t] = "addTotal" /\ src[t] \in SharedVars

(* An object with an owner is alive. So is one whose destructor is about   *)
(* to be called, by one thread only and after its last owner left.         *)
CountedAlive ==
  \A o \in Objects : shared_count_[o] # 0 => object[o] = "alive"

OneDestroyer ==
  /\ \A t \in Threads : pc[t] = "destroy" => /\ shared_count_[tmp[t]] = 0
                                             /\ object[tmp[t]] = "alive"
  /\ \A t, u \in Threads :
       pc[t] = "destroy" /\ pc[u] = "destroy" /\ tmp[t] = tmp[u] => t = u

(* An allocated object that is alive has an owner or a thread on its way   *)
(* to destroy it.                                                          *)
NotForgotten ==
  \A o \in Objects :
    block[o] # "none" /\ object[o] = "alive" =>
      \/ shared_count_[o] # 0
      \/ \E t \in Threads : pc[t] = "destroy" /\ tmp[t] = o

Adopted == \A o \in Objects : block[o] # "none" => object[o] # "none"

(* Without copies an object refers to no control block but its own.        *)
OwnBlock == \A o \in Objects : weak_this_[o] \in {o, Null}

(* The destructor of a weak_this_ finds the reference that it releases,    *)
(* and one thread at most runs it.                                         *)
OneDropper ==
  /\ \A t \in Threads : pc[t] = "dropSelf" => weak_this_[tmp[t]] # Null
  /\ \A t, u \in Threads :
       pc[t] = "dropSelf" /\ pc[u] = "dropSelf" /\ tmp[t] = tmp[u] => t = u

NothingOverdrawn == \A o \in Objects : overdrawn[o] = 0

OwnInv ==
  /\ Inv
  /\ OwnBlock
  /\ OneDropper
  /\ NothingOverdrawn

(* An object of Enabled that has an owner refers to its own block: its     *)
(* weak_this_ is set by the first owner and released after the last.       *)
SelfOwned ==
  \A o \in Objects :
    o \in Enabled /\ shared_count_[o] # 0 => weak_this_[o] = o

LifeInv ==
  /\ OwnInv
  /\ FromOwner
  /\ CountedAlive
  /\ OneDestroyer
  /\ NotForgotten
  /\ Adopted
  /\ SelfOwned
  /\ DestroyedOnce

-----------------------------------------------------------------------------
LEMMA OwnBlocks ==
  ASSUME Cloners = {}, Inv
  PROVE  OwnBlock
BY DEF Inv, CopiesOwned, Foreign, OwnBlock

(* Every reference is to a live control block.                             *)
AllLive ==
  /\ \A v \in Vars : count_[v] # Null => block[count_[v]] = "live"
  /\ \A t \in Threads : tmp[t] # Null => block[tmp[t]] = "live"

LEMMA AllPinned ==
  ASSUME OwnInv
  PROVE  AllLive
BY
   DEF AllLive, OwnInv, NothingOverdrawn, Inv, TypeOK, BlockPinned, Pinned,
   Object

(* A step that begins no destructor of a weak_this_ and leaves alone those *)
(* that are being destroyed.                                               *)
LEMMA DroppersStay ==
  ASSUME OwnInv, UNCHANGED overdrawn,
         \A u \in Threads : pc'[u] = "dropSelf" =>
           /\ pc[u] = "dropSelf" /\ tmp'[u] = tmp[u]
           /\ weak_this_'[tmp[u]] = weak_this_[tmp[u]]
  PROVE  OneDropper' /\ NothingOverdrawn'
BY DEF OwnInv, OneDropper, NothingOverdrawn

(* A raw object refers to nothing.                                         *)
LEMMA RawForgets ==
  ASSUME OwnInv, NEW o \in Objects, block[o] = "none"
  PROVE  weak_this_[o] = Null
BY RawUnreferenced DEF OwnInv, OwnBlock

(* Nothing counts before there is a control block.                         *)
LEMMA NothingCounts ==
  ASSUME Inv, NEW o \in Objects, block[o] = "none"
  PROVE  shared_count_[o] = 0
BY RawUnreferenced, FS_EmptySet DEF OwnInv, Inv, SharedCountExact

(* Steps that neither touch the count of owners nor an object: whatever    *)
(* thread t does after its last owner is gone or before it has one.        *)
LEMMA QuietStep ==
  ASSUME LifeInv, OwnInv', NEW t \in Threads,
         UNCHANGED <<shared_count_, object>>,
         \A o \in Objects :
           object[o] = "alive" => weak_this_'[o] = weak_this_[o],
         \A o \in Objects : block'[o] = "none" <=> block[o] = "none",
         \A u \in Threads : u # t => /\ pc'[u] = pc[u]
                                     /\ tmp'[u] = tmp[u]
                                     /\ src'[u] = src[u],
         pc[t] # "destroy",
         pc'[t] \notin {"destroy", "addTotal", "promote"}
  PROVE  LifeInv'
<1>1. FromOwner'
  BY DEF LifeInv, FromOwner, Adding
<1>2. CountedAlive' /\ Adopted' /\ DestroyedOnce'
  BY DEF LifeInv, CountedAlive, Adopted, DestroyedOnce
<1>3. OneDestroyer'
  BY DEF LifeInv, OneDestroyer
<1>4. NotForgotten'
  BY DEF LifeInv, NotForgotten
<1>5. SelfOwned'
  BY DEF LifeInv, CountedAlive, SelfOwned
<1> QED BY <1>1, <1>2, <1>3, <1>4, <1>5 DEF LifeInv

(* A new owner copied from an owner.                                       *)
LEMMA CopyStep ==
  ASSUME LifeInv, OwnInv', NEW t \in Threads, NEW s \in SharedVars,
         NEW d \in SharedVars, pc[t] = "idle",
         count_[s] \in Objects, AddRef(t, count_[s], s, d)
  PROVE  LifeInv'
<1> DEFINE o == count_[s]
<1>1. shared_count_[o] # 0
  BY OwnerCounts DEF LifeInv, OwnInv, SharedRefs
<1>2. /\ shared_count_' = [shared_count_ EXCEPT ![o] = @ + 1]
      /\ tmp' = [tmp EXCEPT ![t] = o]
      /\ src' = [src EXCEPT ![t] = s]
      /\ pc' = [pc EXCEPT ![t] = "addTotal"]
      /\ UNCHANGED <<block, object>>
  BY DEF AddRef, IncShared
<1>3. /\ shared_count_'[o] # 0
      /\ \A p \in Objects : p # o => shared_count_'[p] = shared_count_[p]
  BY <1>2 DEF LifeInv, OwnInv, Inv, TypeOK
<1>4. \A u \in Threads : pc'[u] = "destroy" =>
         /\ pc[u] = "destroy" /\ tmp'[u] = tmp[u]
         /\ tmp[u] # o /\ tmp[u] \in Objects
  BY <1>1, <1>2
     DEF LifeInv, OneDestroyer, OwnInv, Inv, TypeOK, ThreadInv, Object
<1>5. FromOwner'
  BY <1>2 DEF LifeInv, OwnInv, Inv, TypeOK, FromOwner, Adding
<1>6. CountedAlive' /\ Adopted' /\ DestroyedOnce'
  BY <1>1, <1>2, <1>3
     DEF LifeInv, CountedAlive, Adopted, DestroyedOnce
<1>7. OneDestroyer'
  BY <1>2, <1>3, <1>4 DEF LifeInv, OneDestroyer
<1>8. NotForgotten'
  <2>1. \A u \in Threads : pc[u] = "destroy" => pc'[u] = pc[u] /\ tmp'[u] = tmp[u]
    BY <1>2 DEF LifeInv, OwnInv, Inv, TypeOK
  <2> QED BY <1>2, <1>3, <2>1 DEF LifeInv, NotForgotten
<1>9. SelfOwned'
  BY <1>1, <1>2, <1>3 DEF LifeInv, SelfOwned, AddRef
<1> QED BY <1>5, <1>6, <1>7, <1>8, <1>9 DEF LifeInv

(* The last owner to leave, and only that one, turns to the deleter.       *)
LEMMA LeaveStep ==
  ASSUME LifeInv, OwnInv', NEW t \in Threads, Release(t)
  PROVE  LifeInv'
<1> DEFINE o == tmp[t]
<1>1. pc[t] = "release" /\ o \in Objects
  BY DEF LifeInv, OwnInv, Inv, TypeOK, ThreadInv, Release, Object
<1>2. /\ shared_count_' = [shared_count_ EXCEPT ![o] = @ - 1]
      /\ pc' = [pc EXCEPT ![t] =
                  IF shared_count_[o] = 1 THEN "destroy" ELSE "decTotal"]
      /\ UNCHANGED <<block, object, tmp, src>>
  BY DEF Release, DecShared
<1>3. shared_count_[o] # 0 /\ shared_count_[o] \in Nat
  BY <1>1, OwnerCounts DEF LifeInv, OwnInv, SharedRefs, OwnInv, Inv, TypeOK
<1>4. object[o] = "alive" /\ \A u \in Threads : pc[u] = "destroy" => tmp[u] # o
  BY <1>1, <1>3 DEF LifeInv, CountedAlive, OneDestroyer
<1>5. /\ shared_count_'[o] = shared_count_[o] - 1
      /\ \A p \in Objects : p # o => shared_count_'[p] = shared_count_[p]
      /\ \A u \in Threads : u # t => pc'[u] = pc[u]
      /\ pc'[t] = IF shared_count_[o] = 1 THEN "destroy" ELSE "decTotal"
  BY <1>1, <1>2 DEF LifeInv, OwnInv, Inv, TypeOK
<1>6. \A u \in Threads : pc[u] = "destroy" => tmp[u] \in Objects
  BY DEF LifeInv, OwnInv, Inv, TypeOK, ThreadInv, Object
<1>7. FromOwner' /\ Adopted' /\ DestroyedOnce'
  <2>1. pc'[t] \notin {"addTotal", "promote"}
    BY <1>5
  <2>2. FromOwner'
    BY <1>2, <1>5, <2>1 DEF LifeInv, FromOwner, Adding
  <2> QED BY <1>2, <2>2 DEF LifeInv, Adopted, DestroyedOnce
<1>8. CountedAlive'
  BY <1>2, <1>4, <1>5 DEF LifeInv, CountedAlive
<1>9. OneDestroyer'
  BY <1>1, <1>2, <1>3, <1>4, <1>5, <1>6 DEF LifeInv, OneDestroyer
<1>10. NotForgotten'
  <2> SUFFICES ASSUME NEW p \in Objects, block[p] # "none", object[p] = "alive"
               PROVE  \/ shared_count_'[p] # 0
                      \/ \E u \in Threads : pc'[u] = "destroy" /\ tmp[u] = p
    BY <1>2 DEF NotForgotten
  <2>1. CASE p = o
    BY <2>1, <1>3, <1>5
  <2>2. CASE p # o
    BY <2>2, <1>1, <1>5 DEF LifeInv, NotForgotten
  <2> QED BY <2>1, <2>2
<1>11. SelfOwned'
  BY <1>2, <1>3, <1>5 DEF LifeInv, SelfOwned, Release
<1> QED BY <1>7, <1>8, <1>9, <1>10, <1>11 DEF LifeInv

(* The deleter runs on an object that is alive.                            *)
LEMMA DieStep ==
  ASSUME LifeInv, OwnInv', NEW t \in Threads, Destroy(t)
  PROVE  /\ LifeInv'
         /\ object[tmp[t]] = "alive"
<1> DEFINE o == tmp[t]
<1>1. /\ pc[t] = "destroy" /\ o \in Objects
      /\ shared_count_[o] = 0 /\ object[o] = "alive"
      /\ \A u \in Threads : pc[u] = "destroy" /\ u # t => tmp[u] # o
  <2>1. pc[t] = "destroy"
    BY DEF Destroy
  <2>2. o \in Objects
    BY <2>1 DEF LifeInv, OwnInv, Inv, TypeOK, ThreadInv, Object
  <2> QED BY <2>1, <2>2 DEF LifeInv, OneDestroyer
<1>2. /\ object' = [object EXCEPT ![o] = "dead"]
      /\ \A u \in Threads : u # t => pc'[u] = pc[u]
      /\ pc'[t] \in {"dropSelf", "decTotal"}
      /\ UNCHANGED <<shared_count_, block, tmp, src>>
  <2>1. object' = [object EXCEPT ![o] = "dead"]
    BY <1>1 DEF Destroy
  <2>2. pc' = [pc EXCEPT ![t] = IF weak_this_[o] = Null
                                THEN "decTotal" ELSE "dropSelf"]
    BY <1>1 DEF Destroy
  <2> QED BY <2>1, <2>2 DEF Destroy, counters, LifeInv, OwnInv, Inv, TypeOK
<1>3. /\ object'[o] = "dead"
      /\ \A p \in Objects : p # o => object'[p] = object[p]
  BY <1>1, <1>2 DEF LifeInv, OwnInv, Inv, TypeOK
<1>4. FromOwner' /\ CountedAlive' /\ Adopted' /\ DestroyedOnce'
  <2>1. pc'[t] \notin {"addTotal", "promote"}
    BY <1>2
  <2>2. FromOwner'
    BY <1>2, <2>1 DEF LifeInv, FromOwner, Adding
  <2> QED BY <1>1, <1>2, <1>3, <2>2
          DEF LifeInv, CountedAlive, Adopted, DestroyedOnce
<1>5. \A u \in Threads : pc[u] = "destroy" => tmp[u] \in Objects
  BY DEF LifeInv, OwnInv, Inv, TypeOK, ThreadInv, Object
<1>6. OneDestroyer'
  BY <1>1, <1>2, <1>3, <1>5 DEF LifeInv, OneDestroyer
<1>7. NotForgotten'
  BY <1>1, <1>2, <1>3 DEF LifeInv, NotForgotten
<1>8. SelfOwned'
  BY <1>2 DEF LifeInv, SelfOwned, Destroy
<1> QED BY <1>1, <1>4, <1>6, <1>7, <1>8 DEF LifeInv

(* Objects that have no control block yet.                                 *)
LEMMA RawStep ==
  ASSUME LifeInv, OwnInv', NEW t \in Threads, NEW o \in Objects,
         New(t, o) \/ AdoptFails(t, o)
  PROVE  LifeInv'
<1>1. block[o] = "none" /\ shared_count_[o] = 0
  BY NothingCounts DEF New, AdoptFails, Raw, LifeInv, OwnInv, Adopted
<1>2. /\ UNCHANGED <<weak_this_, shared_count_, block, pc, tmp, src>>
      /\ \A p \in Objects : p # o => object'[p] = object[p]
      /\ object'[o] # "dead twice"
  <2>1. CASE New(t, o)
    BY <2>1 DEF New, counters, threadVars, LifeInv, OwnInv, Inv, TypeOK
  <2>2. CASE AdoptFails(t, o)
    <3>1. weak_this_[o] = Null /\ tmp[t] = Null
      BY <2>2, RawUnreferenced, RawForgets
         DEF AdoptFails, Raw, LifeInv, OwnInv, Inv, ThreadInv
    <3> QED BY <2>2, <3>1
               DEF AdoptFails, counters, LifeInv, OwnInv, Inv, TypeOK
  <2> QED BY <2>1, <2>2
<1>3. \A u \in Threads : pc[u] = "destroy" => tmp[u] \in Objects /\ tmp[u] # o
  BY <1>1
     DEF LifeInv, OwnInv, Inv, TypeOK, ThreadInv, Allocated, Given, Object
<1>4. FromOwner' /\ CountedAlive' /\ Adopted' /\ DestroyedOnce'
  BY <1>1, <1>2
     DEF LifeInv, FromOwner, Adding, CountedAlive, Adopted, DestroyedOnce
<1>5. OneDestroyer'
  BY <1>2, <1>3 DEF LifeInv, OneDestroyer
<1>6. NotForgotten'
  BY <1>1, <1>2 DEF LifeInv, NotForgotten
<1>7. SelfOwned'
  BY <1>2 DEF LifeInv, SelfOwned
<1> QED BY <1>4, <1>5, <1>6, <1>7 DEF LifeInv

(* The first owner.                                                        *)
LEMMA FirstOwnerStep ==
  ASSUME LifeInv, OwnInv', NEW t \in Threads, NEW d \in SharedVars,
         NEW o \in Objects, Adopt(t, d, o)
  PROVE  LifeInv'
<1>1. /\ block[o] = "none" /\ object[o] = "alive"
      /\ weak_this_[o] = Null /\ tmp[t] = Null /\ pc[t] = "idle"
  BY RawUnreferenced, RawForgets
     DEF Adopt, Raw, LifeInv, OwnInv, Inv, ThreadInv
<1>2. /\ shared_count_' = [shared_count_ EXCEPT ![o] = 1]
      /\ block' = [block EXCEPT ![o] = "live"]
      /\ weak_this_' = [weak_this_ EXCEPT ![o] = IF o \in Enabled THEN o ELSE @]
      /\ UNCHANGED <<object, pc, tmp, src>>
  BY <1>1 DEF Adopt, Expired, LifeInv, OwnInv, Inv, TypeOK
<1>3. /\ shared_count_'[o] # 0
      /\ \A p \in Objects : p # o => /\ shared_count_'[p] = shared_count_[p]
                                     /\ block'[p] = block[p]
  BY <1>2 DEF LifeInv, OwnInv, Inv, TypeOK
<1>4. \A u \in Threads : pc[u] = "destroy" => tmp[u] \in Objects /\ tmp[u] # o
  BY <1>1
     DEF LifeInv, OwnInv, Inv, TypeOK, ThreadInv, Allocated, Given, Object
<1>5. FromOwner' /\ CountedAlive' /\ Adopted' /\ DestroyedOnce'
  BY <1>1, <1>2, <1>3
     DEF LifeInv, FromOwner, Adding, CountedAlive, Adopted, DestroyedOnce
<1>6. OneDestroyer'
  BY <1>2, <1>3, <1>4 DEF LifeInv, OneDestroyer
<1>7. NotForgotten'
  BY <1>1, <1>2, <1>3 DEF LifeInv, NotForgotten
<1>8. SelfOwned'
  BY <1>1, <1>2, <1>3 DEF LifeInv, SelfOwned, OwnInv, Inv, TypeOK
<1> QED BY <1>5, <1>6, <1>7, <1>8 DEF LifeInv

-----------------------------------------------------------------------------
(* Only the thread that destroys an object runs the destructor of its      *)
(* weak_this_.                                                             *)
LEMMA NextDropper ==
  ASSUME OwnersOnly, LifeInv, [Next]_vars
  PROVE  OneDropper' /\ NothingOverdrawn'
<1> USE DEF LifeInv
<1>0. /\ pc \in [Threads -> Steps] /\ tmp \in [Threads -> Object]
      /\ weak_this_ \in [Objects -> Object]
      /\ \A u \in Threads : pc[u] = "dropSelf" =>
           tmp[u] \in Objects /\ block[tmp[u]] # "none"
  BY DEF OwnInv, Inv, TypeOK, ThreadInv, Object, Allocated, Given
<1>1. CASE UNCHANGED vars
  BY <1>1, DroppersStay DEF vars, remains, threadVars
<1>2. ASSUME NEW t \in Threads, pc[t] # "dropSelf", pc'[t] # "dropSelf",
             UNCHANGED <<weak_this_, overdrawn>>,
             \A u \in Threads : u # t => pc'[u] = pc[u] /\ tmp'[u] = tmp[u]
      PROVE  OneDropper' /\ NothingOverdrawn'
  BY <1>2, DroppersStay
<1>3. ASSUME NEW t \in Threads, Continue(t)
      PROVE  OneDropper' /\ NothingOverdrawn'
  <2>1. CASE AddTotal(t) \/ Promote(t) \/ Release(t) \/ DecTotal(t)
    BY <1>0, <1>2, <2>1
       DEF AddTotal, Promote, Release, DecTotal, SwapIn, remains
  <2>2. CASE Destroy(t)
    <3> DEFINE o == tmp[t]
    <3>1. pc[t] = "destroy" /\ object[o] = "alive"
      BY <2>2 DEF Destroy, OneDestroyer
    <3>2. /\ pc' = [pc EXCEPT ![t] = IF weak_this_[o] = Null
                                    THEN "decTotal" ELSE "dropSelf"]
          /\ UNCHANGED <<weak_this_, overdrawn, tmp>>
      BY <2>2, <3>1 DEF Destroy
    <3>3. \A u \in Threads : pc[u] = "dropSelf" => tmp[u] # o
      BY <3>1 DEF OwnInv, Inv, Dropping
    <3>4. /\ \A u \in Threads : u # t => pc'[u] = pc[u]
          /\ pc'[t] = "dropSelf" => weak_this_[o] # Null
      BY <1>0, <3>2
    <3>5. OneDropper'
      BY <3>2, <3>3, <3>4 DEF OwnInv, OneDropper
    <3> QED BY <3>2, <3>5 DEF OwnInv, NothingOverdrawn
  <2>3. CASE DropSelf(t)
    <3> DEFINE o == tmp[t]
    <3>1. pc[t] = "dropSelf" /\ weak_this_[o] # Null /\ o \in Objects
      BY <1>0, <2>3 DEF DropSelf, OwnInv, OneDropper
    <3>2. /\ overdrawn' = [overdrawn EXCEPT ![left_[o]] = @]
          /\ weak_this_' = [weak_this_ EXCEPT ![o] = Null]
          /\ pc' = [pc EXCEPT ![t] = "decTotal"]
          /\ tmp' = tmp
      BY <2>3, <3>1 DEF DropSelf
    <3>3. UNCHANGED overdrawn
      BY <3>2 DEF OwnInv, Inv, TypeOK
    <3>4. \A u \in Threads : pc'[u] = "dropSelf" => u # t /\ pc[u] = "dropSelf"
      BY <1>0, <3>2
    <3>5. \A u \in Threads : pc'[u] = "dropSelf" => tmp[u] # o
      BY <3>1, <3>4 DEF OwnInv, OneDropper
    <3> QED BY <1>0, <3>2, <3>3, <3>4, <3>5, DroppersStay
  <2> QED BY <1>3, <2>1, <2>2, <2>3 DEF Continue
<1>4. ASSUME NEW t \in Threads, Call(t)
      PROVE  OneDropper' /\ NothingOverdrawn'
  <2>1. ASSUME NEW o \in Objects, NEW s, AdoptFails(t, o) \/ Adopt(t, s, o)
        PROVE  OneDropper' /\ NothingOverdrawn'
    <3>1. /\ block[o] = "none"
          /\ \A p \in Objects : p # o => weak_this_'[p] = weak_this_[p]
          /\ pc'[t] # "dropSelf" /\ overdrawn' = overdrawn
          /\ \A u \in Threads : u # t => pc'[u] = pc[u] /\ tmp'[u] = tmp[u]
      BY <1>0, <2>1 DEF AdoptFails, Adopt, Raw, remains
    <3> QED BY <1>0, <3>1, DroppersStay
  <2>2. ASSUME NEW o, NEW s, NEW d,
               \/ New(t, o)
               \/ CopyShared(t, s, d) \/ MoveShared(t, s, d)
               \/ SwapVars(t, s, d) \/ SharedFromThis(t, s, d)
               \/ ResetShared(t, d)
        PROVE  OneDropper' /\ NothingOverdrawn'
    BY <1>0, <1>2, <2>2
       DEF New, CopyShared, MoveShared, SwapVars, SharedFromThis, ResetShared,
       AssignEmpty, AddRef, SwapIn, remains, threadVars
  <2>3. ASSUME NEW s, NEW w,
               \/ CopyWeak(t, s, w) \/ WeakFromThis(t, s, w)
               \/ MoveWeak(t, s, w) \/ ResetWeak(t, w)
        PROVE  OneDropper' /\ NothingOverdrawn'
    BY <1>0, <1>2, <2>3
       DEF CopyWeak, WeakFromThis, MoveWeak, ResetWeak, WeakAssign, SwapIn,
       remains
  <2>4. ASSUME NEW o, NEW s, NEW d,
               \/ Clone(t, s, o) \/ MoveClone(t, s, o)
               \/ AssignObject(t, s, d) \/ MoveAssignObject(t, s, d)
               \/ Lock(t, o, d) \/ FromWeak(t, o, d)
        PROVE  FALSE
    BY <2>4 DEF OwnersOnly, Clone, MoveClone, AssignObject, MoveAssignObject,
       Lock, FromWeak
  <2>5. ASSUME NEW o \in Objects, New(t, o) \/ AdoptFails(t, o)
        PROVE  OneDropper' /\ NothingOverdrawn'
    BY <2>1, <2>2, <2>5
  <2>6. ASSUME NEW o \in Objects, NEW s,
               Clone(t, s, o) \/ MoveClone(t, s, o) \/ Adopt(t, s, o)
        PROVE  OneDropper' /\ NothingOverdrawn'
    BY <2>1, <2>4, <2>6
  <2>7. ASSUME NEW s, NEW d,
               \/ CopyShared(t, s, d) \/ MoveShared(t, s, d)
               \/ SwapVars(t, s, d) \/ SharedFromThis(t, s, d)
               \/ AssignObject(t, s, d) \/ MoveAssignObject(t, s, d)
        PROVE  OneDropper' /\ NothingOverdrawn'
    BY <2>2, <2>4, <2>7
  <2>8. ASSUME NEW s, NEW w,
               WeakFromThis(t, s, w) \/ Lock(t, w, s) \/ FromWeak(t, w, s)
        PROVE  OneDropper' /\ NothingOverdrawn'
    BY <2>3, <2>4, <2>8
  <2>9. ASSUME NEW s, NEW w,
               \/ ResetShared(t, w) \/ CopyWeak(t, s, w) \/ ResetWeak(t, w)
               \/ MoveWeak(t, s, w) \/ SwapVars(t, s, w)
        PROVE  OneDropper' /\ NothingOverdrawn'
    BY <2>2, <2>3, <2>9
  <2> QED BY <1>4, <2>5, <2>6, <2>7, <2>8, <2>9 DEF Call
<1> QED BY <1>1, <1>3, <1>4 DEF Next

(* Every member function preserves the invariant of lives.                 *)
LEMMA NextLifeInv ==
  ASSUME OwnersOnly, LifeInv, [Next]_vars
  PROVE  LifeInv'
<1>0. OwnInv'
  <2>1. Inv'
    BY NextInv DEF OwnersOnly, CopiesOrPromotions, LifeInv, OwnInv
  <2>2. OwnBlock'
    BY <2>1, OwnBlocks, PTL DEF OwnersOnly
  <2> QED BY <2>1, <2>2, NextDropper DEF OwnInv
<1> USE <1>0
<1>1. CASE UNCHANGED vars
  <2>1. FromOwner' /\ CountedAlive' /\ Adopted' /\ DestroyedOnce'
    BY <1>1 DEF vars, counters, threadVars, LifeInv, FromOwner, Adding,
       CountedAlive, Adopted, DestroyedOnce
  <2>2. OneDestroyer'
    BY <1>1 DEF vars, counters, threadVars, LifeInv, OneDestroyer
  <2>3. NotForgotten'
    BY <1>1 DEF vars, counters, threadVars, LifeInv, NotForgotten
  <2>4. SelfOwned'
    BY <1>1 DEF vars, counters, LifeInv, SelfOwned
  <2> QED BY <2>1, <2>2, <2>3, <2>4 DEF LifeInv
<1>2. ASSUME NEW t \in Threads, Continue(t)
      PROVE  LifeInv'
  <2>1. CASE AddTotal(t)
    BY <2>1, QuietStep DEF AddTotal, SwapIn, LifeInv, OwnInv, Inv, TypeOK
  <2>2. CASE Promote(t)
    BY <2>2 DEF Promote, LifeInv, FromOwner, Adding
  <2>3. CASE DropSelf(t) \/ DecTotal(t)
    <3>1. PICK c \in Objects : /\ block[c] # "none"
                              /\ block' = [block EXCEPT ![c] =
                                   IF shared_and_weak_count_[c] = 1
                                   THEN "freed" ELSE @]
      <4>1. tmp[t] \in Objects
        BY <2>3
           DEF DropSelf, DecTotal, LifeInv, OwnInv, Inv, TypeOK, ThreadInv,
           Object
      <4>2. CASE DropSelf(t)
        <5>1. left_[tmp[t]] \in Objects /\ block[left_[tmp[t]]] # "none"
          BY <4>1, <4>2 DEF DropSelf, LifeInv, OwnInv, Inv, TypeOK, Dropping,
             Allocated, Given, Object
        <5> QED BY <4>2, <5>1 DEF DropSelf, TotalRelease
      <4>3. CASE DecTotal(t)
        <5>1. block[tmp[t]] # "none"
          BY <4>1, DistinctAssumption
             DEF LifeInv, OwnInv, Inv, Allocated, Given
        <5> QED BY <4>1, <4>3, <5>1 DEF DecTotal, TotalRelease
      <4> QED BY <2>3, <4>2, <4>3
    <3>2. \A o \in Objects : block'[o] = "none" <=> block[o] = "none"
      BY <3>1 DEF LifeInv, OwnInv, Inv, TypeOK
    <3>3. \A o \in Objects :
            object[o] = "alive" => weak_this_'[o] = weak_this_[o]
      BY <2>3 DEF DropSelf, DecTotal, LifeInv, OwnInv, Inv, TypeOK, Dropping
    <3> QED BY <2>3, <3>2, <3>3, QuietStep
            DEF DropSelf, DecTotal, LifeInv, OwnInv, Inv, TypeOK
  <2> QED BY <1>2, <2>1, <2>2, <2>3, LeaveStep, DieStep DEF Continue
<1>3. ASSUME NEW t \in Threads, Call(t)
      PROVE  LifeInv'
  <2>1. ASSUME NEW d \in SharedVars, AssignEmpty(t, d), pc[t] = "idle"
        PROVE  LifeInv'
    BY <2>1, QuietStep
       DEF AssignEmpty, SwapIn, counters, LifeInv, OwnInv, Inv, TypeOK
  <2>2. ASSUME NEW w \in WeakVars, NEW o, WeakAssign(t, w, o), pc[t] = "idle"
        PROVE  LifeInv'
    BY <2>2, QuietStep DEF WeakAssign, SwapIn, LifeInv, OwnInv, Inv, TypeOK
  <2>3. ASSUME NEW s \in SharedVars, NEW d \in SharedVars, CopyShared(t, s, d)
        PROVE  LifeInv'
    <3>1. count_[s] \in Object
      BY DEF LifeInv, OwnInv, Inv, TypeOK, Vars
    <3> QED BY <2>1, <2>3, <3>1, CopyStep DEF CopyShared, Object
  <2>4. ASSUME NEW s \in SharedVars, NEW d \in SharedVars,
               SharedFromThis(t, s, d)
        PROVE  LifeInv'
    <3>1. count_[s] \in Objects
      BY <2>4, ClientAssumption DEF SharedFromThis, Pointee
    <3>2. weak_this_[count_[s]] \in {count_[s], Null}
      BY <3>1 DEF LifeInv, OwnInv, Inv, OwnBlock
    <3> QED BY <2>1, <2>4, <3>1, <3>2, CopyStep DEF SharedFromThis
  <2>5. ASSUME NEW s \in SharedVars, NEW d \in SharedVars, MoveShared(t, s, d)
        PROVE  LifeInv'
    BY <2>5, QuietStep DEF MoveShared, counters, LifeInv, OwnInv, Inv, TypeOK
  <2>6. ASSUME NEW a, NEW b, SwapVars(t, a, b)
        PROVE  LifeInv'
    BY <2>6, QuietStep DEF SwapVars, counters, threadVars
  <2>7. ASSUME NEW s \in WeakVars, NEW w \in WeakVars, MoveWeak(t, s, w)
        PROVE  LifeInv'
    BY <2>7, QuietStep DEF MoveWeak, counters, LifeInv, OwnInv, Inv, TypeOK
  <2>8. ASSUME NEW o \in Objects, New(t, o) \/ AdoptFails(t, o)
        PROVE  LifeInv'
    BY <2>8, RawStep
  <2>9. ASSUME NEW o \in Objects, NEW s \in SharedVars,
               Clone(t, s, o) \/ MoveClone(t, s, o) \/ Adopt(t, s, o)
        PROVE  LifeInv'
    BY <2>9, FirstOwnerStep DEF Clone, MoveClone, OwnersOnly
  <2>10. ASSUME NEW w \in WeakVars, NEW d \in SharedVars,
                Lock(t, w, d) \/ FromWeak(t, w, d)
         PROVE  FALSE
    BY <2>10 DEF Lock, FromWeak, OwnersOnly
  <2>11. ASSUME NEW d \in SharedVars, ResetShared(t, d)
         PROVE  LifeInv'
    BY <2>1, <2>11 DEF ResetShared
  <2>12. ASSUME NEW s \in Vars, NEW w \in WeakVars,
                CopyWeak(t, s, w) \/ ResetWeak(t, w)
         PROVE  LifeInv'
    BY <2>2, <2>12 DEF CopyWeak, ResetWeak
  <2>13. ASSUME NEW s \in SharedVars, NEW w \in WeakVars, WeakFromThis(t, s, w)
         PROVE  LifeInv'
    BY <2>2, <2>13 DEF WeakFromThis
  <2>14. ASSUME NEW w \in WeakVars, ResetWeak(t, w)
         PROVE  LifeInv'
    BY <2>2, <2>14 DEF ResetWeak
  <2>15. ASSUME NEW s \in SharedVars, NEW d \in SharedVars,
                AssignObject(t, s, d) \/ MoveAssignObject(t, s, d)
         PROVE  FALSE
    BY <2>15 DEF AssignObject, MoveAssignObject, OwnersOnly
  <2> QED
    BY <1>3, <2>3, <2>4, <2>5, <2>6, <2>7, <2>8, <2>9, <2>10, <2>11, <2>12,
       <2>13, <2>14, <2>15 DEF Call
<1> QED BY <1>1, <1>2, <1>3 DEF Next

LEMMA InitLifeInv == Init => LifeInv
BY InitInv
   DEF Init, OwnInv, OwnBlock, LifeInv, FromOwner, Adding, CountedAlive,
   OneDestroyer, NotForgotten, Adopted, SelfOwned, DestroyedOnce, OneDropper,
   NothingOverdrawn

-----------------------------------------------------------------------------
(* What the invariant of lives says to the client.                         *)
LEMMA LifeFacts ==
  ASSUME LifeInv
  PROVE  OwnedAlive /\ DestroyedOnce /\ DestroyedBeforeFreed
<1>1. OwnedAlive
  <2> SUFFICES ASSUME NEW s \in SharedVars, count_[s] # Null
               PROVE  object[count_[s]] = "alive"
    BY DEF OwnedAlive
  <2>1. count_[s] \in Objects
    BY DEF LifeInv, OwnInv, Inv, TypeOK, Vars, Object
  <2>2. s \in SharedRefs(count_[s])
    BY DEF SharedRefs
  <2> QED BY <2>1, <2>2, OwnerCounts DEF LifeInv, OwnInv, CountedAlive
<1>2. DestroyedBeforeFreed
  <2> SUFFICES ASSUME NEW o \in Objects, block[o] = "freed", object[o] = "alive"
               PROVE  FALSE
    BY DEF DestroyedBeforeFreed
  <2>1. o # Null /\ block[o] # "live" /\ block[o] # "none"
    BY DistinctAssumption
  <2>2. /\ \A v \in Vars : count_[v] # o
        /\ \A t \in Threads : tmp[t] # o
    BY <2>1, AllPinned DEF AllLive, LifeInv
  <2>3. SharedRefs(o) = {}
    BY <2>2 DEF SharedRefs, Vars
  <2>4. shared_count_[o] = 0
    BY <2>3, FS_EmptySet DEF LifeInv, OwnInv, Inv, SharedCountExact
  <2> QED BY <2>1, <2>2, <2>4 DEF LifeInv, NotForgotten
<1> QED BY <1>1, <1>2 DEF LifeInv

LEMMA LifeQuiescent ==
  ASSUME LifeInv
  PROVE  QuiescentUseCount
<1> SUFFICES ASSUME \A t \in Threads : pc[t] = "idle",
                    NEW o \in Objects, block[o] # "none"
             PROVE  /\ object[o] = "alive" <=> \E s \in SharedVars : count_[s] = o
                    /\ shared_count_[o] =
                         Cardinality({s \in SharedVars : count_[s] = o})
  BY DEF QuiescentUseCount
<1>1. SharedRefs(o) = {s \in SharedVars : count_[s] = o}
  BY DEF SharedRefs
<1>2. shared_count_[o] = Cardinality(SharedRefs(o))
  BY DEF LifeInv, OwnInv, Inv, SharedCountExact
<1>3. shared_count_[o] # 0 <=> SharedRefs(o) # {}
  BY <1>2, RefsFinite, FS_EmptySet
<1>4. object[o] = "alive" <=> shared_count_[o] # 0
  BY DEF LifeInv, CountedAlive, NotForgotten
<1> QED BY <1>1, <1>2, <1>3, <1>4

LEMMA LifeSelf ==
  ASSUME LifeInv
  PROVE  SelfReference
<1> SUFFICES ASSUME NEW s \in SharedVars, count_[s] \in Enabled
             PROVE  weak_this_[count_[s]] = count_[s]
  BY DEF SelfReference
<1>1. count_[s] \in Objects /\ s \in SharedRefs(count_[s])
  BY ClientAssumption DEF SharedRefs
<1>2. shared_count_[count_[s]] # 0
  BY <1>1, OwnerCounts DEF LifeInv, OwnInv
<1> QED BY <1>1, <1>2 DEF LifeInv, SelfOwned

LEMMA LifeInvHolds ==
  ASSUME OwnersOnly
  PROVE  Spec => []LifeInv
<1>1. LifeInv /\ [Next]_vars => LifeInv'
  BY NextLifeInv
<1> QED BY InitLifeInv, <1>1, PTL DEF Spec

(* A shared_ptr never refers to a dead object.                             *)
THEOREM ObjectsLiveWhileOwned ==
  ASSUME OwnersOnly
  PROVE  Spec => []OwnedAlive
<1>1. LifeInv => OwnedAlive
  BY LifeFacts
<1> QED BY LifeInvHolds, <1>1, PTL

(* No object is destroyed twice: of the threads that drop owners one only  *)
(* sees the count go to zero, and it stays there.                          *)
THEOREM ObjectsDieOnce ==
  ASSUME OwnersOnly
  PROVE  Spec => []DestroyedOnce
<1>1. LifeInv => DestroyedOnce
  BY LifeFacts
<1> QED BY LifeInvHolds, <1>1, PTL

(* A control block, which holds the deleter, is freed after its object     *)
(* was destroyed.                                                          *)
THEOREM ObjectsDieBeforeBlocks ==
  ASSUME OwnersOnly
  PROVE  Spec => []DestroyedBeforeFreed
<1>1. LifeInv => DestroyedBeforeFreed
  BY LifeFacts
<1> QED BY LifeInvHolds, <1>1, PTL

(* Between member functions an object lives if and only if it has an       *)
(* owner, and use_count is the number of owners.                           *)
THEOREM UseCountExact ==
  ASSUME OwnersOnly
  PROVE  Spec => []QuiescentUseCount
<1>1. LifeInv => QuiescentUseCount
  BY LifeQuiescent
<1> QED BY LifeInvHolds, <1>1, PTL

(* Whoever owns an object of a class with enable_shared_from_this can ask  *)
(* it for another owner: weak_this_ refers to the object's own block for   *)
(* as long as it has owners.                                               *)
THEOREM SelfReferenceHolds ==
  ASSUME OwnersOnly
  PROVE  Spec => []SelfReference
<1>1. LifeInv => SelfReference
  BY LifeSelf
<1> QED BY LifeInvHolds, <1>1, PTL

-----------------------------------------------------------------------------
(* Who raises the count of owners: a copy of an owner, or the first owner. *)
LEMMA CountRises ==
  ASSUME OwnersOnly, LifeInv, [Next]_vars, NEW o \in Objects,
         block[o] # "none", shared_count_[o] = 0
  PROVE  shared_count_'[o] = 0
<1>1. CASE UNCHANGED vars
  BY <1>1 DEF vars, counters
<1>2. ASSUME NEW t \in Threads, Continue(t)
      PROVE  shared_count_'[o] = 0
  <2>1. CASE Promote(t)
    BY <2>1 DEF Promote, LifeInv, FromOwner, Adding
  <2>2. CASE Release(t)
    <3>1. pc[t] = "release" /\ tmp[t] \in Objects
      BY <2>2 DEF Release, LifeInv, OwnInv, Inv, TypeOK, ThreadInv, Object
    <3>2. shared_count_[tmp[t]] # 0
      BY <3>1, OwnerCounts DEF LifeInv, OwnInv, SharedRefs
    <3> QED BY <2>2, <3>1, <3>2
               DEF Release, DecShared, LifeInv, OwnInv, Inv, TypeOK
  <2> QED BY <1>2, <2>1, <2>2
          DEF Continue, AddTotal, Destroy, DropSelf, DecTotal, counters
<1>3. ASSUME NEW t \in Threads, Call(t)
      PROVE  shared_count_'[o] = 0
  <2>1. ASSUME NEW s \in SharedVars, NEW d \in SharedVars, NEW p \in Objects,
               p = count_[s], AddRef(t, p, s, d)
        PROVE  shared_count_'[o] = 0
    <3>1. shared_count_[p] # 0
      BY <2>1, OwnerCounts DEF LifeInv, OwnInv, SharedRefs
    <3> QED BY <2>1, <3>1 DEF AddRef, IncShared, LifeInv, OwnInv, Inv, TypeOK
  <2>2. ASSUME NEW s \in SharedVars, NEW d \in SharedVars,
               CopyShared(t, s, d)
        PROVE  shared_count_'[o] = 0
    <3>1. count_[s] \in Object
      BY DEF LifeInv, OwnInv, Inv, TypeOK, Vars
    <3> QED BY <2>1, <2>2, <3>1 DEF CopyShared, AssignEmpty, counters, Object
  <2>3. ASSUME NEW s \in SharedVars, NEW d \in SharedVars,
               SharedFromThis(t, s, d)
        PROVE  shared_count_'[o] = 0
    <3>1. count_[s] \in Objects
      BY <2>3, ClientAssumption DEF SharedFromThis, Pointee
    <3>2. weak_this_[count_[s]] \in {count_[s], Null}
      BY <3>1 DEF LifeInv, OwnInv, Inv, OwnBlock
    <3> QED BY <2>1, <2>3, <3>1, <3>2
            DEF SharedFromThis, AssignEmpty, counters
  <2>4. ASSUME NEW s \in SharedVars, NEW p \in Objects,
               Clone(t, s, p) \/ MoveClone(t, s, p) \/ Adopt(t, s, p)
        PROVE  shared_count_'[o] = 0
    <3>1. p # o /\ shared_count_' = [shared_count_ EXCEPT ![p] = 1]
      BY <2>4 DEF Clone, MoveClone, Adopt, Raw, OwnersOnly
    <3> QED BY <3>1 DEF LifeInv, OwnInv, Inv, TypeOK
  <2>5. ASSUME NEW d \in SharedVars, NEW w \in WeakVars,
               Lock(t, w, d) \/ FromWeak(t, w, d)
        PROVE  FALSE
    BY <2>5 DEF Lock, FromWeak, OwnersOnly
  <2> QED
    BY <1>3, <2>2, <2>3, <2>4, <2>5
       DEF Call, New, AdoptFails, MoveShared, SwapVars, ResetShared, CopyWeak,
       WeakFromThis, MoveWeak, ResetWeak, AssignEmpty, WeakAssign, counters,
       AssignObject, MoveAssignObject, OwnersOnly
<1> QED BY <1>1, <1>2, <1>3 DEF Next

(* Once the owners of an object are gone, use_count stays at zero.         *)
THEOREM ExpiryIsFinal ==
  ASSUME OwnersOnly
  PROVE  Spec => ExpiredForever
<1>1. LifeInv /\ [Next]_vars =>
        [\A o \in Objects : block[o] # "none" /\ shared_count_[o] = 0
                              => shared_count_'[o] = 0]_vars
  BY CountRises
<1> QED BY LifeInvHolds, <1>1, PTL DEF Spec, ExpiredForever
=============================================================================
