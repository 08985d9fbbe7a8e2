---------------------- MODULE SharedPtrOwnership_proofs ----------------------
(***************************************************************************)
(* The counters implement shared ownership: every step of SharedPtr is a   *)
(* step of Ownership or leaves alone what Ownership talks about.           *)
(***************************************************************************)
EXTENDS SharedPtrLife_proofs

owns_     == [s \in SharedVars |-> count_[s]]
observes_ == [w \in WeakVars |-> count_[w]]

(* What Ownership sees does not change.                                    *)
Unseen == UNCHANGED <<owns_, observes_, object, block>>

LEMMA UnseenStutters ==
  ASSUME Unseen
  PROVE  [Own!OwnNext]_(Own!ownVars)
BY DEF Unseen, owns_, observes_, Own!ownVars

-----------------------------------------------------------------------------
(* Steps that only move references between shared_ptr variables.           *)
LEMMA ShareStep ==
  ASSUME Inv, Inv',
         UNCHANGED <<object, block>>,
         \A w \in WeakVars : count_'[w] = count_[w],
         \A s \in SharedVars :
           count_'[s] # Null => \E r \in SharedVars : count_[r] = count_'[s]
  PROVE  Own!OwnNext
<1>1. owns_' \in [SharedVars -> Objects \cup {Null}]
  BY DEF Inv, TypeOK, owns_, Vars, Object
<1>2. UNCHANGED observes_
  BY DEF observes_
<1>3. Own!Share
  BY <1>1, <1>2 DEF Own!Share, Own!Owned, owns_, observes_
<1> QED BY <1>3 DEF Own!OwnNext

(* Steps that only change weak_ptr variables.                              *)
LEMMA WatchStep ==
  ASSUME Inv, Inv',
         UNCHANGED <<object, block>>,
         \A s \in SharedVars : count_'[s] = count_[s],
         \A w \in WeakVars :
           count_'[w] # Null => \E v \in Vars : count_[v] = count_'[w]
  PROVE  Own!OwnNext
<1>1. observes_' \in [WeakVars -> Objects \cup {Null}]
  BY DEF Inv, TypeOK, observes_, Vars, Object
<1>2. UNCHANGED owns_
  BY DEF owns_
<1>3. Own!Watch
  BY <1>1, <1>2 DEF Own!Watch, Own!Owned, Own!Observed, owns_, observes_, Vars
<1> QED BY <1>3 DEF Own!OwnNext

(* A swap of the thread's temporary into a shared_ptr variable.            *)
LEMMA SwapInStep ==
  ASSUME Inv, Inv', NEW d \in SharedVars, NEW o \in Object,
         o # Null => \E r \in SharedVars : count_[r] = o,
         UNCHANGED <<object, block>>,
         count_' = [count_ EXCEPT ![d] = o]
  PROVE  Own!OwnNext
<1>1. \A v \in Vars : count_'[v] = IF v = d THEN o ELSE count_[v]
  BY DEF Inv, TypeOK, Vars
<1>2. \A w \in WeakVars : count_'[w] = count_[w]
  BY <1>1, DistinctAssumption DEF Vars
<1> QED BY <1>1, <1>2, ShareStep DEF Vars

(* A weak_ptr variable takes a reference that a variable holds.            *)
LEMMA WeakStep ==
  ASSUME Inv, Inv', NEW t \in Threads, NEW w \in WeakVars, NEW o \in Object,
         o # Null => \E v \in Vars : count_[v] = o,
         WeakAssign(t, w, o)
  PROVE  Own!OwnNext
<1>1. /\ count_' = [count_ EXCEPT ![w] = o]
      /\ UNCHANGED <<object, block>>
  BY DEF WeakAssign, SwapIn
<1>2. \A v \in Vars : count_'[v] = IF v = w THEN o ELSE count_[v]
  BY <1>1 DEF Inv, TypeOK, Vars
<1>3. \A s \in SharedVars : count_'[s] = count_[s]
  BY <1>2, DistinctAssumption DEF Vars
<1> QED BY <1>1, <1>2, <1>3, WatchStep DEF Vars

(* Moves and swaps permute what the variables of one type refer to.        *)
LEMMA MoveOwn ==
  ASSUME Inv, Inv', NEW t \in Threads,
         NEW a \in Vars, NEW b \in Vars,
         a \in SharedVars <=> b \in SharedVars,
         UNCHANGED <<object, block>>,
         \A v \in Vars : v \notin {a, b} => count_'[v] = count_[v],
         count_'[a] \in {count_[b], Null}, count_'[b] = count_[a]
  PROVE  Own!OwnNext
<1>1. CASE a \in SharedVars
  <2>1. \A w \in WeakVars : count_'[w] = count_[w]
    BY <1>1, DistinctAssumption DEF Vars
  <2>2. \A s \in SharedVars :
          count_'[s] # Null => \E r \in SharedVars : count_[r] = count_'[s]
    BY <1>1 DEF Vars
  <2> QED BY <2>1, <2>2, ShareStep
<1>2. CASE a \notin SharedVars
  <2>1. \A s \in SharedVars : count_'[s] = count_[s]
    BY <1>2 DEF Vars
  <2>2. \A w \in WeakVars :
          count_'[w] # Null => \E v \in Vars : count_[v] = count_'[w]
    BY DEF Vars
  <2> QED BY <2>1, <2>2, WatchStep
<1> QED BY <1>1, <1>2

(* The first owner takes the object over.                                  *)
LEMMA AdoptOwn ==
  ASSUME Inv, Inv', NEW t \in Threads, NEW d \in SharedVars, NEW o \in Objects,
         Adopt(t, d, o)
  PROVE  Own!OwnNext
<1>1. /\ object[o] = "alive" /\ block[o] = "none" /\ count_[d] = Null
      /\ count_' = [count_ EXCEPT ![d] = o]
      /\ block' = [block EXCEPT ![o] = "live"]
      /\ object' = object
  BY DEF Adopt, Raw
<1>2. /\ owns_' = [owns_ EXCEPT ![d] = o]
      /\ observes_' = observes_
  <2>1. \A v \in Vars : count_'[v] = IF v = d THEN o ELSE count_[v]
    BY <1>1 DEF Inv, TypeOK
  <2>2. observes_' = observes_
    BY <2>1, DistinctAssumption DEF observes_, Vars
  <2>3. owns_' = [s \in SharedVars |-> IF s = d THEN o ELSE count_[s]]
    BY <2>1 DEF owns_, Vars
  <2> QED BY <2>2, <2>3 DEF owns_
<1>3. Own!TakeOver(d, o)
  BY <1>1, <1>2 DEF Own!TakeOver, owns_, observes_
<1> QED BY <1>3 DEF Own!OwnNext

(* An object dies unowned: before it was adopted or after its last owner.  *)
LEMMA DieOwn ==
  ASSUME NEW o \in Objects, object[o] = "alive",
         \A s \in SharedVars : count_[s] # o,
         object' = [object EXCEPT ![o] = "dead"],
         UNCHANGED <<count_, block>>
  PROVE  Own!OwnNext
<1>1. UNCHANGED <<owns_, observes_>>
  BY DEF owns_, observes_
<1>2. Own!Die(o)
  BY <1>1 DEF Own!Die, Own!Owned, owns_, observes_
<1> QED BY <1>2 DEF Own!OwnNext

(* The control block goes when nobody refers to it.                        *)
LEMMA ReclaimOwn ==
  ASSUME LifeInv, LifeInv', NEW t \in Threads, DecTotal(t)
  PROVE  [Own!OwnNext]_(Own!ownVars)
<1>1. PICK o \in Objects : o = tmp[t]
  BY DEF DecTotal, LifeInv, OwnInv, Inv, TypeOK, ThreadInv, Object
<1>2. /\ o # Null /\ block[o] = "live"
      /\ block' = [block EXCEPT ![o] =
                     IF shared_and_weak_count_[o] = 1 THEN "freed" ELSE @]
      /\ UNCHANGED <<count_, object>>
  BY <1>1, AllPinned, DistinctAssumption
     DEF DecTotal, TotalRelease, LifeInv, AllLive
<1>3. UNCHANGED <<owns_, observes_>>
  BY <1>2 DEF owns_, observes_
<1>4. CASE shared_and_weak_count_[o] = 1
  <2>1. block' = [block EXCEPT ![o] = "freed"] /\ block'[o] = "freed"
    BY <1>2, <1>4 DEF LifeInv, OwnInv, Inv, TypeOK
  <2>2. object[o] = "dead"
    <3>1. DestroyedBeforeFreed'
      BY LifeFacts, PTL
    <3>2. object[o] # "alive"
      BY <2>1, <3>1, <1>2 DEF DestroyedBeforeFreed
    <3>3. object[o] \notin {"none", "dead twice"} /\ object[o] \in Lives
      BY <1>2 DEF LifeInv, Adopted, DestroyedOnce, OwnInv, Inv, TypeOK
    <3> QED BY <3>2, <3>3 DEF Lives
  <2>3. \A v \in Vars : count_[v] # o
    <3>1. OwnInv'
      BY DEF LifeInv
    <3>2. AllLive'
      BY <3>1, AllPinned, PTL
    <3> QED BY <2>1, <3>2, <1>2 DEF AllLive
  <2>4. Own!Reclaim(o)
    BY <2>1, <2>2, <2>3, <1>2, <1>3
       DEF Own!Reclaim, Own!Owned, Own!Observed, Vars, owns_, observes_
  <2> QED BY <2>4 DEF Own!OwnNext
<1>5. CASE shared_and_weak_count_[o] # 1
  <2>1. block' = block
    BY <1>2, <1>5 DEF LifeInv, OwnInv, Inv, TypeOK
  <2> QED BY <2>1, <1>2, <1>3, UnseenStutters DEF Unseen
<1> QED BY <1>4, <1>5

-----------------------------------------------------------------------------
(* Every step of the counters is a step of the promise or a stutter.       *)
LEMMA NextOwn ==
  ASSUME OwnersOnly, LifeInv, LifeInv', [Next]_vars
  PROVE  [Own!OwnNext]_(Own!ownVars)
<1>0. Inv /\ Inv' /\ OwnInv'
  BY DEF LifeInv, OwnInv
<1> USE <1>0
<1>1. CASE UNCHANGED vars
  BY <1>1, UnseenStutters DEF vars, Unseen, owns_, observes_
<1>2. ASSUME NEW t \in Threads, Continue(t)
      PROVE  [Own!OwnNext]_(Own!ownVars)
  <2>1. CASE AddTotal(t)
    <3>1. /\ dst[t] \in SharedVars /\ src[t] \in SharedVars
          /\ tmp[t] \in Objects /\ Lent(t)
      BY <2>1 DEF AddTotal, LifeInv, FromOwner, Inv, ThreadInv, TypeOK, Adding,
                  Object
    <3>2. count_[src[t]] \in Objects \cup {Null}
      BY <3>1 DEF Inv, TypeOK, Vars, Object
    <3>3. tmp[t] = count_[src[t]]
      BY <3>1, <3>2, DistinctAssumption DEF Lent, LifeInv, OwnInv, OwnBlock
    <3> QED BY <2>1, <3>1, <3>3, SwapInStep DEF AddTotal, SwapIn, Object
  <2>2. CASE Promote(t) \/ Release(t)
    BY <2>2, UnseenStutters DEF Promote, Release, Unseen, owns_, observes_
  <2>3. CASE Destroy(t)
    <3>1. tmp[t] \in Objects /\ object[tmp[t]] = "alive"
      <4>1. pc[t] = "destroy"
        BY <2>3 DEF Destroy
      <4>2. tmp[t] \in Objects
        BY <4>1 DEF Inv, TypeOK, ThreadInv, Object
      <4> QED BY <4>2, <2>3, DieStep
    <3>2. shared_count_[tmp[t]] = 0
      BY <2>3 DEF Destroy, LifeInv, OneDestroyer
    <3>3. \A s \in SharedVars : count_[s] # tmp[t]
      BY <3>1, <3>2, OwnerCounts DEF SharedRefs
    <3>4. object' = [object EXCEPT ![tmp[t]] = "dead"]
      BY <2>3, <3>1 DEF Destroy
    <3> QED BY <2>3, <3>1, <3>3, <3>4, DieOwn DEF Destroy
  <2>4. CASE DropSelf(t)
    <3>1. /\ tmp[t] \in Objects /\ tmp[t] # Null /\ tmp'[t] = tmp[t]
          /\ weak_this_[tmp[t]] = tmp[t]
      BY <2>4, DistinctAssumption
         DEF DropSelf, LifeInv, OwnInv, OwnBlock, Inv, TypeOK, ThreadInv,
         OneDropper, Object
    <3>2. block'[tmp[t]] = "live" /\ block[tmp[t]] = "live"
      <4>1. AllLive'
        BY AllPinned, PTL
      <4> QED BY <3>1, <4>1, AllPinned DEF LifeInv, AllLive
    <3>3. left_[tmp[t]] = tmp[t]
      BY <2>4, <3>1 DEF DropSelf, Inv, Dropping
    <3>4. block' = block
      BY <2>4, <3>1, <3>2, <3>3 DEF DropSelf, TotalRelease, Inv, TypeOK, Blocks
    <3> QED BY <2>4, <3>4, UnseenStutters
               DEF DropSelf, Unseen, owns_, observes_
  <2> QED BY <1>2, <2>1, <2>2, <2>3, <2>4, ReclaimOwn DEF Continue
<1>3. ASSUME NEW t \in Threads, Call(t)
      PROVE  [Own!OwnNext]_(Own!ownVars)
  <2>1. ASSUME NEW d \in SharedVars, AssignEmpty(t, d)
        PROVE  Own!OwnNext
    BY <2>1, SwapInStep DEF AssignEmpty, SwapIn, Object
  <2>2. ASSUME NEW o, NEW s, NEW d, AddRef(t, o, s, d)
        PROVE  [Own!OwnNext]_(Own!ownVars)
    BY <2>2, UnseenStutters DEF AddRef, Unseen, owns_, observes_
  <2>3. ASSUME NEW o \in Objects, New(t, o)
        PROVE  Own!OwnNext
    <3>1. Own!Create(o)
      BY <2>3 DEF New, Own!Create, owns_, observes_
    <3> QED BY <3>1 DEF Own!OwnNext
  <2>4. ASSUME NEW o \in Objects, AdoptFails(t, o)
        PROVE  Own!OwnNext
    <3>1. /\ object[o] = "alive" /\ block[o] = "none"
          /\ object' = [object EXCEPT ![o] = "dead"]
          /\ UNCHANGED <<count_, block>>
      BY <2>4 DEF AdoptFails, Raw, counters
    <3>2. \A s \in SharedVars : count_[s] # o
      BY <3>1, RawUnreferenced DEF SharedRefs
    <3> QED BY <3>1, <3>2, DieOwn
  <2>5. ASSUME NEW s \in SharedVars, NEW d \in SharedVars,
               CopyShared(t, s, d) \/ SharedFromThis(t, s, d)
        PROVE  [Own!OwnNext]_(Own!ownVars)
    BY <2>1, <2>2, <2>5 DEF CopyShared, SharedFromThis
  <2>6. ASSUME NEW s \in SharedVars, NEW d \in SharedVars, MoveShared(t, s, d)
        PROVE  Own!OwnNext
    BY <2>6, MoveOwn DEF MoveShared, Inv, TypeOK, Vars
  <2>7. ASSUME NEW a \in Vars, NEW b \in Vars,
               a \in SharedVars <=> b \in SharedVars, SwapVars(t, a, b)
        PROVE  Own!OwnNext
    BY <2>7, MoveOwn DEF SwapVars, Inv, TypeOK
  <2>8. ASSUME NEW s \in WeakVars, NEW w \in WeakVars, MoveWeak(t, s, w)
        PROVE  Own!OwnNext
    BY <2>8, MoveOwn, DistinctAssumption DEF MoveWeak, Inv, TypeOK, Vars
  <2>9. ASSUME NEW d \in SharedVars, ResetShared(t, d)
        PROVE  Own!OwnNext
    BY <2>1, <2>9 DEF ResetShared
  <2>10. ASSUME NEW s \in Vars, NEW w \in WeakVars, CopyWeak(t, s, w)
         PROVE  Own!OwnNext
    BY <2>10, WeakStep DEF CopyWeak, Inv, TypeOK
  <2>11. ASSUME NEW s \in SharedVars, NEW w \in WeakVars, WeakFromThis(t, s, w)
         PROVE  Own!OwnNext
    <3>1. count_[s] \in Objects
      BY <2>11, ClientAssumption DEF WeakFromThis, Pointee
    <3>2. weak_this_[count_[s]] \in {count_[s], Null}
      BY <3>1 DEF LifeInv, OwnInv, OwnBlock
    <3> QED BY <2>11, <3>1, <3>2, WeakStep DEF WeakFromThis, Object, Vars
  <2>12. ASSUME NEW w \in WeakVars, ResetWeak(t, w)
         PROVE  Own!OwnNext
    BY <2>12, WeakStep DEF ResetWeak, Object
  <2>13. ASSUME NEW o \in Objects, NEW s \in SharedVars,
                Clone(t, s, o) \/ MoveClone(t, s, o) \/ Adopt(t, s, o)
         PROVE  Own!OwnNext
    BY <2>13, AdoptOwn DEF Clone, MoveClone, OwnersOnly
  <2>14. ASSUME NEW w \in WeakVars, NEW d \in SharedVars,
                Lock(t, w, d) \/ FromWeak(t, w, d)
         PROVE  FALSE
    BY <2>14 DEF Lock, FromWeak, OwnersOnly
  <2>15. ASSUME NEW s \in SharedVars, NEW d \in SharedVars,
                AssignObject(t, s, d) \/ MoveAssignObject(t, s, d)
         PROVE  FALSE
    BY <2>15 DEF AssignObject, MoveAssignObject, OwnersOnly
  <2> QED
    BY <1>3, <2>3, <2>4, <2>5, <2>6, <2>7, <2>8, <2>9, <2>10, <2>11, <2>12,
       <2>13, <2>14, <2>15, DistinctAssumption DEF Call, Vars
<1> QED BY <1>1, <1>2, <1>3 DEF Next

(* The reference counting implements shared ownership: objects die once    *)
(* and only unowned, ownership comes from an owner, and a control block    *)
(* outlives whoever refers to it.                                          *)
THEOREM CountingImplementsOwnership ==
  ASSUME OwnersOnly
  PROVE  Spec => ImplementsOwnership
<1>1. Init => Own!OwnInit
  BY DEF Init, Own!OwnInit, Vars
<1>2. LifeInv /\ [Next]_vars => LifeInv'
  BY NextLifeInv
<1>3. LifeInv /\ LifeInv' /\ [Next]_vars => [Own!OwnNext]_(Own!ownVars)
  BY NextOwn
<1> QED
  BY InitLifeInv, <1>1, <1>2, <1>3, PTL
     DEF Spec, ImplementsOwnership, Own!OwnSpec
=============================================================================
