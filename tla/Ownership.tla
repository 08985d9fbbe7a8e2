------------------------------ MODULE Ownership ------------------------------
(***************************************************************************)
(* What shared ownership promises its client, without counters and without *)
(* threads: an object lives while something owns it, ownership only comes  *)
(* from an owner, and the bookkeeping storage of an object outlives every  *)
(* owner and every observer.                                               *)
(***************************************************************************)
CONSTANTS Owners, Observers, Objects, Null

VARIABLES
  owns,      (* the object each owner refers to          *)
  observes,  (* the object each observer refers to       *)
  life,      (* life of each object                      *)
  storage    (* the bookkeeping storage of each object   *)

ownVars == <<owns, observes, life, storage>>

Owned(o)    == \E h \in Owners : owns[h] = o
Observed(o) == \E w \in Observers : observes[w] = o

OwnInit ==
  /\ owns = [h \in Owners |-> Null]
  /\ observes = [w \in Observers |-> Null]
  /\ life = [o \in Objects |-> "none"]
  /\ storage = [o \in Objects |-> "none"]

(* An object is created outside the care of the owners.                    *)
Create(o) ==
  /\ life[o] = "none"
  /\ life' = [life EXCEPT ![o] = "alive"]
  /\ UNCHANGED <<owns, observes, storage>>

(* Its first owner takes it over.                                          *)
TakeOver(h, o) ==
  /\ life[o] = "alive" /\ storage[o] = "none"
  /\ owns[h] = Null
  /\ owns' = [owns EXCEPT ![h] = o]
  /\ storage' = [storage EXCEPT ![o] = "live"]
  /\ UNCHANGED <<observes, life>>

(* Owners change hands: an object gains an owner only from an owner.       *)
Share ==
  /\ owns' \in [Owners -> Objects \cup {Null}]
  /\ \A h \in Owners : owns'[h] # Null => Owned(owns'[h])
  /\ UNCHANGED <<observes, life, storage>>

(* Observers change: only what somebody refers to can be observed.         *)
Watch ==
  /\ observes' \in [Observers -> Objects \cup {Null}]
  /\ \A w \in Observers :
       observes'[w] # Null => Owned(observes'[w]) \/ Observed(observes'[w])
  /\ UNCHANGED <<owns, life, storage>>

(* An object dies once, when nothing owns it.                              *)
Die(o) ==
  /\ life[o] = "alive"
  /\ ~Owned(o)
  /\ life' = [life EXCEPT ![o] = "dead"]
  /\ UNCHANGED <<owns, observes, storage>>

(* Its storage goes last.                                                  *)
Reclaim(o) ==
  /\ life[o] = "dead" /\ storage[o] = "live"
  /\ ~Owned(o) /\ ~Observed(o)
  /\ storage' = [storage EXCEPT ![o] = "freed"]
  /\ UNCHANGED <<owns, observes, life>>

OwnNext ==
  \/ \E o \in Objects : Create(o) \/ Die(o) \/ Reclaim(o)
  \/ \E h \in Owners, o \in Objects : TakeOver(h, o)
  \/ Share
  \/ Watch

OwnSpec == OwnInit /\ [][OwnNext]_ownVars
=============================================================================
