-------------------------- MODULE SequenceContainer --------------------------
(***************************************************************************)
(* What a sequence container promises: each variable holds a sequence of   *)
(* values, a call changes it in the way it says, and a call that throws    *)
(* leaves the sequence as it was if it promises the strong guarantee, or   *)
(* some sequence of values if it only promises the basic one.              *)
(***************************************************************************)
EXTENDS Naturals, Sequences, Removal

CONSTANTS
  Containers,   (* variables of a container type   *)
  Values,       (* what an element can hold        *)
  Gone          (* a variable outside its lifetime *)

VARIABLES
  contents,     (* the sequence each variable holds                        *)
  call          (* the last call: what it does, from which position up to  *)
                (* which, with which elements, and whether it threw        *)

seqVars == <<contents, call>>

IsRange(s) == s # Gone /\ \A i \in DOMAIN s : s[i] \in Values

Returned(what) == call'.what = what /\ ~call'.threw
Threw(what)    == call'.what = what /\ call'.threw

Others(S) == \A c \in Containers \ S : contents'[c] = contents[c]

SeqInit ==
  /\ contents = [c \in Containers |-> Gone]
  /\ call.what = "keep" /\ ~call.threw

-----------------------------------------------------------------------------
BeginLife(c) ==
  /\ Returned("construct") /\ Others({c})
  /\ contents[c] = Gone /\ contents'[c] = call'.with

EndLife(c) ==
  /\ Returned("destroy") /\ Others({c})
  /\ contents[c] # Gone /\ contents'[c] = Gone

Replace(c) ==
  /\ Returned("assign") /\ Others({c})
  /\ contents[c] # Gone /\ contents'[c] = call'.with

(* What a call leaves alone of the elements: those before the position at  *)
(* and those from the position to on.                                      *)
Before(c) == SubSeq(contents[c], 1, call'.at)
Behind(c) == SubSeq(contents[c], call'.to + 1, Len(contents[c]))

Within(c) == call'.at <= call'.to /\ call'.to <= Len(contents[c])

(* The elements the call brings appear between the others, in their order. *)
Insert(c) ==
  /\ Returned("insert") /\ Others({c})
  /\ contents[c] # Gone /\ Within(c)
  /\ contents'[c] = Before(c) \o call'.with \o Behind(c)

Erase(c) ==
  /\ Returned("erase") /\ Others({c})
  /\ contents[c] # Gone /\ Within(c)
  /\ contents'[c] = Before(c) \o Behind(c)

(* All elements that hold what the call brings disappear.                  *)
Remove(c) ==
  /\ Returned("remove") /\ Others({c})
  /\ contents[c] # Gone
  /\ contents'[c] = Without(contents[c], call'.with[1])

(* Storage is rearranged, the sequence is not.                             *)
Keep ==
  /\ Returned("keep") /\ Others({})

(* The sequence of d goes over to c.                                       *)
Take(c, d) ==
  /\ Returned("take") /\ Others({c, d})
  /\ c # d /\ contents[d] # Gone
  /\ contents'[c] = contents[d] /\ contents'[d] = <<>>

Exchange(c, d) ==
  /\ Returned("swap") /\ Others({c, d})
  /\ contents[c] # Gone /\ contents[d] # Gone
  /\ contents'[c] = contents[d] /\ contents'[d] = contents[c]

(* The strong guarantee.                                                   *)
Refuse ==
  /\ \E what \in {"construct", "insert", "keep"} : Threw(what)
  /\ Others({})

(* The basic guarantee.                                                    *)
BreakOff(c) ==
  /\ Threw("assign") /\ Others({c})
  /\ contents[c] # Gone /\ IsRange(contents'[c])

SeqNext ==
  \/ Keep
  \/ Refuse
  \/ \E c \in Containers :
       \/ BeginLife(c) \/ EndLife(c) \/ Replace(c) \/ BreakOff(c)
       \/ Insert(c) \/ Erase(c) \/ Remove(c)
       \/ \E d \in Containers : Take(c, d) \/ Exchange(c, d)

SeqSpec == SeqInit /\ [][SeqNext]_seqVars
=============================================================================
