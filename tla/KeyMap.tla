-------------------------------- MODULE KeyMap --------------------------------
(***************************************************************************)
(* What a container of elements with unique keys promises: each variable   *)
(* holds a set of elements, pairs of a key and a value; a set of keys is   *)
(* one whose elements all have the same value. A call that throws while it *)
(* inserts one element leaves the container as it was; one that inserts    *)
(* several leaves some of them inserted.                                   *)
(***************************************************************************)
CONSTANTS
  Containers,   (* variables of a container type   *)
  Gone          (* a variable outside its lifetime *)

VARIABLES
  contents,     (* the elements each variable holds                           *)
  call          (* the last call: what, with which elements, whether it threw *)

mapVars == <<contents, call>>

KeysOfAll(S)      == {e[1] : e \in S}
Others(S)         == \A c \in Containers \ S : contents'[c] = contents[c]
Lives(c)          == contents[c] # Gone

MapInit ==
  /\ contents = [c \in Containers |-> Gone]
  /\ call = <<"keep", {}, FALSE>>

(* The call that a step completes or is thrown out of, and what it brings. *)
Returned(what) == call'[1] = what /\ ~call'[3]
Threw(what)    == call'[1] = what /\ call'[3]
Brought        == call'[2]

(* new is old with a part of S: keys stay unique and old elements stay.    *)
Extends(new, old, S) ==
  /\ old \subseteq new
  /\ new \subseteq old \cup S
  /\ \A d, e \in new : d[1] = e[1] => d = e

(* All of S is in: the first element of each key that was not there.       *)
Joined(new, old, S) ==
  Extends(new, old, S) /\ KeysOfAll(new) = KeysOfAll(old) \cup KeysOfAll(S)

Begin(c) ==
  /\ Returned("construct")
  /\ contents[c] = Gone /\ Lives(c)' /\ Joined(contents'[c], {}, Brought)
  /\ Others({c})

End(c) ==
  /\ Returned("destroy")
  /\ Lives(c) /\ contents'[c] = Gone
  /\ Others({c})

Insert(c) ==
  /\ Returned("insert")
  /\ Lives(c) /\ Lives(c)' /\ Joined(contents'[c], contents[c], Brought)
  /\ Others({c})

(* The value of a key that is there becomes another one.                   *)
Put(c) ==
  /\ Returned("put")
  /\ Lives(c) /\ KeysOfAll(Brought) \subseteq KeysOfAll(contents[c])
  /\ contents'[c] = {e \in contents[c] : e[1] \notin KeysOfAll(Brought)} \cup Brought
  /\ Others({c})

Erase(c) ==
  /\ Returned("erase")
  /\ Lives(c) /\ contents'[c] = contents[c] \ Brought
  /\ Others({c})

Replace(c) ==
  /\ Returned("assign")
  /\ Lives(c) /\ Lives(c)' /\ Joined(contents'[c], {}, Brought)
  /\ Others({c})

(* The elements are arranged anew.                                         *)
Keep == Returned("keep") /\ Others({})

(* The elements of d go over to c, which may begin its life with them.     *)
Take(c, d) ==
  /\ Returned("take")
  /\ c # d /\ Lives(d)
  /\ contents'[c] = contents[d] /\ contents'[d] = {}
  /\ Others({c, d})

Exchange(c, d) ==
  /\ Returned("swap")
  /\ Lives(c) /\ Lives(d)
  /\ contents'[c] = contents[d] /\ contents'[d] = contents[c]
  /\ Others({c, d})

(* The strong guarantee.                                                   *)
Refuse ==
  /\ \E what \in {"construct", "keep", "insert", "put"} : Threw(what)
  /\ Others({})

(* The basic one: the elements inserted before the throw stay.             *)
BreakOff(c) ==
  /\ \/ /\ Threw("insert all")
        /\ Lives(c) /\ Lives(c)'
        /\ Extends(contents'[c], contents[c], Brought)
     \/ /\ Threw("assign")
        /\ Lives(c) /\ Lives(c)'
        /\ Extends(contents'[c], {}, Brought)
  /\ Others({c})

MapNext ==
  \/ Keep
  \/ Refuse
  \/ \E c \in Containers :
       \/ Begin(c) \/ End(c) \/ Insert(c) \/ Put(c) \/ Erase(c) \/ Replace(c)
       \/ BreakOff(c)
       \/ \E d \in Containers : Take(c, d) \/ Exchange(c, d)

MapSpec == MapInit /\ [][MapNext]_mapVars
=============================================================================
