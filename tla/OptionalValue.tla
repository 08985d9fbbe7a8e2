---------------------------- MODULE OptionalValue ----------------------------
(***************************************************************************)
(* What a variable promises that holds one value of its own or nothing: it *)
(* changes only when it is assigned to, taken from or exchanged, and a     *)
(* call that throws leaves it as it was, or empty where the old value has  *)
(* to go first.                                                            *)
(***************************************************************************)
CONSTANTS
  Holders,   (* the variables                                              *)
  Gone,      (* a variable outside its lifetime                            *)
  Nothing,   (* a variable without a value                                 *)
  Moved      (* a value that was moved from                                *)

VARIABLES
  contents,  (* what each variable holds                                   *)
  call       (* the last call: what, the value it brings, whether it threw *)

optVars == <<contents, call>>

OptInit ==
  /\ contents = [h \in Holders |-> Gone]
  /\ call = <<"keep", Nothing, FALSE>>

Returned(what) == call'[1] = what /\ ~call'[3]
Threw(what)    == call'[1] = what /\ call'[3]
Brought        == call'[2]
Others(S)      == \A h \in Holders \ S : contents'[h] = contents[h]
Lives(h)       == contents[h] # Gone

Begin(h) ==
  /\ Returned("construct")
  /\ ~Lives(h) /\ contents'[h] = Brought
  /\ Others({h})

End(h) ==
  /\ Returned("destroy")
  /\ Lives(h) /\ contents'[h] = Gone
  /\ Others({h})

Set(h) ==
  /\ Returned("set")
  /\ Lives(h) /\ contents'[h] = Brought
  /\ Others({h})

(* g stays what it is and h becomes the same.                              *)
Copy(h, g) ==
  /\ Returned("copy")
  /\ Lives(g) /\ contents'[h] = contents[g]
  /\ Others({h})

(* g is left without its value, or with one that nobody may rely on.       *)
Take(h, g) ==
  /\ Returned("take")
  /\ Lives(g) /\ contents'[h] = contents[g]
  /\ h # g => contents'[g] \in {Nothing, Moved, contents[g]}
  /\ Others({h, g})

Exchange(h, g) ==
  /\ Returned("swap")
  /\ Lives(h) /\ Lives(g)
  /\ contents'[h] = contents[g] /\ contents'[g] = contents[h]
  /\ Others({h, g})

Keep == Returned("keep") /\ Others({})

(* The strong guarantee.                                                   *)
Refuse ==
  /\ \E what \in {"construct", "copy", "set"} : Threw(what)
  /\ Others({})

(* The old value went before the new one came.                             *)
LoseValue(h) ==
  /\ Threw("replace")
  /\ Lives(h) /\ contents'[h] = Nothing
  /\ Others({h})

OptNext ==
  \/ Keep
  \/ Refuse
  \/ \E h \in Holders :
       \/ Begin(h) \/ End(h) \/ Set(h) \/ LoseValue(h)
       \/ \E g \in Holders : Copy(h, g) \/ Take(h, g) \/ Exchange(h, g)

OptSpec == OptInit /\ [][OptNext]_optVars
=============================================================================
