------------------------------- MODULE Removal -------------------------------
(***************************************************************************)
(* What is left of a sequence when std::remove and an erase behind it have *)
(* gone over it.                                                           *)
(***************************************************************************)
EXTENDS Integers, Sequences

(* The elements of s other than x, in their order, as the loop over s      *)
(* keeps them.                                                             *)
Without(s, x) ==
  LET kept[i \in 0 .. Len(s)] ==
        IF i = 0 THEN <<>>
        ELSE IF s[i] = x THEN kept[i - 1] ELSE Append(kept[i - 1], s[i])
  IN kept[Len(s)]
=============================================================================
