----------------------------- MODULE MCHashTable -----------------------------
(***************************************************************************)
(* An instance of HashTable for TLC. In a list of two buckets, a and b     *)
(* share one; in a list of three, a, b and c do; in a list of five, each   *)
(* has its own. The last call decides nothing about the next one.          *)
(***************************************************************************)
EXTENDS HashTable
LOCAL INSTANCE TLC

MCKeys   == {"a", "b", "c"}
MCHash   == [k \in Keys |-> CASE k = "a" -> 0 [] k = "b" -> 6 [] OTHER -> 3]
Loads    == {<<1, 1>>, <<2, 1>>}

Contents     == <<table, lost>>
Exchangeable == Permutations(Tables)
=============================================================================
