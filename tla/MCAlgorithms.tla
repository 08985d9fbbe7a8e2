----------------------------- MODULE MCAlgorithms -----------------------------
(***************************************************************************)
(* Instances of Algorithms for TLC: states that only differ in what the    *)
(* last call was are one state.                                            *)
(***************************************************************************)
EXTENDS Algorithms

Shape == range
OneToThree == 1 .. 3
=============================================================================
