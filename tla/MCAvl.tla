-------------------------------- MODULE MCAvl --------------------------------
(***************************************************************************)
(* Instances of Avl for TLC.                                               *)
(***************************************************************************)
EXTENDS Avl

Heap == heap

OneToTwo   == 1 .. 2
OneToSeven == 1 .. 7
=============================================================================
