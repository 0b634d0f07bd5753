------------------------------ MODULE MCSlotQueue ------------------------------
(***************************************************************************)
(* Instances of SlotQueue for TLC.                                         *)
(***************************************************************************)
EXTENDS SlotQueue, TLC

MCSymmetry == Permutations(Posts)
===============================================================================
