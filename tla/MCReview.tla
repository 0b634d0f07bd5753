-------------------------------- MODULE MCReview --------------------------------
(***************************************************************************)
(* Instances of Review for TLC.                                            *)
(***************************************************************************)
EXTENDS Review, TLC

MCSymmetry == Permutations(Children)
===============================================================================
