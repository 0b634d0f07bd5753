----------------------------- MODULE MCFirstComment -----------------------------
(***************************************************************************)
(* Instances of FirstComment for TLC.                                      *)
(***************************************************************************)
EXTENDS FirstComment, TLC

MCSymmetry == Permutations(Workers)
===============================================================================
