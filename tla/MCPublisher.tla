------------------------------ MODULE MCPublisher ------------------------------
(***************************************************************************)
(* Instances of Publisher for TLC: the rows belong to one post.            *)
(***************************************************************************)
EXTENDS Publisher, TLC

MCPostOf == [c \in Children |-> CHOOSE p \in Posts : TRUE]
MCBackoff == [n \in 0 .. MaxRetries |-> n + 1]
MCSymmetry == Permutations(Workers) \cup Permutations(Children)
===============================================================================
