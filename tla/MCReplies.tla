------------------------------ MODULE MCReplies ------------------------------
(* Questions and answers on small instances. *)
EXTENDS Replies, TLC

Symmetry == Permutations(Ids) \cup Permutations(Calls)
=============================================================================
