------------------------------ MODULE MCRollover ------------------------------
(* Continuations on small instances. *)
EXTENDS Rollover, TLC

Symmetry == Permutations(Runs) \cup Permutations(Tokens)
=============================================================================
