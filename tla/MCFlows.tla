------------------------------- MODULE MCFlows -------------------------------
(* The flows over the registry on small instances. *)
EXTENDS Flows, TLC

Symmetry == Permutations(Workers) \cup Permutations(Panes) \cup Permutations(Sids)
=============================================================================
