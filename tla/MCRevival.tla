------------------------------ MODULE MCRevival ------------------------------
(* Scheduled tasks among the flows on small instances. *)
EXTENDS Revival, TLC

Symmetry == Permutations(Workers) \cup Permutations(Panes) \cup Permutations(Sids)
=============================================================================
