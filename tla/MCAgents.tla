------------------------------- MODULE MCAgents -------------------------------
(* Agents of sessions on small instances. *)
EXTENDS Agents, TLC

Symmetry == Permutations(Names) \cup Permutations(Asks) \cup Permutations(Hooks)
=============================================================================
