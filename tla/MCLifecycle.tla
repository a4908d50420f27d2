----------------------------- MODULE MCLifecycle -----------------------------
(* The session registry on small instances.  IDs, panes, backend sessions  *)
(* and directories are interchangeable, incarnations are not.              *)
EXTENDS Lifecycle, TLC

Symmetry == Permutations(Ids) \cup Permutations(Panes)
            \cup Permutations(Sids) \cup Permutations(Dirs)
=============================================================================
