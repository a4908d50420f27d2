------------------------------- MODULE MCContext -------------------------------
(* Active-context accounting on a small instance. *)
EXTENDS ActiveContext
================================================================================
