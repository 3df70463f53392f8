---------------------------- MODULE MCElementWalk ---------------------------
(* Instances of ElementWalk for TLC. *)
EXTENDS ElementWalk
=============================================================================
