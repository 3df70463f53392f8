--------------------------- MODULE MCApplication ----------------------------
(* Instances of Application for TLC: the intervals in units of one pass. *)
EXTENDS Application
Two == {{}, Names}
=============================================================================
