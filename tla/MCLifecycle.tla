---------------------------- MODULE MCLifecycle -----------------------------
(* Instances of Lifecycle for TLC. *)
EXTENDS Lifecycle
AllOn == [tecu |-> TRUE, vt |-> TRUE, heartbeat |-> TRUE]
Few == {AllOn, [tecu |-> FALSE, vt |-> FALSE, heartbeat |-> FALSE]}
\* The largest speed sixteen bits hold, reversing, and the next one.
SomeSpeeds == {-71110, 71111}
=============================================================================
