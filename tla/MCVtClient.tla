----------------------------- MODULE MCVtClient -----------------------------
(* An instance of VtClient for TLC. *)
EXTENDS VtClient

\* No file; one the user wrote, with a key missing, one of the wrong type, a
\* version that does not exist and a subnet that does not fit; and one cut short.
UserFiles ==
  {Absent, Broken,
   File("whole", [subnet |-> 261, tecuEnabled |-> TRUE, aogHeartbeatEnabled |-> FALSE,
                  tcVersion |-> 7])}

TwoFacts ==
  {[address |-> "preferred", aog |-> TRUE, clients |-> 1, map |-> "1 0"],
   [address |-> "other", aog |-> TRUE, clients |-> 0, map |-> ""]}
=============================================================================
