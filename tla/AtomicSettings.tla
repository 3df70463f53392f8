--------------------------- MODULE AtomicSettings ---------------------------
(***************************************************************************)
(* What src/settings.hpp promises its callers: a setter that succeeds has  *)
(* changed the setting in memory and on disk in one step, whichever thread *)
(* calls it; one that fails has changed nothing on disk and, for a switch, *)
(* nothing at all; and the process may end at any time without changing    *)
(* what the next start loads (docs/PROTOCOL.md, section 3).                *)
(***************************************************************************)

CONSTANTS
  Subnets,   \* subnets AgIO may announce
  Switches,  \* the settings a terminal or a user switches on and off
  Default    \* the settings of a new installation, a record

VARIABLES
  up,      \* the process runs and has loaded its settings
  values,  \* the settings as every getter returns them
  stored   \* what load() makes of settings.json: whether it loads, and as what

settingsVars == <<up, values, stored>>

Init ==
  /\ up = FALSE /\ values = Default
  /\ stored = [loads |-> TRUE, config |-> Default]

Start ==
  /\ ~up /\ stored.loads
  /\ up' = TRUE /\ values' = stored.config
  /\ UNCHANGED stored

End ==
  /\ up' = FALSE /\ values' = Default
  /\ UNCHANGED stored

\* A setter that returns true.
Keep(field, value) ==
  /\ up
  /\ values' = [values EXCEPT ![field] = value]
  /\ stored' = [loads |-> TRUE, config |-> values']
  /\ UNCHANGED up

\* set_subnet() that could not save: the subnet holds until the process ends.
KeepInMemory(subnet) ==
  /\ up
  /\ values' = [values EXCEPT !.subnet = subnet]
  /\ UNCHANGED <<up, stored>>

\* The user replaces settings.json while the process is down.
Edit == ~up /\ stored' # stored /\ UNCHANGED <<up, values>>

Next ==
  \/ Start \/ End \/ Edit
  \/ \E s \in Subnets : Keep("subnet", s) \/ KeepInMemory(s)
  \/ \E f \in Switches, b \in BOOLEAN : Keep(f, b)

Spec == Init /\ [][Next]_settingsVars
=============================================================================
