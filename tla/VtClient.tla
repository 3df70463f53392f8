------------------------------ MODULE VtClient ------------------------------
(***************************************************************************)
(* The virtual terminal client of src/app.cpp on top of the settings:      *)
(* update_vt_client(), which the main thread calls in every pass, and the  *)
(* listener of setup_vt_client(), which the CAN thread calls when the user *)
(* changes a configuration value on the terminal.  Both send to the        *)
(* terminal, and the listener saves settings that the main thread reads.   *)
(*                                                                         *)
(* External: the terminal (what it shows; a new connection starts from the *)
(* object pool), and the library's update helper, whose two operations are *)
(* atomic here: it sends a value that differs from the one it tracks, and  *)
(* after our listener it confirms a value the user entered.  What is sent  *)
(* while the terminal is connected arrives.                                *)
(***************************************************************************)
EXTENDS Settings, Sequences

CONSTANTS
  Facts,            \* what the status page is about, see TextOf()
  StatusInterval,   \* 1000, of update_vt_status_strings(), in passes
  WarningAfter,     \* 30000, of handle_vt_disconnected(), in passes
  MaxDisturbances   \* bound: user entries, losses, faults and changes of the facts

ASSUME VtAssumption ==
  /\ StatusInterval \in Nat /\ WarningAfter \in Nat /\ MaxDisturbances \in Nat

VARIABLES
  at,                         \* the main thread's place in its pass
  todo,                       \* configuration objects it has still to send
  held,                       \* the value it has read from the settings for one
  vtClientStarted, vtWasConnected, vtConfigSynced, vtConnectionWarningLogged,
  vtDisconnectedAge,          \* age of vtDisconnectedSinceMs, or NEVER
  statusAge,                  \* age of lastVtStatusUpdateMs
  lastVtStrings,              \* the strings last sent, "" if none
  interface,                  \* nmea2000MessageInterface exists
  nmeaSending,                \* its flag: COG and SOG are sent cyclically
  listener, handling,         \* the CAN thread's place, and the entry it handles
  tracked,                    \* update helper: the values it tracks
  connected,                  \* VirtualTerminalClient::get_is_connected()
  shown, config,              \* terminal: strings and configuration values it shows
  entry,                      \* terminal: the user's entry on its way, or <<>>
  facts,
  stale,                      \* history: objects sync_vt_config_once() sent too late
  disturbances

ConfigObjects == <<"nmeaSendEnabled", "tecuEnabled">>
ConfigSet == {ConfigObjects[i] : i \in DOMAIN ConfigObjects}
Strings == {"ImplementSectionMap", "VTWorkingSetStatusStr", "DiagnosticsAlarmValue",
            "ConfigNmeaSendLabel", "ConfigTecuLabel"}
NEVER == -1
NoStrings == [s \in Strings |-> ""]
PoolValues == [o \in ConfigSet |-> FALSE]

passVars == <<at, todo, held>>
clientVars == <<vtClientStarted, vtWasConnected, vtConfigSynced, vtConnectionWarningLogged,
                vtDisconnectedAge>>
stringVars == <<statusAge, lastVtStrings, shown>>
listenerVars == <<listener, handling>>
configVars == <<tracked, config, stale>>
nmeaVars == <<interface, nmeaSending>>
vars == <<settingsVars, passVars, clientVars, stringVars, listenerVars, configVars, nmeaVars,
          connected, entry, facts, disturbances>>

Init ==
  /\ SettingsInit
  /\ at = "down" /\ todo = <<>> /\ held = FALSE
  /\ vtClientStarted = FALSE /\ vtWasConnected = FALSE
  /\ vtConfigSynced = FALSE /\ vtConnectionWarningLogged = FALSE
  /\ vtDisconnectedAge = NEVER
  /\ statusAge = 0 /\ lastVtStrings = NoStrings /\ shown = NoStrings
  /\ listener = "idle" /\ handling = <<>>
  /\ tracked = PoolValues /\ config = PoolValues /\ stale = {}
  /\ interface = FALSE /\ nmeaSending = FALSE
  /\ connected = FALSE /\ entry = <<>>
  /\ facts \in Facts
  /\ disturbances = 0

Goto(here, next) == at = here /\ at' = next
Older(age, limit) == IF age = NEVER \/ age >= limit THEN age ELSE age + 1
Count(fault) ==
  /\ disturbances' = disturbances + IF fault THEN 1 ELSE 0
  /\ disturbances' <= MaxDisturbances

---------------------------------------------------------------------------
(* The process. *)

\* initialize(): the settings are loaded, the NMEA interface exists if the TECU
\* is enabled and got its address, and the client waits for a terminal.
Start ==
  /\ Goto("down", "packets")
  /\ Load
  /\ LET settings == LoadOf(file).config IN
       /\ interface' \in {FALSE, settings.tecuEnabled}
       /\ nmeaSending' = settings.nmeaSendEnabled
       /\ tracked' = [o \in ConfigSet |-> settings[o]]
  /\ UNCHANGED <<todo, held, clientVars, stringVars, listenerVars, config, stale, connected,
                 entry, facts, disturbances>>

\* The members of Application are gone and the terminal has lost its client.
EndProcess ==
  /\ Die
  /\ at' = "down" /\ todo' = <<>> /\ held' = FALSE
  /\ vtClientStarted' = FALSE /\ vtWasConnected' = FALSE
  /\ vtConfigSynced' = FALSE /\ vtConnectionWarningLogged' = FALSE
  /\ vtDisconnectedAge' = NEVER
  /\ statusAge' = 0 /\ lastVtStrings' = NoStrings /\ shown' = NoStrings
  /\ listener' = "idle" /\ handling' = <<>>
  /\ tracked' = PoolValues /\ config' = PoolValues /\ stale' = {}
  /\ interface' = FALSE /\ nmeaSending' = FALSE
  /\ connected' = FALSE /\ entry' = <<>>

Crash == up /\ EndProcess /\ Count(TRUE) /\ UNCHANGED facts

\* An exception has left update(): stop() waits for the CAN thread.
Stop == at = "stopping" /\ listener = "idle" /\ EndProcess /\ UNCHANGED <<facts, disturbances>>

Edited ==
  /\ EditFile
  /\ UNCHANGED <<passVars, clientVars, stringVars, listenerVars, configVars, nmeaVars,
                 connected, entry, facts, disturbances>>

---------------------------------------------------------------------------
(* The setters, called by either thread. *)

SaveStep(t) ==
  /\ Enter(t) \/ Open(t) \/ Write(t) \/ Rename(t)
  /\ Count(~call'[t].saved)
  /\ UNCHANGED <<passVars, clientVars, stringVars, listenerVars, configVars, nmeaVars,
                 connected, entry, facts>>

\* An exception from save() leaves update() on the main thread and ends the
\* process on the CAN thread.
SaveThrows(t) ==
  /\ Count(TRUE)
  /\ \/ /\ t = Main /\ PathFails(t) /\ at' = "stopping"
        /\ UNCHANGED <<todo, held, clientVars, stringVars, listenerVars, configVars, nmeaVars,
                       connected, entry>>
     \/ t = Can /\ call[t].at = "opening" /\ EndProcess
  /\ UNCHANGED facts

---------------------------------------------------------------------------
(* The terminal and its user. *)

\* The control of NmeaSend is disabled on the terminal without an interface.
Editable(o) == o = "nmeaSendEnabled" => (interface \/ ~vtConfigSynced)

UserEnters ==
  /\ connected /\ entry = <<>>
  /\ \E o \in ConfigSet :
       /\ Editable(o)
       /\ config' = [config EXCEPT ![o] = ~@]
       /\ entry' = <<o, ~config[o]>>
  /\ Count(TRUE)
  /\ UNCHANGED <<settingsVars, passVars, clientVars, stringVars, listenerVars, tracked, stale,
                 nmeaVars, connected, facts>>

FactsChange ==
  /\ facts' \in Facts \ {facts}
  /\ Count(TRUE)
  /\ UNCHANGED <<settingsVars, passVars, clientVars, stringVars, listenerVars, configVars,
                 nmeaVars, connected, entry>>

---------------------------------------------------------------------------
(* The listener of setup_vt_client() for changed values, on the CAN thread. *)

HandleEntry ==
  /\ up /\ listener = "idle" /\ entry # <<>>
  /\ handling' = entry /\ entry' = <<>>
  /\ IF entry[1] = "nmeaSendEnabled" /\ ~interface
     THEN listener' = "answer" /\ UNCHANGED settingsVars
     ELSE listener' = "setting" /\ Ask(Can, entry[1], entry[2])
  /\ UNCHANGED <<passVars, clientVars, stringVars, configVars, nmeaVars, connected, facts,
                 disturbances>>

\* Slip: the interface is switched whether or not the setting was saved.
SwitchAlways(saved) ==
  nmeaSending' = IF handling[1] = "nmeaSendEnabled" THEN handling[2] ELSE nmeaSending

SwitchSending(saved) ==
  nmeaSending' = IF saved /\ handling[1] = "nmeaSendEnabled" THEN handling[2] ELSE nmeaSending

AfterSet ==
  /\ listener = "setting" /\ call[Can].at = "idle"
  /\ SwitchSending(call[Can].saved)
  /\ listener' = IF call[Can].saved THEN "confirm" ELSE "answer"
  /\ UNCHANGED <<settingsVars, passVars, clientVars, stringVars, handling, configVars, interface,
                 connected, entry, facts, disturbances>>

\* What a command to change a value does to the terminal.
Sent(o, value) == IF connected THEN [config EXCEPT ![o] = value] ELSE config

\* An entry that was not saved is answered with the value that is stored.
AnswerStored ==
  /\ listener = "answer" /\ CanRead
  /\ config' = Sent(handling[1], values[handling[1]])
  /\ listener' = "confirm"
  /\ UNCHANGED <<settingsVars, passVars, clientVars, stringVars, handling, tracked, stale,
                 nmeaVars, connected, entry, facts, disturbances>>

\* The update helper's own listener, registered after ours by initialize().
Confirm ==
  /\ listener = "confirm"
  /\ config' = Sent(handling[1], handling[2])
  /\ tracked' = [tracked EXCEPT ![handling[1]] = handling[2]]
  /\ stale' = stale \ {handling[1]}
  /\ listener' = "idle" /\ handling' = <<>>
  /\ UNCHANGED <<settingsVars, passVars, clientVars, stringVars, nmeaVars, connected, entry,
                 facts, disturbances>>

---------------------------------------------------------------------------
(* The main thread's pass. *)

\* handle_address_detection(): AgIO may announce a subnet.
NoSubnet ==
  /\ Goto("packets", "vt")
  /\ UNCHANGED <<settingsVars, todo, held, clientVars, stringVars, listenerVars, configVars,
                 nmeaVars, connected, entry, facts, disturbances>>

SubnetArrives ==
  /\ Goto("packets", "subnet")
  /\ \E s \in Subnets : Ask(Main, "subnet", s)
  /\ Count(TRUE)
  /\ UNCHANGED <<todo, held, clientVars, stringVars, listenerVars, configVars, nmeaVars,
                 connected, entry, facts>>

\* The result of set_subnet() is ignored; the socket is bound again.
SubnetSet ==
  /\ Goto("subnet", "vt")
  /\ call[Main].at = "idle"
  /\ UNCHANGED <<settingsVars, todo, held, clientVars, stringVars, listenerVars, configVars,
                 nmeaVars, connected, entry, facts, disturbances>>

\* try_start_vt_client(): the client starts when a terminal has an address.
TryStartVtClient ==
  /\ Goto("vt", "end") /\ ~vtClientStarted
  /\ \/ vtClientStarted' = TRUE /\ vtDisconnectedAge' = 0
     \/ UNCHANGED <<vtClientStarted, vtDisconnectedAge>>
  /\ UNCHANGED <<settingsVars, todo, held, vtWasConnected, vtConfigSynced,
                 vtConnectionWarningLogged, stringVars, listenerVars, configVars, nmeaVars,
                 connected, entry, facts, disturbances>>

\* Slip: the time starts again in every pass without a terminal.
AlwaysNew == 0

\* The age of vtDisconnectedSinceMs once this pass has found no connection.
SinceLost == IF vtWasConnected \/ vtDisconnectedAge = NEVER THEN 0 ELSE vtDisconnectedAge

\* Slip: the strings sent on the lost connection are remembered.
KeepStrings == UNCHANGED lastVtStrings

ForgetStrings == lastVtStrings' = NoStrings

\* Slip: the configuration counts as sent on the next connection.
StaysSynced == UNCHANGED vtConfigSynced

ForgetSync == vtConfigSynced' = FALSE

\* update_vt_client() up to handle_vt_disconnected().
VtDisconnected ==
  /\ Goto("vt", "end") /\ vtClientStarted
  /\ connected' = FALSE /\ Count(connected)
  /\ shown' = NoStrings /\ config' = PoolValues /\ stale' = {}
  /\ vtDisconnectedAge' = SinceLost
  /\ vtConnectionWarningLogged' =
       ((vtConnectionWarningLogged /\ ~vtWasConnected) \/ SinceLost >= WarningAfter)
  /\ vtWasConnected' = FALSE
  /\ ForgetStrings /\ ForgetSync
  /\ UNCHANGED <<settingsVars, todo, held, vtClientStarted, statusAge, listenerVars, tracked,
                 nmeaVars, entry, facts>>

\* update_vt_client() with a terminal: what is sent next.
VtConnected ==
  /\ vtClientStarted
  /\ Goto("vt", IF vtConfigSynced THEN "config" ELSE "sync")
  /\ todo' = ConfigObjects
  /\ connected' = TRUE
  /\ vtWasConnected' = TRUE
  /\ IF vtWasConnected THEN UNCHANGED <<vtDisconnectedAge, vtConnectionWarningLogged>>
     ELSE vtDisconnectedAge' = NEVER /\ vtConnectionWarningLogged' = FALSE
  /\ UNCHANGED <<settingsVars, held, vtClientStarted, vtConfigSynced, stringVars, listenerVars,
                 configVars, nmeaVars, entry, facts, disturbances>>

\* sync_vt_config_once() and set_numeric_value() read the setting first.
ReadSetting ==
  /\ Goto("sync", "syncSend") \/ Goto("config", "configSend")
  /\ CanRead
  /\ held' = values[Head(todo)]
  /\ UNCHANGED <<settingsVars, todo, clientVars, stringVars, listenerVars, configVars, nmeaVars,
                 connected, entry, facts, disturbances>>

\* sync_vt_config_once() sends past the update helper.
SyncSend ==
  /\ Goto("syncSend", IF Len(todo) = 1 THEN "config" ELSE "sync")
  /\ config' = [config EXCEPT ![Head(todo)] = held]
  /\ stale' = IF held = SeenValues[Head(todo)] THEN stale ELSE stale \cup {Head(todo)}
  /\ todo' = IF Len(todo) = 1 THEN ConfigObjects ELSE Tail(todo)
  /\ vtConfigSynced' = (Len(todo) = 1)
  /\ UNCHANGED <<settingsVars, held, vtClientStarted, vtWasConnected, vtConnectionWarningLogged,
                 vtDisconnectedAge, stringVars, listenerVars, tracked, nmeaVars, connected, entry,
                 facts, disturbances>>

\* VirtualTerminalClientUpdateHelper::set_numeric_value()
ConfigSend ==
  /\ Goto("configSend", IF Len(todo) = 1 THEN "strings" ELSE "config")
  /\ IF tracked[Head(todo)] = held THEN UNCHANGED <<config, tracked, stale>>
     ELSE /\ config' = [config EXCEPT ![Head(todo)] = held]
          /\ tracked' = [tracked EXCEPT ![Head(todo)] = held]
          /\ stale' = stale \ {Head(todo)}
  /\ todo' = Tail(todo)
  /\ UNCHANGED <<settingsVars, held, clientVars, stringVars, listenerVars, nmeaVars, connected,
                 entry, facts, disturbances>>

HavePreferredAddress == facts.address = "preferred"

AlarmText ==
  CASE facts.address = "other" -> "TC address conflict"
    [] facts.address = "none" -> "TC address not claimed"
    [] HavePreferredAddress /\ ~facts.aog -> "AOG heartbeat missing"
    [] HavePreferredAddress /\ facts.aog /\ facts.clients = 0 -> "Waiting for implement"
    [] OTHER -> "No active alarms"

\* update_vt_section_map()
SectionMap == IF facts.clients = 0 THEN "No sections connected" ELSE facts.map

\* The texts, of update_vt_status_strings() those that depend on different things.
TextOf(s) ==
  CASE s = "ImplementSectionMap" -> SectionMap
    [] s = "VTWorkingSetStatusStr" ->
         IF ~HavePreferredAddress THEN "ADDR!" ELSE IF facts.aog THEN "OK" ELSE "OFF"
    [] s = "DiagnosticsAlarmValue" -> AlarmText
    [] s = "ConfigNmeaSendLabel" ->
         IF ~interface THEN "NMEA Send: N/A"
         ELSE IF values.nmeaSendEnabled THEN "NMEA Send: ON" ELSE "NMEA Send: OFF"
    [] s = "ConfigTecuLabel" -> IF values.tecuEnabled THEN "TECU: ON" ELSE "TECU: OFF"

\* The section map in every pass, the others once per StatusInterval.
DueStrings == IF statusAge >= StatusInterval THEN Strings ELSE {"ImplementSectionMap"}

\* send_vt_string_if_changed() for the strings that are due.
SendStrings ==
  /\ Goto("strings", "end") /\ CanRead
  /\ LET changed == {s \in DueStrings : lastVtStrings[s] # TextOf(s)}
     IN  /\ shown' = [s \in Strings |-> IF s \in changed THEN TextOf(s) ELSE shown[s]]
         /\ lastVtStrings' =
              [s \in Strings |-> IF s \in changed THEN TextOf(s) ELSE lastVtStrings[s]]
  /\ statusAge' = IF statusAge >= StatusInterval THEN 0 ELSE statusAge
  /\ UNCHANGED <<settingsVars, todo, held, clientVars, listenerVars, configVars, nmeaVars,
                 connected, entry, facts, disturbances>>

NextPass ==
  /\ Goto("end", "packets")
  /\ statusAge' = Older(statusAge, StatusInterval)
  /\ vtDisconnectedAge' = Older(vtDisconnectedAge, WarningAfter)
  /\ UNCHANGED <<settingsVars, todo, held, vtClientStarted, vtWasConnected, vtConfigSynced,
                 vtConnectionWarningLogged, lastVtStrings, shown, listenerVars, configVars,
                 nmeaVars, connected, entry, facts, disturbances>>

---------------------------------------------------------------------------

MainStep ==
  \/ NoSubnet \/ SubnetArrives \/ SaveStep(Main) \/ SubnetSet \/ TryStartVtClient
  \/ VtDisconnected \/ VtConnected \/ ReadSetting \/ SyncSend \/ ConfigSend \/ SendStrings
  \/ NextPass \/ Stop

CanStep == HandleEntry \/ SaveStep(Can) \/ AfterSet \/ AnswerStored \/ Confirm

Next ==
  \/ MainStep \/ CanStep
  \/ Start \/ Crash \/ Edited
  \/ \E t \in Threads : SaveThrows(t)
  \/ UserEnters \/ FactsChange

\* Both threads keep running while the process does.
Spec == Init /\ [][Next]_vars /\ WF_vars(MainStep) /\ WF_vars(CanStep)

---------------------------------------------------------------------------
(* Properties. *)

\* settings.cpp implements AtomicSettings: whatever fails and whenever the
\* process ends, a setting is changed in memory and on disk in one step or, for a
\* switch, not at all, no thread acts on a value that is then taken back, and
\* what is on disk always loads, as one of the configurations that were saved.
SettingsAreAtomic == Atomic!Spec

\* The terminal's strings catch up with what they are about, on the first and on
\* every later connection, although only changes are sent.
StringsCatchUp == <>[](up /\ connected) => <>[](shown = [s \in Strings |-> TextOf(s)])

\* The terminal's configuration values catch up with the settings, whether entries
\* were saved or not and whichever thread sent last - unless an entry overtook
\* sync_vt_config_once() between its reading and its sending.
ConfigCatchesUp ==
  <>[](up /\ connected /\ stale = {}) => <>[](\A o \in ConfigSet : config[o] = values[o])

\* COG and SOG are sent exactly when the setting says so, once the listener has
\* handled the user's entry, also after a save that failed.
SendingFollowsSetting ==
  interface /\ listener \in {"idle", "answer", "confirm"} => nmeaSending = SeenValues.nmeaSendEnabled

\* A terminal that was found but does not connect, or does not come back, is
\* reported (docs/PROTOCOL.md, 5.5: "has not connected after 30 seconds").
MissingTerminalIsReported ==
  <>[](vtClientStarted /\ ~connected) => <>[]vtConnectionWarningLogged
=============================================================================
