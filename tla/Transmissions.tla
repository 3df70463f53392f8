--------------------------- MODULE Transmissions ----------------------------
(***************************************************************************)
(* What Application::update() of src/app.cpp sends by the clock: the       *)
(* address conflict and the lost TECU address shown in AOG, the 0xF0       *)
(* heartbeat, the J1939 ground speed and the GNSS quality.  The CAN thread *)
(* changes addresses and clients between any two steps of a pass.          *)
(*                                                                         *)
(* Time is counted in passes, and one pass stands for 100 ms: what is sent *)
(* every 100 ms is due in each of them.  A timestamp is modelled by its    *)
(* age, which stops at the interval the code compares it with.             *)
(***************************************************************************)
EXTENDS Integers, FiniteSets

CONSTANTS
  Speeds,            \* values of DDI 156 in 0xF2, mm/s
  Qualities,         \* fix quality bytes of 0xD6
  Reports,           \* contents of 0xF0 for a client with sections
  QualityMax,        \* GNSS_QUALITY_MAX, 8
  ConflictInterval,  \* 15000, of check_tc_address_conflict()
  GnssTimeout,       \* GNSS_QUALITY_TIMEOUT_MS, 2000
  GnssInterval,      \* 250, of send_gnss_quality()
  MaxDisturbances    \* bound: changes on the bus and sends that fail

ASSUME TransmissionsAssumption ==
  /\ Speeds \subseteq Int /\ Qualities \subseteq Nat /\ QualityMax \in Nat \ {0}
  /\ {ConflictInterval, GnssTimeout, GnssInterval} \subseteq Nat \ {0}
  /\ MaxDisturbances \in Nat
  /\ Reports \cap {"none", "beacon"} = {}

VARIABLES
  at,                       \* the step of the start or of the pass that is next
  tc,                       \* tcCF: "absent", or its address: "none", "preferred", "other"
  tecu,                     \* tecuCF: "absent", or its fixed address: "none", "claimed"
  otherTc,                  \* another TC holds the preferred address
  client,                   \* 0xF0 of the client with sections, or "none"
  aogHeartbeatEnabled,      \* the setting
  age,                      \* ages of lastConflictCheck and lastGnssSendMs
  tcAddressConflictActive,
  conflictMessage,          \* the last message about it: "none", "alert", "resolved"
  banner,                   \* AOG shows the conflict alert
  tecuAddressClaimFailed,
  alerted,                  \* the TECU alert: "no", "sent", "refused"
  heartbeat,                \* AOG: the last 0xF0, "none" before the first
  lastSpeedValue,
  busSpeed,                 \* the last J1939 speed on the bus, or NEVER
  gnssFixQuality, gnssAge,  \* lastGnssQualityMs as an age, or NEVER
  sentQuality,              \* the DDI 514 value last sent, or NEVER
  disturbances

NEVER == -1
Timers == {"conflict", "gnss"}
Interval == [conflict |-> ConflictInterval, gnss |-> GnssInterval]

\* Timestamps of the start: 0, on a clock as old as the program or older.
FirstAges == {Interval, [t \in Timers |-> 0]}

busVars == <<tc, tecu, otherTc, client>>
conflictVars == <<tcAddressConflictActive, conflictMessage, banner>>
shownVars == <<conflictVars, tecuAddressClaimFailed, alerted, heartbeat>>
speedVars == <<lastSpeedValue, busSpeed>>
gnssVars == <<gnssFixQuality, gnssAge, sentQuality>>
transmissionVars == <<at, busVars, aogHeartbeatEnabled, age, shownVars, speedVars, gnssVars,
                      disturbances>>

Goto(here, next) == at = here /\ at' = next
Older(a, limit) == IF a = NEVER \/ a >= limit THEN a ELSE a + 1
Expired(timer) == age[timer] >= Interval[timer]
Restart(timer) == age' = [age EXCEPT ![timer] = 0]
Disturb == disturbances < MaxDisturbances /\ disturbances' = disturbances + 1

---------------------------------------------------------------------------
(* The bus. *)

\* A control function loses its address, or another TC takes or leaves the
\* preferred one.
AddressChanges ==
  /\ \/ tc \in {"preferred", "other"} /\ tc' = "none" /\ UNCHANGED <<tecu, otherTc>>
     \/ tecu = "claimed" /\ tecu' = "none" /\ UNCHANGED <<tc, otherTc>>
     \/ otherTc' = ~otherTc /\ tc # "preferred" /\ UNCHANGED <<tc, tecu>>
  /\ Disturb
  /\ UNCHANGED <<at, client, aogHeartbeatEnabled, age, shownVars, speedVars, gnssVars>>

\* A control function without an address claims one.
Claim ==
  /\ \/ tc = "none" /\ tc' = (IF otherTc THEN "other" ELSE "preferred") /\ UNCHANGED tecu
     \/ tecu = "none" /\ tecu' = "claimed" /\ UNCHANGED tc
  /\ UNCHANGED <<at, otherTc, client, aogHeartbeatEnabled, age, shownVars, speedVars, gnssVars,
                 disturbances>>

ClientChanges ==
  /\ client' \in (Reports \cup {"none"}) \ {client}
  /\ Disturb
  /\ UNCHANGED <<at, tc, tecu, otherTc, aogHeartbeatEnabled, age, shownVars, speedVars, gnssVars>>

---------------------------------------------------------------------------
(* The packet handler of setup_udp_connections() for 0xF2 and 0xD6. *)

ReceiveSpeed ==
  \E speed \in Speeds \ {lastSpeedValue} :
    /\ Goto("packets", "vt")
    /\ lastSpeedValue' = speed
    /\ Disturb
    /\ UNCHANGED <<busVars, aogHeartbeatEnabled, age, shownVars, busSpeed, gnssVars>>

\* Values that are no defined GNSS method become the weakest real fix.
KnownQuality(quality) == IF quality <= QualityMax THEN quality ELSE 1

ReceiveQuality ==
  \E quality \in Qualities :
    /\ Goto("packets", "vt")
    /\ gnssFixQuality' = KnownQuality(quality)
    /\ gnssAge' = 0
    /\ UNCHANGED <<busVars, aogHeartbeatEnabled, age, shownVars, speedVars, sentQuality,
                   disturbances>>

ReceiveNothing ==
  /\ Goto("packets", "vt")
  /\ UNCHANGED <<busVars, aogHeartbeatEnabled, age, shownVars, speedVars, gnssVars, disturbances>>

---------------------------------------------------------------------------
(* The periodic steps of update(). *)

\* check_tc_address_conflict()
ConflictActive == tc # "preferred" /\ otherTc

\* Slip: an alert is sent when the conflict begins and not again.
AlertOnce == ConflictActive /\ ~tcAddressConflictActive

\* A conflict that lasts is alerted at every check.
AlertDue == ConflictActive

\* That a conflict is over is said once.
ResolvedDue == ~ConflictActive /\ tcAddressConflictActive

MessageDue == IF AlertDue THEN "alert" ELSE IF ResolvedDue THEN "resolved" ELSE "none"

\* send_hardware_message(): the message replaces what AOG shows, or it cannot be
\* sent, which is only logged.
SendHardwareMessage(message) ==
  \/ banner' = (message = "alert") /\ UNCHANGED disturbances
  \/ Disturb /\ UNCHANGED banner

CheckConflict ==
  /\ Goto("conflict", "alert")
  /\ \/ /\ Expired("conflict") /\ Restart("conflict")
        /\ tcAddressConflictActive' = ConflictActive
        /\ \/ /\ MessageDue # "none" /\ conflictMessage' = MessageDue
              /\ SendHardwareMessage(MessageDue)
           \/ MessageDue = "none" /\ UNCHANGED <<conflictMessage, banner, disturbances>>
     \/ ~Expired("conflict") /\ UNCHANGED <<age, conflictVars, disturbances>>
  /\ UNCHANGED <<busVars, aogHeartbeatEnabled, tecuAddressClaimFailed, alerted, heartbeat,
                 speedVars, gnssVars>>

\* AOG takes the alert down: its frames have been drawn, the operator dismissed
\* it or another message replaced it.
BannerGoes ==
  /\ banner /\ banner' = FALSE
  /\ UNCHANGED <<at, busVars, aogHeartbeatEnabled, age, tcAddressConflictActive, conflictMessage,
                 tecuAddressClaimFailed, alerted, heartbeat, speedVars, gnssVars, disturbances>>

\* Slip: the alert was sent where the flag is set, before UDP is open.
AlertTooEarly == tecuAddressClaimFailed' = FALSE /\ UNCHANGED <<alerted, disturbances>>

\* The flag is cleared whether or not the datagram could be sent.
AlertClaimFailure ==
  /\ tecuAddressClaimFailed' = FALSE
  /\ \/ tecuAddressClaimFailed /\ alerted' = "sent" /\ UNCHANGED disturbances
     \/ tecuAddressClaimFailed /\ alerted' = "refused" /\ Disturb
     \/ ~tecuAddressClaimFailed /\ UNCHANGED <<alerted, disturbances>>

ReportClaimFailure ==
  /\ Goto("alert", "heartbeat")
  /\ AlertClaimFailure
  /\ UNCHANGED <<busVars, aogHeartbeatEnabled, age, conflictVars, heartbeat, speedVars, gnssVars>>

\* Slip: the beacon is only sent before the first frame.
OnceOnly == client # "none" \/ (aogHeartbeatEnabled /\ heartbeat = "none")

\* A frame for the client with sections, or the beacon if it is enabled.
HeartbeatDue == client # "none" \/ aogHeartbeatEnabled

\* The 0xF0 heartbeat; a datagram that cannot be sent is dropped.
SendHeartbeat ==
  /\ Goto("heartbeat", "speed")
  /\ \/ /\ HeartbeatDue
        /\ heartbeat' = IF client = "none" THEN "beacon" ELSE client
        /\ UNCHANGED disturbances
     \/ HeartbeatDue /\ Disturb /\ UNCHANGED heartbeat
     \/ ~HeartbeatDue /\ UNCHANGED <<heartbeat, disturbances>>
  /\ UNCHANGED <<busVars, aogHeartbeatEnabled, age, conflictVars, tecuAddressClaimFailed,
                 alerted, speedVars, gnssVars>>

AbsOf(n) == IF n < 0 THEN -n ELSE n

\* Slip: the sign is cut off, not taken away.
Unsigned(speed) == (((speed % 2^16) * 576 + 312) \div 625) % 2^16

\* mm/s to 1/256 km/h, in sixteen bits.
J1939Speed(speed) == ((AbsOf(speed) * 576 + 312) \div 625) % 2^16

\* The J1939 speed, while the TECU has its address; a refused frame is tried
\* again in the next pass.
SendSpeed ==
  /\ Goto("speed", "gnss")
  /\ \/ tecu = "claimed" /\ busSpeed' = J1939Speed(lastSpeedValue) /\ UNCHANGED disturbances
     \/ tecu = "claimed" /\ Disturb /\ UNCHANGED busSpeed
     \/ tecu # "claimed" /\ UNCHANGED <<busSpeed, disturbances>>
  /\ UNCHANGED <<busVars, aogHeartbeatEnabled, age, shownVars, lastSpeedValue, gnssVars>>

\* Slip: the last quality is kept for ever.
LastQuality == IF gnssAge = NEVER THEN 1 ELSE gnssFixQuality

\* The quality the implements are sent: 1 before the first 0xD6, 0 once they
\* have stopped.
CurrentQuality ==
  IF gnssAge = NEVER THEN 1 ELSE IF gnssAge < GnssTimeout THEN gnssFixQuality ELSE 0

SendGnssQuality ==
  /\ Goto("gnss", "end")
  /\ IF Expired("gnss") THEN Restart("gnss") /\ sentQuality' = CurrentQuality
     ELSE UNCHANGED <<age, sentQuality>>
  /\ UNCHANGED <<busVars, aogHeartbeatEnabled, shownVars, speedVars, gnssFixQuality, gnssAge,
                 disturbances>>

\* Time passes between two passes.
TimePasses ==
  /\ age' = [t \in Timers |-> Older(age[t], Interval[t])]
  /\ gnssAge' = Older(gnssAge, GnssTimeout + GnssInterval)

Transmit ==
  \/ ReceiveSpeed \/ ReceiveQuality \/ ReceiveNothing \/ CheckConflict \/ ReportClaimFailure
  \/ SendHeartbeat \/ SendSpeed \/ SendGnssQuality

Bus == AddressChanges \/ Claim \/ ClientChanges

Passing ==
  at \in {"loop", "packets", "vt", "conflict", "alert", "heartbeat", "speed", "gnss", "end"}

---------------------------------------------------------------------------
(* Properties. *)

\* Implements are not told of a fix the tractor no longer has: once 0xD6 has
\* been missing for the timeout and one sending interval, the value they were
\* last sent is 0 (docs/PROTOCOL.md, fallbacks of 0xD6).
LostFixIsSent ==
  (at = "end" /\ gnssAge # NEVER /\ gnssAge >= GnssTimeout + GnssInterval) => sentQuality = 0

\* What AOG is told about an address conflict catches up with the bus, although either
\* TC may change its address at any time, messages are refused and AOG takes alerts
\* down whenever it likes (docs/PROTOCOL.md: "A condition that persists must be
\* re-sent"): while a conflict lasts its alert is shown again and again, and after
\* one that is over the last message is not an alert.  The message that it is over
\* is sent once and may be refused; the alert then goes when AOG takes it down.
ConflictCatchesUp ==
  /\ <>[](Passing /\ ConflictActive) => []<>banner
  /\ <>[](Passing /\ ~ConflictActive) => <>[](conflictMessage # "alert")

\* AOG's picture of the sections catches up: the last 0xF0 is the one of the client
\* that stayed, or the beacon when none did, whatever datagrams were lost.
HeartbeatCatchesUp ==
  \A c \in Reports \cup {"none"} :
     <>[](Passing /\ client = c /\ (c = "none" => aogHeartbeatEnabled))
        => <>[](heartbeat = IF c = "none" THEN "beacon" ELSE c)

\* One mm/s is 0.0036 * 256 units of 1/256 km/h.
OnBus(v) == (AbsOf(v) * 9216 + 5000) \div 10000

\* While the TECU has its address, the speed on the bus catches up with the one
\* AOG sent, forwards or backwards, however often frames are refused, if sixteen
\* bits hold it; beyond them (71.1 m/s) the bus gets the lower sixteen.
BusSpeedCatchesUp ==
  \A v \in Speeds :
     OnBus(v) < 2^16 =>
       (<>[](Passing /\ tecu = "claimed" /\ lastSpeedValue = v) => <>[](busSpeed = OnBus(v)))
=============================================================================
