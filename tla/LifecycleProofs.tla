-------------------------- MODULE LifecycleProofs ---------------------------
(***************************************************************************)
(* Proofs about Lifecycle and the transmissions of a pass, for any set of  *)
(* configurations, speeds, qualities and reports and any intervals.        *)
(***************************************************************************)
EXTENDS Lifecycle, TLAPS

\* The places before the server is set up, in program order.
Starting == {"load", "hardware", "requestTc", "claimTc", "delayTc", "claimTecu", "delayTecu"}

\* Once the TC's delay is over, the rest of the start.
AfterDelayTc == {"claimTecu", "delayTecu", "server", "interfaces", "setupVt", "udp"}

\* The types of the variables the arguments below count with.
NumbersOK ==
  /\ wait \in Nat
  /\ tcAge \in Nat \cup {NEVER} /\ tecuAge \in Nat \cup {NEVER}
  /\ age \in [Timers -> Nat] /\ gnssAge \in Nat \cup {NEVER}

\* Why the TC keeps quiet: an address it has was claimed some time ago, and the
\* delay loop has polled no more often than the claim is old.
TcInv ==
  /\ tc \in {"absent", "none", "preferred", "other"}
  /\ at \in {"load", "hardware", "requestTc"} => tc = "absent" /\ tcAge = NEVER
  /\ tc \in {"preferred", "other"} => tcAge # NEVER
  /\ at = "claimTc" => tc # "absent"
  /\ at = "delayTc" => tcAge # NEVER /\ (wait <= tcAge \/ ClaimDelay <= tcAge)
  /\ at \in AfterDelayTc => ClaimDelay <= tcAge
  /\ tcServer => ClaimDelay <= tcAge
  /\ tcServer \in BOOLEAN
  /\ at \in Starting => ~tcServer

\* The same for the TECU, which is absent when it is disabled or was given up.
TecuInv ==
  /\ tecu \in {"absent", "none", "claimed"}
  /\ tecu = "claimed" => tecuAge # NEVER
  /\ at = "claimTecu" => tecu # "absent"
  /\ at = "delayTecu" => tecuAge # NEVER /\ (wait <= tecuAge \/ ClaimDelay <= tecuAge)
  /\ at \in {"load", "hardware", "requestTc", "claimTc", "delayTc"} =>
        tecu = "absent" /\ tecuAge = NEVER
  /\ at \in {"server", "interfaces"} => tecu = "absent" \/ ClaimDelay <= tecuAge
  /\ tecuInterfaces \in BOOLEAN
  /\ tecuInterfaces => ClaimDelay <= tecuAge

\* The places at which the CAN thread has not been started or has been stopped.
WithoutCan == {"load", "hardware", "exited"}

\* The places at which it may or may not run.
Stopping == {"stop", "stopServer", "stopHardware"}

\* Why stop() misses nothing: what is active is what its guards ask for, the CAN
\* thread carries it, and the three are gone one after the other.
PartsInv ==
  /\ settings \in Configurations
  /\ canRunning \in BOOLEAN /\ serverActive \in BOOLEAN
  /\ vtClient \in BOOLEAN /\ vtClientStarted \in BOOLEAN /\ vtActive \in BOOLEAN
  /\ serverActive => tcServer
  /\ vtActive => vtClient /\ vtClientStarted
  /\ serverActive \/ vtActive => canRunning
  /\ at \in Starting \cup AfterDelayTc \cup {"stopServer"} => ~vtActive
  /\ at \in {"stopHardware"} \cup WithoutCan => ~vtActive /\ ~serverActive
  /\ at \in WithoutCan => ~canRunning
  /\ at \notin WithoutCan \cup Stopping => canRunning

\* Why a lost fix is noticed: a quality that was already too old when the
\* qualities were last sent was sent as 0, and they are sent in time.
FixInv ==
  /\ gnssAge # NEVER /\ gnssAge >= GnssTimeout + age["gnss"] => sentQuality = 0
  /\ at = "end" => age["gnss"] < GnssInterval

IInv == NumbersOK /\ TcInv /\ TecuInv /\ PartsInv /\ FixInv



\* The ages a start finds are numbers.
LEMMA FirstAgesType == FirstAges \subseteq [Timers -> Nat]
<1>1. Interval \in [Timers -> Nat]
  BY TransmissionsAssumption DEF Interval, Timers
<1> QED
  BY <1>1 DEF FirstAges

\* Every step keeps the invariant.
LEMMA IInvStep ==
  IInv /\ [Next]_vars => IInv'
<1> SUFFICES ASSUME IInv, [Next]_vars PROVE IInv'
  OBVIOUS
<1> USE TransmissionsAssumption, LifecycleAssumption
<1> USE DEF IInv, NumbersOK, NEVER, Timers, Starting, AfterDelayTc, WithoutCan, Stopping, TcInv, TecuInv,
     PartsInv, FixInv, Goto, KeepTransmissions, busVars, shownVars, conflictVars, speedVars, gnssVars,
     serverVars, vtVars, partVars, claimVars
<1>1. CASE Load
  BY <1>1 DEF Load
<1>2. CASE StartHardware
  BY <1>2 DEF StartHardware
<1>3. CASE RequestTc
  BY <1>3 DEF RequestTc
<1>4. CASE AwaitTc
  BY <1>4 DEF AwaitTc, Poll, BeginDelay, Older
<1>5. CASE DelayTc
  BY <1>5 DEF DelayTc, Poll, BeginDelay, Older
<1>6. CASE AwaitTecu
  BY <1>6 DEF AwaitTecu, Poll, BeginDelay, Older
<1>7. CASE DelayTecu
  BY <1>7 DEF DelayTecu, Poll, Older
<1>8. CASE SetupServer
  BY <1>8 DEF SetupServer
<1>9. CASE SetupInterfaces
  BY <1>9 DEF SetupInterfaces
<1>10. CASE OpenUdp
  BY <1>10 DEF OpenUdp
<1>11. CASE Loop
  BY <1>11 DEF Loop, TestFlag
<1>12. CASE Transmit /\ UNCHANGED <<running, settings, partVars, claimVars>>
  <2>1. CASE ReceiveSpeed
    BY <1>12, <2>1 DEF ReceiveSpeed
  <2>2. CASE ReceiveQuality
    BY <1>12, <2>2 DEF ReceiveQuality
  <2>3. CASE ReceiveNothing
    BY <1>12, <2>3 DEF ReceiveNothing
  <2>4. CASE CheckConflict
    BY <1>12, <2>4 DEF CheckConflict, Restart
  <2>5. CASE ReportClaimFailure
    BY <1>12, <2>5 DEF ReportClaimFailure
  <2>6. CASE SendHeartbeat
    BY <1>12, <2>6 DEF SendHeartbeat
  <2>7. CASE SendSpeed
    BY <1>12, <2>7 DEF SendSpeed
  <2>8. CASE SendGnssQuality
    BY <1>12, <2>8 DEF SendGnssQuality, Restart, Expired, Interval, CurrentQuality
  <2> QED
    BY <1>12, <2>1, <2>2, <2>3, <2>4, <2>5, <2>6, <2>7, <2>8 DEF Transmit
<1>13. CASE RebindThrows
  BY <1>13 DEF RebindThrows
<1>14. CASE UpdateVt
  <2>1. CASE vtActive' = TRUE /\ vtClientStarted' = TRUE /\ vtClient
    BY <1>14, <2>1 DEF UpdateVt
  <2>2. CASE vtActive' = vtActive /\ vtClientStarted' = vtClientStarted
    BY <1>14, <2>2 DEF UpdateVt
  <2> QED
    BY <1>14, <2>1, <2>2 DEF UpdateVt
<1>15. CASE EndPass
  BY <1>15 DEF EndPass, TimePasses, Older, Interval
<1>16. CASE Stop
  <2>1. CASE StopVt
    <3>1. vtActive' = FALSE
      BY <2>1 DEF StopVt
    <3> QED
      BY <2>1, <3>1 DEF StopVt
  <2>2. CASE StopServer
    BY <2>2 DEF StopServer
  <2>3. CASE StopHardware
    BY <2>3 DEF StopHardware, IsRunning
  <2> QED
    BY <1>16, <2>1, <2>2, <2>3 DEF Stop
<1>17. CASE BusStep
  <2>1. CASE AddressChanges
    BY <1>17, <2>1 DEF BusStep, FirstClaim, AddressChanges
  <2>2. CASE Claim
    BY <1>17, <2>2 DEF BusStep, FirstClaim, Claim
  <2>3. CASE ClientChanges
    BY <1>17, <2>3 DEF BusStep, FirstClaim, ClientChanges
  <2> QED
    BY <1>17, <2>1, <2>2, <2>3 DEF BusStep, Bus
<1>18. CASE Signal
  BY <1>18 DEF Signal
<1>19. CASE StartAgain
  BY FirstAgesType, <1>19 DEF StartAgain
<1>20. CASE UNCHANGED vars
  BY <1>20 DEF vars, transmissionVars
<1>21. CASE SetupVt
  <2>1. vtClient' \in BOOLEAN
    BY <1>21 DEF SetupVt
  <2> QED
    BY <1>21, <2>1 DEF SetupVt
<1>22. CASE AogStep
  BY <1>22 DEF AogStep, BannerGoes
<1> QED
  BY <1>1, <1>2, <1>3, <1>4, <1>5, <1>6, <1>7, <1>8, <1>9, <1>10, <1>11, <1>12, <1>13, <1>14,
       <1>15, <1>16, <1>17, <1>18, <1>19, <1>20, <1>21, <1>22 DEF Next, MainThread, Initialize, Pass

\* The program starts with the invariant.
LEMMA IInvInit == Init => IInv
<1> SUFFICES ASSUME Init PROVE IInv
  OBVIOUS
<1>1. NumbersOK
  BY FirstAgesType DEF Init, NumbersOK
<1>2. TcInv
  BY DEF Init, TcInv, Starting, AfterDelayTc
<1>3. TecuInv
  BY DEF Init, TecuInv
<1>4. PartsInv
  BY DEF Init, PartsInv, WithoutCan, Stopping, Starting, AfterDelayTc
<1>5. FixInv
  BY DEF Init, FixInv
<1> QED
  BY <1>1, <1>2, <1>3, <1>4, <1>5 DEF IInv

\* The invariant holds throughout.
LEMMA IInvHolds == Spec => []IInv
  BY IInvInit, IInvStep, PTL DEF Spec

\* Neither control function sends messages of its own before 250 ms have passed
\* since it first claimed its address: setup_control_functions() counts from the
\* poll that notices the claim, which is never before the claim.
THEOREM QuietAfterEveryClaim == Spec => []QuietAfterClaim
<1>1. IInv => QuietAfterClaim
  BY LifecycleAssumption DEF IInv, TcInv, TecuInv, PartsInv, QuietAfterClaim, NumbersOK, NEVER
<1> QED
  BY <1>1, IInvHolds, PTL

\* Whichever step of initialize() or update() failed or threw, the guards of stop()
\* find everything that was started: the CAN thread, also one that start() left
\* running without a driver, the server and the terminal client; and neither of
\* the two is ever active without the CAN thread.
THEOREM AlwaysStopsCleanly == Spec => []StopsCleanly
<1>1. IInv => StopsCleanly
  BY DEF IInv, PartsInv, WithoutCan, StopsCleanly
<1> QED
  BY <1>1, IInvHolds, PTL

\* At the end of a pass in which 0xD6 has been missing for the timeout and one
\* sending interval, the quality last sent is 0, for any timeout and interval.
THEOREM LostFixIsAlwaysSent == Spec => []LostFixIsSent
<1>1. IInv => LostFixIsSent
  BY TransmissionsAssumption DEF IInv, NumbersOK, FixInv, LostFixIsSent, NEVER, Timers
<1> QED
  BY <1>1, IInvHolds, PTL
=============================================================================
