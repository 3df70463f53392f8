----------------------------- MODULE Lifecycle ------------------------------
(***************************************************************************)
(* A run of the program: run_application_loop() of src/main.cpp around     *)
(* Application::initialize(), update() and stop() of src/app.cpp, composed *)
(* with what a pass of update() transmits.  Every step of the start may    *)
(* fail, some by exception, a signal may arrive at any time, and the       *)
(* program may be started again.                                           *)
(*                                                                         *)
(* In the wait loops of setup_control_functions() one poll is the unit of  *)
(* time; ages of address claims are counted in it.                         *)
(***************************************************************************)
EXTENDS Transmissions

CONSTANTS
  Configurations,  \* what settings.json may hold: tecu, vt and heartbeat switches
  ClaimDelay,      \* MINIMUM_ADDRESS_CLAIM_DELAY_MS, 250
  MaxClaimWait     \* MAX_ADDRESS_CLAIM_WAIT_MS and MAX_TECU_CLAIM_ATTEMPTS, 5 s

ASSUME LifecycleAssumption ==
  /\ Configurations \subseteq [tecu : BOOLEAN, vt : BOOLEAN, heartbeat : BOOLEAN]
  /\ {ClaimDelay, MaxClaimWait} \subseteq Nat \ {0}

VARIABLES
  running,         \* the flag the signal handler clears
  settings,        \* the configuration load() found
  canRunning,      \* the thread of CANHardwareInterface
  tcServer,        \* the pointer to the task controller server is set
  serverActive,    \* the server is initialized and not terminated
  tecuInterfaces,  \* the TECU's speed and NMEA 2000 interfaces are initialized
  vtClient,        \* the pointer to the VT client is set
  vtClientStarted, \* the flag set where the VT client is initialized
  vtActive,        \* the VT client is initialized and not terminated
  wait,            \* polls of the wait loop so far
  tcAge, tecuAge   \* time since the first address claim, or NEVER

serverVars == <<tcServer, serverActive>>
vtVars == <<vtClient, vtClientStarted, vtActive>>
partVars == <<canRunning, serverVars, tecuInterfaces, vtVars>>
claimVars == <<wait, tcAge, tecuAge>>
vars == <<transmissionVars, running, settings, partVars, claimVars>>

KeepTransmissions == UNCHANGED <<aogHeartbeatEnabled, age, shownVars, speedVars, gnssVars>>

Init ==
  /\ at = "load" /\ running = TRUE
  /\ settings \in Configurations /\ aogHeartbeatEnabled = settings.heartbeat
  /\ tc = "absent" /\ tecu = "absent" /\ otherTc \in BOOLEAN /\ client = "none"
  /\ age \in FirstAges
  /\ tcAddressConflictActive = FALSE /\ conflictMessage = "none" /\ banner = FALSE
  /\ tecuAddressClaimFailed = FALSE /\ alerted = "no"
  /\ heartbeat = "none" /\ lastSpeedValue = 0 /\ busSpeed = NEVER
  /\ gnssFixQuality = 0 /\ gnssAge = NEVER /\ sentQuality = NEVER
  /\ disturbances = 0
  /\ canRunning = FALSE /\ tcServer = FALSE /\ serverActive = FALSE /\ tecuInterfaces = FALSE
  /\ vtClient = FALSE /\ vtClientStarted = FALSE /\ vtActive = FALSE
  /\ wait = 0 /\ tcAge = NEVER /\ tecuAge = NEVER

---------------------------------------------------------------------------
(* initialize(). *)

\* settings->load(); a file that cannot be interpreted ends it by exception.
Load ==
  /\ Goto("load", "hardware") \/ Goto("load", "stop")
  /\ KeepTransmissions
  /\ UNCHANGED <<busVars, disturbances, running, settings, partVars, claimVars>>

\* setup_can_hardware(): start() leaves the thread running when the driver
\* cannot be opened.  Without a driver nothing is started.
StartHardware ==
  /\ \/ Goto("hardware", "requestTc") /\ canRunning' = TRUE
     \/ Goto("hardware", "stop") /\ canRunning' \in BOOLEAN
  /\ KeepTransmissions
  /\ UNCHANGED <<busVars, disturbances, running, settings, serverVars, tecuInterfaces, vtVars,
                 claimVars>>

RequestTc ==
  /\ Goto("requestTc", "claimTc")
  /\ tc' = "none" /\ wait' = 0
  /\ KeepTransmissions
  /\ UNCHANGED <<tecu, otherTc, client, disturbances, running, settings, partVars, tcAge,
                 tecuAge>>

\* One round of a wait loop.
Poll ==
  /\ wait' = wait + 1
  /\ tcAge' = Older(tcAge, ClaimDelay) /\ tecuAge' = Older(tecuAge, ClaimDelay)

\* Slip: the delay counts from the request of the address.
DelayFromRequest == UNCHANGED claimVars

\* The delay of J1939-81 begins when the claim is noticed.
BeginDelay == wait' = 0 /\ UNCHANGED <<tcAge, tecuAge>>

AwaitTc ==
  /\ \/ wait < MaxClaimWait /\ tc = "none" /\ Goto("claimTc", "claimTc") /\ Poll
     \/ wait < MaxClaimWait /\ tc # "none" /\ Goto("claimTc", "delayTc") /\ BeginDelay
     \/ wait >= MaxClaimWait /\ Goto("claimTc", "stop") /\ UNCHANGED claimVars
  /\ KeepTransmissions /\ UNCHANGED <<busVars, disturbances, running, settings, partVars>>

\* After the delay the TECU's address is requested, if it is enabled.
DelayTc ==
  /\ \/ wait < ClaimDelay /\ Goto("delayTc", "delayTc") /\ Poll /\ UNCHANGED tecu
     \/ /\ wait >= ClaimDelay /\ settings.tecu /\ Goto("delayTc", "claimTecu")
        /\ tecu' = "none" /\ BeginDelay
     \/ /\ wait >= ClaimDelay /\ ~settings.tecu /\ Goto("delayTc", "server")
        /\ UNCHANGED <<tecu, claimVars>>
  /\ KeepTransmissions
  /\ UNCHANGED <<tc, otherTc, client, disturbances, running, settings, partVars>>

\* A TECU without its address is given up, and AOG is told once UDP is open.
AwaitTecu ==
  /\ \/ /\ wait < MaxClaimWait /\ tecu = "none" /\ Goto("claimTecu", "claimTecu") /\ Poll
        /\ UNCHANGED <<tecu, tecuAddressClaimFailed>>
     \/ /\ tecu = "claimed" /\ Goto("claimTecu", "delayTecu") /\ BeginDelay
        /\ UNCHANGED <<tecu, tecuAddressClaimFailed>>
     \/ /\ wait >= MaxClaimWait /\ tecu = "none" /\ Goto("claimTecu", "server")
        /\ tecu' = "absent" /\ tecuAddressClaimFailed' = TRUE /\ UNCHANGED claimVars
  /\ UNCHANGED <<tc, otherTc, client, aogHeartbeatEnabled, age, conflictVars, alerted, heartbeat,
                 speedVars, gnssVars, disturbances, running, settings, partVars>>

DelayTecu ==
  /\ \/ wait < ClaimDelay /\ Goto("delayTecu", "delayTecu") /\ Poll
     \/ wait >= ClaimDelay /\ Goto("delayTecu", "server") /\ UNCHANGED claimVars
  /\ KeepTransmissions /\ UNCHANGED <<busVars, disturbances, running, settings, partVars>>

\* setup_task_controller_server()
SetupServer ==
  /\ Goto("server", "interfaces")
  /\ tcServer' = TRUE /\ serverActive' = TRUE
  /\ KeepTransmissions
  /\ UNCHANGED <<busVars, disturbances, running, settings, canRunning, tecuInterfaces, vtVars,
                 claimVars>>

\* setup_tecu_interfaces()
SetupInterfaces ==
  /\ Goto("interfaces", "setupVt")
  /\ tecuInterfaces' = (tecu = "claimed")
  /\ KeepTransmissions
  /\ UNCHANGED <<busVars, disturbances, running, settings, canRunning, serverVars, vtVars,
                 claimVars>>

\* setup_vt_client(), if it is enabled: the client waits for a terminal.
SetupVt ==
  /\ Goto("setupVt", "udp")
  /\ vtClient' = settings.vt
  /\ KeepTransmissions
  /\ UNCHANGED <<busVars, disturbances, running, settings, canRunning, serverVars,
                 tecuInterfaces, vtClientStarted, vtActive, claimVars>>

\* setup_udp_connections(): opening or binding a socket may throw.
OpenUdp ==
  /\ Goto("udp", "loop") \/ Goto("udp", "stop")
  /\ KeepTransmissions
  /\ UNCHANGED <<busVars, disturbances, running, settings, partVars, claimVars>>

Initialize ==
  \/ Load \/ StartHardware \/ RequestTc \/ AwaitTc \/ DelayTc \/ AwaitTecu \/ DelayTecu
  \/ SetupServer \/ SetupInterfaces \/ SetupVt \/ OpenUdp

---------------------------------------------------------------------------
(* The loop and its end. *)

\* Slip: the flag is set when the loop begins.
SetFlag == Goto("loop", "packets") /\ running' = TRUE

TestFlag ==
  /\ (running /\ Goto("loop", "packets")) \/ (~running /\ Goto("loop", "stop"))
  /\ UNCHANGED running

Loop ==
  /\ TestFlag
  /\ KeepTransmissions /\ UNCHANGED <<busVars, disturbances, settings, partVars, claimVars>>

\* A rebind to an announced subnet that throws leaves update().
RebindThrows ==
  /\ Goto("packets", "stop")
  /\ KeepTransmissions
  /\ UNCHANGED <<busVars, disturbances, running, settings, partVars, claimVars>>

\* update_vt_client(), as far as stop() depends on it: the client is initialized
\* in the first pass that sees a terminal.
UpdateVt ==
  /\ Goto("vt", "conflict")
  /\ \/ vtClient /\ ~vtClientStarted /\ vtActive' = TRUE /\ vtClientStarted' = TRUE
     \/ UNCHANGED <<vtActive, vtClientStarted>>
  /\ KeepTransmissions
  /\ UNCHANGED <<busVars, disturbances, running, settings, canRunning, serverVars,
                 tecuInterfaces, vtClient, claimVars>>

EndPass ==
  /\ Goto("end", "loop")
  /\ TimePasses
  /\ UNCHANGED <<busVars, aogHeartbeatEnabled, conflictVars, tecuAddressClaimFailed,
                 alerted, heartbeat, speedVars, gnssFixQuality, sentQuality, disturbances,
                 running, settings, partVars, claimVars>>

Pass ==
  \/ Transmit /\ UNCHANGED <<running, settings, partVars, claimVars>>
  \/ RebindThrows \/ UpdateVt \/ EndPass

\* stop(), on every way out of run_application_loop(): three parts, each of which
\* is only shut down if it was started.
StopVt ==
  /\ Goto("stop", "stopServer")
  /\ vtActive' = (vtActive /\ ~(vtClient /\ vtClientStarted))
  /\ KeepTransmissions
  /\ UNCHANGED <<busVars, disturbances, running, settings, canRunning, serverVars,
                 tecuInterfaces, vtClient, vtClientStarted, claimVars>>

StopServer ==
  /\ Goto("stopServer", "stopHardware")
  /\ serverActive' = (serverActive /\ ~tcServer)
  /\ KeepTransmissions
  /\ UNCHANGED <<busVars, disturbances, running, settings, canRunning, tcServer, tecuInterfaces,
                 vtVars, claimVars>>

\* Slip: whether start() succeeded is asked, not whether the thread runs.
HasStarted == tc # "absent"

\* CANHardwareInterface::is_running()
IsRunning == canRunning

StopHardware ==
  /\ Goto("stopHardware", "exited")
  /\ canRunning' = (canRunning /\ ~IsRunning)
  /\ KeepTransmissions
  /\ UNCHANGED <<busVars, disturbances, running, settings, serverVars, tecuInterfaces, vtVars,
                 claimVars>>

Stop == StopVt \/ StopServer \/ StopHardware

\* SIGINT, SIGTERM or WM_CLOSE.
Signal ==
  /\ running /\ at # "exited"
  /\ running' = FALSE
  /\ KeepTransmissions /\ UNCHANGED <<at, busVars, disturbances, settings, partVars, claimVars>>

\* The program is started again, a new process with what settings.json then holds.
\* What AOG was told is followed from the start of a process.
StartAgain ==
  /\ Goto("exited", "load")
  /\ running' = TRUE
  /\ settings' \in Configurations /\ aogHeartbeatEnabled' = settings'.heartbeat
  /\ tc' = "absent" /\ tecu' = "absent" /\ client' = "none" /\ UNCHANGED otherTc
  /\ age' \in FirstAges
  /\ tcAddressConflictActive' = FALSE /\ conflictMessage' = "none" /\ banner' = FALSE
  /\ tecuAddressClaimFailed' = FALSE /\ alerted' = "no"
  /\ heartbeat' = "none" /\ lastSpeedValue' = 0 /\ busSpeed' = NEVER
  /\ gnssFixQuality' = 0 /\ gnssAge' = NEVER /\ sentQuality' = NEVER
  /\ disturbances' = 0
  /\ canRunning' = FALSE /\ tcServer' = FALSE /\ serverActive' = FALSE
  /\ tecuInterfaces' = FALSE
  /\ vtClient' = FALSE /\ vtClientStarted' = FALSE /\ vtActive' = FALSE
  /\ wait' = 0 /\ tcAge' = NEVER /\ tecuAge' = NEVER

\* The first claim of an address starts the age of it.
FirstClaim(a, address, address2) ==
  IF a = NEVER /\ address = "none" /\ address2 # "none" THEN 0 ELSE a

BusStep ==
  /\ canRunning
  /\ Bus
  /\ tcAge' = FirstClaim(tcAge, tc, tc') /\ tecuAge' = FirstClaim(tecuAge, tecu, tecu')
  /\ UNCHANGED <<running, settings, partVars, wait>>

AogStep == BannerGoes /\ UNCHANGED <<running, settings, partVars, claimVars>>

MainThread == Initialize \/ Loop \/ Pass \/ Stop

Next == MainThread \/ BusStep \/ AogStep \/ Signal \/ StartAgain

\* The main thread never waits for anything but time.
Spec == Init /\ [][Next]_vars /\ WF_vars(MainThread)

---------------------------------------------------------------------------
(* Properties. *)

\* Neither control function sends messages of its own before 250 ms have passed
\* since it first claimed its address, whenever the claim came in the wait loop
\* (the J1939-81 rule quoted in setup_control_functions()).
QuietAfterClaim ==
  /\ serverActive => tcAge >= ClaimDelay
  /\ tecuInterfaces => tecuAge >= ClaimDelay

\* That a TECU was given up during the start, before UDP is open, is not forgotten:
\* the alert is sent in the first pass, unless the program ends before.  It is sent
\* once: if the datagram is refused AOG never hears of it.
ClaimFailureIsReported == tecuAddressClaimFailed ~> (alerted # "no" \/ at = "exited")

\* No thread of the CAN stack outlives the program, nor does an initialized server
\* or terminal client, although stop() asks three different things to find out what
\* was started: whichever step failed, threw or left the CAN thread running without
\* a driver.  And neither server nor terminal client is active without the thread
\* that sends for it.
StopsCleanly ==
  /\ at = "exited" => ~canRunning /\ ~serverActive /\ ~vtActive
  /\ serverActive \/ vtActive => canRunning

\* A signal ends the program, also one that arrives during the start.
SignalEnds == ~running ~> at = "exited"
=============================================================================
