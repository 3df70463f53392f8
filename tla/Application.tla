---------------------------- MODULE Application -----------------------------
(***************************************************************************)
(* What Application::update() of src/app.cpp watches: the demand AOG sends,*)
(* the clients that work without one and the clients that come and go.     *)
(* The clients of the task controller server are the environment here: the *)
(* CAN thread changes them between any two steps of a pass, each of which  *)
(* works on its own copy (get_clients()).                                  *)
(*                                                                         *)
(* A timestamp is modelled by its age.  The code only asks whether an age  *)
(* has reached one of its intervals, so ages stop at Oldest.               *)
(***************************************************************************)
EXTENDS Integers, Sequences, FiniteSets

CONSTANTS
  Names,             \* NAMEs of the clients
  Demands,           \* contents of 0xE5: the clients of which a section is asked for
  LogInterval,       \* SECTION_DEMAND_LOG_INTERVAL_MS, 200
  DemandTimeout,     \* SECTION_DEMAND_TIMEOUT_MS, 2000
  CheckInterval,     \* 1000, of check_section_demand()
  WarningAfter,      \* WORKING_WITHOUT_DEMAND_WARNING_MS, 10000
  ScanInterval,      \* 1000, of the implement scan
  Oldest             \* bound: ages are not told apart beyond it

Intervals == {LogInterval, DemandTimeout, CheckInterval, WarningAfter, ScanInterval}

ASSUME ApplicationAssumption ==
  /\ Demands \subseteq SUBSET Names
  /\ Intervals \subseteq Nat \ {0}
  /\ Oldest \in Nat /\ \A i \in Intervals : i + 1 < Oldest

NEVER == -1

VARIABLES
  at,                     \* the step of the pass that is next
  clients,                \* what get_clients() returns, by NAME
  age,                    \* ages of the timestamps of the periodic steps
  sectionDemand,          \* the last 0xE5, <<d>>, or <<>> before the first
  sectionDemandAge,       \* the age of lastSectionDemandMs, or NEVER
  sectionDemandChanged,   \* sectionDemandChangesSinceLog # 0
  loggedSectionDemand,    \* the demand last written to the log
  sectionDemandArriving,  \* what was last logged about 0xE5 arriving
  workingWithoutDemand,   \* per NAME: since when and whether warned
  implementSnapshots,     \* NAMEs found by the last scan
  lastMessage,            \* per NAME: the last hardware message about it
  refused                 \* NAMEs of which that message could not be sent

demandVars == <<sectionDemand, sectionDemandAge, sectionDemandChanged, loggedSectionDemand>>
monitorVars == <<sectionDemandArriving, workingWithoutDemand>>
scanVars == <<implementSnapshots, lastMessage, refused>>
vars == <<at, clients, age, demandVars, monitorVars, scanVars>>

\* A client as the application sees it: section control on, some section on.
Client == [sections : BOOLEAN, automatic : BOOLEAN, working : BOOLEAN]
Timers == {"log", "check", "scan"}

Init ==
  /\ at = "packets"
  /\ clients = [n \in {} |-> n]
  \* The clock is as old as the program, or older.
  /\ \E a \in {0, Oldest} : age = [t \in Timers |-> a]
  /\ sectionDemand = <<>> /\ sectionDemandAge = NEVER
  /\ sectionDemandChanged = FALSE /\ loggedSectionDemand = <<>>
  /\ sectionDemandArriving = FALSE
  /\ workingWithoutDemand = [n \in {} |-> n]
  /\ implementSnapshots = {}
  /\ lastMessage = [n \in Names |-> "none"] /\ refused = {}

Goto(here, next) == at = here /\ at' = next
Older(a) == IF a = NEVER \/ a = Oldest THEN a ELSE a + 1
Expired(timer, interval) == age[timer] >= interval
Restart(timer) == age' = [age EXCEPT ![timer] = 0]

---------------------------------------------------------------------------
(* The environment. *)

\* The CAN thread: a client registers, changes or leaves.
ClientChanges ==
  \E n \in Names :
    /\ \/ \E s \in Client :
            /\ s.working => s.sections
            /\ clients' = [m \in DOMAIN clients \cup {n} |-> IF m = n THEN s ELSE clients[m]]
       \/ /\ n \in DOMAIN clients
          /\ clients' = [m \in DOMAIN clients \ {n} |-> clients[m]]
    /\ UNCHANGED <<at, age, demandVars, monitorVars, scanVars>>

---------------------------------------------------------------------------
(* The steps of Application::update(). *)

\* The packet handler of setup_udp_connections() for 0xE5; a pass receives one
\* datagram at most.
ReceiveDemand ==
  \E demand \in Demands :
    /\ Goto("packets", "log")
    /\ sectionDemand' = <<demand>>
    /\ sectionDemandAge' = 0
    /\ sectionDemandChanged' = (sectionDemandChanged \/ <<demand>> # sectionDemand)
    /\ UNCHANGED <<clients, age, loggedSectionDemand, monitorVars, scanVars>>

ReceiveNothing ==
  /\ Goto("packets", "log")
  /\ UNCHANGED <<clients, age, demandVars, monitorVars, scanVars>>

\* Slip: a change within the interval is forgotten.
LogNowOrNever ==
  /\ sectionDemandChanged' = FALSE
  /\ IF sectionDemandChanged /\ Expired("log", LogInterval)
     THEN loggedSectionDemand' = sectionDemand /\ Restart("log")
     ELSE UNCHANGED <<loggedSectionDemand, age>>

\* A change is logged once the interval since the last one has passed.
LogWhenDue ==
  \/ /\ sectionDemandChanged /\ Expired("log", LogInterval)
     /\ loggedSectionDemand' = sectionDemand
     /\ sectionDemandChanged' = FALSE
     /\ Restart("log")
  \/ /\ ~(sectionDemandChanged /\ Expired("log", LogInterval))
     /\ UNCHANGED <<loggedSectionDemand, sectionDemandChanged, age>>

\* log_section_demand()
LogSectionDemand ==
  /\ Goto("log", "check")
  /\ LogWhenDue
  /\ UNCHANGED <<clients, sectionDemand, sectionDemandAge, monitorVars, scanVars>>

Arriving == sectionDemandAge # NEVER /\ sectionDemandAge < DemandTimeout

\* Slip: a demand that stopped arriving still counts.
UnaskedEver(n) ==
  clients[n].automatic /\ clients[n].working /\ ~(sectionDemand # <<>> /\ n \in sectionDemand[1])

\* A client in automatic works although AOG asks for none of its sections.
Unasked(n) ==
  clients[n].automatic /\ clients[n].working /\ ~(Arriving /\ n \in sectionDemand[1])

\* The entries of workingWithoutDemand after a check: of the clients present
\* only those that work unasked have one; absent clients keep theirs.
Tracked ==
  {n \in DOMAIN workingWithoutDemand \cup DOMAIN clients : n \in DOMAIN clients => Unasked(n)}
SinceOf(n) == IF n \in DOMAIN workingWithoutDemand THEN workingWithoutDemand[n].since ELSE 0
WarnedOf(n) == n \in DOMAIN workingWithoutDemand /\ workingWithoutDemand[n].warned

\* The clients a check warns about.
Overdue(n) ==
  n \in DOMAIN clients /\ Unasked(n) /\ ~WarnedOf(n) /\ SinceOf(n) >= WarningAfter

\* check_section_demand(), once per CheckInterval.
CheckSectionDemand ==
  /\ Goto("check", "scan")
  /\ Expired("check", CheckInterval) /\ Restart("check")
  /\ sectionDemandArriving' = Arriving
  /\ workingWithoutDemand' =
       [n \in Tracked |-> [since |-> SinceOf(n), warned |-> WarnedOf(n) \/ Overdue(n)]]
  /\ UNCHANGED <<clients, demandVars, scanVars>>

WithSections == {n \in DOMAIN clients : clients[n].sections}

\* Slip: a client that is gone is not reported.
AnnounceNew(found) ==
  [n \in Names |-> IF n \in found \ implementSnapshots THEN "connected" ELSE lastMessage[n]]

\* The messages of a scan: "Implement:" for what is new, "Implement lost:" for
\* what is gone.
Announce(found) ==
  [n \in Names |-> IF n \in found \ implementSnapshots THEN "connected"
                   ELSE IF n \in implementSnapshots \ found THEN "lost"
                   ELSE lastMessage[n]]

\* The implement scan, once per ScanInterval.  send_hardware_message() only logs
\* that a datagram could not be sent: the snapshots are replaced all the same,
\* so a refused message is not repeated.
ScanImplements ==
  LET changed == (WithSections \ implementSnapshots) \cup (implementSnapshots \ WithSections)
  IN /\ Goto("scan", "end")
     /\ Expired("scan", ScanInterval) /\ Restart("scan")
     /\ lastMessage' = Announce(WithSections)
     /\ \E failed \in SUBSET changed : refused' = (refused \ changed) \cup failed
     /\ implementSnapshots' = WithSections
     /\ UNCHANGED <<clients, demandVars, monitorVars>>

\* A periodic step whose interval has not passed.
NotYet ==
  /\ \/ Goto("check", "scan") /\ ~Expired("check", CheckInterval)
     \/ Goto("scan", "end") /\ ~Expired("scan", ScanInterval)
  /\ UNCHANGED <<clients, age, demandVars, monitorVars, scanVars>>

\* The pass is over and time has passed when the next one begins.
NextPass ==
  /\ Goto("end", "packets")
  /\ age' = [t \in Timers |-> Older(age[t])]
  /\ sectionDemandAge' = Older(sectionDemandAge)
  /\ workingWithoutDemand' =
       [n \in DOMAIN workingWithoutDemand |->
          [workingWithoutDemand[n] EXCEPT !.since = Older(@)]]
  /\ UNCHANGED <<clients, sectionDemand, sectionDemandChanged, loggedSectionDemand,
                 sectionDemandArriving, scanVars>>

Pass ==
  \/ ReceiveDemand \/ ReceiveNothing \/ LogSectionDemand \/ CheckSectionDemand
  \/ ScanImplements \/ NotYet \/ NextPass

Next == Pass \/ ClientChanges

\* run_application_loop() calls update() again and again.
Spec == Init /\ [][Next]_vars /\ WF_vars(Pass)

---------------------------------------------------------------------------
(* Properties. *)

\* The demand log catches up: when AOG's demand settles, the last demand logged
\* is the one it settled on, however often it changed within an interval.
LogCatchesUp ==
  \A d \in Demands : <>[](sectionDemand = <<d>>) => <>[](loggedSectionDemand = <<d>>)

\* What was last said about an implement is true of it in the end: of a client
\* with sections that stays the last message is "Implement:", of one that stays
\* away it is not, whatever came and went between two scans.  AOG shows messages
\* and keeps no list, and a message that could not be sent (refused) is not
\* repeated, so this is about what the scan tried to say, not about what AOG saw.
AnnouncementsCatchUp ==
  \A n \in Names :
     /\ <>[](n \in WithSections) => <>[](lastMessage[n] = "connected")
     /\ <>[](n \notin WithSections) => <>[](lastMessage[n] # "connected")

\* A client that keeps working unasked in automatic has been warned about.
UnaskedWorkIsWarned ==
  \A n \in Names :
     <>[](n \in DOMAIN clients /\ clients[n].automatic /\ clients[n].working
            /\ ~(Arriving /\ n \in sectionDemand[1]))
       => <>[](n \in DOMAIN workingWithoutDemand /\ workingWithoutDemand[n].warned)
=============================================================================
