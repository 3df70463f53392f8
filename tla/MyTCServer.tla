----------------------------- MODULE MyTCServer -----------------------------
(***************************************************************************)
(* The ISOBUS task controller server of src/task_controller.cpp: the state *)
(* it keeps per client (class ClientState) and every operation on it.      *)
(*                                                                         *)
(* The overrides of isobus::TaskControllerServer run on the CAN stack's    *)
(* thread, the methods Application calls run on the main thread.  All of   *)
(* them hold clientsMutex from their first line to their last, so each is  *)
(* one action here and the two threads are the interleaving of actions.    *)
(***************************************************************************)
EXTENDS Ddop

CONSTANTS
  CF,                   \* control functions of the implements on the bus
  SectionsPerMessage,   \* NUMBER_SECTIONS_PER_CONDENSED_MESSAGE, 16
  DemandSize,           \* sections in a 0xE5 demand, 64
  MaxUploads,           \* bound: DDOP transfers waiting per client
  ReportedElements,     \* element numbers the clients' reports name
  ReportedStates,       \* condensed work states the clients report
  GnssQualities         \* GNSS quality codes the application sends

ASSUME SectionsAssumption ==
  /\ SectionsPerMessage \in Nat \ {0}
  /\ DemandSize \in Nat
  /\ MaxUploads \in Nat

\* Sixteen condensed messages reach every section (with 16 sections per message
\* the width of the section count alone ensures it).
ASSUME GroupsAssumption ==
  \A pool \in Pools : NumberOfSections(pool) <= 16 * SectionsPerMessage

OFF == 0
ON == 1
NOT_INSTALLED == 3
SectionState == 0..3

\* A condensed value: the two-bit states of the sections of one message.
CondensedValue == [0..(SectionsPerMessage - 1) -> SectionState]
Demand == [0..(DemandSize - 1) -> BOOLEAN]

ASSUME ReportsAssumption ==
  /\ ReportedElements \subseteq ElementNumber
  /\ ReportedStates \subseteq CondensedValue
  /\ GnssQualities \subseteq Nat

VARIABLES
  clients,        \* std::map<ControlFunction, ClientState>
  uploadedPools,  \* std::map<ControlFunction, queue of transferred pools>
  told,           \* per client: the last value sent for each <<DDI, element>>
  subscribed,     \* per client: the measurement commands sent
  demanded,       \* per client: the last demand that met it in automatic
  requestedMode   \* per client: the last mode AOG asked for, or "none"

\* clients and uploadedPools are the code's; told and subscribed are what the
\* implement has received since it was registered; demanded and requestedMode
\* are history variables for the properties.
vars == <<clients, uploadedPools, told, subscribed, demanded, requestedMode>>

\* ----- partial functions ---------------------------------------------------

EmptyMap == [x \in {} |-> x]
Put(f, x, v) == [y \in DOMAIN f \cup {x} |-> IF y = x THEN v ELSE f[y]]
Erase(f, x) == [y \in DOMAIN f \ {x} |-> f[y]]
PutAll(f, g) == [y \in DOMAIN f \cup DOMAIN g |-> IF y \in DOMAIN g THEN g[y] ELSE f[y]]

\* ----- ClientState ---------------------------------------------------------

\* A default-constructed ClientState: what operator[] inserts for a partner
\* that is not registered.
DefaultClient ==
  [pool |-> EmptyPool, areMeasurementCommandsSent |-> FALSE,
   ddiToElementNumber |-> EmptyMap, numberOfSections |-> 0,
   sectionSetpointStates |-> EmptyMap, sectionActualStates |-> EmptyMap,
   sectionToElementNumber |-> EmptyMap, elementToSection |-> EmptyMap,
   setpointWorkState |-> FALSE, elementWorkStates |-> EmptyMap,
   elementParents |-> EmptyMap, isSectionControlEnabled |-> FALSE,
   usesPerElementControl |-> FALSE]

\* The ClientState activate_object_pool() builds from a pool.
NewClient(pool) ==
  LET sections == 0..(NumberOfSections(pool) - 1)
  IN  [DefaultClient EXCEPT
         !.pool = pool,
         !.numberOfSections = NumberOfSections(pool),
         !.sectionSetpointStates = [i \in sections |-> OFF],
         !.sectionActualStates = [i \in sections |-> OFF],
         !.sectionToElementNumber = SectionElement(pool),
         !.elementToSection = ElementSection(pool),
         !.elementParents = BuildParentMap(pool.elements),
         !.usesPerElementControl = UsesPerElementControl(pool)]

Sections(s) == 0..(s.numberOfSections - 1)
Group(i) == i \div SectionsPerMessage
HasDdi(s, ddi) == ddi \in DOMAIN s.ddiToElementNumber

GetSectionSetpointState(s, i) ==
  IF i < s.numberOfSections THEN s.sectionSetpointStates[i] ELSE NOT_INSTALLED

\* Slip: the element alone is looked at, its ancestors are not.
OnlyElementOff(s, e) == e \in DOMAIN s.elementWorkStates /\ ~s.elementWorkStates[e]

IsElementOrParentOff(s, e) ==
  AnyInChain(s.elementParents, e,
             {x \in DOMAIN s.elementWorkStates : ~s.elementWorkStates[x]})

\* get_section_actual_state(): what the heartbeat reports to AOG.
GetSectionActualState(s, i) ==
  IF i >= s.numberOfSections THEN NOT_INSTALLED
  ELSE IF ~s.usesPerElementControl /\ IsElementOrParentOff(s, s.sectionToElementNumber[i])
       THEN OFF
       ELSE s.sectionActualStates[i]

AnyOn(setpoints) == \E i \in DOMAIN setpoints : setpoints[i] = ON

\* clients[partner]: the entry, or the one operator[] inserts.
ClientOf(c) == IF c \in DOMAIN clients THEN clients[c] ELSE DefaultClient

\* ----- the DDOP transfer ---------------------------------------------------

Init ==
  /\ clients = EmptyMap
  /\ uploadedPools = EmptyMap
  /\ told = [c \in CF |-> EmptyMap]
  /\ subscribed = [c \in CF |-> {}]
  /\ demanded = [c \in CF |-> [i \in 0..(DemandSize - 1) |-> FALSE]]
  /\ requestedMode = [c \in CF |-> "none"]

\* A registration begins or ends: nothing has been exchanged in it yet.
NewSession(c) ==
  /\ told' = [told EXCEPT ![c] = EmptyMap]
  /\ subscribed' = [subscribed EXCEPT ![c] = {}]
  /\ demanded' = [demanded EXCEPT ![c] = [i \in 0..(DemandSize - 1) |-> FALSE]]
  /\ requestedMode' = [requestedMode EXCEPT ![c] = "none"]

SameSessions == UNCHANGED <<told, subscribed, demanded, requestedMode>>

\* store_device_descriptor_object_pool(): queues the transfer, whatever
\* appendToPool says.
StorePool(c) ==
  \E pool \in Pools :
    LET queue == IF c \in DOMAIN uploadedPools THEN uploadedPools[c] ELSE <<>>
    IN  /\ Len(queue) < MaxUploads
        /\ uploadedPools' = Put(uploadedPools, c, Append(queue, pool))
        /\ UNCHANGED clients
        /\ SameSessions

\* What deserializing the queued transfers one after the other may leave in
\* the client's pool object: the library decides what a later transfer does to
\* the objects of an earlier one.
Deserialized(queue) == {queue[k] : k \in DOMAIN queue}

\* The result of deserialization is the result of the LAST transfer.
LastTransferOk(queue) == queue # <<>> /\ queue[Len(queue)].ok

\* activate_object_pool() drains the queue in every case and registers a fresh
\* client state when the pool deserializes and holds a Device object.
ActivatePool(c) ==
  /\ c \in DOMAIN uploadedPools
  /\ uploadedPools' = [uploadedPools EXCEPT ![c] = <<>>]
  /\ LastTransferOk(uploadedPools[c])
  /\ \E pool \in Deserialized(uploadedPools[c]) :
       /\ pool.hasDevice
       /\ clients' = Put(clients, c, NewClient(pool))
  /\ NewSession(c)

\* The refusals: nothing ever uploaded (state untouched), or a pool that does
\* not deserialize or has no Device object (the queue is drained, an earlier
\* registration stays).
RefusePool(c) ==
  /\ \/ c \notin DOMAIN uploadedPools /\ UNCHANGED uploadedPools
     \/ /\ c \in DOMAIN uploadedPools
        /\ \/ ~LastTransferOk(uploadedPools[c])
           \/ \E pool \in Deserialized(uploadedPools[c]) : ~pool.hasDevice
        /\ uploadedPools' = [uploadedPools EXCEPT ![c] = <<>>]
  /\ UNCHANGED clients
  /\ SameSessions

\* deactivate_object_pool() and delete_device_descriptor_object_pool().
DropPool(c) ==
  /\ clients' = Erase(clients, c)
  /\ uploadedPools' = Erase(uploadedPools, c)
  /\ NewSession(c)

\* on_client_timeout() erases the client and leaves the queue of transfers.
ClientTimeout(c) ==
  /\ clients' = Erase(clients, c)
  /\ UNCHANGED uploadedPools
  /\ NewSession(c)

\* ----- on_value_command() --------------------------------------------------

\* Slip: the reverse mapping is written past the last section.
UnclampedReport(s, g, e, states) ==
  LET first == SectionsPerMessage * g
  IN  [s EXCEPT !.elementToSection = Put(@, e, first + SectionsPerMessage - 1)]

\* DDI 161+g: the two-bit states of the message's sections, each of which is
\* from now on mapped to the element the message names.
WithCondensedReport(s, g, e, states) ==
  LET first == SectionsPerMessage * g
      last == IF s.numberOfSections <= first + SectionsPerMessage
              THEN s.numberOfSections - 1 ELSE first + SectionsPerMessage - 1
      In(i) == first <= i /\ i <= last
  IN  [s EXCEPT
         !.sectionActualStates =
            [i \in Sections(s) |-> IF In(i) THEN states[i - first] ELSE @[i]],
         !.sectionToElementNumber = [i \in Sections(s) |-> IF In(i) THEN e ELSE @[i]],
         !.elementToSection = IF first <= last THEN Put(@, e, last) ELSE @]

\* Slip: only the switching on of an element reaches its section.
OnOnlyWorkState(s, e, working) ==
  [s EXCEPT
     !.elementWorkStates = Put(@, e, working),
     !.sectionActualStates =
        IF s.usesPerElementControl /\ e \in DOMAIN s.elementToSection /\ working
        THEN [@ EXCEPT ![s.elementToSection[e]] = ON] ELSE @]

\* DDI 141: the element's work state, and under per-element control the actual
\* state of the section the element stands for.
WithWorkState(s, e, working) ==
  [s EXCEPT
     !.elementWorkStates = Put(@, e, working),
     !.sectionActualStates =
        IF s.usesPerElementControl /\ e \in DOMAIN s.elementToSection
        THEN [i \in Sections(s) |-> IF i = s.elementToSection[e]
                                    THEN (IF working THEN ON ELSE OFF) ELSE @[i]]
        ELSE @]

ReportCondensed(c) ==
  \E g \in Groups, e \in ReportedElements, states \in ReportedStates :
     clients' = Put(clients, c, WithCondensedReport(ClientOf(c), g, e, states))

ReportControlState(c) ==
  \E enabled \in BOOLEAN :
     clients' = Put(clients, c, [ClientOf(c) EXCEPT !.isSectionControlEnabled = enabled])

ReportWorkState(c) ==
  \E e \in ReportedElements, working \in BOOLEAN :
     clients' = Put(clients, c, WithWorkState(ClientOf(c), e, working))

ValueCommand(c) ==
  /\ ReportCondensed(c) \/ ReportControlState(c) \/ ReportWorkState(c)
  /\ UNCHANGED uploadedPools
  /\ SameSessions

\* ----- the operations of the main thread -----------------------------------

\* Slip: tractors are not skipped.
AnyoneNeedsMeasurement(s) == ~s.areMeasurementCommandsSent

\* request_measurement_commands(): every client with sections that has not had
\* its measurement commands yet is mapped and subscribed.
NeedsMeasurement(s) == ~s.areMeasurementCommandsSent /\ s.numberOfSections > 0

\* Slip: the client is never marked as done.
MeasuredAgain(s) == [s EXCEPT !.ddiToElementNumber = DdiMap(s.pool)]

Measured(s) ==
  [s EXCEPT !.ddiToElementNumber = DdiMap(s.pool), !.areMeasurementCommandsSent = TRUE]

RequestMeasurementCommands ==
  /\ \E c \in DOMAIN clients : NeedsMeasurement(clients[c])
  /\ clients' = [c \in DOMAIN clients |->
                   IF NeedsMeasurement(clients[c]) THEN Measured(clients[c]) ELSE clients[c]]
  /\ subscribed' = [c \in CF |->
                      IF c \in DOMAIN clients /\ NeedsMeasurement(ClientOf(c))
                      THEN Subscriptions(clients[c].pool) ELSE subscribed[c]]
  /\ UNCHANGED <<uploadedPools, told, demanded, requestedMode>>

\* The setpoints after a demand: sections the demand does not reach keep theirs.
NewSetpoints(s, demand) ==
  [i \in Sections(s) |->
     IF i < DemandSize /\ demand[i] # (s.sectionSetpointStates[i] = ON)
     THEN (IF demand[i] THEN ON ELSE OFF) ELSE s.sectionSetpointStates[i]]

\* Slip: a section that the demand switches off is not seen as a change.
GroupsSwitchedOn(s, demand) ==
  {Group(i) : i \in {j \in Sections(s) :
                       j < DemandSize /\ demand[j] /\ s.sectionSetpointStates[j] # ON}}

\* The groups of sections one condensed message carries in which a demand
\* changes a setpoint; update_section_states() sends each of them once, in
\* ascending order, right after its sections were updated.
ChangedGroups(s, demand) ==
  {Group(i) : i \in {j \in Sections(s) :
                       j < DemandSize /\ demand[j] # (s.sectionSetpointStates[j] = ON)}}

\* The branch of send_section_setpoint_states() group g takes.  The legacy
\* branch is taken by any mapped 161 and gives up if it is not settable.
SetpointPath(s, g) ==
  IF HasDdi(s, SetpointCondensedWorkState1_16 + g) THEN "condensed"
  ELSE IF HasDdi(s, ActualCondensedWorkState1_16 + g)
       THEN IF IsDdiSettable(s.pool, ActualCondensedWorkState1_16 + g) THEN "legacy" ELSE "none"
       ELSE IF s.usesPerElementControl THEN "element" ELSE "none"

\* Slip: the offset of the group is not counted in sections.
CondensedFrom(s, g) ==
  [i \in 0..(SectionsPerMessage - 1) |-> GetSectionSetpointState(s, g + i)]

\* The value of a condensed message: two bits per section of the group.
Condensed(s, g) ==
  [i \in 0..(SectionsPerMessage - 1) |-> GetSectionSetpointState(s, SectionsPerMessage * g + i)]

\* The address of a message on a DDI mapped to an element.
Address(s, ddi) == <<ddi, s.ddiToElementNumber[ddi]>>

\* The setpoint messages of the groups in `sent', `s' holding the new
\* setpoints.  Of several sections on one element the last one's value stays.
SetpointMessages(s, sent) ==
  LET Via(path) == {g \in sent : SetpointPath(s, g) = path}
      addressed == {i \in Sections(s) : /\ Group(i) \in Via("element")
                                        /\ s.sectionToElementNumber[i] # 0}
      LastOn(e) == Max({i \in addressed : s.sectionToElementNumber[i] = e})
      condensed == [a \in {Address(s, SetpointCondensedWorkState1_16 + g) : g \in Via("condensed")}
                      |-> Condensed(s, a[1] - SetpointCondensedWorkState1_16)]
      legacy == [a \in {Address(s, ActualCondensedWorkState1_16 + g) : g \in Via("legacy")}
                      |-> Condensed(s, a[1] - ActualCondensedWorkState1_16)]
      element == [a \in {<<ActualWorkState, s.sectionToElementNumber[i]>> : i \in addressed}
                      |-> IF s.sectionSetpointStates[LastOn(a[2])] = ON THEN 1 ELSE 0]
  IN  PutAll(PutAll(condensed, legacy), element)

\* Slip: only the sections of the group sent are looked at.
AnyOnInGroup(old, new, g) ==
  \E i \in Sections(old) : Group(i) = g /\ new.sectionSetpointStates[i] = ON

\* is_any_section_setpoint_on() when group g is sent: the sections of later
\* groups still hold their old setpoints.
AnyOnAt(old, new, g) ==
  AnyOn([i \in Sections(old) |-> IF Group(i) <= g THEN new.sectionSetpointStates[i]
                                 ELSE old.sectionSetpointStates[i]])

\* The groups whose message is followed by the work state (DDI 289) check.
WorkStateGroups(s, sent) ==
  IF HasDdi(s, SetpointWorkState)
  THEN {g \in sent : SetpointPath(s, g) \in {"condensed", "element"}} ELSE {}

\* update_section_states() for one client: its new state ...
WithDemand(s, demand) ==
  LET new == [s EXCEPT !.sectionSetpointStates = NewSetpoints(s, demand)]
      checks == WorkStateGroups(s, ChangedGroups(s, demand))
  IN  [new EXCEPT !.setpointWorkState =
         IF checks = {} THEN @ ELSE AnyOnAt(s, new, Max(checks))]

\* ... and the messages it sends: the work state only goes out when it differs
\* from the one sent before, and the last one sent is the one that stays.
DemandMessages(s, demand) ==
  LET new == [s EXCEPT !.sectionSetpointStates = NewSetpoints(s, demand)]
      checks == WorkStateGroups(s, ChangedGroups(s, demand))
      toggled == \E g \in checks : AnyOnAt(s, new, g) # s.setpointWorkState
      workState == [a \in (IF toggled THEN {Address(s, SetpointWorkState)} ELSE {})
                      |-> IF AnyOnAt(s, new, Max(checks)) THEN 1 ELSE 0]
  IN  PutAll(SetpointMessages(new, ChangedGroups(s, demand)), workState)

Controlled(s) == s.isSectionControlEnabled /\ s.numberOfSections > 0

UpdateSectionStates ==
  \E demand \in Demand :
    /\ clients' = [c \in DOMAIN clients |->
                     IF Controlled(clients[c]) THEN WithDemand(clients[c], demand) ELSE clients[c]]
    /\ told' = [c \in CF |->
                  IF c \in DOMAIN clients /\ Controlled(ClientOf(c))
                  THEN PutAll(told[c], DemandMessages(clients[c], demand)) ELSE told[c]]
    /\ demanded' = [c \in CF |-> IF c \in DOMAIN clients /\ Controlled(ClientOf(c))
                                 THEN demand ELSE demanded[c]]
    /\ UNCHANGED <<uploadedPools, subscribed, requestedMode>>

\* update_section_control_enabled(): the flag always, the command only to
\* clients whose SectionControlState is mapped.
SendsControlState(s) == HasDdi(s, SectionControlState) /\ s.numberOfSections > 0

UpdateSectionControlEnabled ==
  \E enabled \in BOOLEAN :
    /\ clients' = [c \in DOMAIN clients |->
                     [clients[c] EXCEPT !.isSectionControlEnabled = enabled]]
    /\ told' = [c \in CF |->
                  IF c \in DOMAIN clients /\ SendsControlState(ClientOf(c))
                  THEN Put(told[c], Address(clients[c], SectionControlState),
                           IF enabled THEN 1 ELSE 0)
                  ELSE told[c]]
    /\ requestedMode' = [c \in CF |-> IF c \in DOMAIN clients
                                      THEN (IF enabled THEN "automatic" ELSE "manual")
                                      ELSE requestedMode[c]]
    /\ UNCHANGED <<uploadedPools, subscribed, demanded>>

SendGnssQuality ==
  \E quality \in GnssQualities :
    /\ told' = [c \in CF |->
                  IF c \in DOMAIN clients /\ HasDdi(ClientOf(c), GNSSQuality)
                  THEN Put(told[c], Address(clients[c], GNSSQuality), quality)
                  ELSE told[c]]
    /\ UNCHANGED <<clients, uploadedPools, subscribed, demanded, requestedMode>>

CanThread(c) ==
  \/ StorePool(c) \/ ActivatePool(c) \/ RefusePool(c) \/ DropPool(c)
  \/ ClientTimeout(c) \/ ValueCommand(c)

MainThread ==
  \/ RequestMeasurementCommands \/ UpdateSectionStates
  \/ UpdateSectionControlEnabled \/ SendGnssQuality

Next == MainThread \/ \E c \in CF : CanThread(c)

\* Application::update() calls request_measurement_commands() on every pass.
Spec == Init /\ [][Next]_vars /\ WF_vars(RequestMeasurementCommands)

---------------------------------------------------------------------------
(* Types. *)

IsMap(f, X, Y) == DOMAIN f \subseteq X /\ \A x \in DOMAIN f : f[x] \in Y

ClientFields ==
  {"pool", "areMeasurementCommandsSent", "ddiToElementNumber", "numberOfSections",
   "sectionSetpointStates", "sectionActualStates", "sectionToElementNumber",
   "elementToSection", "setpointWorkState", "elementWorkStates", "elementParents",
   "isSectionControlEnabled", "usesPerElementControl"}

\* The vectors have one entry per section and no map leads outside them: every
\* index the code reads from a map or computes is one it may use.
IsClientState(s) ==
  /\ DOMAIN s = ClientFields
  /\ s.pool \in Pools \cup {EmptyPool}
  /\ s.areMeasurementCommandsSent \in BOOLEAN
  /\ s.numberOfSections \in 0..255 /\ s.numberOfSections <= 16 * SectionsPerMessage
  /\ s.sectionSetpointStates \in [Sections(s) -> {OFF, ON}]
  /\ s.sectionActualStates \in [Sections(s) -> SectionState]
  /\ s.sectionToElementNumber \in [Sections(s) -> ElementNumber]
  /\ IsMap(s.elementToSection, ElementNumber, Sections(s))
  /\ IsMap(s.ddiToElementNumber, DDI, ElementNumber)
  /\ IsMap(s.elementWorkStates, ElementNumber, BOOLEAN)
  /\ IsMap(s.elementParents, ElementNumber, ElementNumber)
  /\ s.setpointWorkState \in BOOLEAN
  /\ s.isSectionControlEnabled \in BOOLEAN
  /\ s.usesPerElementControl \in BOOLEAN

IsCondensed(ddi) == \/ InRun(ddi, SetpointCondensedWorkState1_16)
                    \/ InRun(ddi, ActualCondensedWorkState1_16)
IsMessage(a, value) ==
  /\ a \in DDI \X ElementNumber
  /\ IF IsCondensed(a[1]) THEN value \in CondensedValue ELSE value \in Nat

\* The type invariant.  Beyond types it says that ClientState's vectors and
\* maps stay in step with numberOfSections, so that no handler indexes a
\* vector outside its bounds, and that setpoints are only ever ON or OFF.
TypeOK ==
  /\ DOMAIN clients \subseteq CF
  /\ \A c \in DOMAIN clients : IsClientState(clients[c])
  /\ DOMAIN uploadedPools \subseteq CF
  /\ \A c \in DOMAIN uploadedPools : uploadedPools[c] \in Seq(Pools)
  /\ DOMAIN told = CF
  /\ \A c \in CF : \A a \in DOMAIN told[c] : IsMessage(a, told[c][a])
  /\ DOMAIN subscribed = CF
  /\ demanded \in [CF -> Demand]
  /\ requestedMode \in [CF -> {"none", "automatic", "manual"}]

---------------------------------------------------------------------------
(* Safety. *)

\* The value a condensed setpoint of group g has to carry for a demand: the
\* demanded state of each section, OFF for a section the demand does not reach
\* and NOT_INSTALLED for a section the implement does not have.
DemandedValue(n, g, demand) ==
  [i \in 0..(SectionsPerMessage - 1) |->
     LET section == SectionsPerMessage * g + i
     IN  IF section >= n THEN NOT_INSTALLED
         ELSE IF section < DemandSize /\ demand[section] THEN ON ELSE OFF]

\* Condensed setpoints follow the demand: whatever condensed value an implement
\* was last sent (DDI 290+g or a settable 161+g), it is the value of the last
\* demand that reached the client in automatic.  update_section_states() sends
\* differences only, group by group; this says that no difference is lost, put
\* in the wrong group, or cached without being sent once a group is in use.
CondensedFollowsDemand ==
  \A c \in DOMAIN clients : \A a \in DOMAIN told[c] : \A g \in Groups :
     (a[1] \in {SetpointCondensedWorkState1_16 + g, ActualCondensedWorkState1_16 + g})
        => told[c][a] = DemandedValue(clients[c].numberOfSections, g, demanded[c])

\* Per-element setpoints follow the demand: the value last sent to an element
\* (DDI 141) that stands for exactly one section is that section's demand.
ElementFollowsDemand ==
  \A c \in DOMAIN clients : \A i \in Sections(clients[c]) :
     LET e == clients[c].sectionToElementNumber[i]
         a == <<ActualWorkState, e>>
     IN  (/\ a \in DOMAIN told[c]
          /\ \A j \in Sections(clients[c]) \ {i} : clients[c].sectionToElementNumber[j] # e)
         => told[c][a] = IF i < DemandSize /\ demanded[c][i] THEN 1 ELSE 0

CondensedSetpointsSent(c) ==
  \E a \in DOMAIN told[c] : InRun(a[1], SetpointCondensedWorkState1_16)

\* The work state (DDI 289) agrees with the section setpoints: once condensed
\* setpoints have gone out to a client all of whose groups carry the 289 check,
\* the implement's master state is on exactly if some section is demanded on.
\* (Under per-element control it may lag: setpoints then go out before the DDIs
\* are mapped, the work state only with the next change after that.)
WorkStateFollowsDemand ==
  \A c \in DOMAIN clients :
     LET s == clients[c]
         a == Address(s, SetpointWorkState)
     IN  (/\ CondensedSetpointsSent(c)
          /\ WorkStateGroups(s, {Group(i) : i \in Sections(s)}) = {Group(i) : i \in Sections(s)})
         => (\E i \in Sections(s) : i < DemandSize /\ demanded[c][i])
              <=> (a \in DOMAIN told[c] /\ told[c][a] = 1)

\* A client without sections is left alone: no set-value command of any kind
\* and no measurement command ever reaches it, whether it is a tractor, a
\* partner that only reported a value and was never registered, or an
\* implement whose section count wrapped to zero.  No single guard ensures it:
\* send_gnss_quality() does not look at the section count at all.
TractorUntouched ==
  \A c \in CF :
     (c \notin DOMAIN clients \/ clients[c].numberOfSections = 0)
        => told[c] = EmptyMap /\ subscribed[c] = {}

\* The DDI map is empty or complete: a client the main thread finds between
\* its activation and its measurement commands has no address to send to.
MappedExactlyWhenMeasured ==
  \A c \in DOMAIN clients :
     LET s == clients[c]
     IN  /\ s.ddiToElementNumber = IF s.areMeasurementCommandsSent THEN DdiMap(s.pool) ELSE EmptyMap
         /\ s.areMeasurementCommandsSent => s.numberOfSections > 0

\* A master switched off shows in the heartbeat: a section of a client with
\* condensed control is reported as anything but OFF only while no ancestor of
\* the element it is mapped to has reported itself off (DDI 141), however deep
\* the hierarchy and whatever order the reports came in.
MasterOffIsReported ==
  \A c \in DOMAIN clients : \A i \in Sections(clients[c]) :
     LET s == clients[c]
     IN  (~s.usesPerElementControl /\ GetSectionActualState(s, i) # OFF)
         => ~MeetsAncestors(s.elementParents, s.sectionToElementNumber[i],
                            {e \in DOMAIN s.elementWorkStates : ~s.elementWorkStates[e]})

\* Under per-element control the heartbeat reports each section the way its
\* element last reported itself, for every element that stands for one section.
ElementReportIsReported ==
  \A c \in DOMAIN clients : \A i \in Sections(clients[c]) :
     LET s == clients[c]
         e == s.sectionToElementNumber[i]
     IN  (/\ s.usesPerElementControl
          /\ \A j \in Sections(s) \ {i} : s.sectionToElementNumber[j] # e)
         => GetSectionActualState(s, i) =
              IF e \in DOMAIN s.elementWorkStates /\ s.elementWorkStates[e] THEN ON ELSE OFF

---------------------------------------------------------------------------
(* Liveness. *)

\* A registered client with sections gets its measurement commands, unless it
\* leaves first: no sequence of reports, timeouts and new activations makes the
\* main loop pass it over for ever.
EventuallyMeasured ==
  \A c \in CF :
     (c \in DOMAIN clients /\ NeedsMeasurement(ClientOf(c)))
        ~> (c \notin DOMAIN clients \/ ~NeedsMeasurement(ClientOf(c)))

---------------------------------------------------------------------------
(* What documents and comments say and the code does not do.               *)

\* docs/PROTOCOL.md on 0xF1: "The TC logs and propagates this to the implement."
\* For a client that has had its measurement commands and whose DDOP has the
\* SectionControlState, the last mode AOG asked for since the client registered
\* is the mode the implement was last sent.
ModePropagated ==
  \A c \in DOMAIN clients :
     LET s == clients[c]
         a == Address(s, SectionControlState)
     IN  (SendsControlState(s) /\ requestedMode[c] # "none")
         => /\ a \in DOMAIN told[c]
            /\ told[c][a] = IF requestedMode[c] = "automatic" THEN 1 ELSE 0
=============================================================================
