-------------------------- MODULE MyTCServerProofs --------------------------
(***************************************************************************)
(* Proofs about MyTCServer for any number of clients, any pools that meet  *)
(* PoolsAssumption, any size of a condensed message and of a demand.       *)
(***************************************************************************)
EXTENDS MyTCServer, ElementHierarchyProofs

\* The empty map has an empty domain.
LEMMA EmptyMapFact == DOMAIN EmptyMap = {}
  BY DEF EmptyMap

\* A default-constructed ClientState is well formed.
LEMMA DefaultClientType == IsClientState(DefaultClient)
<1> DEFINE d == DefaultClient
<1>1. DOMAIN d = ClientFields
  BY DEF ClientFields, DefaultClient
<1>2. /\ d.pool = EmptyPool /\ d.numberOfSections = 0
      /\ d.areMeasurementCommandsSent = FALSE /\ d.setpointWorkState = FALSE
      /\ d.isSectionControlEnabled = FALSE /\ d.usesPerElementControl = FALSE
      /\ d.sectionSetpointStates = EmptyMap /\ d.sectionActualStates = EmptyMap
      /\ d.sectionToElementNumber = EmptyMap /\ d.elementToSection = EmptyMap
      /\ d.ddiToElementNumber = EmptyMap /\ d.elementWorkStates = EmptyMap
      /\ d.elementParents = EmptyMap
  BY DEF DefaultClient
<1> HIDE DEF d
<1>3. Sections(d) = {}
  BY <1>2 DEF Sections
<1>4. /\ d.sectionSetpointStates \in [Sections(d) -> {OFF, ON}]
      /\ d.sectionActualStates \in [Sections(d) -> SectionState]
      /\ d.sectionToElementNumber \in [Sections(d) -> ElementNumber]
  BY <1>2, <1>3 DEF EmptyMap
<1>5. \A X, Y : IsMap(EmptyMap, X, Y)
  BY EmptyMapFact DEF IsMap
<1>6. /\ d.areMeasurementCommandsSent \in BOOLEAN /\ d.setpointWorkState \in BOOLEAN
      /\ d.isSectionControlEnabled \in BOOLEAN /\ d.usesPerElementControl \in BOOLEAN
  BY <1>2, Zenon
<1>7. /\ d.numberOfSections \in 0..255 /\ d.numberOfSections <= 16 * SectionsPerMessage
      /\ d.pool \in Pools \cup {EmptyPool}
      /\ IsMap(d.elementToSection, ElementNumber, Sections(d))
      /\ IsMap(d.ddiToElementNumber, DDI, ElementNumber)
      /\ IsMap(d.elementWorkStates, ElementNumber, BOOLEAN)
      /\ IsMap(d.elementParents, ElementNumber, ElementNumber)
  BY <1>2, <1>5, SectionsAssumption
<1>8. IsClientState(d)
  BY <1>1, <1>4, <1>6, <1>7, Zenon DEF IsClientState
<1> QED
  BY <1>8 DEF d

\* The ClientState that activation builds from a pool is well formed.
LEMMA NewClientType ==
  ASSUME NEW pool \in Pools
  PROVE  IsClientState(NewClient(pool))
<1> DEFINE s == NewClient(pool)
<1>1. DOMAIN s = ClientFields
  BY DEF ClientFields, DefaultClient, NewClient
<1>2. PoolAssumption(pool)
  BY PoolsAssumption
<1>3. /\ s.pool = pool
      /\ s.numberOfSections = NumberOfSections(pool)
      /\ s.sectionSetpointStates = [i \in 0..(NumberOfSections(pool) - 1) |-> OFF]
      /\ s.sectionActualStates = [i \in 0..(NumberOfSections(pool) - 1) |-> OFF]
      /\ s.sectionToElementNumber = SectionElement(pool)
      /\ s.elementToSection = ElementSection(pool)
      /\ s.elementParents = BuildParentMap(pool.elements)
      /\ s.usesPerElementControl = UsesPerElementControl(pool)
      /\ s.areMeasurementCommandsSent = FALSE
      /\ s.ddiToElementNumber = EmptyMap
      /\ s.elementWorkStates = EmptyMap
      /\ s.setpointWorkState = FALSE
      /\ s.isSectionControlEnabled = FALSE
  BY DEF NewClient, DefaultClient
<1>4. Sections(s) = 0..(NumberOfSections(pool) - 1)
  BY <1>3 DEF Sections
<1>5. /\ s.sectionSetpointStates \in [Sections(s) -> {OFF, ON}]
      /\ s.sectionActualStates \in [Sections(s) -> SectionState]
  BY <1>3, <1>4 DEF SectionState, OFF
<1>6. IsMap(s.elementParents, ElementNumber, ElementNumber)
  BY <1>2, <1>3 DEF PoolAssumption, IsMap
<1>7. IsMap(s.elementToSection, ElementNumber, Sections(s))
  BY <1>2, <1>3, <1>4 DEF PoolAssumption, IsMap
<1>8. IsMap(s.ddiToElementNumber, DDI, ElementNumber) /\ IsMap(s.elementWorkStates, ElementNumber, BOOLEAN)
  BY <1>3, EmptyMapFact DEF IsMap
<1>9. s.usesPerElementControl \in BOOLEAN /\ s.numberOfSections \in 0..255
      /\ s.numberOfSections <= 16 * SectionsPerMessage
      /\ s.sectionToElementNumber \in [Sections(s) -> ElementNumber]
  BY <1>2, <1>3, <1>4, GroupsAssumption DEF PoolAssumption
<1> HIDE DEF s
<1>10. /\ s.areMeasurementCommandsSent \in BOOLEAN /\ s.setpointWorkState \in BOOLEAN
       /\ s.isSectionControlEnabled \in BOOLEAN /\ s.pool \in Pools \cup {EmptyPool}
  BY <1>3, Zenon
<1>11. IsClientState(s)
  BY <1>1, <1>5, <1>6, <1>7, <1>8, <1>9, <1>10, Zenon DEF IsClientState
<1> QED
  BY <1>11 DEF s

\* Put, PutAll and Erase keep a map a map.
LEMMA PutMap ==
  ASSUME NEW X, NEW Y, NEW f, IsMap(f, X, Y), NEW x \in X, NEW v \in Y
  PROVE  IsMap(Put(f, x, v), X, Y)
  BY DEF IsMap, Put

\* An empty pool maps no DDI.
LEMMA EmptyPoolMap == DOMAIN DdiMap(EmptyPool) = {}
<1>1. Owned(EmptyPool) = {}
  <2>1. DOMAIN EmptyPool.processData = {}
    BY DEF EmptyPool
  <2> QED
    BY <2>1 DEF Owned
<1>2. MeasuredPairs(EmptyPool) = {} /\ GnssPairs(EmptyPool) = {}
  BY <1>1 DEF MeasuredPairs, GnssPairs
<1> QED
  BY <1>2 DEF DdiMap

\* on_value_command() with a condensed DDI keeps the vectors and maps in step.
LEMMA CondensedReportType ==
  ASSUME NEW s, IsClientState(s), NEW g \in Groups,
         NEW e \in ElementNumber, NEW states \in CondensedValue
  PROVE  IsClientState(WithCondensedReport(s, g, e, states))
<1> DEFINE t == WithCondensedReport(s, g, e, states)
           first == SectionsPerMessage * g
           last == IF s.numberOfSections <= first + SectionsPerMessage
                   THEN s.numberOfSections - 1 ELSE first + SectionsPerMessage - 1
<1>1. first \in Nat /\ SectionsPerMessage \in Nat \ {0} /\ s.numberOfSections \in 0..255
  BY SectionsAssumption DEF Groups, IsClientState
<1>2. /\ t.pool = s.pool /\ t.numberOfSections = s.numberOfSections
      /\ t.areMeasurementCommandsSent = s.areMeasurementCommandsSent
      /\ t.ddiToElementNumber = s.ddiToElementNumber
      /\ t.sectionSetpointStates = s.sectionSetpointStates
      /\ t.setpointWorkState = s.setpointWorkState
      /\ t.elementWorkStates = s.elementWorkStates
      /\ t.elementParents = s.elementParents
      /\ t.isSectionControlEnabled = s.isSectionControlEnabled
      /\ t.usesPerElementControl = s.usesPerElementControl
      /\ DOMAIN t = DOMAIN s
  BY DEF WithCondensedReport, IsClientState, ClientFields
<1>3. /\ t.sectionActualStates =
           [i \in Sections(s) |-> IF first <= i /\ i <= last THEN states[i - first]
                                  ELSE s.sectionActualStates[i]]
      /\ t.sectionToElementNumber =
           [i \in Sections(s) |-> IF first <= i /\ i <= last THEN e
                                  ELSE s.sectionToElementNumber[i]]
      /\ t.elementToSection = IF first <= last THEN Put(s.elementToSection, e, last)
                              ELSE s.elementToSection
  BY DEF WithCondensedReport, IsClientState, ClientFields
<1> HIDE DEF t
<1>4. Sections(t) = Sections(s)
  BY <1>2 DEF Sections
<1>5. ASSUME NEW i \in Sections(s), first <= i, i <= last
      PROVE  states[i - first] \in SectionState
  <2>1. i - first \in 0..(SectionsPerMessage - 1)
    BY <1>1, <1>5 DEF Sections
  <2> QED
    BY <2>1 DEF CondensedValue
<1>6. t.sectionActualStates \in [Sections(t) -> SectionState]
  BY <1>3, <1>4, <1>5 DEF IsClientState
<1>7. t.sectionToElementNumber \in [Sections(t) -> ElementNumber]
  BY <1>3, <1>4 DEF IsClientState
<1>8. IsMap(t.elementToSection, ElementNumber, Sections(t))
  <2>1. CASE first <= last
    <3>1. last \in Sections(s)
      BY <1>1, <2>1 DEF Sections
    <3> QED
      BY <1>3, <1>4, <2>1, <3>1, PutMap DEF IsClientState
  <2>2. CASE ~(first <= last)
    BY <1>3, <1>4, <2>2 DEF IsClientState
  <2> QED
    BY <2>1, <2>2
<1>9. IsClientState(t)
  BY <1>2, <1>4, <1>6, <1>7, <1>8, Zenon DEF IsClientState
<1> QED
  BY <1>9 DEF t

\* So does a work state report, whatever element it names.
LEMMA WorkStateType ==
  ASSUME NEW s, IsClientState(s), NEW e \in ElementNumber, NEW working \in BOOLEAN
  PROVE  IsClientState(WithWorkState(s, e, working))
<1> DEFINE t == WithWorkState(s, e, working)
<1>1. /\ t.pool = s.pool /\ t.numberOfSections = s.numberOfSections
      /\ t.areMeasurementCommandsSent = s.areMeasurementCommandsSent
      /\ t.ddiToElementNumber = s.ddiToElementNumber
      /\ t.sectionSetpointStates = s.sectionSetpointStates
      /\ t.sectionToElementNumber = s.sectionToElementNumber
      /\ t.elementToSection = s.elementToSection
      /\ t.setpointWorkState = s.setpointWorkState
      /\ t.elementParents = s.elementParents
      /\ t.isSectionControlEnabled = s.isSectionControlEnabled
      /\ t.usesPerElementControl = s.usesPerElementControl
      /\ DOMAIN t = DOMAIN s
  BY DEF WithWorkState, IsClientState, ClientFields
<1>2. /\ t.elementWorkStates = Put(s.elementWorkStates, e, working)
      /\ \/ t.sectionActualStates = s.sectionActualStates
         \/ t.sectionActualStates =
              [i \in Sections(s) |-> IF i = s.elementToSection[e]
                                     THEN (IF working THEN ON ELSE OFF)
                                     ELSE s.sectionActualStates[i]]
  BY DEF WithWorkState, IsClientState, ClientFields
<1> HIDE DEF t
<1>3. Sections(t) = Sections(s)
  BY <1>1 DEF Sections
<1>4. t.sectionActualStates \in [Sections(t) -> SectionState]
  BY <1>2, <1>3 DEF IsClientState, SectionState, ON, OFF
<1>5. IsMap(t.elementWorkStates, ElementNumber, BOOLEAN)
  BY <1>2, PutMap DEF IsClientState
<1>6. IsClientState(t)
  BY <1>1, <1>3, <1>4, <1>5, Zenon DEF IsClientState
<1> QED
  BY <1>6 DEF t

\* So does setting the automatic flag.
LEMMA ControlFlagType ==
  ASSUME NEW s, IsClientState(s), NEW enabled \in BOOLEAN
  PROVE  /\ IsClientState([s EXCEPT !.isSectionControlEnabled = enabled])
         /\ [s EXCEPT !.isSectionControlEnabled = enabled].numberOfSections = s.numberOfSections
         /\ [s EXCEPT !.isSectionControlEnabled = enabled].ddiToElementNumber = s.ddiToElementNumber
<1> DEFINE t == [s EXCEPT !.isSectionControlEnabled = enabled]
<1>1. /\ t.pool = s.pool /\ t.numberOfSections = s.numberOfSections
      /\ t.areMeasurementCommandsSent = s.areMeasurementCommandsSent
      /\ t.ddiToElementNumber = s.ddiToElementNumber
      /\ t.sectionSetpointStates = s.sectionSetpointStates
      /\ t.sectionActualStates = s.sectionActualStates
      /\ t.sectionToElementNumber = s.sectionToElementNumber
      /\ t.elementToSection = s.elementToSection
      /\ t.setpointWorkState = s.setpointWorkState
      /\ t.elementWorkStates = s.elementWorkStates
      /\ t.elementParents = s.elementParents
      /\ t.isSectionControlEnabled = enabled
      /\ t.usesPerElementControl = s.usesPerElementControl
      /\ DOMAIN t = DOMAIN s
  BY DEF IsClientState, ClientFields
<1> HIDE DEF t
<1>2. Sections(t) = Sections(s)
  BY <1>1 DEF Sections
<1>3. IsClientState(t)
  BY <1>1, <1>2, Zenon DEF IsClientState
<1> QED
  BY <1>1, <1>3 DEF t

\* The map request_measurement_commands() writes ranges over element numbers.
LEMMA MeasuredType ==
  ASSUME NEW s, IsClientState(s)
  PROVE  /\ IsClientState(Measured(s))
         /\ Measured(s).numberOfSections = s.numberOfSections
<1> DEFINE t == Measured(s)
<1>1. /\ t.pool = s.pool /\ t.numberOfSections = s.numberOfSections
      /\ t.areMeasurementCommandsSent = TRUE
      /\ t.ddiToElementNumber = DdiMap(s.pool)
      /\ t.sectionSetpointStates = s.sectionSetpointStates
      /\ t.sectionActualStates = s.sectionActualStates
      /\ t.sectionToElementNumber = s.sectionToElementNumber
      /\ t.elementToSection = s.elementToSection
      /\ t.setpointWorkState = s.setpointWorkState
      /\ t.elementWorkStates = s.elementWorkStates
      /\ t.elementParents = s.elementParents
      /\ t.isSectionControlEnabled = s.isSectionControlEnabled
      /\ t.usesPerElementControl = s.usesPerElementControl
      /\ DOMAIN t = DOMAIN s
  BY DEF Measured, IsClientState, ClientFields
<1> HIDE DEF t
<1>2. Sections(t) = Sections(s)
  BY <1>1 DEF Sections
<1>3. IsMap(DdiMap(s.pool), DDI, ElementNumber)
  <2>1. CASE s.pool \in Pools
    BY <2>1, PoolsAssumption DEF PoolAssumption, IsMap
  <2>2. CASE s.pool = EmptyPool
    BY <2>2, EmptyPoolMap DEF IsMap
  <2> QED
    BY <2>1, <2>2 DEF IsClientState
<1>4. IsClientState(t)
  BY <1>1, <1>2, <1>3, Zenon DEF IsClientState
<1> QED
  BY <1>1, <1>4 DEF t

\* Sections and the groups condensed messages carry them in.
LEMMA DivFact ==
  ASSUME NEW n \in Nat \ {0}, NEW i \in Nat
  PROVE  /\ i \div n \in Nat
         /\ n * (i \div n) <= i
         /\ i < n * (i \div n) + n
  OBVIOUS

\* Every section of a client belongs to one of the sixteen groups.
LEMMA GroupFact ==
  ASSUME NEW s, IsClientState(s), NEW i \in Sections(s)
  PROVE  /\ Group(i) \in Groups
         /\ SectionsPerMessage * Group(i) <= i
         /\ i < SectionsPerMessage * Group(i) + SectionsPerMessage
<1>1. i \in Nat /\ SectionsPerMessage \in Nat \ {0} /\ i < 16 * SectionsPerMessage
  <2>1. s.numberOfSections \in 0..255 /\ s.numberOfSections <= 16 * SectionsPerMessage
    BY Zenon DEF IsClientState
  <2>2. i \in Nat /\ i < s.numberOfSections
    BY <2>1 DEF Sections
  <2> QED
    BY <2>1, <2>2, SectionsAssumption
<1>2. /\ Group(i) \in Nat
      /\ SectionsPerMessage * Group(i) <= i
      /\ i < SectionsPerMessage * Group(i) + SectionsPerMessage
  BY <1>1, DivFact DEF Group
<1>3. Group(i) <= 15
  <2> SUFFICES ASSUME Group(i) >= 16 PROVE FALSE
    BY <1>2
  <2>1. SectionsPerMessage * Group(i) >= SectionsPerMessage * 16
    BY <1>1, <1>2
  <2> QED
    BY <1>1, <1>2, <2>1
<1> QED
  BY <1>2, <1>3 DEF Groups

\* update_section_states() for one client keeps it well formed.
LEMMA WithDemandType ==
  ASSUME NEW s, IsClientState(s), NEW demand \in Demand
  PROVE  /\ IsClientState(WithDemand(s, demand))
         /\ WithDemand(s, demand).pool = s.pool
         /\ WithDemand(s, demand).numberOfSections = s.numberOfSections
         /\ WithDemand(s, demand).ddiToElementNumber = s.ddiToElementNumber
         /\ WithDemand(s, demand).areMeasurementCommandsSent = s.areMeasurementCommandsSent
         /\ WithDemand(s, demand).usesPerElementControl = s.usesPerElementControl
         /\ WithDemand(s, demand).sectionSetpointStates = NewSetpoints(s, demand)
<1> DEFINE t == WithDemand(s, demand)
           new == [s EXCEPT !.sectionSetpointStates = NewSetpoints(s, demand)]
<1>1. /\ new.setpointWorkState = s.setpointWorkState
      /\ new.sectionSetpointStates = NewSetpoints(s, demand)
      /\ DOMAIN new = DOMAIN s
      /\ \A f \in DOMAIN s \ {"sectionSetpointStates"} : new[f] = s[f]
  BY DEF IsClientState, ClientFields
<1>2. \A g : AnyOnAt(s, new, g) \in BOOLEAN
  BY Zenon DEF AnyOnAt, AnyOn
<1>3. PICK w \in BOOLEAN : t = [new EXCEPT !.setpointWorkState = w]
  <2>1. s.setpointWorkState \in BOOLEAN
    BY DEF IsClientState
  <2>2. CASE WorkStateGroups(s, ChangedGroups(s, demand)) = {}
    <3>1. t = [new EXCEPT !.setpointWorkState = s.setpointWorkState]
      BY <1>1, <2>2 DEF WithDemand
    <3> QED
      BY <2>1, <3>1
  <2>3. CASE WorkStateGroups(s, ChangedGroups(s, demand)) # {}
    <3>1. t = [new EXCEPT !.setpointWorkState =
                 AnyOnAt(s, new, Max(WorkStateGroups(s, ChangedGroups(s, demand))))]
      BY <2>3 DEF WithDemand
    <3> HIDE DEF t, new
    <3> QED
      BY <1>2, <3>1, Zenon
  <2> QED
    BY <2>2, <2>3
<1> HIDE DEF t
<1>4. /\ t.pool = s.pool /\ t.numberOfSections = s.numberOfSections
      /\ t.areMeasurementCommandsSent = s.areMeasurementCommandsSent
      /\ t.ddiToElementNumber = s.ddiToElementNumber
      /\ t.sectionSetpointStates = NewSetpoints(s, demand)
      /\ t.sectionActualStates = s.sectionActualStates
      /\ t.sectionToElementNumber = s.sectionToElementNumber
      /\ t.elementToSection = s.elementToSection
      /\ t.setpointWorkState = w
      /\ t.elementWorkStates = s.elementWorkStates
      /\ t.elementParents = s.elementParents
      /\ t.isSectionControlEnabled = s.isSectionControlEnabled
      /\ t.usesPerElementControl = s.usesPerElementControl
      /\ DOMAIN t = DOMAIN s
  BY <1>3 DEF IsClientState, ClientFields
<1>5. Sections(t) = Sections(s)
  BY <1>4 DEF Sections
<1>6. NewSetpoints(s, demand) \in [Sections(s) -> {OFF, ON}]
  BY DEF NewSetpoints, IsClientState
<1>7. IsClientState(t)
  BY <1>3, <1>4, <1>5, <1>6, Zenon DEF IsClientState
<1> QED
  BY <1>4, <1>7 DEF t

\* What the setpoint messages of a set of groups are: each condensed or legacy
\* message carries the setpoints of its own group, on the address its DDI is
\* mapped to, and every group on one of the condensed paths has its message.
LEMMA SetpointMessagesFact ==
  ASSUME NEW s, NEW sent \in SUBSET Groups
  PROVE  /\ \A a \in DOMAIN SetpointMessages(s, sent) :
              \/ \E g \in sent : /\ SetpointPath(s, g) = "condensed"
                                 /\ a = Address(s, SetpointCondensedWorkState1_16 + g)
                                 /\ SetpointMessages(s, sent)[a] = Condensed(s, g)
              \/ \E g \in sent : /\ SetpointPath(s, g) = "legacy"
                                 /\ a = Address(s, ActualCondensedWorkState1_16 + g)
                                 /\ SetpointMessages(s, sent)[a] = Condensed(s, g)
              \/ \E i \in Sections(s) : /\ a = <<ActualWorkState, s.sectionToElementNumber[i]>>
                                        /\ SetpointMessages(s, sent)[a] \in {0, 1}
         /\ \A g \in sent :
              /\ SetpointPath(s, g) = "condensed" =>
                   Address(s, SetpointCondensedWorkState1_16 + g) \in DOMAIN SetpointMessages(s, sent)
              /\ SetpointPath(s, g) = "legacy" =>
                   Address(s, ActualCondensedWorkState1_16 + g) \in DOMAIN SetpointMessages(s, sent)
<1> DEFINE Via(path) == {g \in sent : SetpointPath(s, g) = path}
           addressed == {i \in Sections(s) : /\ Group(i) \in Via("element")
                                             /\ s.sectionToElementNumber[i] # 0}
           LastOn(e) == Max({i \in addressed : s.sectionToElementNumber[i] = e})
           condensed == [a \in {Address(s, SetpointCondensedWorkState1_16 + g) : g \in Via("condensed")}
                           |-> Condensed(s, a[1] - SetpointCondensedWorkState1_16)]
           legacy == [a \in {Address(s, ActualCondensedWorkState1_16 + g) : g \in Via("legacy")}
                           |-> Condensed(s, a[1] - ActualCondensedWorkState1_16)]
           element == [a \in {<<ActualWorkState, s.sectionToElementNumber[i]>> : i \in addressed}
                           |-> IF s.sectionSetpointStates[LastOn(a[2])] = ON THEN 1 ELSE 0]
           m == SetpointMessages(s, sent)
<1>1. m = PutAll(PutAll(condensed, legacy), element)
  BY DEF SetpointMessages
<1>2. \A g \in sent : /\ Address(s, SetpointCondensedWorkState1_16 + g)[1] - SetpointCondensedWorkState1_16 = g
                      /\ Address(s, ActualCondensedWorkState1_16 + g)[1] - ActualCondensedWorkState1_16 = g
  BY DEF Address, SetpointCondensedWorkState1_16, ActualCondensedWorkState1_16, Groups
<1>3. \A a \in DOMAIN condensed : \E g \in sent : /\ SetpointPath(s, g) = "condensed"
                                 /\ a = Address(s, SetpointCondensedWorkState1_16 + g)
                                 /\ condensed[a] = Condensed(s, g)
  BY <1>2
<1>4. \A a \in DOMAIN legacy : \E g \in sent : /\ SetpointPath(s, g) = "legacy"
                                 /\ a = Address(s, ActualCondensedWorkState1_16 + g)
                                 /\ legacy[a] = Condensed(s, g)
  BY <1>2
<1>5. \A a \in DOMAIN element : \E i \in Sections(s) :
         /\ a = <<ActualWorkState, s.sectionToElementNumber[i]>>
         /\ element[a] \in {0, 1}
  OBVIOUS
<1>6. \A g \in sent : /\ SetpointPath(s, g) = "condensed" =>
                           Address(s, SetpointCondensedWorkState1_16 + g) \in DOMAIN condensed
                      /\ SetpointPath(s, g) = "legacy" =>
                           Address(s, ActualCondensedWorkState1_16 + g) \in DOMAIN legacy
  OBVIOUS
<1> HIDE DEF condensed, legacy, element, m
<1>7. /\ DOMAIN m = DOMAIN condensed \cup DOMAIN legacy \cup DOMAIN element
      /\ \A a \in DOMAIN m : \/ a \in DOMAIN condensed /\ m[a] = condensed[a]
                             \/ a \in DOMAIN legacy /\ m[a] = legacy[a]
                             \/ a \in DOMAIN element /\ m[a] = element[a]
  BY <1>1 DEF PutAll
<1>8. ASSUME NEW a \in DOMAIN m
      PROVE  \/ \E g \in sent : /\ SetpointPath(s, g) = "condensed"
                                /\ a = Address(s, SetpointCondensedWorkState1_16 + g)
                                /\ m[a] = Condensed(s, g)
             \/ \E g \in sent : /\ SetpointPath(s, g) = "legacy"
                                /\ a = Address(s, ActualCondensedWorkState1_16 + g)
                                /\ m[a] = Condensed(s, g)
             \/ \E i \in Sections(s) : /\ a = <<ActualWorkState, s.sectionToElementNumber[i]>>
                                       /\ m[a] \in {0, 1}
  <2>1. CASE a \in DOMAIN condensed /\ m[a] = condensed[a]
    BY <1>3, <2>1
  <2>2. CASE a \in DOMAIN legacy /\ m[a] = legacy[a]
    BY <1>4, <2>2
  <2>3. CASE a \in DOMAIN element /\ m[a] = element[a]
    BY <1>5, <2>3
  <2> QED
    BY <1>7, <2>1, <2>2, <2>3
<1>9. \A g \in sent :
        /\ SetpointPath(s, g) = "condensed" =>
             Address(s, SetpointCondensedWorkState1_16 + g) \in DOMAIN m
        /\ SetpointPath(s, g) = "legacy" =>
             Address(s, ActualCondensedWorkState1_16 + g) \in DOMAIN m
  BY <1>6, <1>7
<1> QED
  BY <1>8, <1>9 DEF m

\* A condensed value holds two-bit states.
LEMMA CondensedType ==
  ASSUME NEW s, IsClientState(s), NEW g \in Groups
  PROVE  Condensed(s, g) \in CondensedValue
<1> SUFFICES ASSUME NEW i \in 0..(SectionsPerMessage - 1)
             PROVE  GetSectionSetpointState(s, SectionsPerMessage * g + i) \in SectionState
  BY DEF Condensed, CondensedValue
<1>1. SectionsPerMessage * g + i \in Nat /\ s.numberOfSections \in Nat
  BY SectionsAssumption DEF Groups, IsClientState
<1>2. CASE SectionsPerMessage * g + i < s.numberOfSections
  <2>1. SectionsPerMessage * g + i \in Sections(s)
    BY <1>1, <1>2 DEF Sections
  <2>2. s.sectionSetpointStates \in [Sections(s) -> {OFF, ON}]
    BY Zenon DEF IsClientState
  <2> QED
    BY <1>2, <2>1, <2>2 DEF GetSectionSetpointState, SectionState, OFF, ON
<1>3. CASE ~(SectionsPerMessage * g + i < s.numberOfSections)
  BY <1>3 DEF GetSectionSetpointState, SectionState, NOT_INSTALLED
<1> QED
  BY <1>2, <1>3

\* A demand changes setpoints in the sixteen groups only.
LEMMA ChangedGroupsFact ==
  ASSUME NEW s, IsClientState(s), NEW demand \in Demand
  PROVE  ChangedGroups(s, demand) \in SUBSET Groups
  BY GroupFact DEF ChangedGroups

\* What a demand sends: the setpoint messages of the changed groups, carrying
\* the new setpoints, and possibly the work state.
LEMMA DemandMessagesFact ==
  ASSUME NEW s, IsClientState(s), NEW demand \in Demand
  PROVE  LET t == WithDemand(s, demand)
             m == DemandMessages(s, demand)
         IN  /\ \A a \in DOMAIN m :
                  \/ \E g \in Groups : /\ SetpointPath(s, g) = "condensed"
                                       /\ a = Address(s, SetpointCondensedWorkState1_16 + g)
                                       /\ m[a] = Condensed(t, g)
                  \/ \E g \in Groups : /\ SetpointPath(s, g) = "legacy"
                                       /\ a = Address(s, ActualCondensedWorkState1_16 + g)
                                       /\ m[a] = Condensed(t, g)
                  \/ /\ \E i \in Sections(s) : a = <<ActualWorkState, s.sectionToElementNumber[i]>>
                     /\ m[a] \in {0, 1}
                  \/ /\ HasDdi(s, SetpointWorkState)
                     /\ a = Address(s, SetpointWorkState)
                     /\ m[a] \in {0, 1}
             /\ \A g \in ChangedGroups(s, demand) :
                  /\ SetpointPath(s, g) = "condensed" =>
                       Address(s, SetpointCondensedWorkState1_16 + g) \in DOMAIN m
                  /\ SetpointPath(s, g) = "legacy" =>
                       Address(s, ActualCondensedWorkState1_16 + g) \in DOMAIN m
<1> DEFINE t == WithDemand(s, demand)
           m == DemandMessages(s, demand)
           new == [s EXCEPT !.sectionSetpointStates = NewSetpoints(s, demand)]
           sent == ChangedGroups(s, demand)
           checks == WorkStateGroups(s, sent)
           toggled == \E g \in checks : AnyOnAt(s, new, g) # s.setpointWorkState
           workState == [a \in (IF toggled THEN {Address(s, SetpointWorkState)} ELSE {})
                           |-> IF AnyOnAt(s, new, Max(checks)) THEN 1 ELSE 0]
           sp == SetpointMessages(new, sent)
<1>1. m = PutAll(sp, workState)
  BY DEF DemandMessages
<1>2. /\ new.pool = s.pool /\ new.numberOfSections = s.numberOfSections
      /\ new.ddiToElementNumber = s.ddiToElementNumber
      /\ new.sectionToElementNumber = s.sectionToElementNumber
      /\ new.usesPerElementControl = s.usesPerElementControl
      /\ new.sectionSetpointStates = NewSetpoints(s, demand)
  BY DEF IsClientState, ClientFields
<1>3. /\ t.numberOfSections = s.numberOfSections
      /\ t.sectionSetpointStates = NewSetpoints(s, demand)
  BY WithDemandType
<1>4. \A a \in DOMAIN workState : /\ HasDdi(s, SetpointWorkState)
                                  /\ a = Address(s, SetpointWorkState)
                                  /\ workState[a] \in {0, 1}
  <2>1. checks # {} => HasDdi(s, SetpointWorkState)
    BY DEF WorkStateGroups
  <2>2. toggled => checks # {}
    OBVIOUS
  <2> QED
    BY <2>1, <2>2
<1> HIDE DEF new, t, workState
<1>5. \A g : Condensed(new, g) = Condensed(t, g)
  BY <1>2, <1>3 DEF Condensed, GetSectionSetpointState
<1>6. \A g : SetpointPath(new, g) = SetpointPath(s, g)
  BY <1>2 DEF SetpointPath, HasDdi
<1>7. \A ddi : Address(new, ddi) = Address(s, ddi)
  BY <1>2 DEF Address
<1>8. Sections(new) = Sections(s)
  BY <1>2 DEF Sections
<1>9. sent \in SUBSET Groups
  BY ChangedGroupsFact
<1> HIDE DEF sent, m, sp
<1>10. /\ DOMAIN m = DOMAIN sp \cup DOMAIN workState
       /\ \A a \in DOMAIN m : \/ a \in DOMAIN sp /\ m[a] = sp[a]
                              \/ a \in DOMAIN workState /\ m[a] = workState[a]
  BY <1>1 DEF PutAll
<1>11. ASSUME NEW a \in DOMAIN sp
       PROVE  \/ \E g \in Groups : /\ SetpointPath(s, g) = "condensed"
                                   /\ a = Address(s, SetpointCondensedWorkState1_16 + g)
                                   /\ sp[a] = Condensed(t, g)
              \/ \E g \in Groups : /\ SetpointPath(s, g) = "legacy"
                                   /\ a = Address(s, ActualCondensedWorkState1_16 + g)
                                   /\ sp[a] = Condensed(t, g)
              \/ /\ \E i \in Sections(s) : a = <<ActualWorkState, s.sectionToElementNumber[i]>>
                 /\ sp[a] \in {0, 1}
  <2>1. CASE \E g \in sent : /\ SetpointPath(new, g) = "condensed"
                             /\ a = Address(new, SetpointCondensedWorkState1_16 + g)
                             /\ sp[a] = Condensed(new, g)
    BY <2>1, <1>5, <1>6, <1>7, <1>9
  <2>2. CASE \E g \in sent : /\ SetpointPath(new, g) = "legacy"
                             /\ a = Address(new, ActualCondensedWorkState1_16 + g)
                             /\ sp[a] = Condensed(new, g)
    BY <2>2, <1>5, <1>6, <1>7, <1>9
  <2>3. CASE \E i \in Sections(new) : /\ a = <<ActualWorkState, new.sectionToElementNumber[i]>>
                                      /\ sp[a] \in {0, 1}
    BY <2>3, <1>2, <1>8
  <2> QED
    BY <1>9, <2>1, <2>2, <2>3, SetpointMessagesFact DEF sp
<1>12. ASSUME NEW a \in DOMAIN m
       PROVE  \/ \E g \in Groups : /\ SetpointPath(s, g) = "condensed"
                                   /\ a = Address(s, SetpointCondensedWorkState1_16 + g)
                                   /\ m[a] = Condensed(t, g)
              \/ \E g \in Groups : /\ SetpointPath(s, g) = "legacy"
                                   /\ a = Address(s, ActualCondensedWorkState1_16 + g)
                                   /\ m[a] = Condensed(t, g)
              \/ /\ \E i \in Sections(s) : a = <<ActualWorkState, s.sectionToElementNumber[i]>>
                 /\ m[a] \in {0, 1}
              \/ /\ HasDdi(s, SetpointWorkState)
                 /\ a = Address(s, SetpointWorkState)
                 /\ m[a] \in {0, 1}
  <2>1. CASE a \in DOMAIN sp /\ m[a] = sp[a]
    BY <1>11, <2>1, Zenon
  <2>2. CASE a \in DOMAIN workState /\ m[a] = workState[a]
    BY <1>4, <2>2, Zenon
  <2> QED
    BY <1>10, <2>1, <2>2
<1>13. \A g \in sent :
         /\ SetpointPath(s, g) = "condensed" =>
              Address(s, SetpointCondensedWorkState1_16 + g) \in DOMAIN m
         /\ SetpointPath(s, g) = "legacy" =>
              Address(s, ActualCondensedWorkState1_16 + g) \in DOMAIN m
  <2>1. \A g \in sent :
         /\ SetpointPath(new, g) = "condensed" =>
              Address(new, SetpointCondensedWorkState1_16 + g) \in DOMAIN sp
         /\ SetpointPath(new, g) = "legacy" =>
              Address(new, ActualCondensedWorkState1_16 + g) \in DOMAIN sp
    BY <1>9, SetpointMessagesFact DEF sp
  <2> QED
    BY <2>1, <1>6, <1>7, <1>10
<1> QED
  BY <1>12, <1>13 DEF m, t, sent

---------------------------------------------------------------------------
(* The inductive invariant. *)

\* The setpoints cached for a client are its last demand.
SetpointsAre(s, demand) ==
  \A i \in Sections(s) :
     s.sectionSetpointStates[i] = IF i < DemandSize /\ demand[i] THEN ON ELSE OFF

\* A condensed message lies on the address and the path the client's groups
\* use now, and carries the setpoints cached now.
MessageIsCurrent(s, a, value) ==
  \/ ~IsCondensed(a[1])
  \/ \E g \in Groups : /\ SetpointPath(s, g) = "condensed"
                       /\ a = Address(s, SetpointCondensedWorkState1_16 + g)
                       /\ value = Condensed(s, g)
  \/ \E g \in Groups : /\ SetpointPath(s, g) = "legacy"
                       /\ a = Address(s, ActualCondensedWorkState1_16 + g)
                       /\ value = Condensed(s, g)

\* One client and what has been exchanged with it since it registered.
SessionInv(s, messages, measured, demand) ==
  /\ s.ddiToElementNumber = IF s.areMeasurementCommandsSent THEN DdiMap(s.pool) ELSE EmptyMap
  /\ s.areMeasurementCommandsSent => s.numberOfSections > 0
  /\ s.numberOfSections = 0 => messages = EmptyMap /\ measured = {}
  /\ SetpointsAre(s, demand)
  /\ \A a \in DOMAIN messages : MessageIsCurrent(s, a, messages[a])

IInv ==
  /\ TypeOK
  /\ \A c \in CF :
       IF c \in DOMAIN clients
       THEN SessionInv(clients[c], told[c], subscribed[c], demanded[c])
       ELSE told[c] = EmptyMap /\ subscribed[c] = {}

\* A session does not depend on what a client reports.
LEMMA SessionDepends ==
  ASSUME NEW s, NEW t, NEW messages, NEW measured, NEW demand,
         SessionInv(s, messages, measured, demand),
         t.pool = s.pool, t.numberOfSections = s.numberOfSections,
         t.ddiToElementNumber = s.ddiToElementNumber,
         t.areMeasurementCommandsSent = s.areMeasurementCommandsSent,
         t.usesPerElementControl = s.usesPerElementControl,
         t.sectionSetpointStates = s.sectionSetpointStates
  PROVE  SessionInv(t, messages, measured, demand)
<1>1. \A g : Condensed(t, g) = Condensed(s, g)
  BY DEF Condensed, GetSectionSetpointState
<1>2. \A g : SetpointPath(t, g) = SetpointPath(s, g)
  BY DEF SetpointPath, HasDdi
<1>3. \A ddi : Address(t, ddi) = Address(s, ddi)
  BY DEF Address
<1>4. \A a, v : MessageIsCurrent(s, a, v) => MessageIsCurrent(t, a, v)
  BY <1>1, <1>2, <1>3 DEF MessageIsCurrent
<1>5. SetpointsAre(t, demand)
  BY DEF SessionInv, SetpointsAre, Sections
<1> QED
  BY <1>4, <1>5 DEF SessionInv

\* The entry operator[] inserts is in order with a session in which nothing
\* was sent.
LEMMA DefaultSession ==
  ASSUME NEW demand
  PROVE  SessionInv(DefaultClient, EmptyMap, {}, demand)
<1>1. /\ DefaultClient.numberOfSections = 0
      /\ DefaultClient.areMeasurementCommandsSent = FALSE
      /\ DefaultClient.ddiToElementNumber = EmptyMap
  BY DEF DefaultClient
<1>2. Sections(DefaultClient) = {}
  BY <1>1 DEF Sections
<1> QED
  BY <1>1, <1>2, EmptyMapFact DEF SessionInv, SetpointsAre

\* So is the entry that activation registers.
LEMMA NewSessionFact ==
  ASSUME NEW pool \in Pools
  PROVE  SessionInv(NewClient(pool), EmptyMap, {}, [i \in 0..(DemandSize - 1) |-> FALSE])
<1> DEFINE s == NewClient(pool)
<1>1. /\ s.areMeasurementCommandsSent = FALSE
      /\ s.ddiToElementNumber = EmptyMap
      /\ s.numberOfSections = NumberOfSections(pool)
      /\ s.sectionSetpointStates = [i \in 0..(NumberOfSections(pool) - 1) |-> OFF]
  BY DEF NewClient, DefaultClient
<1> HIDE DEF s
<1>2. NumberOfSections(pool) \in 0..255
  BY PoolsAssumption DEF PoolAssumption
<1>3. \A i \in Sections(s) : s.sectionSetpointStates[i] = OFF /\ i \in Nat
  BY <1>1, <1>2 DEF Sections
<1>4. SetpointsAre(s, [i \in 0..(DemandSize - 1) |-> FALSE])
  BY <1>3, SectionsAssumption DEF SetpointsAre
<1>5. SessionInv(s, EmptyMap, {}, [i \in 0..(DemandSize - 1) |-> FALSE])
  BY <1>1, <1>4, EmptyMapFact DEF SessionInv
<1> QED
  BY <1>5 DEF s

\* Before its measurement commands a client has no condensed message, so the
\* addresses that appear with them belong to none.
LEMMA MeasuredSession ==
  ASSUME NEW s, IsClientState(s), NEW messages, NEW measured, NEW demand,
         SessionInv(s, messages, measured, demand), NeedsMeasurement(s), NEW more
  PROVE  SessionInv(Measured(s), messages, more, demand)
<1> DEFINE t == Measured(s)
<1>1. /\ t.pool = s.pool /\ t.numberOfSections = s.numberOfSections
      /\ t.areMeasurementCommandsSent = TRUE
      /\ t.ddiToElementNumber = DdiMap(s.pool)
      /\ t.sectionSetpointStates = s.sectionSetpointStates
  BY DEF Measured, IsClientState, ClientFields
<1>2. s.numberOfSections > 0 /\ s.ddiToElementNumber = EmptyMap /\ s.numberOfSections \in Nat
  BY DEF NeedsMeasurement, SessionInv, IsClientState
<1>3. \A g : SetpointPath(s, g) # "condensed" /\ SetpointPath(s, g) # "legacy"
  BY <1>2, EmptyMapFact DEF SetpointPath, HasDdi
<1>4. \A a \in DOMAIN messages : ~IsCondensed(a[1])
  BY <1>3 DEF SessionInv, MessageIsCurrent
<1> HIDE DEF t
<1>5. SetpointsAre(t, demand)
  BY <1>1 DEF SessionInv, SetpointsAre, Sections
<1>6. SessionInv(t, messages, more, demand)
  BY <1>1, <1>2, <1>4, <1>5 DEF SessionInv, MessageIsCurrent
<1> QED
  BY <1>6 DEF t

\* The group of a section is the only one that carries it.
LEMMA GroupUnique ==
  ASSUME NEW s, IsClientState(s), NEW g \in Groups, NEW i \in 0..(SectionsPerMessage - 1),
         SectionsPerMessage * g + i \in Sections(s)
  PROVE  Group(SectionsPerMessage * g + i) = g
<1> DEFINE k == SectionsPerMessage * g + i
           h == Group(k)
<1>1. /\ h \in Groups /\ SectionsPerMessage * h <= k
      /\ k < SectionsPerMessage * h + SectionsPerMessage
  BY GroupFact
<1>2. SectionsPerMessage \in Nat \ {0} /\ g \in Nat /\ h \in Nat /\ i \in Nat /\ i < SectionsPerMessage
  BY <1>1, SectionsAssumption DEF Groups
<1> HIDE DEF h
<1>3. ~(h >= g + 1)
  <2> SUFFICES ASSUME h >= g + 1 PROVE FALSE
    OBVIOUS
  <2>1. SectionsPerMessage * h >= SectionsPerMessage * (g + 1)
    BY <1>2
  <2>2. SectionsPerMessage * (g + 1) = SectionsPerMessage * g + SectionsPerMessage
    BY <1>2
  <2> QED
    BY <1>1, <1>2, <2>1, <2>2
<1>4. ~(g >= h + 1)
  <2> SUFFICES ASSUME g >= h + 1 PROVE FALSE
    OBVIOUS
  <2>1. SectionsPerMessage * g >= SectionsPerMessage * (h + 1)
    BY <1>2
  <2>2. SectionsPerMessage * (h + 1) = SectionsPerMessage * h + SectionsPerMessage
    BY <1>2
  <2> QED
    BY <1>1, <1>2, <2>1, <2>2
<1> QED
  BY <1>2, <1>3, <1>4 DEF h

\* A group without a changed section keeps its condensed value.
LEMMA UnchangedGroup ==
  ASSUME NEW s, IsClientState(s), NEW demand \in Demand,
         NEW g \in Groups, g \notin ChangedGroups(s, demand)
  PROVE  Condensed(WithDemand(s, demand), g) = Condensed(s, g)
<1> DEFINE t == WithDemand(s, demand)
<1>1. /\ t.numberOfSections = s.numberOfSections
      /\ t.sectionSetpointStates = NewSetpoints(s, demand)
  BY WithDemandType
<1> HIDE DEF t
<1>2. ASSUME NEW i \in 0..(SectionsPerMessage - 1),
             SectionsPerMessage * g + i < s.numberOfSections
      PROVE  t.sectionSetpointStates[SectionsPerMessage * g + i]
               = s.sectionSetpointStates[SectionsPerMessage * g + i]
  <2> DEFINE k == SectionsPerMessage * g + i
  <2>1. k \in Nat /\ s.numberOfSections \in Nat
    BY SectionsAssumption DEF Groups, IsClientState
  <2>2. k \in Sections(s)
    BY <1>2, <2>1 DEF Sections
  <2>3. Group(k) = g
    BY <2>2, GroupUnique
  <2> HIDE DEF k
  <2>4. ~(k < DemandSize /\ demand[k] # (s.sectionSetpointStates[k] = ON))
    BY <2>2, <2>3 DEF ChangedGroups
  <2>5. NewSetpoints(s, demand)[k] = s.sectionSetpointStates[k]
    BY <2>2, <2>4 DEF NewSetpoints
  <2> QED
    BY <1>1, <2>5 DEF k
<1>3. \A i \in 0..(SectionsPerMessage - 1) :
        GetSectionSetpointState(t, SectionsPerMessage * g + i)
          = GetSectionSetpointState(s, SectionsPerMessage * g + i)
  BY <1>1, <1>2 DEF GetSectionSetpointState
<1>4. Condensed(t, g) = Condensed(s, g)
  BY <1>3 DEF Condensed
<1> QED
  BY <1>4 DEF t

\* Which of the DDIs the server sends on carry condensed values.
LEMMA CondensedNumbers ==
  /\ ~IsCondensed(ActualWorkState) /\ ~IsCondensed(SetpointWorkState)
  /\ ~IsCondensed(SectionControlState) /\ ~IsCondensed(GNSSQuality)
  /\ \A g \in Groups : /\ IsCondensed(SetpointCondensedWorkState1_16 + g)
                       /\ IsCondensed(ActualCondensedWorkState1_16 + g)
                       /\ SetpointCondensedWorkState1_16 + g \in DDI
                       /\ ActualCondensedWorkState1_16 + g \in DDI
  BY DEF IsCondensed, InRun, ActualWorkState, SetpointWorkState, SectionControlState,
         GNSSQuality, SetpointCondensedWorkState1_16, ActualCondensedWorkState1_16, Groups, DDI

\* The heart of the argument: after a demand the changed groups have been sent
\* with their new setpoints and the others still hold what was sent before.
LEMMA DemandSession ==
  ASSUME NEW s, IsClientState(s), NEW messages, NEW measured, NEW before, NEW demand \in Demand,
         SessionInv(s, messages, measured, before), Controlled(s)
  PROVE  SessionInv(WithDemand(s, demand), PutAll(messages, DemandMessages(s, demand)), measured, demand)
<1> DEFINE t == WithDemand(s, demand)
           m == DemandMessages(s, demand)
<1>1. /\ t.pool = s.pool /\ t.numberOfSections = s.numberOfSections
      /\ t.ddiToElementNumber = s.ddiToElementNumber
      /\ t.areMeasurementCommandsSent = s.areMeasurementCommandsSent
      /\ t.usesPerElementControl = s.usesPerElementControl
      /\ t.sectionSetpointStates = NewSetpoints(s, demand)
  BY WithDemandType
<1>2. \A g \in Groups \ ChangedGroups(s, demand) : Condensed(t, g) = Condensed(s, g)
  BY UnchangedGroup
<1>3. /\ \A a \in DOMAIN m :
           \/ \E g \in Groups : /\ SetpointPath(s, g) = "condensed"
                                /\ a = Address(s, SetpointCondensedWorkState1_16 + g)
                                /\ m[a] = Condensed(t, g)
           \/ \E g \in Groups : /\ SetpointPath(s, g) = "legacy"
                                /\ a = Address(s, ActualCondensedWorkState1_16 + g)
                                /\ m[a] = Condensed(t, g)
           \/ /\ \E i \in Sections(s) : a = <<ActualWorkState, s.sectionToElementNumber[i]>>
              /\ m[a] \in {0, 1}
           \/ /\ HasDdi(s, SetpointWorkState)
              /\ a = Address(s, SetpointWorkState)
              /\ m[a] \in {0, 1}
      /\ \A g \in ChangedGroups(s, demand) :
           /\ SetpointPath(s, g) = "condensed" =>
                Address(s, SetpointCondensedWorkState1_16 + g) \in DOMAIN m
           /\ SetpointPath(s, g) = "legacy" =>
                Address(s, ActualCondensedWorkState1_16 + g) \in DOMAIN m
  BY DemandMessagesFact
<1> HIDE DEF t, m
<1>4. \A g : SetpointPath(t, g) = SetpointPath(s, g)
  BY <1>1 DEF SetpointPath, HasDdi
<1>5. \A ddi : Address(t, ddi) = Address(s, ddi)
  BY <1>1 DEF Address
<1>6. SetpointsAre(t, demand)
  <2> SUFFICES ASSUME NEW i \in Sections(s)
               PROVE  NewSetpoints(s, demand)[i] = IF i < DemandSize /\ demand[i] THEN ON ELSE OFF
    BY <1>1 DEF SetpointsAre, Sections
  <2>1. s.sectionSetpointStates[i] = IF i < DemandSize /\ before[i] THEN ON ELSE OFF
    BY DEF SessionInv, SetpointsAre
  <2>2. NewSetpoints(s, demand)[i] =
          IF i < DemandSize /\ demand[i] # (s.sectionSetpointStates[i] = ON)
          THEN (IF demand[i] THEN ON ELSE OFF) ELSE s.sectionSetpointStates[i]
    BY DEF NewSetpoints
  <2>3. s.sectionSetpointStates[i] = ON \/ s.sectionSetpointStates[i] = OFF
    BY <2>1
  <2>4. i < DemandSize => demand[i] \in BOOLEAN
    <3>1. i \in Nat
      BY DEF Sections, IsClientState
    <3> QED
      BY <3>1, SectionsAssumption DEF Demand
  <2> QED
    BY <2>1, <2>2, <2>3, <2>4 DEF ON, OFF
<1>7. ASSUME NEW a \in DOMAIN m
      PROVE  MessageIsCurrent(t, a, m[a])
  <2>1. CASE \E g \in Groups : /\ SetpointPath(s, g) = "condensed"
                               /\ a = Address(s, SetpointCondensedWorkState1_16 + g)
                               /\ m[a] = Condensed(t, g)
    BY <2>1, <1>4, <1>5 DEF MessageIsCurrent
  <2>2. CASE \E g \in Groups : /\ SetpointPath(s, g) = "legacy"
                               /\ a = Address(s, ActualCondensedWorkState1_16 + g)
                               /\ m[a] = Condensed(t, g)
    BY <2>2, <1>4, <1>5 DEF MessageIsCurrent
  <2>3. CASE \E i \in Sections(s) : a = <<ActualWorkState, s.sectionToElementNumber[i]>>
    BY <2>3, CondensedNumbers DEF MessageIsCurrent
  <2>4. CASE a = Address(s, SetpointWorkState)
    BY <2>4, CondensedNumbers DEF MessageIsCurrent, Address
  <2> QED
    BY <1>3, <2>1, <2>2, <2>3, <2>4
<1>8. ASSUME NEW a \in DOMAIN messages, a \notin DOMAIN m
      PROVE  MessageIsCurrent(t, a, messages[a])
  <2>1. MessageIsCurrent(s, a, messages[a])
    BY DEF SessionInv
  <2>2. CASE ~IsCondensed(a[1])
    BY <2>2 DEF MessageIsCurrent
  <2>3. CASE \E g \in Groups : /\ SetpointPath(s, g) = "condensed"
                               /\ a = Address(s, SetpointCondensedWorkState1_16 + g)
                               /\ messages[a] = Condensed(s, g)
    BY <2>3, <1>2, <1>3, <1>4, <1>5, <1>8 DEF MessageIsCurrent
  <2>4. CASE \E g \in Groups : /\ SetpointPath(s, g) = "legacy"
                               /\ a = Address(s, ActualCondensedWorkState1_16 + g)
                               /\ messages[a] = Condensed(s, g)
    BY <2>4, <1>2, <1>3, <1>4, <1>5, <1>8 DEF MessageIsCurrent
  <2> QED
    BY <2>1, <2>2, <2>3, <2>4 DEF MessageIsCurrent
<1>9. \A a \in DOMAIN PutAll(messages, m) : MessageIsCurrent(t, a, PutAll(messages, m)[a])
  BY <1>7, <1>8 DEF PutAll
<1>10. s.numberOfSections > 0 /\ s.numberOfSections \in Nat
  BY DEF Controlled, IsClientState
<1>11. SessionInv(t, PutAll(messages, m), measured, demand)
  BY <1>1, <1>6, <1>9, <1>10 DEF SessionInv
<1> QED
  BY <1>11 DEF t, m

\* Every message a demand sends has its type.
LEMMA DemandMessagesType ==
  ASSUME NEW s, IsClientState(s), NEW demand \in Demand,
         NEW a \in DOMAIN DemandMessages(s, demand)
  PROVE  IsMessage(a, DemandMessages(s, demand)[a])
<1> DEFINE t == WithDemand(s, demand)
           m == DemandMessages(s, demand)
<1>1. IsClientState(t)
  BY WithDemandType
<1>2. IsMap(s.ddiToElementNumber, DDI, ElementNumber)
  BY Zenon DEF IsClientState
<1>3. ASSUME NEW ddi \in DDI, HasDdi(s, ddi)
      PROVE  Address(s, ddi) \in DDI \X ElementNumber /\ Address(s, ddi)[1] = ddi
  BY <1>2, <1>3 DEF Address, HasDdi, IsMap
<1>4. /\ ActualWorkState \in DDI /\ SetpointWorkState \in DDI
  BY DEF ActualWorkState, SetpointWorkState, DDI
<1>5. \A g : /\ SetpointPath(s, g) = "condensed" => HasDdi(s, SetpointCondensedWorkState1_16 + g)
             /\ SetpointPath(s, g) = "legacy" => HasDdi(s, ActualCondensedWorkState1_16 + g)
  BY DEF SetpointPath
<1> HIDE DEF t, m
<1>6. CASE \E g \in Groups : /\ SetpointPath(s, g) = "condensed"
                             /\ a = Address(s, SetpointCondensedWorkState1_16 + g)
                             /\ m[a] = Condensed(t, g)
  <2>1. PICK g \in Groups : /\ SetpointPath(s, g) = "condensed"
                            /\ a = Address(s, SetpointCondensedWorkState1_16 + g)
                            /\ m[a] = Condensed(t, g)
    BY <1>6
  <2>2. a \in DDI \X ElementNumber /\ IsCondensed(a[1])
    BY <2>1, <1>3, <1>5, CondensedNumbers
  <2>3. m[a] \in CondensedValue
    BY <2>1, <1>1, CondensedType
  <2> QED
    BY <2>2, <2>3 DEF IsMessage, m
<1>7. CASE \E g \in Groups : /\ SetpointPath(s, g) = "legacy"
                             /\ a = Address(s, ActualCondensedWorkState1_16 + g)
                             /\ m[a] = Condensed(t, g)
  <2>1. PICK g \in Groups : /\ SetpointPath(s, g) = "legacy"
                            /\ a = Address(s, ActualCondensedWorkState1_16 + g)
                            /\ m[a] = Condensed(t, g)
    BY <1>7
  <2>2. a \in DDI \X ElementNumber /\ IsCondensed(a[1])
    BY <2>1, <1>3, <1>5, CondensedNumbers
  <2>3. m[a] \in CondensedValue
    BY <2>1, <1>1, CondensedType
  <2> QED
    BY <2>2, <2>3 DEF IsMessage, m
<1>8. CASE /\ \E i \in Sections(s) : a = <<ActualWorkState, s.sectionToElementNumber[i]>>
           /\ m[a] \in {0, 1}
  <2>1. s.sectionToElementNumber \in [Sections(s) -> ElementNumber]
    BY Zenon DEF IsClientState
  <2> QED
    BY <1>4, <1>8, <2>1, CondensedNumbers DEF IsMessage, m
<1>9. CASE /\ HasDdi(s, SetpointWorkState)
           /\ a = Address(s, SetpointWorkState)
           /\ m[a] \in {0, 1}
  <2>1. a \in DDI \X ElementNumber /\ ~IsCondensed(a[1])
    BY <1>3, <1>4, <1>9, CondensedNumbers
  <2> QED
    BY <1>9, <2>1 DEF IsMessage, m
<1> QED
  BY <1>6, <1>7, <1>8, <1>9, DemandMessagesFact DEF t, m

---------------------------------------------------------------------------
(* The invariant is inductive. *)

\* The server starts without clients.
LEMMA InitIInv == Init => IInv
<1> SUFFICES ASSUME Init PROVE IInv
  OBVIOUS
<1>1. demanded \in [CF -> Demand] /\ requestedMode \in [CF -> {"none", "automatic", "manual"}]
  BY DEF Init, Demand
<1>2. DOMAIN clients = {} /\ DOMAIN uploadedPools = {}
  BY EmptyMapFact DEF Init
<1>3. DOMAIN told = CF /\ DOMAIN subscribed = CF /\ \A c \in CF : told[c] = EmptyMap /\ subscribed[c] = {}
  BY DEF Init
<1> QED
  BY <1>1, <1>2, <1>3, EmptyMapFact DEF IInv, TypeOK

\* A new entry for one client, the session of that client being in order.
LEMMA PutClient ==
  ASSUME IInv, NEW c \in CF, NEW s, IsClientState(s),
         clients' = Put(clients, c, s),
         DOMAIN uploadedPools' \subseteq CF,
         \A d \in DOMAIN uploadedPools' : uploadedPools'[d] \in Seq(Pools),
         DOMAIN told' = CF, DOMAIN subscribed' = CF,
         demanded' \in [CF -> Demand],
         requestedMode' \in [CF -> {"none", "automatic", "manual"}],
         \A d \in CF \ {c} : told'[d] = told[d] /\ subscribed'[d] = subscribed[d]
                             /\ demanded'[d] = demanded[d],
         \A a \in DOMAIN told'[c] : IsMessage(a, told'[c][a]),
         SessionInv(s, told'[c], subscribed'[c], demanded'[c])
  PROVE  IInv'
<1>1. /\ DOMAIN clients' = DOMAIN clients \cup {c}
      /\ clients'[c] = s
      /\ \A d \in DOMAIN clients \ {c} : clients'[d] = clients[d]
  BY DEF Put
<1>2. DOMAIN clients' \subseteq CF
  BY <1>1 DEF IInv, TypeOK
<1>3. \A d \in DOMAIN clients' : IsClientState(clients'[d])
  BY <1>1 DEF IInv, TypeOK
<1>4. \A d \in CF : \A a \in DOMAIN told'[d] : IsMessage(a, told'[d][a])
  BY DEF IInv, TypeOK
<1>5. TypeOK'
  BY <1>2, <1>3, <1>4 DEF TypeOK
<1>6. \A d \in CF :
        IF d \in DOMAIN clients'
        THEN SessionInv(clients'[d], told'[d], subscribed'[d], demanded'[d])
        ELSE told'[d] = EmptyMap /\ subscribed'[d] = {}
  <2> TAKE d \in CF
  <2>1. CASE d = c
    BY <1>1, <2>1
  <2>2. CASE d # c
    BY <1>1, <2>2 DEF IInv
  <2> QED
    BY <2>1, <2>2
<1> QED
  BY <1>5, <1>6 DEF IInv

\* An entry erased, its session forgotten.
LEMMA EraseClient ==
  ASSUME IInv, NEW c \in CF, clients' = Erase(clients, c), NewSession(c),
         DOMAIN uploadedPools' \subseteq CF,
         \A d \in DOMAIN uploadedPools' : uploadedPools'[d] \in Seq(Pools)
  PROVE  IInv'
<1>1. /\ DOMAIN clients' = DOMAIN clients \ {c}
      /\ \A d \in DOMAIN clients' : clients'[d] = clients[d]
  BY DEF Erase
<1>2. /\ DOMAIN told' = CF /\ DOMAIN subscribed' = CF
      /\ told'[c] = EmptyMap /\ subscribed'[c] = {}
      /\ \A d \in CF \ {c} : told'[d] = told[d] /\ subscribed'[d] = subscribed[d]
                             /\ demanded'[d] = demanded[d]
      /\ demanded' \in [CF -> Demand]
      /\ requestedMode' \in [CF -> {"none", "automatic", "manual"}]
  BY DEF NewSession, IInv, TypeOK, Demand
<1>3. \A d \in CF : \A a \in DOMAIN told'[d] : IsMessage(a, told'[d][a])
  <2> TAKE d \in CF
  <2>1. CASE d = c
    BY <1>2, <2>1, EmptyMapFact
  <2>2. CASE d # c
    BY <1>2, <2>2 DEF IInv, TypeOK
  <2> QED
    BY <2>1, <2>2
<1>4. TypeOK'
  BY <1>1, <1>2, <1>3 DEF IInv, TypeOK
<1>5. \A d \in CF :
        IF d \in DOMAIN clients'
        THEN SessionInv(clients'[d], told'[d], subscribed'[d], demanded'[d])
        ELSE told'[d] = EmptyMap /\ subscribed'[d] = {}
  BY <1>1, <1>2 DEF IInv
<1> QED
  BY <1>4, <1>5 DEF IInv

\* Every client's entry and session updated in one pass over the map.
LEMMA MapClients ==
  ASSUME IInv, DOMAIN clients' = DOMAIN clients, uploadedPools' = uploadedPools,
         DOMAIN told' = CF, DOMAIN subscribed' = CF,
         demanded' \in [CF -> Demand],
         requestedMode' \in [CF -> {"none", "automatic", "manual"}],
         \A c \in CF \ DOMAIN clients : told'[c] = told[c] /\ subscribed'[c] = subscribed[c],
         \A c \in DOMAIN clients :
            /\ IsClientState(clients'[c])
            /\ \A a \in DOMAIN told'[c] : IsMessage(a, told'[c][a])
            /\ SessionInv(clients'[c], told'[c], subscribed'[c], demanded'[c])
  PROVE  IInv'
<1>1. \A c \in CF : \A a \in DOMAIN told'[c] : IsMessage(a, told'[c][a])
  BY DEF IInv, TypeOK
<1>2. TypeOK'
  BY <1>1 DEF IInv, TypeOK
<1>3. \A d \in CF :
        IF d \in DOMAIN clients'
        THEN SessionInv(clients'[d], told'[d], subscribed'[d], demanded'[d])
        ELSE told'[d] = EmptyMap /\ subscribed'[d] = {}
  BY DEF IInv
<1> QED
  BY <1>2, <1>3 DEF IInv

\* clients[partner] is well formed, inserted or not, and its session in order.
LEMMA ClientOfFact ==
  ASSUME IInv, NEW c \in CF
  PROVE  /\ IsClientState(ClientOf(c))
         /\ SessionInv(ClientOf(c), told[c], subscribed[c], demanded[c])
<1>1. CASE c \in DOMAIN clients
  BY <1>1 DEF IInv, TypeOK, ClientOf
<1>2. CASE c \notin DOMAIN clients
  BY <1>2, DefaultClientType, DefaultSession DEF IInv, ClientOf
<1> QED
  BY <1>1, <1>2

\* store_device_descriptor_object_pool() and activate_object_pool(), refusals
\* included.
LEMMA StoreActivateIInv ==
  ASSUME IInv, NEW c \in CF
  PROVE  /\ StorePool(c) => IInv'
         /\ ActivatePool(c) => IInv'
         /\ RefusePool(c) => IInv'
<1>0. /\ DOMAIN uploadedPools \subseteq CF
      /\ \A d \in DOMAIN uploadedPools : uploadedPools[d] \in Seq(Pools)
  BY DEF IInv, TypeOK
<1>1. ASSUME UNCHANGED clients, SameSessions, DOMAIN uploadedPools' \subseteq CF,
             \A d \in DOMAIN uploadedPools' : uploadedPools'[d] \in Seq(Pools)
      PROVE  IInv'
  BY <1>1 DEF IInv, TypeOK, SameSessions
<1>2. ASSUME StorePool(c) PROVE IInv'
  <2> DEFINE queue == IF c \in DOMAIN uploadedPools THEN uploadedPools[c] ELSE <<>>
  <2>1. PICK pool \in Pools : uploadedPools' = Put(uploadedPools, c, Append(queue, pool))
    BY <1>2 DEF StorePool
  <2>2. Append(queue, pool) \in Seq(Pools)
    BY <1>0
  <2> HIDE DEF queue
  <2>3. DOMAIN uploadedPools' \subseteq CF /\ \A d \in DOMAIN uploadedPools' : uploadedPools'[d] \in Seq(Pools)
    BY <1>0, <2>1, <2>2 DEF Put
  <2> QED
    BY <1>1, <1>2, <2>3 DEF StorePool
<1>3. ASSUME uploadedPools' = [uploadedPools EXCEPT ![c] = <<>>]
      PROVE  /\ DOMAIN uploadedPools' \subseteq CF
             /\ \A d \in DOMAIN uploadedPools' : uploadedPools'[d] \in Seq(Pools)
  BY <1>0, <1>3
<1>4. ASSUME ActivatePool(c) PROVE IInv'
  <2>1. PICK pool \in Deserialized(uploadedPools[c]) : clients' = Put(clients, c, NewClient(pool))
    BY <1>4 DEF ActivatePool
  <2>2. pool \in Pools
    BY <1>0, <1>4, <2>1 DEF Deserialized, ActivatePool
  <2>3. /\ DOMAIN told' = CF /\ DOMAIN subscribed' = CF
        /\ told'[c] = EmptyMap /\ subscribed'[c] = {}
        /\ demanded'[c] = [i \in 0..(DemandSize - 1) |-> FALSE]
        /\ \A d \in CF \ {c} : told'[d] = told[d] /\ subscribed'[d] = subscribed[d]
                               /\ demanded'[d] = demanded[d]
        /\ demanded' \in [CF -> Demand]
        /\ requestedMode' \in [CF -> {"none", "automatic", "manual"}]
    BY <1>4 DEF ActivatePool, NewSession, IInv, TypeOK, Demand
  <2>4. SessionInv(NewClient(pool), told'[c], subscribed'[c], demanded'[c])
    BY <2>2, <2>3, NewSessionFact
  <2>5. IsClientState(NewClient(pool))
    BY <2>2, NewClientType
  <2>6. DOMAIN uploadedPools' \subseteq CF /\ \A d \in DOMAIN uploadedPools' : uploadedPools'[d] \in Seq(Pools)
    BY <1>3, <1>4 DEF ActivatePool
  <2>7. \A a \in DOMAIN told'[c] : IsMessage(a, told'[c][a])
    BY <2>3, EmptyMapFact
  <2> QED
    BY <2>1, <2>3, <2>4, <2>5, <2>6, <2>7, PutClient
<1>5. ASSUME RefusePool(c) PROVE IInv'
  BY <1>0, <1>1, <1>3, <1>5 DEF RefusePool
<1> QED
  BY <1>2, <1>4, <1>5

\* deactivate, delete and on_client_timeout(): the entry and its session go.
LEMMA LeaveIInv ==
  ASSUME IInv, NEW c \in CF, DropPool(c) \/ ClientTimeout(c)
  PROVE  IInv'
<1>1. /\ DOMAIN uploadedPools' \subseteq CF
      /\ \A d \in DOMAIN uploadedPools' : uploadedPools'[d] \in Seq(Pools)
  BY DEF IInv, TypeOK, DropPool, ClientTimeout, Erase
<1>2. clients' = Erase(clients, c) /\ NewSession(c)
  BY DEF DropPool, ClientTimeout
<1> QED
  BY <1>1, <1>2, EraseClient

\* on_value_command(): no report touches what a session depends on.
LEMMA ValueCommandIInv ==
  ASSUME IInv, NEW c \in CF, ValueCommand(c)
  PROVE  IInv'
<1> DEFINE s == ClientOf(c)
<1>1. IsClientState(s) /\ SessionInv(s, told[c], subscribed[c], demanded[c])
  BY ClientOfFact
<1> HIDE DEF s
<1>2. ASSUME NEW t, IsClientState(t), clients' = Put(clients, c, t),
             t.pool = s.pool, t.numberOfSections = s.numberOfSections,
             t.ddiToElementNumber = s.ddiToElementNumber,
             t.areMeasurementCommandsSent = s.areMeasurementCommandsSent,
             t.usesPerElementControl = s.usesPerElementControl,
             t.sectionSetpointStates = s.sectionSetpointStates
      PROVE  IInv'
  <2>1. SessionInv(t, told[c], subscribed[c], demanded[c])
    BY <1>1, <1>2, SessionDepends
  <2>2. /\ told' = told /\ subscribed' = subscribed /\ demanded' = demanded
        /\ requestedMode' = requestedMode /\ uploadedPools' = uploadedPools
    BY DEF ValueCommand, SameSessions
  <2> QED
    BY <1>2, <2>1, <2>2, PutClient DEF IInv, TypeOK
<1>3. CASE ReportCondensed(c)
  <2>1. PICK g \in Groups, e \in ReportedElements, states \in ReportedStates :
          clients' = Put(clients, c, WithCondensedReport(s, g, e, states))
    BY <1>3 DEF ReportCondensed, s
  <2>2. e \in ElementNumber /\ states \in CondensedValue
    BY ReportsAssumption
  <2>3. IsClientState(WithCondensedReport(s, g, e, states))
    BY <1>1, <2>2, CondensedReportType
  <2>4. LET t == WithCondensedReport(s, g, e, states)
        IN  /\ t.pool = s.pool /\ t.numberOfSections = s.numberOfSections
            /\ t.ddiToElementNumber = s.ddiToElementNumber
            /\ t.areMeasurementCommandsSent = s.areMeasurementCommandsSent
            /\ t.usesPerElementControl = s.usesPerElementControl
            /\ t.sectionSetpointStates = s.sectionSetpointStates
    BY <1>1 DEF WithCondensedReport, IsClientState, ClientFields
  <2> QED
    BY <1>2, <2>1, <2>3, <2>4
<1>4. CASE ReportControlState(c)
  <2>1. PICK enabled \in BOOLEAN :
          clients' = Put(clients, c, [s EXCEPT !.isSectionControlEnabled = enabled])
    BY <1>4 DEF ReportControlState, s
  <2>2. IsClientState([s EXCEPT !.isSectionControlEnabled = enabled])
    BY <1>1, ControlFlagType
  <2>3. LET t == [s EXCEPT !.isSectionControlEnabled = enabled]
        IN  /\ t.pool = s.pool /\ t.numberOfSections = s.numberOfSections
            /\ t.ddiToElementNumber = s.ddiToElementNumber
            /\ t.areMeasurementCommandsSent = s.areMeasurementCommandsSent
            /\ t.usesPerElementControl = s.usesPerElementControl
            /\ t.sectionSetpointStates = s.sectionSetpointStates
    BY <1>1 DEF IsClientState, ClientFields
  <2> QED
    BY <1>2, <2>1, <2>2, <2>3
<1>5. CASE ReportWorkState(c)
  <2>1. PICK e \in ReportedElements, working \in BOOLEAN :
          clients' = Put(clients, c, WithWorkState(s, e, working))
    BY <1>5 DEF ReportWorkState, s
  <2>2. e \in ElementNumber
    BY ReportsAssumption
  <2>3. IsClientState(WithWorkState(s, e, working))
    BY <1>1, <2>2, WorkStateType
  <2>4. LET t == WithWorkState(s, e, working)
        IN  /\ t.pool = s.pool /\ t.numberOfSections = s.numberOfSections
            /\ t.ddiToElementNumber = s.ddiToElementNumber
            /\ t.areMeasurementCommandsSent = s.areMeasurementCommandsSent
            /\ t.usesPerElementControl = s.usesPerElementControl
            /\ t.sectionSetpointStates = s.sectionSetpointStates
    BY <1>1 DEF WithWorkState, IsClientState, ClientFields
  <2> QED
    BY <1>2, <2>1, <2>3, <2>4
<1> QED
  BY <1>3, <1>4, <1>5 DEF ValueCommand

\* request_measurement_commands() completes the maps of clients that have none.
LEMMA MeasurementIInv ==
  ASSUME IInv, RequestMeasurementCommands
  PROVE  IInv'
<1>1. /\ DOMAIN clients' = DOMAIN clients /\ DOMAIN clients \subseteq CF
      /\ uploadedPools' = uploadedPools /\ told' = told
      /\ demanded' = demanded /\ requestedMode' = requestedMode
      /\ DOMAIN subscribed' = CF
      /\ \A c \in CF \ DOMAIN clients : subscribed'[c] = subscribed[c]
  BY DEF RequestMeasurementCommands, IInv, TypeOK
<1>2. ASSUME NEW c \in DOMAIN clients
      PROVE  /\ IsClientState(clients'[c])
             /\ SessionInv(clients'[c], told'[c], subscribed'[c], demanded'[c])
  <2>1. IsClientState(clients[c]) /\ SessionInv(clients[c], told[c], subscribed[c], demanded[c])
    BY <1>1 DEF IInv, TypeOK
  <2>2. CASE NeedsMeasurement(clients[c])
    <3>1. clients'[c] = Measured(clients[c])
      BY <2>2 DEF RequestMeasurementCommands
    <3> QED
      BY <1>1, <2>1, <2>2, <3>1, MeasuredType, MeasuredSession
  <2>3. CASE ~NeedsMeasurement(clients[c])
    <3>1. clients'[c] = clients[c] /\ subscribed'[c] = subscribed[c]
      BY <1>1, <2>3 DEF RequestMeasurementCommands, ClientOf
    <3> QED
      BY <1>1, <2>1, <3>1
  <2> QED
    BY <2>2, <2>3
<1>3. \A c \in DOMAIN clients : \A a \in DOMAIN told'[c] : IsMessage(a, told'[c][a])
  BY <1>1 DEF IInv, TypeOK
<1> QED
  BY <1>1, <1>2, <1>3, MapClients DEF IInv, TypeOK

\* update_section_states(), for all controlled clients at once.
LEMMA SectionStatesIInv ==
  ASSUME IInv, UpdateSectionStates
  PROVE  IInv'
<1>1. PICK demand \in Demand :
        /\ clients' = [c \in DOMAIN clients |->
                         IF Controlled(clients[c]) THEN WithDemand(clients[c], demand) ELSE clients[c]]
        /\ told' = [c \in CF |->
                      IF c \in DOMAIN clients /\ Controlled(ClientOf(c))
                      THEN PutAll(told[c], DemandMessages(clients[c], demand)) ELSE told[c]]
        /\ demanded' = [c \in CF |-> IF c \in DOMAIN clients /\ Controlled(ClientOf(c))
                                     THEN demand ELSE demanded[c]]
  BY DEF UpdateSectionStates
<1>2. /\ uploadedPools' = uploadedPools /\ subscribed' = subscribed /\ requestedMode' = requestedMode
      /\ DOMAIN clients \subseteq CF
  BY DEF UpdateSectionStates, IInv, TypeOK
<1>3. demanded' \in [CF -> Demand]
  BY <1>1 DEF IInv, TypeOK
<1>4. ASSUME NEW c \in DOMAIN clients
      PROVE  /\ IsClientState(clients'[c])
             /\ \A a \in DOMAIN told'[c] : IsMessage(a, told'[c][a])
             /\ SessionInv(clients'[c], told'[c], subscribed'[c], demanded'[c])
  <2>1. /\ IsClientState(clients[c]) /\ SessionInv(clients[c], told[c], subscribed[c], demanded[c])
        /\ \A a \in DOMAIN told[c] : IsMessage(a, told[c][a])
    BY <1>2 DEF IInv, TypeOK
  <2>2. CASE Controlled(clients[c])
    <3>1. /\ clients'[c] = WithDemand(clients[c], demand)
          /\ told'[c] = PutAll(told[c], DemandMessages(clients[c], demand))
          /\ demanded'[c] = demand
      BY <1>1, <1>2, <2>2 DEF ClientOf
    <3>2. \A a \in DOMAIN told'[c] : IsMessage(a, told'[c][a])
      BY <2>1, <3>1, DemandMessagesType DEF PutAll
    <3> QED
      BY <1>2, <2>1, <2>2, <3>1, <3>2, WithDemandType, DemandSession
  <2>3. CASE ~Controlled(clients[c])
    <3>1. clients'[c] = clients[c] /\ told'[c] = told[c] /\ demanded'[c] = demanded[c]
      BY <1>1, <1>2, <2>3 DEF ClientOf
    <3> QED
      BY <1>2, <2>1, <3>1
  <2> QED
    BY <2>2, <2>3
<1>5. /\ DOMAIN clients' = DOMAIN clients /\ DOMAIN told' = CF /\ DOMAIN subscribed' = CF
      /\ \A c \in CF \ DOMAIN clients : told'[c] = told[c] /\ subscribed'[c] = subscribed[c]
  BY <1>1, <1>2 DEF IInv, TypeOK
<1> QED
  BY <1>2, <1>3, <1>4, <1>5, MapClients DEF IInv, TypeOK

\* A message on a DDI outside the condensed runs leaves a session in order.
LEMMA OtherMessage ==
  ASSUME NEW s, IsClientState(s), NEW messages, NEW measured, NEW demand,
         SessionInv(s, messages, measured, demand),
         \A a \in DOMAIN messages : IsMessage(a, messages[a]),
         NEW ddi \in DDI, ~IsCondensed(ddi), HasDdi(s, ddi), NEW value \in Nat
  PROVE  /\ SessionInv(s, Put(messages, Address(s, ddi), value), measured, demand)
         /\ \A a \in DOMAIN Put(messages, Address(s, ddi), value) :
               IsMessage(a, Put(messages, Address(s, ddi), value)[a])
<1>1. Address(s, ddi) \in DDI \X ElementNumber /\ Address(s, ddi)[1] = ddi
  <2>1. IsMap(s.ddiToElementNumber, DDI, ElementNumber)
    BY Zenon DEF IsClientState
  <2> QED
    BY <2>1 DEF Address, HasDdi, IsMap
<1>2. s.numberOfSections > 0 /\ s.numberOfSections \in Nat
  <2>1. s.areMeasurementCommandsSent
    BY EmptyMapFact DEF SessionInv, HasDdi
  <2> QED
    BY <2>1 DEF SessionInv, IsClientState
<1>3. IsMessage(Address(s, ddi), value)
  BY <1>1 DEF IsMessage
<1>4. MessageIsCurrent(s, Address(s, ddi), value)
  BY <1>1 DEF MessageIsCurrent
<1>5. SessionInv(s, Put(messages, Address(s, ddi), value), measured, demand)
  BY <1>2, <1>4 DEF SessionInv, Put
<1> QED
  BY <1>3, <1>5 DEF Put

\* update_section_control_enabled() sends on a DDI outside the condensed runs.
LEMMA ControlEnabledIInv ==
  ASSUME IInv, UpdateSectionControlEnabled
  PROVE  IInv'
<1>1. PICK enabled \in BOOLEAN :
        /\ clients' = [c \in DOMAIN clients |->
                         [clients[c] EXCEPT !.isSectionControlEnabled = enabled]]
        /\ told' = [c \in CF |->
                      IF c \in DOMAIN clients /\ SendsControlState(ClientOf(c))
                      THEN Put(told[c], Address(clients[c], SectionControlState),
                               IF enabled THEN 1 ELSE 0)
                      ELSE told[c]]
        /\ requestedMode' = [c \in CF |-> IF c \in DOMAIN clients
                                          THEN (IF enabled THEN "automatic" ELSE "manual")
                                          ELSE requestedMode[c]]
  BY DEF UpdateSectionControlEnabled
<1>2. /\ uploadedPools' = uploadedPools /\ subscribed' = subscribed /\ demanded' = demanded
      /\ DOMAIN clients \subseteq CF
  BY DEF UpdateSectionControlEnabled, IInv, TypeOK
<1>3. requestedMode' \in [CF -> {"none", "automatic", "manual"}]
  BY <1>1 DEF IInv, TypeOK
<1>4. ASSUME NEW c \in DOMAIN clients
      PROVE  /\ IsClientState(clients'[c])
             /\ \A a \in DOMAIN told'[c] : IsMessage(a, told'[c][a])
             /\ SessionInv(clients'[c], told'[c], subscribed'[c], demanded'[c])
  <2> DEFINE s == clients[c]
             t == [s EXCEPT !.isSectionControlEnabled = enabled]
             v == IF enabled THEN 1 ELSE 0
  <2>1. /\ IsClientState(s) /\ SessionInv(s, told[c], subscribed[c], demanded[c])
        /\ \A a \in DOMAIN told[c] : IsMessage(a, told[c][a])
    BY <1>2 DEF IInv, TypeOK
  <2>2. clients'[c] = t
    BY <1>1
  <2>3. IsClientState(t)
    BY <2>1, ControlFlagType
  <2>4. /\ t.pool = s.pool /\ t.numberOfSections = s.numberOfSections
        /\ t.ddiToElementNumber = s.ddiToElementNumber
        /\ t.areMeasurementCommandsSent = s.areMeasurementCommandsSent
        /\ t.usesPerElementControl = s.usesPerElementControl
        /\ t.sectionSetpointStates = s.sectionSetpointStates
    BY <2>1 DEF IsClientState, ClientFields
  <2>5. v \in Nat /\ SectionControlState \in DDI
    BY DEF SectionControlState, DDI
  <2>6. CASE SendsControlState(s)
    <3>1. told'[c] = Put(told[c], Address(s, SectionControlState), v)
      BY <1>1, <1>2, <2>6 DEF ClientOf
    <3> HIDE DEF s, t, v
    <3>2. HasDdi(s, SectionControlState)
      BY <2>6 DEF SendsControlState
    <3>3. /\ SessionInv(s, told'[c], subscribed[c], demanded[c])
          /\ \A a \in DOMAIN told'[c] : IsMessage(a, told'[c][a])
      BY <2>1, <2>5, <3>1, <3>2, OtherMessage, CondensedNumbers
    <3>4. SessionInv(t, told'[c], subscribed[c], demanded[c])
      BY <2>4, <3>3, SessionDepends
    <3> QED
      BY <1>2, <2>2, <2>3, <3>3, <3>4
  <2>7. CASE ~SendsControlState(s)
    <3>1. told'[c] = told[c]
      BY <1>1, <1>2, <2>7 DEF ClientOf
    <3> HIDE DEF s, t
    <3>2. SessionInv(t, told[c], subscribed[c], demanded[c])
      BY <2>1, <2>4, SessionDepends
    <3> QED
      BY <1>2, <2>1, <2>2, <2>3, <3>1, <3>2
  <2> QED
    BY <2>6, <2>7
<1>5. /\ DOMAIN clients' = DOMAIN clients /\ DOMAIN told' = CF /\ DOMAIN subscribed' = CF
      /\ \A c \in CF \ DOMAIN clients : told'[c] = told[c] /\ subscribed'[c] = subscribed[c]
  BY <1>1, <1>2 DEF IInv, TypeOK
<1> QED
  BY <1>2, <1>3, <1>4, <1>5, MapClients DEF IInv, TypeOK

\* send_gnss_quality() reaches mapped clients only, hence none without sections.
LEMMA GnssIInv ==
  ASSUME IInv, SendGnssQuality
  PROVE  IInv'
<1>1. PICK quality \in GnssQualities :
        told' = [c \in CF |->
                  IF c \in DOMAIN clients /\ HasDdi(ClientOf(c), GNSSQuality)
                  THEN Put(told[c], Address(clients[c], GNSSQuality), quality)
                  ELSE told[c]]
  BY DEF SendGnssQuality
<1>2. /\ uploadedPools' = uploadedPools /\ subscribed' = subscribed /\ demanded' = demanded
      /\ requestedMode' = requestedMode /\ clients' = clients /\ DOMAIN clients \subseteq CF
  BY DEF SendGnssQuality, IInv, TypeOK
<1>3. ASSUME NEW c \in DOMAIN clients
      PROVE  /\ IsClientState(clients'[c])
             /\ \A a \in DOMAIN told'[c] : IsMessage(a, told'[c][a])
             /\ SessionInv(clients'[c], told'[c], subscribed'[c], demanded'[c])
  <2>1. /\ IsClientState(clients[c]) /\ SessionInv(clients[c], told[c], subscribed[c], demanded[c])
        /\ \A a \in DOMAIN told[c] : IsMessage(a, told[c][a])
    BY <1>2 DEF IInv, TypeOK
  <2>2. CASE HasDdi(clients[c], GNSSQuality)
    <3>1. told'[c] = Put(told[c], Address(clients[c], GNSSQuality), quality)
      BY <1>1, <1>2, <2>2 DEF ClientOf
    <3>2. quality \in Nat /\ GNSSQuality \in DDI
      BY ReportsAssumption DEF GNSSQuality, DDI
    <3>3. /\ SessionInv(clients[c], told'[c], subscribed[c], demanded[c])
          /\ \A a \in DOMAIN told'[c] : IsMessage(a, told'[c][a])
      BY <2>1, <2>2, <3>1, <3>2, OtherMessage, CondensedNumbers
    <3> QED
      BY <1>2, <2>1, <3>3
  <2>3. CASE ~HasDdi(clients[c], GNSSQuality)
    <3>1. told'[c] = told[c]
      BY <1>1, <1>2, <2>3 DEF ClientOf
    <3> QED
      BY <1>2, <2>1, <3>1
  <2> QED
    BY <2>2, <2>3
<1>4. /\ DOMAIN told' = CF /\ DOMAIN subscribed' = CF
      /\ \A c \in CF \ DOMAIN clients : told'[c] = told[c] /\ subscribed'[c] = subscribed[c]
  BY <1>1, <1>2 DEF IInv, TypeOK
<1> QED
  BY <1>2, <1>3, <1>4, MapClients DEF IInv, TypeOK

\* Every step keeps the inductive invariant.
LEMMA NextIInv == IInv /\ [Next]_vars => IInv'
<1> SUFFICES ASSUME IInv, [Next]_vars PROVE IInv'
  OBVIOUS
<1>1. CASE UNCHANGED vars
  BY <1>1 DEF IInv, TypeOK, vars
<1>2. CASE MainThread
  BY <1>2, MeasurementIInv, SectionStatesIInv, ControlEnabledIInv, GnssIInv DEF MainThread
<1>3. CASE \E c \in CF : CanThread(c)
  BY <1>3, StoreActivateIInv, LeaveIInv, ValueCommandIInv DEF CanThread
<1> QED
  BY <1>1, <1>2, <1>3 DEF Next

---------------------------------------------------------------------------
(* The theorems. *)

\* The inductive invariant holds throughout.
LEMMA Invariance == Spec => []IInv
  BY InitIInv, NextIInv, PTL DEF Spec

\* Type correctness of the server: in every reachable state the vectors and
\* maps of each ClientState are in step with its section count.
THEOREM TypeCorrect == Spec => []TypeOK
<1>1. IInv => TypeOK
  BY DEF IInv
<1> QED
  BY <1>1, Invariance, PTL

\* No client without sections is ever sent a command, for any pools, any number
\* of clients and any order of uploads, timeouts, reports and main loop passes.
THEOREM TractorsAreLeftAlone == Spec => []TractorUntouched
<1>1. IInv => TractorUntouched
  BY DEF IInv, SessionInv, TractorUntouched
<1> QED
  BY <1>1, Invariance, PTL

\* The DDI map is empty before the measurement commands and complete after.
THEOREM MapsAreComplete == Spec => []MappedExactlyWhenMeasured
<1>1. IInv => MappedExactlyWhenMeasured
  BY DEF IInv, TypeOK, SessionInv, MappedExactlyWhenMeasured
<1> QED
  BY <1>1, Invariance, PTL

\* Whatever condensed value an implement was last sent is the last demand.
THEOREM CondensedIsDemand == Spec => []CondensedFollowsDemand
<1>1. ASSUME NEW s, IsClientState(s), NEW demand, SetpointsAre(s, demand), NEW g \in Groups
      PROVE  Condensed(s, g) = DemandedValue(s.numberOfSections, g, demand)
  <2> SUFFICES ASSUME NEW i \in 0..(SectionsPerMessage - 1)
               PROVE  GetSectionSetpointState(s, SectionsPerMessage * g + i) =
                        LET section == SectionsPerMessage * g + i
                        IN  IF section >= s.numberOfSections THEN NOT_INSTALLED
                            ELSE IF section < DemandSize /\ demand[section] THEN ON ELSE OFF
    BY DEF Condensed, DemandedValue
  <2>1. SectionsPerMessage * g + i \in Nat /\ s.numberOfSections \in Nat
    <3>1. s.numberOfSections \in 0..255
      BY <1>1 DEF IsClientState
    <3> QED
      BY <3>1, SectionsAssumption DEF Groups
  <2>2. CASE SectionsPerMessage * g + i < s.numberOfSections
    <3>1. SectionsPerMessage * g + i \in Sections(s)
      BY <2>1, <2>2 DEF Sections
    <3> QED
      BY <1>1, <2>1, <2>2, <3>1 DEF SetpointsAre, GetSectionSetpointState
  <2>3. CASE ~(SectionsPerMessage * g + i < s.numberOfSections)
    BY <2>1, <2>3 DEF GetSectionSetpointState
  <2> QED
    BY <2>2, <2>3
<1>2. ASSUME NEW s, NEW a, NEW value, MessageIsCurrent(s, a, value), NEW g \in Groups,
             a[1] \in {SetpointCondensedWorkState1_16 + g, ActualCondensedWorkState1_16 + g}
      PROVE  value = Condensed(s, g)
  <2>1. IsCondensed(a[1])
    BY <1>2, CondensedNumbers
  <2>2. \A ddi : Address(s, ddi)[1] = ddi
    BY DEF Address
  <2>3. \A h \in Groups :
          /\ SetpointCondensedWorkState1_16 + h = SetpointCondensedWorkState1_16 + g => h = g
          /\ ActualCondensedWorkState1_16 + h = ActualCondensedWorkState1_16 + g => h = g
          /\ SetpointCondensedWorkState1_16 + h # ActualCondensedWorkState1_16 + g
          /\ ActualCondensedWorkState1_16 + h # SetpointCondensedWorkState1_16 + g
    BY DEF Groups, SetpointCondensedWorkState1_16, ActualCondensedWorkState1_16
  <2> QED
    BY <1>2, <2>1, <2>2, <2>3 DEF MessageIsCurrent
<1>3. IInv => CondensedFollowsDemand
  <2> SUFFICES ASSUME IInv, NEW c \in DOMAIN clients, NEW a \in DOMAIN told[c], NEW g \in Groups,
                      a[1] \in {SetpointCondensedWorkState1_16 + g, ActualCondensedWorkState1_16 + g}
               PROVE  told[c][a] = DemandedValue(clients[c].numberOfSections, g, demanded[c])
    BY DEF CondensedFollowsDemand
  <2>1. /\ IsClientState(clients[c])
        /\ SetpointsAre(clients[c], demanded[c])
        /\ MessageIsCurrent(clients[c], a, told[c][a])
    BY DEF IInv, TypeOK, SessionInv
  <2> QED
    BY <1>1, <1>2, <2>1
<1> QED
  BY <1>3, Invariance, PTL

\* A section with condensed control that the heartbeat reports as anything but
\* OFF has no ancestor that reported itself off: the walk of the heartbeat sees
\* every ancestor, since an element number has 16 bits and the map is finite.
THEOREM MasterOffIsAlwaysReported == Spec => []MasterOffIsReported
<1>1. TypeOK => MasterOffIsReported
  <2> SUFFICES ASSUME TypeOK, NEW c \in DOMAIN clients, NEW i \in Sections(clients[c]),
                      ~clients[c].usesPerElementControl, GetSectionActualState(clients[c], i) # OFF
               PROVE  ~MeetsAncestors(clients[c].elementParents, clients[c].sectionToElementNumber[i],
                                      {e \in DOMAIN clients[c].elementWorkStates :
                                         ~clients[c].elementWorkStates[e]})
    BY DEF MasterOffIsReported
  <2> DEFINE s == clients[c]
  <2> HIDE DEF s
  <2>1. IsClientState(s)
    BY DEF TypeOK, s
  <2>2. IsFiniteSet(DOMAIN s.elementParents)
    <3>1. IsFiniteSet(ElementNumber)
      <4>1. PICK n \in Int : n = 65535
        OBVIOUS
      <4>2. IsFiniteSet(0..n)
        BY FS_Interval
      <4>3. ElementNumber = 0..n
        BY <4>1 DEF ElementNumber
      <4> QED
        BY <4>2, <4>3
    <3>2. DOMAIN s.elementParents \in SUBSET ElementNumber
      BY <2>1 DEF IsClientState, IsMap
    <3> QED
      BY <3>1, <3>2, FS_Subset
  <2>3. ~IsElementOrParentOff(s, s.sectionToElementNumber[i])
    <3>1. s.numberOfSections \in 0..255 /\ i \in 0..(s.numberOfSections - 1)
      BY <2>1 DEF IsClientState, Sections, s
    <3>2. ~(i >= s.numberOfSections)
      BY <3>1
    <3> QED
      BY <3>2 DEF GetSectionActualState, s
  <2> QED
    BY <2>2, <2>3, ChainMeetsAncestors DEF IsElementOrParentOff, s
<1> QED
  BY <1>1, TypeCorrect, PTL

---------------------------------------------------------------------------
(* What one step does to one client, for the invariants that follow. *)

\* A report of the client: on_value_command() sends nothing.
Reported(s, t) ==
  \/ \E g \in Groups, e \in ReportedElements, states \in ReportedStates :
        t = WithCondensedReport(s, g, e, states)
  \/ \E e \in ReportedElements, working \in BOOLEAN : t = WithWorkState(s, e, working)
  \/ \E enabled \in BOOLEAN : t = [s EXCEPT !.isSectionControlEnabled = enabled]

\* The control state or the GNSS quality goes out, at most the mode changes.
OtherSent(s, t, before, after) ==
  /\ t = s \/ \E enabled \in BOOLEAN : t = [s EXCEPT !.isSectionControlEnabled = enabled]
  /\ \/ after = before
     \/ \E ddi \in {SectionControlState, GNSSQuality}, value \in Nat :
           HasDdi(s, ddi) /\ after = Put(before, Address(s, ddi), value)

\* The client s, having been sent `before', becomes t, having been sent `after'.
ClientStep(s, t, before, after) ==
  \/ \E pool \in Pools : t = NewClient(pool) /\ after = EmptyMap
  \/ Reported(s, t) /\ after = before
  \/ NeedsMeasurement(s) /\ t = Measured(s) /\ after = before
  \/ \E demand \in Demand : /\ Controlled(s)
                            /\ t = WithDemand(s, demand)
                            /\ after = PutAll(before, DemandMessages(s, demand))
  \/ OtherSent(s, t, before, after)

\* Every step is one of these for every client it leaves in the map.
LEMMA EveryClientStep ==
  ASSUME IInv, [Next]_vars, NEW c \in DOMAIN clients'
  PROVE  c \in CF /\ ClientStep(ClientOf(c), clients'[c], told[c], told'[c])
<1>0. /\ DOMAIN clients \subseteq CF /\ DOMAIN clients' \subseteq CF
      /\ DOMAIN told = CF
  BY NextIInv DEF IInv, TypeOK
<1>1. ASSUME clients' = clients, told' = told
      PROVE  ClientStep(ClientOf(c), clients'[c], told[c], told'[c])
  BY <1>1 DEF ClientStep, OtherSent, ClientOf
<1>2. CASE UNCHANGED vars
  BY <1>0, <1>1, <1>2 DEF vars
<1>3. CASE RequestMeasurementCommands
  <2>1. /\ c \in DOMAIN clients /\ told' = told
        /\ clients'[c] = IF NeedsMeasurement(clients[c]) THEN Measured(clients[c]) ELSE clients[c]
    BY <1>3 DEF RequestMeasurementCommands
  <2> QED
    BY <1>0, <2>1 DEF ClientStep, OtherSent, ClientOf
<1>4. CASE UpdateSectionStates
  <2>1. PICK demand \in Demand :
          /\ clients' = [d \in DOMAIN clients |->
                           IF Controlled(clients[d]) THEN WithDemand(clients[d], demand) ELSE clients[d]]
          /\ told' = [d \in CF |->
                        IF d \in DOMAIN clients /\ Controlled(ClientOf(d))
                        THEN PutAll(told[d], DemandMessages(clients[d], demand)) ELSE told[d]]
    BY <1>4 DEF UpdateSectionStates
  <2>2. /\ c \in DOMAIN clients /\ c \in CF /\ ClientOf(c) = clients[c]
        /\ clients'[c] = IF Controlled(clients[c]) THEN WithDemand(clients[c], demand) ELSE clients[c]
        /\ told'[c] = IF Controlled(clients[c])
                      THEN PutAll(told[c], DemandMessages(clients[c], demand)) ELSE told[c]
    BY <1>0, <2>1 DEF ClientOf
  <2> QED
    BY <2>2 DEF ClientStep, OtherSent
<1>5. CASE UpdateSectionControlEnabled
  <2>1. PICK enabled \in BOOLEAN :
          /\ clients' = [d \in DOMAIN clients |->
                           [clients[d] EXCEPT !.isSectionControlEnabled = enabled]]
          /\ told' = [d \in CF |->
                        IF d \in DOMAIN clients /\ SendsControlState(ClientOf(d))
                        THEN Put(told[d], Address(clients[d], SectionControlState),
                                 IF enabled THEN 1 ELSE 0)
                        ELSE told[d]]
    BY <1>5 DEF UpdateSectionControlEnabled
  <2> DEFINE v == IF enabled THEN 1 ELSE 0
  <2>2. /\ c \in DOMAIN clients /\ c \in CF /\ ClientOf(c) = clients[c]
        /\ clients'[c] = [clients[c] EXCEPT !.isSectionControlEnabled = enabled]
        /\ told'[c] = IF SendsControlState(clients[c])
                      THEN Put(told[c], Address(clients[c], SectionControlState), v) ELSE told[c]
    BY <1>0, <2>1 DEF ClientOf
  <2>3. v \in Nat
    OBVIOUS
  <2> HIDE DEF v
  <2>4. OtherSent(clients[c], clients'[c], told[c], told'[c])
    BY <2>2, <2>3 DEF OtherSent, SendsControlState
  <2> QED
    BY <2>2, <2>4 DEF ClientStep
<1>6. CASE SendGnssQuality
  <2>1. PICK quality \in GnssQualities :
          told' = [d \in CF |->
                    IF d \in DOMAIN clients /\ HasDdi(ClientOf(d), GNSSQuality)
                    THEN Put(told[d], Address(clients[d], GNSSQuality), quality)
                    ELSE told[d]]
    BY <1>6 DEF SendGnssQuality
  <2>2. /\ clients' = clients /\ c \in CF /\ c \in DOMAIN clients /\ ClientOf(c) = clients[c]
        /\ quality \in Nat
        /\ told'[c] = IF HasDdi(clients[c], GNSSQuality)
                      THEN Put(told[c], Address(clients[c], GNSSQuality), quality) ELSE told[c]
    BY <1>0, <1>6, <2>1, ReportsAssumption DEF ClientOf, SendGnssQuality
  <2>3. OtherSent(clients[c], clients'[c], told[c], told'[c])
    BY <2>2 DEF OtherSent
  <2> QED
    BY <2>2, <2>3 DEF ClientStep
<1>7. ASSUME NEW d \in CF, StorePool(d) \/ RefusePool(d)
      PROVE  ClientStep(ClientOf(c), clients'[c], told[c], told'[c])
  BY <1>1, <1>7 DEF StorePool, RefusePool, SameSessions
<1>8. ASSUME NEW d \in CF, ActivatePool(d)
      PROVE  ClientStep(ClientOf(c), clients'[c], told[c], told'[c])
  <2>1. PICK pool \in Deserialized(uploadedPools[d]) : clients' = Put(clients, d, NewClient(pool))
    BY <1>8 DEF ActivatePool
  <2>2. pool \in Pools
    BY <1>8, <2>1 DEF Deserialized, ActivatePool, IInv, TypeOK
  <2>3. told' = [told EXCEPT ![d] = EmptyMap]
    BY <1>8 DEF ActivatePool, NewSession
  <2>4. CASE c = d
    BY <1>0, <2>1, <2>2, <2>3, <2>4 DEF ClientStep, Put
  <2>5. CASE c # d
    <3>1. clients'[c] = ClientOf(c) /\ told'[c] = told[c]
      BY <1>0, <2>1, <2>3, <2>5 DEF ClientOf, Put
    <3> QED
      BY <3>1 DEF ClientStep, OtherSent
  <2> QED
    BY <2>4, <2>5
<1>9. ASSUME NEW d \in CF, DropPool(d) \/ ClientTimeout(d)
      PROVE  ClientStep(ClientOf(c), clients'[c], told[c], told'[c])
  <2>1. clients' = Erase(clients, d) /\ told' = [told EXCEPT ![d] = EmptyMap]
    BY <1>9 DEF DropPool, ClientTimeout, NewSession
  <2>2. clients'[c] = ClientOf(c) /\ told'[c] = told[c]
    BY <1>0, <2>1 DEF ClientOf, Erase
  <2> QED
    BY <2>2 DEF ClientStep, OtherSent
<1>10. ASSUME NEW d \in CF, ValueCommand(d)
       PROVE  ClientStep(ClientOf(c), clients'[c], told[c], told'[c])
  <2>1. PICK t : clients' = Put(clients, d, t) /\ Reported(ClientOf(d), t)
    BY <1>10 DEF ValueCommand, ReportCondensed, ReportControlState, ReportWorkState, Reported
  <2>2. told' = told
    BY <1>10 DEF ValueCommand, SameSessions
  <2>3. CASE c = d
    BY <2>1, <2>2, <2>3 DEF ClientStep, Put
  <2>4. CASE c # d
    <3>1. clients'[c] = ClientOf(c)
      BY <2>1, <2>4 DEF ClientOf, Put
    <3> QED
      BY <2>2, <3>1 DEF ClientStep, OtherSent
  <2> QED
    BY <2>3, <2>4
<1>11. CASE \E d \in CF : CanThread(d)
  BY <1>0, <1>7, <1>8, <1>9, <1>10, <1>11 DEF CanThread
<1> QED
  BY <1>0, <1>2, <1>3, <1>4, <1>5, <1>6, <1>11 DEF Next, MainThread

---------------------------------------------------------------------------
(* The work state follows the demand. *)

\* A non-empty set of numbers up to n has a greatest element.
LEMMA MaxFact ==
  ASSUME NEW n \in Nat, NEW S \in SUBSET (0..n), S # {}
  PROVE  Max(S) \in S /\ \A y \in S : y <= Max(S)
<1> DEFINE T == {k \in 0..n : n - k \in S}
<1>1. T \in SUBSET Nat /\ T # {}
  <2>1. PICK x \in S : TRUE
    OBVIOUS
  <2>2. n - x \in 0..n /\ n - (n - x) = x
    OBVIOUS
  <2>3. n - x \in T
    BY <2>2
  <2>4. T \in SUBSET Nat
    OBVIOUS
  <2> HIDE DEF T
  <2> QED
    BY <2>3, <2>4
<1> HIDE DEF T
<1>2. PICK k \in T : \A y \in T : k <= y
  BY <1>1, LeastNatural
<1>3. n - k \in S /\ k \in 0..n
  BY DEF T
<1>4. \A y \in S : n - y \in T /\ y \in 0..n
  BY DEF T
<1>5. \A y \in S : n - k >= y
  BY <1>2, <1>3, <1>4
<1>6. \E x \in S : \A y \in S : x >= y
  BY <1>3, <1>5
<1>7. Max(S) \in S /\ \A y \in S : Max(S) >= y
  BY <1>6 DEF Max
<1> QED
  BY <1>7, <1>4

\* Every group the client has sections in carries the work state check.
AllChecked(s) ==
  WorkStateGroups(s, {Group(i) : i \in Sections(s)}) = {Group(i) : i \in Sections(s)}

\* The last work state sent is the one the client state holds, and once
\* condensed setpoints went out it agrees with the cached setpoints.
WorkInv(s, messages) ==
  /\ \A a \in DOMAIN messages : a[1] = SetpointWorkState =>
       /\ HasDdi(s, SetpointWorkState) /\ a = Address(s, SetpointWorkState)
       /\ messages[a] = IF s.setpointWorkState THEN 1 ELSE 0
  /\ s.setpointWorkState =>
       HasDdi(s, SetpointWorkState) /\ Address(s, SetpointWorkState) \in DOMAIN messages
  /\ (/\ \E a \in DOMAIN messages : InRun(a[1], SetpointCondensedWorkState1_16)
      /\ AllChecked(s))
     => (s.setpointWorkState <=> AnyOn(s.sectionSetpointStates))

\* Nothing sent, and the work state of a new client.
LEMMA NewWork ==
  ASSUME NEW s, ~s.setpointWorkState
  PROVE  WorkInv(s, EmptyMap)
  BY EmptyMapFact DEF WorkInv

\* What WorkInv reads of a client.
LEMMA WorkDepends ==
  ASSUME NEW s, NEW t, NEW messages, WorkInv(s, messages),
         t.pool = s.pool, t.numberOfSections = s.numberOfSections,
         t.ddiToElementNumber = s.ddiToElementNumber,
         t.usesPerElementControl = s.usesPerElementControl,
         t.sectionSetpointStates = s.sectionSetpointStates,
         t.setpointWorkState = s.setpointWorkState
  PROVE  WorkInv(t, messages)
<1>1. \A ddi : (HasDdi(t, ddi) <=> HasDdi(s, ddi)) /\ Address(t, ddi) = Address(s, ddi)
  BY DEF HasDdi, Address
<1>2. \A g : SetpointPath(t, g) = SetpointPath(s, g)
  BY DEF SetpointPath, HasDdi
<1>3. Sections(t) = Sections(s)
  BY DEF Sections
<1>4. \A G : WorkStateGroups(t, G) = WorkStateGroups(s, G)
  BY <1>1, <1>2 DEF WorkStateGroups
<1>5. AllChecked(t) <=> AllChecked(s)
  BY <1>3, <1>4 DEF AllChecked
<1> QED
  BY <1>1, <1>5 DEF WorkInv

\* Before the measurement commands neither the work state nor a condensed
\* setpoint can have gone out.
LEMMA MeasuredWork ==
  ASSUME NEW s, IsClientState(s), NEW messages, NEW measured, NEW demand,
         SessionInv(s, messages, measured, demand), WorkInv(s, messages), NeedsMeasurement(s)
  PROVE  WorkInv(Measured(s), messages)
<1>1. /\ Measured(s).setpointWorkState = s.setpointWorkState
      /\ Measured(s).sectionSetpointStates = s.sectionSetpointStates
  BY DEF Measured, IsClientState, ClientFields
<1>2. s.ddiToElementNumber = EmptyMap
  BY DEF NeedsMeasurement, SessionInv
<1>3. \A ddi : ~HasDdi(s, ddi)
  BY <1>2, EmptyMapFact DEF HasDdi
<1>4. \A g : SetpointPath(s, g) # "condensed" /\ SetpointPath(s, g) # "legacy"
  BY <1>3 DEF SetpointPath
<1>5. \A a \in DOMAIN messages : ~InRun(a[1], SetpointCondensedWorkState1_16)
  BY <1>4 DEF SessionInv, MessageIsCurrent, IsCondensed
<1> QED
  BY <1>1, <1>3, <1>5 DEF WorkInv

\* A message on the control state's or the GNSS quality's DDI.
LEMMA OtherWork ==
  ASSUME NEW s, NEW messages, WorkInv(s, messages),
         NEW ddi \in {SectionControlState, GNSSQuality}, NEW value
  PROVE  WorkInv(s, Put(messages, Address(s, ddi), value))
<1>1. Address(s, ddi)[1] = ddi
  BY DEF Address
<1>2. ddi # SetpointWorkState /\ ~InRun(ddi, SetpointCondensedWorkState1_16)
  BY DEF SectionControlState, GNSSQuality, SetpointWorkState, InRun, SetpointCondensedWorkState1_16
<1>3. /\ DOMAIN Put(messages, Address(s, ddi), value) = DOMAIN messages \cup {Address(s, ddi)}
      /\ \A a \in DOMAIN messages : a # Address(s, ddi) =>
            Put(messages, Address(s, ddi), value)[a] = messages[a]
  BY DEF Put
<1> DEFINE m == Put(messages, Address(s, ddi), value)
<1> HIDE DEF m
<1>4. \A a \in DOMAIN m : (a[1] = SetpointWorkState \/ InRun(a[1], SetpointCondensedWorkState1_16))
                            => a \in DOMAIN messages /\ m[a] = messages[a]
  BY <1>1, <1>2, <1>3 DEF m
<1>5. DOMAIN messages \subseteq DOMAIN m
  BY <1>3 DEF m
<1>6. WorkInv(s, m)
  BY <1>4, <1>5 DEF WorkInv
<1> QED
  BY <1>6 DEF m

\* update_section_states() and the work state: it is sent if it changes, and
\* what is sent is what the client state holds afterwards.
LEMMA DemandWorkState ==
  ASSUME NEW s, IsClientState(s), NEW demand \in Demand
  PROVE  LET t == WithDemand(s, demand)
             m == DemandMessages(s, demand)
             checks == WorkStateGroups(s, ChangedGroups(s, demand))
         IN  /\ checks = {} => t.setpointWorkState = s.setpointWorkState
             /\ checks # {} => (t.setpointWorkState <=> AnyOnAt(s, t, Max(checks)))
             /\ \A a \in DOMAIN m : a[1] = SetpointWorkState =>
                   /\ HasDdi(s, SetpointWorkState) /\ a = Address(s, SetpointWorkState)
                   /\ m[a] = IF t.setpointWorkState THEN 1 ELSE 0
             /\ \/ t.setpointWorkState = s.setpointWorkState
                \/ HasDdi(s, SetpointWorkState) /\ Address(s, SetpointWorkState) \in DOMAIN m
             /\ ChangedGroups(s, demand) = {} =>
                   \A a \in DOMAIN m : ~InRun(a[1], SetpointCondensedWorkState1_16)
<1> DEFINE t == WithDemand(s, demand)
           m == DemandMessages(s, demand)
           new == [s EXCEPT !.sectionSetpointStates = NewSetpoints(s, demand)]
           sent == ChangedGroups(s, demand)
           checks == WorkStateGroups(s, sent)
           On(g) == AnyOnAt(s, new, g)
           toggled == \E g \in checks : On(g) # s.setpointWorkState
           workState == [a \in (IF toggled THEN {Address(s, SetpointWorkState)} ELSE {})
                           |-> IF On(Max(checks)) THEN 1 ELSE 0]
           sp == SetpointMessages(new, sent)
<1>1. m = PutAll(sp, workState)
  BY DEF DemandMessages
<1>2. t.setpointWorkState = IF checks = {} THEN s.setpointWorkState ELSE On(Max(checks))
  <2>1. new.setpointWorkState = s.setpointWorkState /\ "setpointWorkState" \in DOMAIN new
    BY DEF IsClientState, ClientFields
  <2>2. t = [new EXCEPT !.setpointWorkState = IF checks = {} THEN @ ELSE On(Max(checks))]
    BY DEF WithDemand
  <2> HIDE DEF t, new, checks, On
  <2> QED
    BY <2>1, <2>2
<1>3. /\ t.sectionSetpointStates = NewSetpoints(s, demand)
      /\ new.sectionSetpointStates = NewSetpoints(s, demand)
  BY WithDemandType DEF IsClientState, ClientFields
<1>4. \A g : On(g) = AnyOnAt(s, t, g)
  <2> HIDE DEF t, new
  <2> QED
    BY <1>3 DEF AnyOnAt
<1>5. s.setpointWorkState \in BOOLEAN /\ \A g : On(g) \in BOOLEAN
  BY Zenon DEF IsClientState, AnyOnAt, AnyOn
<1>6. checks # {} => Max(checks) \in checks
  <2>1. sent \in SUBSET (0..15)
    BY ChangedGroupsFact DEF Groups
  <2>2. checks \in SUBSET (0..15)
    BY <2>1 DEF WorkStateGroups
  <2> HIDE DEF checks
  <2> QED
    BY <2>2, MaxFact
<1>7. checks # {} => HasDdi(s, SetpointWorkState)
  BY DEF WorkStateGroups
<1>8. \A a \in DOMAIN sp : \/ a[1] = ActualWorkState
                           \/ \E g \in sent : a[1] = SetpointCondensedWorkState1_16 + g
                           \/ \E g \in sent : a[1] = ActualCondensedWorkState1_16 + g
  <2>1. sent \in SUBSET Groups
    BY ChangedGroupsFact
  <2>2. \A ddi : Address(new, ddi)[1] = ddi
    BY DEF Address
  <2> HIDE DEF new, sent
  <2> QED
    BY <2>1, <2>2, SetpointMessagesFact
<1>9. sent \in SUBSET Groups
  BY ChangedGroupsFact
<1>10. Address(s, SetpointWorkState)[1] = SetpointWorkState
  BY DEF Address
<1>11. /\ DOMAIN workState = IF toggled THEN {Address(s, SetpointWorkState)} ELSE {}
       /\ \A a \in DOMAIN workState : workState[a] = IF On(Max(checks)) THEN 1 ELSE 0
  OBVIOUS
<1> HIDE DEF t, m, new, sent, checks, On, toggled, workState, sp
<1>12. /\ DOMAIN m = DOMAIN sp \cup DOMAIN workState
       /\ \A a \in DOMAIN workState : m[a] = workState[a]
       /\ \A a \in DOMAIN m : a \notin DOMAIN workState => a \in DOMAIN sp
  BY <1>1 DEF PutAll
<1>13. \A a \in DOMAIN sp : a[1] # SetpointWorkState
  BY <1>8, <1>9 DEF ActualWorkState, SetpointWorkState, SetpointCondensedWorkState1_16,
                    ActualCondensedWorkState1_16, Groups
<1>14. toggled => checks # {}
  BY DEF toggled
<1>15. ASSUME NEW a \in DOMAIN m, a[1] = SetpointWorkState
       PROVE  /\ HasDdi(s, SetpointWorkState) /\ a = Address(s, SetpointWorkState)
              /\ m[a] = IF t.setpointWorkState THEN 1 ELSE 0
  <2>1. a \in DOMAIN workState
    BY <1>12, <1>13, <1>15
  <2>2. toggled /\ a = Address(s, SetpointWorkState) /\ m[a] = IF On(Max(checks)) THEN 1 ELSE 0
    BY <1>11, <1>12, <2>1
  <2> QED
    BY <1>2, <1>7, <1>14, <2>2
<1>16. \/ t.setpointWorkState = s.setpointWorkState
       \/ HasDdi(s, SetpointWorkState) /\ Address(s, SetpointWorkState) \in DOMAIN m
  <2>1. CASE toggled
    BY <1>7, <1>11, <1>12, <1>14, <2>1
  <2>2. CASE ~toggled
    BY <1>2, <1>6, <2>2 DEF toggled
  <2> QED
    BY <2>1, <2>2
<1>17. ASSUME sent = {}, NEW a \in DOMAIN m
       PROVE  ~InRun(a[1], SetpointCondensedWorkState1_16)
  <2>1. checks = {}
    BY <1>17 DEF checks, WorkStateGroups
  <2>2. a \in DOMAIN sp
    BY <1>11, <1>12, <1>14, <2>1
  <2>3. a[1] = ActualWorkState
    BY <1>8, <1>17, <2>2
  <2> QED
    BY <2>3 DEF InRun, ActualWorkState, SetpointCondensedWorkState1_16
<1>18. checks # {} => (t.setpointWorkState <=> AnyOnAt(s, t, Max(checks)))
  BY <1>2, <1>4
<1> QED
  BY <1>2, <1>15, <1>16, <1>17, <1>18 DEF t, m, checks, sent

\* A section the demand changes lies in a changed group; the others keep their
\* setpoint.
LEMMA UnchangedSection ==
  ASSUME NEW s, IsClientState(s), NEW demand \in Demand,
         NEW i \in Sections(s), Group(i) \notin ChangedGroups(s, demand)
  PROVE  NewSetpoints(s, demand)[i] = s.sectionSetpointStates[i]
<1>1. ~(i < DemandSize /\ demand[i] # (s.sectionSetpointStates[i] = ON))
  BY DEF ChangedGroups
<1> QED
  BY <1>1 DEF NewSetpoints

\* After a demand the work state agrees with the setpoints: it was computed
\* when the last changed group was sent, and no later section has changed.
LEMMA DemandWork ==
  ASSUME NEW s, IsClientState(s), NEW demand \in Demand, NEW messages, WorkInv(s, messages)
  PROVE  WorkInv(WithDemand(s, demand), PutAll(messages, DemandMessages(s, demand)))
<1> DEFINE t == WithDemand(s, demand)
           m == DemandMessages(s, demand)
           sent == ChangedGroups(s, demand)
           checks == WorkStateGroups(s, sent)
           after == PutAll(messages, m)
<1>1. /\ t.pool = s.pool /\ t.numberOfSections = s.numberOfSections
      /\ t.ddiToElementNumber = s.ddiToElementNumber
      /\ t.usesPerElementControl = s.usesPerElementControl
      /\ t.sectionSetpointStates = NewSetpoints(s, demand)
  BY WithDemandType
<1>2. /\ checks = {} => t.setpointWorkState = s.setpointWorkState
      /\ checks # {} => (t.setpointWorkState <=> AnyOnAt(s, t, Max(checks)))
      /\ \A a \in DOMAIN m : a[1] = SetpointWorkState =>
            /\ HasDdi(s, SetpointWorkState) /\ a = Address(s, SetpointWorkState)
            /\ m[a] = IF t.setpointWorkState THEN 1 ELSE 0
      /\ \/ t.setpointWorkState = s.setpointWorkState
         \/ HasDdi(s, SetpointWorkState) /\ Address(s, SetpointWorkState) \in DOMAIN m
      /\ sent = {} => \A a \in DOMAIN m : ~InRun(a[1], SetpointCondensedWorkState1_16)
  BY DemandWorkState
<1>3. sent \in SUBSET Groups /\ sent \subseteq {Group(i) : i \in Sections(s)}
  BY ChangedGroupsFact DEF ChangedGroups
<1>4. \A i \in Sections(s) : Group(i) \notin sent =>
         NewSetpoints(s, demand)[i] = s.sectionSetpointStates[i]
  BY UnchangedSection
<1>5. /\ s.sectionSetpointStates = [i \in Sections(s) |-> s.sectionSetpointStates[i]]
      /\ DOMAIN NewSetpoints(s, demand) = Sections(s)
      /\ NewSetpoints(s, demand) = [i \in Sections(s) |-> NewSetpoints(s, demand)[i]]
  <2>1. s.sectionSetpointStates \in [Sections(s) -> {OFF, ON}]
    BY Zenon DEF IsClientState
  <2> QED
    BY <2>1 DEF NewSetpoints
<1>6. /\ DOMAIN after = DOMAIN messages \cup DOMAIN m
      /\ \A a \in DOMAIN m : after[a] = m[a]
      /\ \A a \in DOMAIN messages : a \notin DOMAIN m => after[a] = messages[a]
  BY DEF PutAll
<1> HIDE DEF t, m, sent, after
<1>7. \A ddi : (HasDdi(t, ddi) <=> HasDdi(s, ddi)) /\ Address(t, ddi) = Address(s, ddi)
  BY <1>1 DEF HasDdi, Address
<1>8. ASSUME NEW a \in DOMAIN after, a[1] = SetpointWorkState
      PROVE  /\ HasDdi(t, SetpointWorkState) /\ a = Address(t, SetpointWorkState)
             /\ after[a] = IF t.setpointWorkState THEN 1 ELSE 0
  <2>1. CASE a \in DOMAIN m
    BY <1>2, <1>6, <1>7, <1>8, <2>1
  <2>2. CASE a \notin DOMAIN m
    <3>1. a \in DOMAIN messages /\ after[a] = messages[a]
      BY <1>6, <2>2
    <3>2. /\ HasDdi(s, SetpointWorkState) /\ a = Address(s, SetpointWorkState)
          /\ messages[a] = IF s.setpointWorkState THEN 1 ELSE 0
      BY <1>8, <3>1 DEF WorkInv
    <3>3. t.setpointWorkState = s.setpointWorkState
      BY <1>2, <2>2, <3>2
    <3> QED
      BY <1>7, <3>1, <3>2, <3>3
  <2> QED
    BY <2>1, <2>2
<1>9. ASSUME t.setpointWorkState
      PROVE  HasDdi(t, SetpointWorkState) /\ Address(t, SetpointWorkState) \in DOMAIN after
  BY <1>2, <1>6, <1>7, <1>9 DEF WorkInv
<1>10. ASSUME AllChecked(t), NEW b \in DOMAIN after, InRun(b[1], SetpointCondensedWorkState1_16)
       PROVE  t.setpointWorkState <=> AnyOn(t.sectionSetpointStates)
  <2>1. AllChecked(s)
    <3>1. \A g : SetpointPath(t, g) = SetpointPath(s, g)
      BY <1>1 DEF SetpointPath, HasDdi
    <3>2. \A G : WorkStateGroups(t, G) = WorkStateGroups(s, G)
      BY <1>7, <3>1 DEF WorkStateGroups
    <3> QED
      BY <1>1, <1>10, <3>2 DEF AllChecked, Sections
  <2>2. CASE sent = {}
    <3>1. checks = {}
      BY <2>2 DEF WorkStateGroups
    <3>2. t.setpointWorkState = s.setpointWorkState
      BY <1>2, <3>1
    <3>3. t.sectionSetpointStates = s.sectionSetpointStates
      <4>1. \A i \in Sections(s) : NewSetpoints(s, demand)[i] = s.sectionSetpointStates[i]
        BY <1>4, <2>2
      <4> QED
        BY <1>1, <1>5, <4>1
    <3>4. b \in DOMAIN messages
      BY <1>2, <1>6, <1>10, <2>2
    <3> QED
      BY <1>10, <2>1, <3>2, <3>3, <3>4 DEF WorkInv
  <2>3. CASE sent # {}
    <3>1. checks = sent
      BY <1>3, <2>1, <2>3 DEF AllChecked, WorkStateGroups
    <3>2. \A g \in sent : g <= Max(sent)
      BY <1>3, <2>3, MaxFact DEF Groups
    <3>3. t.setpointWorkState <=> AnyOnAt(s, t, Max(sent))
      BY <1>2, <2>3, <3>1
    <3>4. \A i \in Sections(s) :
            (IF Group(i) <= Max(sent) THEN t.sectionSetpointStates[i] ELSE s.sectionSetpointStates[i])
              = t.sectionSetpointStates[i]
      BY <1>1, <1>4, <3>2
    <3>5. AnyOnAt(s, t, Max(sent)) <=> AnyOn(t.sectionSetpointStates)
      BY <1>1, <1>5, <3>4 DEF AnyOnAt, AnyOn
    <3> QED
      BY <3>3, <3>5
  <2> QED
    BY <2>2, <2>3
<1>11. WorkInv(t, after)
  BY <1>8, <1>9, <1>10 DEF WorkInv
<1> QED
  BY <1>11 DEF t, m, after

\* The work states of all clients.
AllWorks == \A c \in DOMAIN clients : WorkInv(clients[c], told[c])

\* Every step keeps the work states in order.
LEMMA NextWorks == IInv /\ AllWorks /\ [Next]_vars => AllWorks'
<1> SUFFICES ASSUME IInv, AllWorks, [Next]_vars, NEW c \in DOMAIN clients'
             PROVE  WorkInv(clients'[c], told'[c])
  BY DEF AllWorks
<1> DEFINE s == ClientOf(c)
           t == clients'[c]
<1>1. c \in CF /\ ClientStep(s, t, told[c], told'[c])
  BY EveryClientStep
<1>2. IsClientState(s) /\ SessionInv(s, told[c], subscribed[c], demanded[c])
  BY <1>1, ClientOfFact
<1>3. WorkInv(s, told[c])
  <2>1. CASE c \in DOMAIN clients
    BY <2>1 DEF AllWorks, ClientOf
  <2>2. CASE c \notin DOMAIN clients
    <3>1. told[c] = EmptyMap /\ ~DefaultClient.setpointWorkState
      BY <1>1, <2>2 DEF IInv, DefaultClient
    <3> QED
      BY <2>2, <3>1, NewWork DEF ClientOf
  <2> QED
    BY <2>1, <2>2
<1> HIDE DEF s, t
<1>4. CASE \E pool \in Pools : t = NewClient(pool) /\ told'[c] = EmptyMap
  <2>1. \A pool : ~NewClient(pool).setpointWorkState
    BY DEF NewClient, DefaultClient
  <2> QED
    BY <1>4, <2>1, NewWork DEF t
<1>5. ASSUME NEW r, \/ r = s \/ Reported(s, r)
                    \/ \E enabled \in BOOLEAN : r = [s EXCEPT !.isSectionControlEnabled = enabled],
             NEW messages, WorkInv(s, messages)
      PROVE  WorkInv(r, messages)
  <2>1. /\ r.pool = s.pool /\ r.numberOfSections = s.numberOfSections
        /\ r.ddiToElementNumber = s.ddiToElementNumber
        /\ r.usesPerElementControl = s.usesPerElementControl
        /\ r.sectionSetpointStates = s.sectionSetpointStates
        /\ r.setpointWorkState = s.setpointWorkState
    BY <1>2, <1>5 DEF Reported, WithCondensedReport, WithWorkState, IsClientState, ClientFields
  <2> QED
    BY <1>5, <2>1, WorkDepends
<1>6. CASE Reported(s, t) /\ told'[c] = told[c]
  BY <1>3, <1>5, <1>6 DEF t
<1>7. CASE NeedsMeasurement(s) /\ t = Measured(s) /\ told'[c] = told[c]
  BY <1>2, <1>3, <1>7, MeasuredWork DEF t
<1>8. CASE \E demand \in Demand : /\ t = WithDemand(s, demand)
                                  /\ told'[c] = PutAll(told[c], DemandMessages(s, demand))
  BY <1>2, <1>3, <1>8, DemandWork DEF t
<1>9. CASE OtherSent(s, t, told[c], told'[c])
  <2>1. WorkInv(s, told'[c])
    BY <1>3, <1>9, OtherWork DEF OtherSent
  <2> QED
    BY <1>5, <1>9, <2>1 DEF OtherSent, t
<1> QED
  BY <1>1, <1>4, <1>6, <1>7, <1>8, <1>9 DEF ClientStep

\* Once condensed setpoints have gone out to a client whose groups all carry
\* the work state check, its master state is on exactly if a section is
\* demanded on: update_section_states() may send the work state several times
\* in one pass, and the last one sent is right.
THEOREM WorkStateIsDemand == Spec => []WorkStateFollowsDemand
<1>1. Init => AllWorks
  BY EmptyMapFact DEF Init, AllWorks
<1>2. IInv /\ AllWorks => WorkStateFollowsDemand
  <2> SUFFICES ASSUME IInv, AllWorks, NEW c \in DOMAIN clients,
                      CondensedSetpointsSent(c), AllChecked(clients[c])
               PROVE  (\E i \in Sections(clients[c]) : i < DemandSize /\ demanded[c][i])
                        <=> (/\ Address(clients[c], SetpointWorkState) \in DOMAIN told[c]
                             /\ told[c][Address(clients[c], SetpointWorkState)] = 1)
    BY DEF WorkStateFollowsDemand, AllChecked
  <2> DEFINE s == clients[c]
  <2>1. WorkInv(s, told[c])
    BY DEF AllWorks
  <2>2. SetpointsAre(s, demanded[c]) /\ s.sectionSetpointStates \in [Sections(s) -> {OFF, ON}]
    <3>1. IsClientState(s) /\ SetpointsAre(s, demanded[c])
      BY DEF IInv, TypeOK, SessionInv
    <3> QED
      BY <3>1, Zenon DEF IsClientState
  <2> HIDE DEF s
  <2>3. s.setpointWorkState <=> AnyOn(s.sectionSetpointStates)
    BY <2>1 DEF WorkInv, CondensedSetpointsSent, s
  <2>4. AnyOn(s.sectionSetpointStates) <=> \E i \in Sections(s) : i < DemandSize /\ demanded[c][i]
    BY <2>2 DEF AnyOn, SetpointsAre, ON, OFF
  <2>5. Address(s, SetpointWorkState)[1] = SetpointWorkState
    BY DEF Address
  <2>6. s.setpointWorkState <=> (/\ Address(s, SetpointWorkState) \in DOMAIN told[c]
                                 /\ told[c][Address(s, SetpointWorkState)] = 1)
    BY <2>1, <2>5 DEF WorkInv
  <2> QED
    BY <2>3, <2>4, <2>6 DEF s
<1> QED
  BY <1>1, <1>2, NextWorks, InitIInv, NextIInv, PTL DEF Spec

---------------------------------------------------------------------------
(* Control by element.  The theorems are about clients whose pools and     *)
(* reports leave the mapping of sections to elements as activation made it:*)
(* a condensed report redirects its sections to the element it names.      *)

\* Section i is the only one of its element.
Alone(s, i) ==
  \A j \in Sections(s) \ {i} : s.sectionToElementNumber[j] # s.sectionToElementNumber[i]

\* The two maps are inverse where an element stands for one section, and the
\* actual state of such a section is the last report of its element.
ReportInv(s) ==
  /\ \A e \in DOMAIN s.elementToSection : s.sectionToElementNumber[s.elementToSection[e]] = e
  /\ \A i \in Sections(s) : s.sectionToElementNumber[i] \in DOMAIN s.elementToSection
  /\ s.usesPerElementControl => \A i \in Sections(s) : Alone(s, i) =>
       LET e == s.sectionToElementNumber[i]
       IN  s.sectionActualStates[i] =
             IF e \in DOMAIN s.elementWorkStates /\ s.elementWorkStates[e] THEN ON ELSE OFF

\* What ReportInv reads of a client.
LEMMA ReportDepends ==
  ASSUME NEW s, NEW t, ReportInv(s),
         t.numberOfSections = s.numberOfSections,
         t.sectionToElementNumber = s.sectionToElementNumber,
         t.elementToSection = s.elementToSection,
         t.usesPerElementControl = s.usesPerElementControl,
         t.sectionActualStates = s.sectionActualStates,
         t.elementWorkStates = s.elementWorkStates
  PROVE  ReportInv(t)
<1>1. Sections(t) = Sections(s)
  BY DEF Sections
<1>2. \A i : Alone(t, i) <=> Alone(s, i)
  BY <1>1 DEF Alone
<1> QED
  BY <1>1, <1>2 DEF ReportInv

\* The entry operator[] inserts has no sections.
LEMMA DefaultReport == ReportInv(DefaultClient)
<1>1. /\ DefaultClient.numberOfSections = 0 /\ DefaultClient.elementToSection = EmptyMap
  BY DEF DefaultClient
<1>2. Sections(DefaultClient) = {}
  BY <1>1 DEF Sections
<1> QED
  BY <1>1, <1>2, EmptyMapFact DEF ReportInv

\* Activation builds the second map from the first.
LEMMA NewReport ==
  ASSUME NEW pool \in Pools
  PROVE  ReportInv(NewClient(pool))
<1> DEFINE s == NewClient(pool)
           map == SectionElement(pool)
           back == ElementSection(pool)
           On(e) == {i \in DOMAIN map : map[i] = e}
<1>1. /\ s.numberOfSections = NumberOfSections(pool)
      /\ s.sectionToElementNumber = map /\ s.elementToSection = back
      /\ s.sectionActualStates = [i \in 0..(NumberOfSections(pool) - 1) |-> OFF]
      /\ s.elementWorkStates = EmptyMap
  BY DEF NewClient, DefaultClient
<1>2. /\ DOMAIN map = 0..(NumberOfSections(pool) - 1) /\ NumberOfSections(pool) \in 0..255
  BY PoolsAssumption DEF PoolAssumption, SectionElement
<1>3. /\ DOMAIN back = {map[i] : i \in DOMAIN map}
      /\ \A e \in DOMAIN back : back[e] = Max(On(e))
  BY DEF ElementSection
<1> HIDE DEF s, map, back
<1>4. Sections(s) = DOMAIN map
  BY <1>1, <1>2 DEF Sections
<1>5. ASSUME NEW e \in DOMAIN back PROVE map[back[e]] = e
  <2>1. On(e) # {}
    BY <1>3
  <2>2. On(e) \in SUBSET (0..255) /\ 255 \in Nat
    <3>1. PICK n \in 0..255 : DOMAIN map = 0..(n - 1)
      BY <1>2
    <3>2. \A i \in 0..(n - 1) : i \in 0..255
      OBVIOUS
    <3>3. \A i \in On(e) : i \in 0..255
      BY <3>1, <3>2
    <3> HIDE DEF On
    <3> QED
      BY <3>3
  <2>3. Max(On(e)) \in On(e)
    <3> HIDE DEF On
    <3> QED
      BY <2>1, <2>2, MaxFact
  <2> QED
    BY <1>3, <2>3
<1>6. \A i \in Sections(s) : map[i] \in DOMAIN back /\ s.sectionActualStates[i] = OFF
  BY <1>1, <1>2, <1>3, <1>4
<1>7. ReportInv(s)
  BY <1>1, <1>4, <1>5, <1>6, EmptyMapFact DEF ReportInv
<1> QED
  BY <1>7 DEF s

\* A work state report reaches the section of its element and no other.
LEMMA WorkStateReport ==
  ASSUME NEW s, IsClientState(s), ReportInv(s), NEW e \in ElementNumber, NEW working \in BOOLEAN
  PROVE  ReportInv(WithWorkState(s, e, working))
<1> DEFINE t == WithWorkState(s, e, working)
<1>1. /\ t.numberOfSections = s.numberOfSections
      /\ t.sectionToElementNumber = s.sectionToElementNumber
      /\ t.elementToSection = s.elementToSection
      /\ t.usesPerElementControl = s.usesPerElementControl
      /\ t.elementWorkStates = Put(s.elementWorkStates, e, working)
      /\ t.sectionActualStates =
           IF s.usesPerElementControl /\ e \in DOMAIN s.elementToSection
           THEN [i \in Sections(s) |-> IF i = s.elementToSection[e]
                                       THEN (IF working THEN ON ELSE OFF) ELSE s.sectionActualStates[i]]
           ELSE s.sectionActualStates
  BY DEF WithWorkState, IsClientState, ClientFields
<1> HIDE DEF t
<1>2. Sections(t) = Sections(s)
  BY <1>1 DEF Sections
<1>3. \A i : Alone(t, i) <=> Alone(s, i)
  BY <1>1, <1>2 DEF Alone
<1>4. \A x : x \in DOMAIN s.elementToSection => s.elementToSection[x] \in Sections(s)
  BY DEF IsClientState, IsMap
<1>5. ASSUME s.usesPerElementControl, NEW i \in Sections(s), Alone(s, i)
      PROVE  t.sectionActualStates[i] =
               IF /\ s.sectionToElementNumber[i] \in DOMAIN t.elementWorkStates
                  /\ t.elementWorkStates[s.sectionToElementNumber[i]]
               THEN ON ELSE OFF
  <2> DEFINE x == s.sectionToElementNumber[i]
  <2>1. CASE x = e
    <3>1. e \in DOMAIN s.elementToSection /\ s.elementToSection[e] = i
      BY <1>4, <1>5, <2>1 DEF ReportInv, Alone
    <3>2. t.sectionActualStates[i] = IF working THEN ON ELSE OFF
      BY <1>1, <1>5, <3>1
    <3>3. e \in DOMAIN t.elementWorkStates /\ t.elementWorkStates[e] = working
      BY <1>1 DEF Put
    <3> QED
      BY <2>1, <3>2, <3>3
  <2>2. CASE x # e
    <3>1. e \in DOMAIN s.elementToSection => s.elementToSection[e] # i
      BY <2>2 DEF ReportInv
    <3>2. t.sectionActualStates[i] = s.sectionActualStates[i]
      BY <1>1, <3>1
    <3>3. /\ x \in DOMAIN t.elementWorkStates <=> x \in DOMAIN s.elementWorkStates
          /\ x \in DOMAIN s.elementWorkStates => t.elementWorkStates[x] = s.elementWorkStates[x]
      BY <1>1, <2>2 DEF Put
    <3> QED
      BY <1>5, <3>2, <3>3 DEF ReportInv
  <2> QED
    BY <2>1, <2>2
<1>6. ReportInv(t)
  BY <1>1, <1>2, <1>3, <1>5 DEF ReportInv
<1> QED
  BY <1>6 DEF t

AllReports == \A c \in DOMAIN clients : ReportInv(clients[c])

\* Every step keeps the reports in order, if no report is a condensed one.
LEMMA NextReports ==
  ASSUME ReportedStates = {}
  PROVE  IInv /\ AllReports /\ [Next]_vars => AllReports'
<1> SUFFICES ASSUME IInv, AllReports, [Next]_vars, NEW c \in DOMAIN clients'
             PROVE  ReportInv(clients'[c])
  BY DEF AllReports
<1> DEFINE s == ClientOf(c)
           t == clients'[c]
<1>1. c \in CF /\ ClientStep(s, t, told[c], told'[c])
  BY EveryClientStep
<1>2. IsClientState(s)
  BY <1>1, ClientOfFact
<1>3. ReportInv(s)
  BY DefaultReport DEF AllReports, ClientOf
<1> HIDE DEF s, t
<1>4. CASE \E pool \in Pools : t = NewClient(pool)
  BY <1>4, NewReport DEF t
<1>5. ASSUME NEW r, t.numberOfSections = s.numberOfSections,
             t.sectionToElementNumber = s.sectionToElementNumber,
             t.elementToSection = s.elementToSection,
             t.usesPerElementControl = s.usesPerElementControl,
             t.sectionActualStates = s.sectionActualStates,
             t.elementWorkStates = s.elementWorkStates
      PROVE  ReportInv(t)
  BY <1>3, <1>5, ReportDepends
<1>6. CASE t = s \/ \E enabled \in BOOLEAN : t = [s EXCEPT !.isSectionControlEnabled = enabled]
  BY <1>2, <1>5, <1>6 DEF t, IsClientState, ClientFields
<1>7. CASE \E e \in ReportedElements, working \in BOOLEAN : t = WithWorkState(s, e, working)
  BY <1>2, <1>3, <1>7, WorkStateReport, ReportsAssumption DEF t
<1>8. CASE t = Measured(s)
  BY <1>2, <1>5, <1>8 DEF t, Measured, IsClientState, ClientFields
<1>9. CASE \E demand \in Demand : t = WithDemand(s, demand)
  BY <1>2, <1>5, <1>9 DEF t, WithDemand, IsClientState, ClientFields
<1> QED
  BY <1>1, <1>4, <1>6, <1>7, <1>8, <1>9 DEF ClientStep, Reported, OtherSent

\* Under per-element control the heartbeat shows each section the way its
\* element last reported itself, as long as the implement reports by element
\* and not by condensed messages, which would move its sections to another one.
THEOREM ElementReportIsAlwaysReported ==
  ASSUME ReportedStates = {}
  PROVE  Spec => []ElementReportIsReported
<1>1. Init => AllReports
  BY EmptyMapFact DEF Init, AllReports
<1>2. IInv /\ AllReports => ElementReportIsReported
  <2> SUFFICES ASSUME IInv, AllReports, NEW c \in DOMAIN clients, NEW i \in Sections(clients[c]),
                      clients[c].usesPerElementControl, Alone(clients[c], i)
               PROVE  LET s == clients[c]
                          e == s.sectionToElementNumber[i]
                      IN  GetSectionActualState(s, i) =
                            IF e \in DOMAIN s.elementWorkStates /\ s.elementWorkStates[e] THEN ON ELSE OFF
    BY DEF ElementReportIsReported, Alone
  <2> DEFINE s == clients[c]
  <2>1. IsClientState(s) /\ ReportInv(s)
    BY DEF IInv, TypeOK, AllReports
  <2>2. ~(i >= s.numberOfSections)
    <3>1. s.numberOfSections \in 0..255 /\ i \in 0..(s.numberOfSections - 1)
      BY <2>1 DEF IsClientState, Sections
    <3> HIDE DEF s
    <3> QED
      BY <3>1
  <2>3. GetSectionActualState(s, i) = s.sectionActualStates[i]
    BY <2>2 DEF GetSectionActualState
  <2> QED
    BY <2>1, <2>3 DEF ReportInv
<1>3. IInv /\ AllReports /\ [Next]_vars => AllReports'
  BY NextReports
<1> QED
  BY <1>1, <1>2, <1>3, InitIInv, NextIInv, PTL DEF Spec

\* The clients control by element or not at all by it: they send no condensed
\* reports, and a pool for control by element has no condensed actual states
\* (with them, even read-only ones, send_section_setpoint_states() stops
\* sending to the elements as soon as the measurement commands are sent).
OnlyByElement ==
  /\ ReportedStates = {}
  /\ \A pool \in Pools : UsesPerElementControl(pool) =>
       \A i \in DOMAIN pool.processData :
          ~InRun(pool.processData[i].ddi, ActualCondensedWorkState1_16)

\* The value last sent to an element that stands for one section is the cached
\* setpoint of the section; elements are sent to under per-element control
\* only, and never element 0.
ElementInv(s, messages) ==
  /\ s.usesPerElementControl => s.pool \in Pools /\ UsesPerElementControl(s.pool)
  /\ \A a \in DOMAIN messages : a[1] = ActualWorkState => s.usesPerElementControl /\ a[2] # 0
  /\ \A i \in Sections(s) :
       LET a == <<ActualWorkState, s.sectionToElementNumber[i]>>
       IN  Alone(s, i) /\ a \in DOMAIN messages
             => messages[a] = IF s.sectionSetpointStates[i] = ON THEN 1 ELSE 0

\* What ElementInv reads of a client.
LEMMA ElementDepends ==
  ASSUME NEW s, NEW t, NEW messages, ElementInv(s, messages),
         t.pool = s.pool, t.numberOfSections = s.numberOfSections,
         t.sectionToElementNumber = s.sectionToElementNumber,
         t.usesPerElementControl = s.usesPerElementControl,
         t.sectionSetpointStates = s.sectionSetpointStates
  PROVE  ElementInv(t, messages)
<1>1. Sections(t) = Sections(s)
  BY DEF Sections
<1>2. \A i : Alone(t, i) <=> Alone(s, i)
  BY <1>1 DEF Alone
<1> QED
  BY <1>1, <1>2 DEF ElementInv

\* Nothing sent yet.
LEMMA NewElement ==
  ASSUME NEW s, s.usesPerElementControl => s.pool \in Pools /\ UsesPerElementControl(s.pool)
  PROVE  ElementInv(s, EmptyMap)
  BY EmptyMapFact DEF ElementInv

\* A message on another DDI.
LEMMA OtherElement ==
  ASSUME NEW s, NEW messages, ElementInv(s, messages),
         NEW ddi \in {SectionControlState, GNSSQuality}, NEW value
  PROVE  ElementInv(s, Put(messages, Address(s, ddi), value))
<1> DEFINE m == Put(messages, Address(s, ddi), value)
<1>1. Address(s, ddi)[1] = ddi /\ ddi # ActualWorkState
  BY DEF Address, SectionControlState, GNSSQuality, ActualWorkState
<1>2. \A a \in DOMAIN m : a[1] = ActualWorkState => a \in DOMAIN messages /\ m[a] = messages[a]
  BY <1>1 DEF Put
<1> HIDE DEF m
<1>3. ElementInv(s, m)
  BY <1>2 DEF ElementInv
<1> QED
  BY <1>3 DEF m

\* Under per-element control every group goes out to the elements.
LEMMA ElementPath ==
  ASSUME OnlyByElement, NEW s, NEW messages, NEW measured, NEW demand,
         SessionInv(s, messages, measured, demand), ElementInv(s, messages),
         s.usesPerElementControl, NEW g \in Groups
  PROVE  SetpointPath(s, g) = "element"
<1>1. s.pool \in Pools /\ UsesPerElementControl(s.pool)
  BY DEF ElementInv
<1>2. \A i \in DOMAIN s.pool.processData :
        /\ ~InRun(s.pool.processData[i].ddi, SetpointCondensedWorkState1_16)
        /\ ~InRun(s.pool.processData[i].ddi, ActualCondensedWorkState1_16)
  BY <1>1 DEF OnlyByElement, UsesPerElementControl, HasCondensedSetpoint
<1>3. \A d \in DOMAIN DdiMap(s.pool) : \E i \in DOMAIN s.pool.processData :
         d = s.pool.processData[i].ddi
  BY DEF DdiMap, MeasuredPairs, GnssPairs, Owned
<1>4. \A d : HasDdi(s, d) => /\ ~InRun(d, SetpointCondensedWorkState1_16)
                             /\ ~InRun(d, ActualCondensedWorkState1_16)
  <2>1. \A d : HasDdi(s, d) => d \in DOMAIN DdiMap(s.pool)
    BY EmptyMapFact DEF SessionInv, HasDdi
  <2> QED
    BY <1>2, <1>3, <2>1
<1>5. /\ InRun(SetpointCondensedWorkState1_16 + g, SetpointCondensedWorkState1_16)
      /\ InRun(ActualCondensedWorkState1_16 + g, ActualCondensedWorkState1_16)
  BY DEF InRun, Groups, SetpointCondensedWorkState1_16, ActualCondensedWorkState1_16
<1> QED
  BY <1>4, <1>5 DEF SetpointPath

\* The messages to elements: the setpoint of the one section of an element
\* goes out whenever its group does.
LEMMA ElementMessages ==
  ASSUME NEW s, NEW sent \in SUBSET Groups, Sections(s) \subseteq Nat
  PROVE  LET m == SetpointMessages(s, sent)
         IN  /\ \A a \in DOMAIN m : a[1] = ActualWorkState =>
                   a[2] # 0 /\ \E g \in sent : SetpointPath(s, g) = "element"
             /\ \A i \in Sections(s) : Alone(s, i) =>
                   LET a == <<ActualWorkState, s.sectionToElementNumber[i]>>
                   IN  /\ a \in DOMAIN m => m[a] = IF s.sectionSetpointStates[i] = ON THEN 1 ELSE 0
                       /\ (/\ Group(i) \in sent /\ SetpointPath(s, Group(i)) = "element"
                           /\ s.sectionToElementNumber[i] # 0) => a \in DOMAIN m
<1> DEFINE Via(path) == {g \in sent : SetpointPath(s, g) = path}
           addressed == {i \in Sections(s) : /\ Group(i) \in Via("element")
                                             /\ s.sectionToElementNumber[i] # 0}
           LastOn(e) == Max({i \in addressed : s.sectionToElementNumber[i] = e})
           condensed == [a \in {Address(s, SetpointCondensedWorkState1_16 + g) : g \in Via("condensed")}
                           |-> Condensed(s, a[1] - SetpointCondensedWorkState1_16)]
           legacy == [a \in {Address(s, ActualCondensedWorkState1_16 + g) : g \in Via("legacy")}
                           |-> Condensed(s, a[1] - ActualCondensedWorkState1_16)]
           element == [a \in {<<ActualWorkState, s.sectionToElementNumber[i]>> : i \in addressed}
                           |-> IF s.sectionSetpointStates[LastOn(a[2])] = ON THEN 1 ELSE 0]
           m == SetpointMessages(s, sent)
<1>1. m = PutAll(PutAll(condensed, legacy), element)
  BY DEF SetpointMessages
<1>2. \A a \in DOMAIN condensed \cup DOMAIN legacy : a[1] # ActualWorkState
  <2>1. \A ddi : Address(s, ddi)[1] = ddi
    BY DEF Address
  <2>2. \A g \in sent : /\ SetpointCondensedWorkState1_16 + g # ActualWorkState
                        /\ ActualCondensedWorkState1_16 + g # ActualWorkState
    BY DEF Groups, SetpointCondensedWorkState1_16, ActualCondensedWorkState1_16, ActualWorkState
  <2> QED
    BY <2>1, <2>2
<1>3. /\ DOMAIN element = {<<ActualWorkState, s.sectionToElementNumber[i]>> : i \in addressed}
      /\ \A a \in DOMAIN element : element[a] = IF s.sectionSetpointStates[LastOn(a[2])] = ON THEN 1 ELSE 0
  OBVIOUS
<1> HIDE DEF condensed, legacy, element, m, LastOn
<1>4. /\ DOMAIN m = DOMAIN condensed \cup DOMAIN legacy \cup DOMAIN element
      /\ \A a \in DOMAIN element : m[a] = element[a]
  BY <1>1 DEF PutAll
<1>5. ASSUME NEW a \in DOMAIN m, a[1] = ActualWorkState
      PROVE  a[2] # 0 /\ \E g \in sent : SetpointPath(s, g) = "element"
  <2>1. a \in DOMAIN element
    BY <1>2, <1>4, <1>5
  <2>2. PICK i \in addressed : a = <<ActualWorkState, s.sectionToElementNumber[i]>>
    BY <1>3, <2>1
  <2> QED
    BY <2>2
<1>6. ASSUME NEW i \in Sections(s), Alone(s, i)
      PROVE  LET a == <<ActualWorkState, s.sectionToElementNumber[i]>>
             IN  /\ a \in DOMAIN m => m[a] = IF s.sectionSetpointStates[i] = ON THEN 1 ELSE 0
                 /\ (/\ Group(i) \in sent /\ SetpointPath(s, Group(i)) = "element"
                     /\ s.sectionToElementNumber[i] # 0) => a \in DOMAIN m
  <2> DEFINE e == s.sectionToElementNumber[i]
             a == <<ActualWorkState, e>>
  <2>1. ASSUME a \in DOMAIN m
        PROVE  m[a] = IF s.sectionSetpointStates[i] = ON THEN 1 ELSE 0
    <3>1. a \in DOMAIN element
      BY <1>2, <1>4, <2>1
    <3>2. PICK j \in addressed : s.sectionToElementNumber[j] = e
      BY <1>3, <3>1
    <3>3. j = i
      BY <1>6, <3>2 DEF Alone
    <3>4. {k \in addressed : s.sectionToElementNumber[k] = e} = {i}
      BY <1>6, <3>2, <3>3 DEF Alone
    <3>5. Max({i}) = i
      BY DEF Max
    <3>6. LastOn(e) = i
      BY <3>4, <3>5 DEF LastOn
    <3> QED
      BY <1>3, <1>4, <3>1, <3>6
  <2>2. ASSUME Group(i) \in sent, SetpointPath(s, Group(i)) = "element", e # 0
        PROVE  a \in DOMAIN m
    <3>1. i \in addressed
      BY <2>2
    <3> QED
      BY <1>3, <1>4, <3>1
  <2> QED
    BY <2>1, <2>2
<1> QED
  BY <1>5, <1>6 DEF m

\* After a demand an element was sent the new setpoint of its section, or the
\* setpoint is the one it was sent before.
LEMMA DemandElement ==
  ASSUME OnlyByElement, NEW s, IsClientState(s), NEW demand \in Demand,
         NEW messages, NEW measured, NEW before,
         SessionInv(s, messages, measured, before), ElementInv(s, messages)
  PROVE  ElementInv(WithDemand(s, demand), PutAll(messages, DemandMessages(s, demand)))
<1> DEFINE t == WithDemand(s, demand)
           m == DemandMessages(s, demand)
           new == [s EXCEPT !.sectionSetpointStates = NewSetpoints(s, demand)]
           sent == ChangedGroups(s, demand)
           checks == WorkStateGroups(s, sent)
           toggled == \E g \in checks : AnyOnAt(s, new, g) # s.setpointWorkState
           workState == [a \in (IF toggled THEN {Address(s, SetpointWorkState)} ELSE {})
                           |-> IF AnyOnAt(s, new, Max(checks)) THEN 1 ELSE 0]
           sp == SetpointMessages(new, sent)
           after == PutAll(messages, m)
           At(i) == <<ActualWorkState, s.sectionToElementNumber[i]>>
<1>1. m = PutAll(sp, workState)
  BY DEF DemandMessages
<1>2. /\ new.pool = s.pool /\ new.numberOfSections = s.numberOfSections
      /\ new.ddiToElementNumber = s.ddiToElementNumber
      /\ new.sectionToElementNumber = s.sectionToElementNumber
      /\ new.usesPerElementControl = s.usesPerElementControl
      /\ new.sectionSetpointStates = NewSetpoints(s, demand)
  BY DEF IsClientState, ClientFields
<1>3. /\ t.pool = s.pool /\ t.numberOfSections = s.numberOfSections
      /\ t.sectionToElementNumber = s.sectionToElementNumber
      /\ t.usesPerElementControl = s.usesPerElementControl
      /\ t.sectionSetpointStates = NewSetpoints(s, demand)
  <2>1. t.sectionToElementNumber = s.sectionToElementNumber
    BY DEF WithDemand, IsClientState, ClientFields
  <2> HIDE DEF t
  <2> QED
    BY <2>1, WithDemandType DEF t
<1>4. \A a \in DOMAIN workState : a[1] # ActualWorkState
  BY DEF Address, SetpointWorkState, ActualWorkState
<1>5. sent \in SUBSET Groups
  BY ChangedGroupsFact
<1>6. \A i \in Sections(s) : Group(i) \notin sent =>
         NewSetpoints(s, demand)[i] = s.sectionSetpointStates[i]
  BY UnchangedSection
<1>7. \A i \in Sections(s) : i \in Nat /\ Group(i) \in Groups
  <2>1. \A i \in Sections(s) : i \in Nat
    BY DEF Sections, IsClientState
  <2> QED
    BY <2>1, GroupFact
<1> HIDE DEF t, m, new, sent, workState, sp, after
<1>8. Sections(new) = Sections(s) /\ Sections(t) = Sections(s)
  BY <1>2, <1>3 DEF Sections
<1>9. \A i : (Alone(new, i) <=> Alone(s, i)) /\ (Alone(t, i) <=> Alone(s, i))
  BY <1>2, <1>3, <1>8 DEF Alone
<1>10. \A g : SetpointPath(new, g) = SetpointPath(s, g)
  BY <1>2 DEF SetpointPath, HasDdi
<1>11. /\ \A a \in DOMAIN sp : a[1] = ActualWorkState =>
             a[2] # 0 /\ \E g \in sent : SetpointPath(s, g) = "element"
       /\ \A i \in Sections(s) : Alone(s, i) =>
             /\ At(i) \in DOMAIN sp => sp[At(i)] = IF NewSetpoints(s, demand)[i] = ON THEN 1 ELSE 0
             /\ (/\ Group(i) \in sent /\ SetpointPath(s, Group(i)) = "element"
                 /\ s.sectionToElementNumber[i] # 0) => At(i) \in DOMAIN sp
  <2>1. Sections(new) \subseteq Nat
    BY <1>7, <1>8
  <2>2. /\ \A a \in DOMAIN sp : a[1] = ActualWorkState =>
             a[2] # 0 /\ \E g \in sent : SetpointPath(new, g) = "element"
        /\ \A i \in Sections(new) : Alone(new, i) =>
             LET a == <<ActualWorkState, new.sectionToElementNumber[i]>>
             IN  /\ a \in DOMAIN sp => sp[a] = IF new.sectionSetpointStates[i] = ON THEN 1 ELSE 0
                 /\ (/\ Group(i) \in sent /\ SetpointPath(new, Group(i)) = "element"
                     /\ new.sectionToElementNumber[i] # 0) => a \in DOMAIN sp
    BY <1>5, <2>1, ElementMessages DEF sp
  <2> QED
    BY <1>2, <1>8, <1>9, <1>10, <2>2
<1>12. \A a : a[1] = ActualWorkState =>
         /\ a \in DOMAIN after <=> a \in DOMAIN messages \/ a \in DOMAIN sp
         /\ a \in DOMAIN sp => after[a] = sp[a]
         /\ a \in DOMAIN messages /\ a \notin DOMAIN sp => after[a] = messages[a]
  <2>1. \A a : a[1] = ActualWorkState =>
         /\ a \in DOMAIN m <=> a \in DOMAIN sp
         /\ a \in DOMAIN sp => m[a] = sp[a]
    BY <1>1, <1>4 DEF PutAll
  <2> QED
    BY <2>1 DEF after, PutAll
<1>13. \A g : SetpointPath(s, g) = "element" => s.usesPerElementControl
  BY DEF SetpointPath
<1>14. \A a \in DOMAIN after : a[1] = ActualWorkState => t.usesPerElementControl /\ a[2] # 0
  BY <1>3, <1>11, <1>12, <1>13 DEF ElementInv
<1>15. ASSUME NEW i \in Sections(s), Alone(s, i), At(i) \in DOMAIN after
       PROVE  after[At(i)] = IF NewSetpoints(s, demand)[i] = ON THEN 1 ELSE 0
  <2>1. At(i)[1] = ActualWorkState /\ At(i)[2] = s.sectionToElementNumber[i]
    OBVIOUS
  <2>2. CASE At(i) \in DOMAIN sp
    BY <1>11, <1>12, <1>15, <2>1, <2>2
  <2>3. CASE At(i) \notin DOMAIN sp
    <3>1. At(i) \in DOMAIN messages /\ after[At(i)] = messages[At(i)]
      BY <1>12, <1>15, <2>1, <2>3
    <3>2. s.usesPerElementControl /\ s.sectionToElementNumber[i] # 0
      BY <2>1, <3>1 DEF ElementInv
    <3>3. SetpointPath(s, Group(i)) = "element"
      BY <1>7, <3>2, ElementPath
    <3>4. Group(i) \notin sent
      BY <1>11, <1>15, <2>3, <3>2, <3>3
    <3>5. messages[At(i)] = IF s.sectionSetpointStates[i] = ON THEN 1 ELSE 0
      BY <1>15, <3>1 DEF ElementInv
    <3> QED
      BY <1>6, <3>1, <3>4, <3>5
  <2> QED
    BY <2>2, <2>3
<1>16. ElementInv(t, after)
  <2>1. t.usesPerElementControl => t.pool \in Pools /\ UsesPerElementControl(t.pool)
    BY <1>3 DEF ElementInv
  <2> QED
    BY <1>3, <1>8, <1>9, <1>14, <1>15, <2>1 DEF ElementInv
<1> QED
  BY <1>16 DEF t, m, after

AllElements == \A c \in DOMAIN clients : ElementInv(clients[c], told[c])

\* Every step keeps what the elements were sent in order.
LEMMA NextElements ==
  ASSUME OnlyByElement
  PROVE  IInv /\ AllElements /\ [Next]_vars => AllElements'
<1> SUFFICES ASSUME IInv, AllElements, [Next]_vars, NEW c \in DOMAIN clients'
             PROVE  ElementInv(clients'[c], told'[c])
  BY DEF AllElements
<1> DEFINE s == ClientOf(c)
           t == clients'[c]
<1>1. c \in CF /\ ClientStep(s, t, told[c], told'[c])
  BY EveryClientStep
<1>2. IsClientState(s) /\ SessionInv(s, told[c], subscribed[c], demanded[c])
  BY <1>1, ClientOfFact
<1>3. ElementInv(s, told[c])
  <2>1. CASE c \in DOMAIN clients
    BY <2>1 DEF AllElements, ClientOf
  <2>2. CASE c \notin DOMAIN clients
    <3>1. told[c] = EmptyMap /\ ~DefaultClient.usesPerElementControl
      BY <1>1, <2>2 DEF IInv, DefaultClient
    <3> QED
      BY <2>2, <3>1, NewElement DEF ClientOf
  <2> QED
    BY <2>1, <2>2
<1> HIDE DEF s, t
<1>4. CASE \E pool \in Pools : t = NewClient(pool) /\ told'[c] = EmptyMap
  <2>1. PICK pool \in Pools : t = NewClient(pool) /\ told'[c] = EmptyMap
    BY <1>4
  <2>2. t.pool = pool /\ t.usesPerElementControl = UsesPerElementControl(pool)
    BY <2>1 DEF NewClient, DefaultClient
  <2> QED
    BY <2>1, <2>2, NewElement DEF t
<1>5. ASSUME NEW messages, ElementInv(s, messages),
             t.pool = s.pool, t.numberOfSections = s.numberOfSections,
             t.sectionToElementNumber = s.sectionToElementNumber,
             t.usesPerElementControl = s.usesPerElementControl,
             t.sectionSetpointStates = s.sectionSetpointStates
      PROVE  ElementInv(t, messages)
  BY <1>5, ElementDepends
<1>6. CASE Reported(s, t) /\ told'[c] = told[c]
  <2>1. \/ \E e \in ReportedElements, working \in BOOLEAN : t = WithWorkState(s, e, working)
        \/ \E enabled \in BOOLEAN : t = [s EXCEPT !.isSectionControlEnabled = enabled]
    BY <1>6 DEF Reported, OnlyByElement
  <2> QED
    BY <1>2, <1>3, <1>5, <1>6, <2>1 DEF t, WithWorkState, IsClientState, ClientFields
<1>7. CASE t = Measured(s) /\ told'[c] = told[c]
  BY <1>2, <1>3, <1>5, <1>7 DEF t, Measured, IsClientState, ClientFields
<1>8. CASE \E demand \in Demand : /\ t = WithDemand(s, demand)
                                  /\ told'[c] = PutAll(told[c], DemandMessages(s, demand))
  BY <1>2, <1>3, <1>8, DemandElement DEF t
<1>9. CASE OtherSent(s, t, told[c], told'[c])
  <2>1. ElementInv(s, told'[c])
    BY <1>3, <1>9, OtherElement DEF OtherSent
  <2>2. t = s \/ \E enabled \in BOOLEAN : t = [s EXCEPT !.isSectionControlEnabled = enabled]
    BY <1>9 DEF OtherSent
  <2> QED
    BY <1>2, <1>5, <2>1, <2>2 DEF t, IsClientState, ClientFields
<1> QED
  BY <1>1, <1>4, <1>6, <1>7, <1>8, <1>9 DEF ClientStep

\* The value last sent to an element that stands for one section is the demand
\* for that section, for clients that control by element throughout.
THEOREM ElementIsDemand ==
  ASSUME OnlyByElement
  PROVE  Spec => []ElementFollowsDemand
<1>1. Init => AllElements
  BY EmptyMapFact DEF Init, AllElements
<1>2. IInv /\ AllElements => ElementFollowsDemand
  <2> SUFFICES ASSUME IInv, AllElements, NEW c \in DOMAIN clients, NEW i \in Sections(clients[c]),
                      <<ActualWorkState, clients[c].sectionToElementNumber[i]>> \in DOMAIN told[c],
                      Alone(clients[c], i)
               PROVE  told[c][<<ActualWorkState, clients[c].sectionToElementNumber[i]>>] =
                        IF i < DemandSize /\ demanded[c][i] THEN 1 ELSE 0
    BY DEF ElementFollowsDemand, Alone
  <2>1. ElementInv(clients[c], told[c]) /\ SetpointsAre(clients[c], demanded[c])
    BY DEF AllElements, IInv, TypeOK, SessionInv
  <2> QED
    BY <2>1 DEF ElementInv, SetpointsAre, ON, OFF
<1>3. IInv /\ AllElements /\ [Next]_vars => AllElements'
  BY NextElements
<1> QED
  BY <1>1, <1>2, <1>3, InitIInv, NextIInv, PTL DEF Spec
=============================================================================
