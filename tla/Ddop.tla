-------------------------------- MODULE Ddop --------------------------------
(***************************************************************************)
(* The device descriptor object pool (DDOP) as activate_object_pool() and  *)
(* request_measurement_commands() of src/task_controller.cpp read it.  The *)
(* pool itself is an AgIsoStack object; here it is a record               *)
(*   ok          what deserialize_binary_object_pool() returns for it      *)
(*   hasDevice   whether it holds a Device object                          *)
(*   booms       the geometry the library extracts: per boom the sections  *)
(*               of its sub-booms and its own sections (element numbers)   *)
(*   elements    the DeviceElement objects, in pool order                  *)
(*   processData the DeviceProcessData objects, in pool order:             *)
(*               [id, ddi, settable, onChange, timeInterval]               *)
(***************************************************************************)
EXTENDS ElementHierarchy, SequencesExt

CONSTANT Pools      \* the pools clients may upload

\* The data description indices the code names (values of ISO 11783-11).
ActualWorkState == 141
SectionControlState == 160
ActualCondensedWorkState1_16 == 161
SetpointWorkState == 289
SetpointCondensedWorkState1_16 == 290
CondensedSectionOverrideState1_16 == 367
GNSSQuality == 514

Groups == 0..15                     \* condensed DDIs come in runs of sixteen
InRun(ddi, first) == first <= ddi /\ ddi <= first + 15
DDI == 0..65535
ElementNumber == 0..65535

\* A default-constructed DeviceDescriptorObjectPool: no objects at all.
EmptyPool == [ok |-> FALSE, hasDevice |-> FALSE, booms |-> <<>>,
              elements |-> <<>>, processData |-> <<>>]

---------------------------------------------------------------------------
(* Geometry. *)

\* The flat list of section element numbers, in AOG's section order: boom by
\* boom, the sections of the sub-booms before those of the boom itself.
SectionElementNumbers(pool) ==
  FlattenSeq([b \in DOMAIN pool.booms |->
                FlattenSeq(pool.booms[b].subBooms) \o pool.booms[b].sections])

\* numberOfSections is a std::uint8_t incremented per section: it wraps.
NumberOfSections(pool) == Len(SectionElementNumbers(pool)) % 256

\* sectionToElementNumber as the mapping loop of the activation leaves it.
SectionElement(pool) ==
  [s \in 0..(NumberOfSections(pool) - 1) |-> SectionElementNumbers(pool)[s + 1]]

\* elementToSection after that loop: the last section naming an element wins.
ElementSection(pool) ==
  LET map == SectionElement(pool)
  IN  [e \in {map[s] : s \in DOMAIN map} |-> Max({s \in DOMAIN map : map[s] = e})]

---------------------------------------------------------------------------
(* Which section control method the pool supports. *)

HasCondensedSetpoint(pool) ==
  \E i \in DOMAIN pool.processData :
     InRun(pool.processData[i].ddi, SetpointCondensedWorkState1_16)

HasSettableCondensedActual(pool) ==
  \E i \in DOMAIN pool.processData :
     /\ InRun(pool.processData[i].ddi, ActualCondensedWorkState1_16)
     /\ pool.processData[i].settable

HasSettableActualWorkState(pool) ==
  \E i \in DOMAIN pool.processData :
     /\ pool.processData[i].ddi = ActualWorkState
     /\ pool.processData[i].settable

\* Modern (290) before Old (settable 161) before Oldest (settable 141).
UsesPerElementControl(pool) ==
  /\ ~HasCondensedSetpoint(pool)
  /\ ~HasSettableCondensedActual(pool)
  /\ HasSettableActualWorkState(pool)

\* is_ddi_settable(): the first process data object with the DDI decides.
IsDdiSettable(pool, ddi) ==
  LET found == {i \in DOMAIN pool.processData : pool.processData[i].ddi = ddi}
  IN  found # {} /\ pool.processData[Min(found)].settable

---------------------------------------------------------------------------
(* What request_measurement_commands() takes from the pool. *)

\* The DDIs whose changes the TC follows (first scan) and the ones it sets or
\* follows for section control (second scan).
IsActualDdi(ddi) ==
  \/ ddi = ActualWorkState
  \/ InRun(ddi, ActualCondensedWorkState1_16)
  \/ InRun(ddi, CondensedSectionOverrideState1_16)

IsControlDdi(ddi) ==
  \/ ddi = SectionControlState
  \/ ddi = SetpointWorkState
  \/ InRun(ddi, SetpointCondensedWorkState1_16)

\* Pairs <<i, j>>: process data object i is a child of element object j.
Owned(pool) ==
  {p \in (DOMAIN pool.processData) \X (DOMAIN pool.elements) :
     pool.processData[p[1]].id \in pool.elements[p[2]].children}

\* A measured process data object overwrites the element of its DDI each time
\* it is met, so the last pair of the two nested scans stays in the map.
LastPair(pairs) ==
  CHOOSE p \in pairs : \A q \in pairs : q[1] < p[1] \/ (q[1] = p[1] /\ q[2] <= p[2])

MeasuredPairs(pool) ==
  {p \in Owned(pool) : LET ddi == pool.processData[p[1]].ddi
                       IN  IsActualDdi(ddi) \/ IsControlDdi(ddi)}

\* The third scan: every settable GNSS quality object with an owner maps to its
\* FIRST owner (find_owning_element_number), the last such object stays.
GnssPairs(pool) ==
  {p \in Owned(pool) :
     /\ pool.processData[p[1]].ddi = GNSSQuality
     /\ pool.processData[p[1]].settable
     /\ \A q \in Owned(pool) : q[1] = p[1] => p[2] <= q[2]}

\* ddiToElementNumber once the measurement commands are sent.
DdiMap(pool) ==
  LET pairs == MeasuredPairs(pool) \cup GnssPairs(pool)
      ddiOf(p) == pool.processData[p[1]].ddi
  IN  [d \in {ddiOf(p) : p \in pairs} |->
         pool.elements[LastPair({p \in pairs : ddiOf(p) = d})[2]].number]

\* The measurement commands sent: on-change for every followed object that
\* offers it, time-interval only for the first scan's objects.
Subscriptions(pool) ==
  LET ddiOf(p) == pool.processData[p[1]].ddi
      target(p, trigger) == <<ddiOf(p), pool.elements[p[2]].number, trigger>>
  IN  {target(p, "onChange") : p \in {q \in MeasuredPairs(pool) : pool.processData[q[1]].onChange}}
      \cup {target(p, "timeInterval") : p \in {q \in MeasuredPairs(pool) :
               IsActualDdi(ddiOf(q)) /\ pool.processData[q[1]].timeInterval}}

---------------------------------------------------------------------------
\* What the models need to know of a pool: numbers fit std::uint16_t, the maps
\* read from it range over them, and its sections are indexed by a byte.
PoolAssumption(pool) ==
  /\ pool.ok \in BOOLEAN /\ pool.hasDevice \in BOOLEAN
  /\ NumberOfSections(pool) \in 0..255
  /\ SectionElement(pool) \in [0..(NumberOfSections(pool) - 1) -> ElementNumber]
  /\ DOMAIN ElementSection(pool) \subseteq ElementNumber
  /\ \A e \in DOMAIN ElementSection(pool) :
        ElementSection(pool)[e] \in 0..(NumberOfSections(pool) - 1)
  /\ DOMAIN DdiMap(pool) \subseteq DDI
  /\ \A d \in DOMAIN DdiMap(pool) : DdiMap(pool)[d] \in ElementNumber
  /\ UsesPerElementControl(pool) \in BOOLEAN
  /\ DOMAIN BuildParentMap(pool.elements) \subseteq ElementNumber
  /\ \A e \in DOMAIN BuildParentMap(pool.elements) :
        BuildParentMap(pool.elements)[e] \in ElementNumber

ASSUME PoolsAssumption == \A pool \in Pools : PoolAssumption(pool)
=============================================================================
