--------------------------- MODULE VtClientProofs ---------------------------
(***************************************************************************)
(* What VtClient does to the settings and to the NMEA interface, for any   *)
(* subnets, files and facts and with no bound on failures: the settings    *)
(* stay atomic, and COG and SOG are sent as the setting says.              *)
(*                                                                         *)
(* The first part is about Settings alone, one lemma per step: each is a   *)
(* step of AtomicSettings or none, and keeps the invariant that makes it   *)
(* one.  The second part is the client around it.                          *)
(***************************************************************************)
EXTENDS VtClient, TLAPS

Saving == {"opening", "writing", "renaming"}

\* A setter under way was called with a value for its field, and from its
\* assignment to its end it holds the mutex; what is about to be renamed is the
\* complete text of the values in memory.
CallOK(t) ==
  /\ call[t].at \in Saving \cup {"idle", "entering"}
  /\ call[t].at # "idle" =>
        /\ up
        /\ t = Main => call[t].field = "subnet" /\ call[t].value \in Subnets
        /\ t = Can => call[t].field \in Switches /\ call[t].value \in BOOLEAN
  /\ call[t].at \in Saving => owner = t /\ values[call[t].field] = call[t].value
  /\ call[t].at = "renaming" => temporary = File("whole", values)

CallRecord(c) ==
  c = [at |-> c.at, field |-> c.field, value |-> c.value, previous |-> c.previous,
       saved |-> c.saved]

\* The values in memory are values load() would accept as they are.
ValuesOK ==
  /\ values = [f \in Fields |-> values[f]]
  /\ values.subnet \in 0..255 /\ values.tcVersion \in 0..4

SettingsInv ==
  /\ ValuesOK
  /\ "subnet" \in DOMAIN file.data => file.data.subnet \in Int
  /\ call = [t \in Threads |-> call[t]]
  /\ \A t \in Threads : CallRecord(call[t]) /\ CallOK(t)
  /\ owner # "nobody" => owner \in Threads /\ call[owner].at \in Saving

AtomicStep == [Atomic!Next]_(Atomic!settingsVars)

---------------------------------------------------------------------------
(* The operators. *)

\* The defaults are a complete configuration.
LEMMA DefaultFact ==
  /\ Default = [f \in Fields |-> Default[f]]
  /\ Default.subnet = 5 /\ Default.tcVersion = 3
  BY DEF Default, Fields, Switches

\* What load() makes of a file is a complete configuration of accepted values.
LEMMA LoadedFact ==
  ASSUME NEW data, "subnet" \in DOMAIN data => data.subnet \in Int
  PROVE  /\ Loaded(data) = [f \in Fields |-> Loaded(data)[f]]
         /\ Loaded(data).subnet \in 0..255 /\ Loaded(data).tcVersion \in 0..4
<1>1. {"subnet", "tcVersion"} \subseteq Fields
  BY DEF Fields
<1>2. Loaded(data) = [f \in Fields |-> Loaded(data)[f]]
  BY DEF Loaded
<1>3. Loaded(data).subnet \in 0..255
  BY <1>1, DefaultFact DEF Loaded, Accepted
<1>4. Loaded(data).tcVersion \in 0..4
  BY <1>1, DefaultFact DEF Loaded, Accepted
<1> QED
  BY <1>2, <1>3, <1>4

\* A file with accepted values loads as what was saved.
LEMMA SavedIsLoaded ==
  ASSUME ValuesOK
  PROVE  LoadOf(File("whole", values)) = [loads |-> TRUE, config |-> values]
<1>1. \A f \in Fields : Accepted(f, values[f]) = values[f]
  BY DEF ValuesOK, Accepted
<1>2. DOMAIN values = Fields
  BY DEF ValuesOK
<1>3. Loaded(values) = values
  BY <1>1, <1>2 DEF Loaded, ValuesOK
<1> QED
  BY <1>3 DEF LoadOf, File

\* Without a setter under way the values are seen as they are.
LEMMA SeenWhenFree == owner = "nobody" => SeenValues = values
  BY DEF SeenValues

\* While a thread saves, the others see the value it replaced.
LEMMA SeenWhileSaving ==
  ASSUME SettingsInv, NEW t \in Threads, call[t].at \in Saving
  PROVE  /\ owner = t /\ owner # "nobody"
         /\ call[t].field \in Fields
         /\ SeenValues = [values EXCEPT ![call[t].field] = call[t].previous]
         /\ values = [SeenValues EXCEPT ![call[t].field] = call[t].value]
<1>1. owner = t /\ values[call[t].field] = call[t].value
  BY DEF SettingsInv, CallOK
<1>2. owner # "nobody" /\ t \in {Main, Can}
  BY <1>1, SettingsAssumption DEF Threads
<1>3. call[t].field \in Fields
  BY <1>2 DEF SettingsInv, CallOK, Saving, Fields
<1>4. SeenValues = [values EXCEPT ![call[t].field] = call[t].previous]
  BY <1>1, <1>2 DEF SeenValues
<1>5. values = [SeenValues EXCEPT ![call[t].field] = call[t].value]
  BY <1>1, <1>3, <1>4 DEF SettingsInv, ValuesOK
<1> QED
  BY <1>1, <1>2, <1>3, <1>4, <1>5

---------------------------------------------------------------------------
(* The steps. *)

\* A new process, or none, has not called a setter.
LEMMA NoCallFact == CallRecord(NoCall) /\ NoCall.at = "idle"
  BY DEF CallRecord, NoCall

\* A new installation is one of the abstract settings.
LEMMA SettingsStart == SettingsInit => SettingsInv /\ Atomic!Init
<1> SUFFICES ASSUME SettingsInit PROVE SettingsInv /\ Atomic!Init
  OBVIOUS
<1>1. ValuesOK
  BY DefaultFact DEF SettingsInit, ValuesOK
<1>2. \A t \in Threads : call[t] = NoCall
  BY DEF SettingsInit
<1>3. \A t \in Threads : CallRecord(call[t]) /\ CallOK(t)
  BY <1>2, NoCallFact DEF CallOK, Saving
<1>4. SettingsInv
  BY <1>1, <1>3 DEF SettingsInit, SettingsInv, Absent, File, Nothing
<1>5. LoadOf(file) = [loads |-> TRUE, config |-> Default]
  BY DEF SettingsInit, LoadOf, Absent, File
<1>6. Atomic!Init
  BY <1>5, SeenWhenFree DEF SettingsInit, Atomic!Init
<1> QED
  BY <1>4, <1>6

\* load() at the start is the abstract start.
LEMMA LoadStep ==
  ASSUME SettingsInv, Load
  PROVE  SettingsInv' /\ Atomic!Start
<1>1. owner = "nobody" /\ \A t \in Threads : call[t].at = "idle"
  BY DEF Load, SettingsInv, CallOK, Saving
<1>2. ValuesOK'
  BY LoadedFact, DefaultFact DEF Load, LoadOf, ValuesOK, SettingsInv
<1>3. \A t \in Threads : CallOK(t)'
  BY <1>1 DEF Load, CallOK, Saving
<1>4. SettingsInv'
  BY <1>1, <1>2, <1>3 DEF Load, SettingsInv, CallRecord
<1>5. Atomic!Start
  BY <1>1, SeenWhenFree, SeenWhenFree' DEF Load, Atomic!Start, SeenValues
<1> QED
  BY <1>4, <1>5

\* The end of the process is the abstract end, whatever its threads were doing.
LEMMA DieStep ==
  ASSUME SettingsInv, Die
  PROVE  SettingsInv' /\ Atomic!End
<1>1. ValuesOK'
  BY DefaultFact DEF Die, ValuesOK
<1>2. \A t \in Threads : call'[t] = NoCall
  BY DEF Die
<1>3. \A t \in Threads : CallRecord(call[t])' /\ CallOK(t)'
  BY <1>2, NoCallFact DEF CallOK, CallRecord, Saving
<1>4. SettingsInv'
  BY <1>1, <1>3 DEF Die, SettingsInv
<1>5. Atomic!End
  BY DEF Die, Atomic!End, SeenValues
<1> QED
  BY <1>4, <1>5

\* A user's edit is the abstract edit, or changes nothing that load() notices.
LEMMA EditStep ==
  ASSUME SettingsInv, EditFile
  PROVE  SettingsInv' /\ AtomicStep
<1>1. SettingsInv'
  BY SettingsAssumption DEF EditFile, SettingsInv, ValuesOK, CallOK, CallRecord
<1>2. SeenValues' = SeenValues /\ UNCHANGED up /\ ~up
  BY DEF EditFile, SeenValues
<1>3. Atomic!Edit \/ UNCHANGED Atomic!settingsVars
  BY <1>2 DEF Atomic!Edit, Atomic!settingsVars
<1> QED
  BY <1>1, <1>3 DEF AtomicStep, Atomic!Next

\* Calling a setter changes nothing yet.
LEMMA AskStep ==
  ASSUME SettingsInv, up, NEW t \in Threads, NEW field, NEW value, Ask(t, field, value),
         t = Main => field = "subnet" /\ value \in Subnets,
         t = Can => field \in Switches /\ value \in BOOLEAN
  PROVE  SettingsInv' /\ UNCHANGED Atomic!settingsVars
<1>1. /\ call'[t] = [at |-> "entering", field |-> field, value |-> value, previous |-> value,
                     saved |-> TRUE]
      /\ \A s \in Threads \ {t} : call'[s] = call[s]
      /\ call' = [s \in Threads |-> call'[s]]
  BY DEF Ask, SettingsInv
<1>2. owner # t
  BY SettingsAssumption DEF Ask, SettingsInv, Saving, Threads
<1>3. CallRecord(call[t])' /\ CallOK(t)'
  BY <1>1 DEF Ask, CallRecord, CallOK, Saving
<1>4. \A s \in Threads \ {t} : CallRecord(call[s])' /\ CallOK(s)'
  BY <1>1 DEF Ask, SettingsInv, CallRecord, CallOK
<1>5. SettingsInv'
  BY <1>1, <1>2, <1>3, <1>4 DEF Ask, SettingsInv, ValuesOK
<1>6. SeenValues' = SeenValues
  BY <1>1, <1>2 DEF Ask, SettingsInv, SeenValues
<1> QED
  BY <1>5, <1>6 DEF Ask, Atomic!settingsVars

\* What a setter remembers when it has the mutex.
LEMMA EnterCall ==
  ASSUME SettingsInv, NEW t \in Threads, Enter(t)
  PROVE  /\ CallRecord(call'[t])
         /\ call'[t].at = "opening" /\ call'[t].field = call[t].field
         /\ call'[t].value = call[t].value /\ call'[t].previous = values[call[t].field]
         /\ \A s \in Threads \ {t} : call'[s] = call[s]
         /\ call' = [s \in Threads |-> call'[s]]
<1> DEFINE c == [call[t] EXCEPT !.previous = values[call[t].field], !.at = "opening"]
<1>1. call' = [call EXCEPT ![t] = c]
  BY DEF Enter, SettingsInv
<1>2. /\ call'[t] = c
      /\ \A s \in Threads \ {t} : call'[s] = call[s]
      /\ call' = [s \in Threads |-> call'[s]]
  BY <1>1 DEF SettingsInv
<1>3. CallRecord(call[t])
  BY DEF SettingsInv
<1> QED
  BY <1>2, <1>3 DEF CallRecord

\* The assignment under the mutex is not seen by anyone.
LEMMA EnterStep ==
  ASSUME SettingsInv, NEW t \in Threads, Enter(t)
  PROVE  SettingsInv' /\ UNCHANGED Atomic!settingsVars
<1> DEFINE f == call[t].field
<1>1. owner = "nobody" /\ \A s \in Threads : call[s].at \notin Saving
  BY SettingsAssumption DEF Enter, MayLock, SettingsInv, CallOK, Threads
<1>2. /\ f \in Fields
      /\ t = Main => f = "subnet" /\ call[t].value \in Subnets
      /\ t = Can => f \in Switches /\ call[t].value \in BOOLEAN
      /\ t \in {Main, Can} /\ up
  BY DEF Enter, SettingsInv, CallOK, Threads, Fields
<1>3. /\ CallRecord(call'[t])
      /\ call'[t].at = "opening" /\ call'[t].field = f /\ call'[t].value = call[t].value
      /\ call'[t].previous = values[f]
      /\ \A s \in Threads \ {t} : call'[s] = call[s]
      /\ call' = [s \in Threads |-> call'[s]]
  BY EnterCall
<1>4. values' = [values EXCEPT ![f] = call[t].value] /\ owner' = t /\ UNCHANGED <<up, file, temporary>>
  BY DEF Enter
<1>5. ValuesOK'
  <2>1. CASE f = "subnet"
    BY <1>2, <1>4, <2>1, SettingsAssumption DEF SettingsInv, ValuesOK, Switches
  <2>2. CASE f \in Switches
    BY <1>4, <2>2 DEF SettingsInv, ValuesOK, Switches
  <2> QED
    BY <1>2, <2>1, <2>2
<1>6. CallOK(t)'
  BY <1>2, <1>3, <1>4 DEF SettingsInv, ValuesOK, CallOK, Saving
<1>7. \A s \in Threads \ {t} : CallRecord(call[s])' /\ CallOK(s)'
  BY <1>1, <1>3, <1>4 DEF SettingsInv, CallRecord, CallOK, Saving
<1>8. SettingsInv'
  BY <1>3, <1>4, <1>5, <1>6, <1>7 DEF SettingsInv, CallRecord, Saving
<1>9. SeenValues' = values
  <2>1. SeenValues' = [values' EXCEPT ![f] = values[f]]
    BY <1>2, <1>3, <1>4, SettingsAssumption DEF SeenValues
  <2> QED
    BY <1>2, <1>4, <2>1 DEF SettingsInv, ValuesOK
<1> QED
  BY <1>1, <1>4, <1>8, <1>9, SeenWhenFree DEF Atomic!settingsVars

\* A step of save() that goes on to its next one is not seen either.
LEMMA AdvanceStep ==
  ASSUME SettingsInv, NEW t \in Threads, call[t].at \in Saving,
         NEW place \in Saving, CallAt(t, place), UNCHANGED <<up, values, file, owner>>,
         place = "renaming" => temporary' = File("whole", values)
  PROVE  SettingsInv' /\ UNCHANGED Atomic!settingsVars
<1>1. /\ CallRecord(call'[t])
      /\ call'[t].at = place /\ call'[t].field = call[t].field /\ call'[t].value = call[t].value
      /\ call'[t].previous = call[t].previous
      /\ \A s \in Threads \ {t} : call'[s] = call[s]
      /\ call' = [s \in Threads |-> call'[s]]
  BY DEF CallAt, SettingsInv, CallRecord
<1>2. owner = t
  BY DEF SettingsInv, CallOK
<1>3. CallOK(t)'
  BY <1>1 DEF SettingsInv, CallOK, Saving
<1>4. \A s \in Threads \ {t} : CallRecord(call[s])' /\ CallOK(s)'
  BY <1>1, <1>2 DEF SettingsInv, CallRecord, CallOK, Saving
<1>5. SettingsInv'
  BY <1>1, <1>2, <1>3, <1>4 DEF SettingsInv, CallRecord, ValuesOK
<1>6. SeenValues' = SeenValues
  BY <1>1, <1>2 DEF SeenValues
<1> QED
  BY <1>5, <1>6 DEF Atomic!settingsVars

\* A setter that ends leaves the invariant, whatever the file is then.
LEMMA LeaveKeeps ==
  ASSUME SettingsInv, NEW t \in Threads, call[t].at \in Saving,
         NEW saved, Leave(t, saved), UNCHANGED up, ValuesOK',
         "subnet" \in DOMAIN file'.data => file'.data.subnet \in Int
  PROVE  /\ SettingsInv' /\ SeenValues' = values'
         /\ call'[t] = [NoCall EXCEPT !.saved = saved]
<1>1. /\ CallRecord(call'[t]) /\ call'[t].at = "idle"
      /\ call'[t] = [NoCall EXCEPT !.saved = saved]
      /\ \A s \in Threads \ {t} : call'[s] = call[s]
      /\ call' = [s \in Threads |-> call'[s]]
  BY DEF Leave, NoCall, SettingsInv, CallRecord
<1>2. owner = t /\ owner' = "nobody"
  BY DEF Leave, SettingsInv, CallOK
<1>3. CallOK(t)'
  BY <1>1 DEF CallOK, Saving
<1>4. \A s \in Threads \ {t} : CallRecord(call[s])' /\ CallOK(s)'
  BY <1>1, <1>2 DEF SettingsInv, CallRecord, CallOK, Saving
<1>5. SettingsInv'
  BY <1>1, <1>2, <1>3, <1>4 DEF SettingsInv, CallRecord
<1> QED
  BY <1>1, <1>2, <1>5 DEF SeenValues

\* A subnet that was not saved is an abstract one that holds in memory only.
LEMMA SubnetInMemory ==
  ASSUME SettingsInv, NEW t \in Threads, call[t].at \in Saving, call[t].field = "subnet",
         SeenValues' = values, UNCHANGED <<up, file>>
  PROVE  AtomicStep
<1>1. values = [SeenValues EXCEPT !.subnet = call[t].value]
  BY SeenWhileSaving
<1>2. up /\ call[t].value \in Subnets
  BY DEF SettingsInv, CallOK, Saving, Threads, Switches
<1>3. Atomic!KeepInMemory(call[t].value)
  BY <1>1, <1>2 DEF Atomic!KeepInMemory
<1> QED
  BY <1>2, <1>3 DEF AtomicStep, Atomic!Next

\* A switch that was not saved has never been seen, a subnet stays in memory.
LEMMA FailStep ==
  ASSUME SettingsInv, NEW t \in Threads, call[t].at \in Saving, Fail(t)
  PROVE  SettingsInv' /\ AtomicStep
<1> DEFINE f == call[t].field
<1>1. Leave(t, FALSE) /\ UNCHANGED <<up, file>>
  BY DEF Fail
<1>2. CASE f \in Switches
  <2>1. values' = SeenValues
    BY <1>2, SeenWhileSaving DEF Fail, TakeBack
  <2>2. ValuesOK'
    BY <1>2 DEF Fail, TakeBack, SettingsInv, ValuesOK, Switches
  <2>3. SettingsInv' /\ SeenValues' = values'
    BY <1>1, <2>2, LeaveKeeps DEF SettingsInv
  <2> QED
    BY <1>1, <2>1, <2>3 DEF AtomicStep, Atomic!settingsVars
<1>3. CASE f \notin Switches
  <2>1. values' = values /\ f = "subnet"
    BY <1>3 DEF Fail, TakeBack, SettingsInv, CallOK, Saving, Threads
  <2>2. SettingsInv' /\ SeenValues' = values'
    BY <1>1, <2>1, LeaveKeeps DEF SettingsInv, ValuesOK
  <2> QED
    BY <1>1, <2>1, <2>2, SubnetInMemory
<1> QED
  BY <1>2, <1>3

\* Opening the temporary file is not seen, or the setter fails.
LEMMA OpenStep ==
  ASSUME SettingsInv, NEW t \in Threads, Open(t)
  PROVE  SettingsInv' /\ AtomicStep
<1>1. call[t].at \in Saving
  BY DEF Open, Saving
<1>2. CASE CallAt(t, "writing") /\ UNCHANGED <<up, values, file, owner>>
  BY <1>1, <1>2, AdvanceStep DEF Saving, AtomicStep
<1>3. CASE Fail(t)
  BY <1>1, <1>3, FailStep
<1> QED
  BY <1>2, <1>3 DEF Open

\* Nor is writing it.
LEMMA WriteStep ==
  ASSUME SettingsInv, NEW t \in Threads, Write(t)
  PROVE  SettingsInv' /\ AtomicStep
<1>1. call[t].at \in Saving
  BY DEF Write, Saving
<1>2. CASE /\ temporary' = File("whole", values) /\ CallAt(t, "renaming")
           /\ UNCHANGED <<up, values, file, owner>>
  BY <1>1, <1>2, AdvanceStep DEF Saving, AtomicStep
<1>3. CASE Fail(t)
  BY <1>1, <1>3, FailStep
<1> QED
  BY <1>2, <1>3 DEF Write

\* The rename is the moment at which a setting changes, in memory and on disk.
LEMMA RenameStep ==
  ASSUME SettingsInv, NEW t \in Threads, Rename(t)
  PROVE  SettingsInv' /\ AtomicStep
<1> DEFINE f == call[t].field
<1>1. call[t].at \in Saving /\ temporary = File("whole", values)
  BY DEF Rename, Saving, SettingsInv, CallOK
<1>2. CASE file' = temporary /\ Leave(t, TRUE) /\ UNCHANGED <<up, values>>
  <2>1. file'.data = values /\ ValuesOK /\ ValuesOK'
    BY <1>1, <1>2 DEF File, SettingsInv, ValuesOK
  <2>2. SettingsInv' /\ SeenValues' = values
    <3>1. "subnet" \in DOMAIN file'.data => file'.data.subnet \in Int
      BY <2>1 DEF ValuesOK
    <3> QED
      BY <1>1, <1>2, <2>1, <3>1, LeaveKeeps
  <2>3. SeenValues' = [SeenValues EXCEPT ![f] = call[t].value]
    BY <1>1, <2>2, SeenWhileSaving
  <2>4. LoadOf(file)' = [loads |-> TRUE, config |-> SeenValues']
    BY <1>1, <1>2, <2>1, <2>2, SavedIsLoaded
  <2>5. up /\ UNCHANGED up
    BY <1>1, <1>2 DEF SettingsInv, CallOK, Saving
  <2>6. Atomic!Keep(f, call[t].value)
    BY <2>3, <2>4, <2>5 DEF Atomic!Keep
  <2>7. \/ f = "subnet" /\ call[t].value \in Subnets
        \/ f \in Switches /\ call[t].value \in BOOLEAN
    BY <1>1 DEF SettingsInv, CallOK, Saving, Threads
  <2> QED
    BY <2>2, <2>6, <2>7 DEF AtomicStep, Atomic!Next
<1>3. CASE Fail(t)
  BY <1>1, <1>3, FailStep
<1> QED
  BY <1>2, <1>3 DEF Rename

\* An exception in save() on the main thread leaves the subnet in memory.
LEMMA PathFailsStep ==
  ASSUME SettingsInv, PathFails(Main)
  PROVE  SettingsInv' /\ AtomicStep
<1>1. /\ Main \in Threads /\ call[Main].at \in Saving /\ call[Main].field = "subnet"
      /\ Leave(Main, FALSE) /\ UNCHANGED <<up, values, file, temporary>>
  BY DEF PathFails, Saving, Threads, SettingsInv, CallOK
<1>2. SettingsInv' /\ SeenValues' = values'
  BY <1>1, LeaveKeeps DEF SettingsInv, ValuesOK
<1> QED
  BY <1>1, <1>2, SubnetInMemory
---------------------------------------------------------------------------
(* What the other threads see of a setter. *)

SetterStep(t) == Enter(t) \/ Open(t) \/ Write(t) \/ Rename(t)

\* Every step of a setter, up to its end, is one of the abstract settings.
LEMMA SetterIsAtomic ==
  ASSUME SettingsInv, NEW t \in Threads, SetterStep(t)
  PROVE  SettingsInv' /\ AtomicStep
  BY EnterStep, OpenStep, WriteStep, RenameStep DEF SetterStep, AtomicStep

\* A setter that failed has changed no switch for anybody.
LEMMA FailSeen ==
  ASSUME SettingsInv, NEW t \in Threads, call[t].at \in Saving, Fail(t)
  PROVE  /\ UNCHANGED up
         /\ \A s \in Threads \ {t} : call'[s] = call[s]
         /\ call'[t].at = "idle" /\ call'[t].saved = FALSE
         /\ \A f \in Switches : SeenValues'[f] = SeenValues[f]
<1>1. Leave(t, FALSE) /\ UNCHANGED <<up, file>>
  BY DEF Fail
<1>2. SettingsInv' /\ AtomicStep
  BY FailStep
<1>3. /\ call'[t].at = "idle" /\ call'[t].saved = FALSE
      /\ \A s \in Threads \ {t} : call'[s] = call[s]
  BY <1>1 DEF Leave, NoCall, SettingsInv
<1>4. SeenValues' = values'
  BY <1>1 DEF Leave, SeenValues
<1>5. SeenValues = [values EXCEPT ![call[t].field] = call[t].previous]
  BY SeenWhileSaving
<1>6. \A f \in Switches : f \in Fields
  BY DEF Fields
<1>7. DOMAIN values = Fields
  BY DEF SettingsInv, ValuesOK
<1>8. \A f \in Switches : SeenValues'[f] = SeenValues[f]
  <2>1. CASE call[t].field \in Switches
    BY <1>4, <1>5, <2>1 DEF Fail, TakeBack
  <2>2. CASE call[t].field \notin Switches
    BY <1>4, <1>5, <1>6, <1>7, <2>2 DEF Fail, TakeBack
  <2> QED
    BY <2>1, <2>2
<1> QED
  BY <1>1, <1>3, <1>8

\* The other threads see a switch change when its setter returns with success,
\* to the value it was called with, and at no other step.
LEMMA SetterSeen ==
  ASSUME SettingsInv, NEW t \in Threads, SetterStep(t)
  PROVE  /\ UNCHANGED up /\ call[t].at # "idle"
         /\ \A s \in Threads \ {t} : call'[s] = call[s]
         /\ call'[t].at # "idle" =>
               call'[t].field = call[t].field /\ call'[t].value = call[t].value
         /\ \A f \in Switches :
               SeenValues'[f] = IF /\ call'[t].at = "idle" /\ call'[t].saved
                                   /\ f = call[t].field
                                THEN call[t].value ELSE SeenValues[f]
<1>1. CASE Enter(t)
  <2>1. SeenValues' = SeenValues
    BY <1>1, EnterStep DEF Atomic!settingsVars
  <2>2. /\ call'[t].at = "opening" /\ call'[t].field = call[t].field
        /\ call'[t].value = call[t].value
        /\ \A s \in Threads \ {t} : call'[s] = call[s]
    BY <1>1, EnterCall
  <2> QED
    BY <1>1, <2>1, <2>2 DEF Enter
<1>2. CASE /\ call[t].at \in Saving
           /\ \E place \in Saving :
                CallAt(t, place) /\ (place = "renaming" => temporary' = File("whole", values))
           /\ UNCHANGED <<up, values, file, owner>>
  <2> PICK place \in Saving :
        CallAt(t, place) /\ (place = "renaming" => temporary' = File("whole", values))
    BY <1>2
  <2>1. SeenValues' = SeenValues
    BY <1>2, AdvanceStep DEF Atomic!settingsVars
  <2>2. /\ call'[t].at = place /\ call'[t].field = call[t].field
        /\ call'[t].value = call[t].value
        /\ \A s \in Threads \ {t} : call'[s] = call[s]
    BY DEF CallAt, SettingsInv, CallRecord
  <2> QED
    BY <1>2, <2>1, <2>2 DEF Saving
<1>3. CASE call[t].at \in Saving /\ Fail(t)
  BY <1>3, FailSeen DEF Saving
<1>4. CASE /\ call[t].at = "renaming"
           /\ file' = temporary /\ Leave(t, TRUE) /\ UNCHANGED <<up, values>>
  <2>1. call[t].at \in Saving
    BY <1>4 DEF Saving
  <2>2. values = [SeenValues EXCEPT ![call[t].field] = call[t].value] /\ call[t].field \in Fields
        /\ SeenValues = [values EXCEPT ![call[t].field] = call[t].previous]
    BY <2>1, SeenWhileSaving
  <2>3. SeenValues' = values
    BY <1>4 DEF Leave, SeenValues
  <2>4. /\ call'[t].at = "idle" /\ call'[t].saved = TRUE
        /\ \A s \in Threads \ {t} : call'[s] = call[s]
    BY <1>4 DEF Leave, NoCall, SettingsInv
  <2>5. \A f \in Switches : f \in Fields
    BY DEF Fields
  <2>6. DOMAIN values = Fields /\ DOMAIN SeenValues = Fields
    BY <2>2 DEF SettingsInv, ValuesOK
  <2> QED
    BY <1>4, <2>2, <2>3, <2>4, <2>5, <2>6
<1> QED
  BY <1>1, <1>2, <1>3, <1>4 DEF SetterStep, Open, Write, Rename, Saving
\* An exception in save() on the main thread changes no switch.
LEMMA PathFailsSeen ==
  ASSUME SettingsInv, PathFails(Main)
  PROVE  /\ UNCHANGED up /\ call'[Can] = call[Can]
         /\ \A f \in Switches : SeenValues'[f] = SeenValues[f]
<1>1. /\ Main \in Threads /\ Can \in Threads /\ call[Main].at \in Saving
      /\ call[Main].field = "subnet"
      /\ Leave(Main, FALSE) /\ UNCHANGED <<up, values>>
  BY DEF PathFails, Saving, Threads, SettingsInv, CallOK
<1>2. call'[Can] = call[Can]
  BY <1>1, SettingsAssumption DEF Leave, SettingsInv
<1>3. SeenValues' = values
  BY <1>1 DEF Leave, SeenValues
<1>4. SeenValues = [values EXCEPT !.subnet = call[Main].previous]
  BY <1>1, SeenWhileSaving
<1>5. \A f \in Switches : f \in Fields /\ f # "subnet"
  BY DEF Fields, Switches
<1>6. DOMAIN values = Fields
  BY DEF SettingsInv, ValuesOK
<1> QED
  BY <1>1, <1>2, <1>3, <1>4, <1>5, <1>6

---------------------------------------------------------------------------
(* The client. *)

EntryOK(e) == e[1] \in ConfigSet /\ e[2] \in BOOLEAN

\* The listener has saved the user's entry and is about to switch the interface.
ToSwitch ==
  /\ listener = "setting" /\ call[Can].at = "idle" /\ call[Can].saved
  /\ handling[1] = "nmeaSendEnabled"

\* The CAN thread is in a setter only for the entry the listener handles, and
\* the interface follows the setting except between the end of the setter and
\* the switch, when it is the entry that follows it.
ListenerInv ==
  /\ listener \in {"idle", "setting", "answer", "confirm"}
  /\ entry # <<>> => EntryOK(entry)
  /\ listener # "idle" => EntryOK(handling)
  /\ call[Can].at # "idle" =>
        listener = "setting" /\ call[Can].field = handling[1] /\ call[Can].value = handling[2]

SendingInv ==
  up => IF ToSwitch THEN SeenValues.nmeaSendEnabled = handling[2]
                    ELSE nmeaSending = SeenValues.nmeaSendEnabled

VtInv ==
  /\ SettingsInv
  /\ at # "down" => up
  /\ interface \/ listener # "idle" => up
  /\ ListenerInv /\ SendingInv
---------------------------------------------------------------------------
(* The steps. *)

\* The objects with a configuration value are switches.
LEMMA ConfigFact == ConfigSet \subseteq Switches /\ "nmeaSendEnabled" \in Switches
<1>1. DOMAIN ConfigObjects = {1, 2}
  BY DEF ConfigObjects
<1> QED
  BY <1>1 DEF ConfigSet, ConfigObjects, Switches

\* A new installation.
LEMMA VtStart == Init => VtInv /\ Atomic!Init
<1> SUFFICES ASSUME Init PROVE VtInv /\ Atomic!Init
  OBVIOUS
<1>1. SettingsInv /\ Atomic!Init
  BY SettingsStart DEF Init
<1>2. call[Can].at = "idle"
  BY NoCallFact DEF Init, SettingsInit, Threads
<1> QED
  BY <1>1, <1>2 DEF Init, SettingsInit, VtInv, ListenerInv, SendingInv

\* Most steps touch neither the settings nor what the listener handles.
LEMMA QuietStep ==
  ASSUME VtInv, UNCHANGED <<settingsVars, listenerVars, nmeaVars>>,
         entry' # <<>> => entry' = entry \/ EntryOK(entry'),
         at' # "down" => at # "down"
  PROVE  VtInv' /\ AtomicStep
<1>1. UNCHANGED <<up, values, file, temporary, owner, call, listener, handling, interface,
                  nmeaSending>>
  BY DEF settingsVars, listenerVars, nmeaVars
<1>2. SettingsInv' /\ SeenValues' = SeenValues
  BY <1>1 DEF VtInv, SettingsInv, ValuesOK, CallOK, SeenValues
<1>3. UNCHANGED Atomic!settingsVars
  BY <1>1, <1>2 DEF Atomic!settingsVars
<1>4. ListenerInv' /\ SendingInv'
  BY <1>1, <1>2 DEF VtInv, ListenerInv, SendingInv, ToSwitch, EntryOK
<1> QED
  BY <1>1, <1>2, <1>3, <1>4 DEF VtInv, AtomicStep

\* The interface starts as the settings say.
LEMMA StartStep ==
  ASSUME VtInv, Start
  PROVE  VtInv' /\ AtomicStep
<1>1. Load
  BY DEF Start
<1>2. SettingsInv' /\ Atomic!Start
  BY <1>1, LoadStep DEF VtInv
<1>3. /\ up' /\ UNCHANGED <<owner, call, listener, handling, entry>>
      /\ nmeaSending' = values'.nmeaSendEnabled
  BY <1>1 DEF Start, Load, listenerVars
<1>4. owner = "nobody" /\ call[Can].at = "idle"
  BY <1>1 DEF Load, VtInv, SettingsInv, CallOK, Saving, Threads
<1>5. SeenValues' = values'
  BY <1>3, <1>4 DEF SeenValues
<1>6. ~ToSwitch'
  BY <1>1, <1>3 DEF ToSwitch, VtInv, Load
<1> QED
  BY <1>2, <1>3, <1>5, <1>6 DEF VtInv, ListenerInv, SendingInv, AtomicStep, Atomic!Next, EntryOK

\* Nothing of the process is left when it ends.
LEMMA EndStep ==
  ASSUME VtInv, EndProcess
  PROVE  VtInv' /\ AtomicStep
<1>1. SettingsInv' /\ Atomic!End
  BY DieStep DEF VtInv, EndProcess
<1>2. ~up' /\ call'[Can].at = "idle"
  BY NoCallFact DEF EndProcess, Die, Threads
<1> QED
  BY <1>1, <1>2 DEF EndProcess, VtInv, ListenerInv, SendingInv, AtomicStep, Atomic!Next

\* A step of a setter leaves the interface in step with the setting, or, at the
\* end of the listener's own setter, behind it by the entry.
LEMMA SaveStepKeeps ==
  ASSUME VtInv, NEW t \in Threads, SaveStep(t)
  PROVE  VtInv' /\ AtomicStep
<1> DEFINE f == "nmeaSendEnabled"
<1>1. SetterStep(t)
  BY DEF SaveStep, SetterStep
<1>2. SettingsInv' /\ AtomicStep
  BY <1>1, SetterIsAtomic DEF VtInv
<1>3. UNCHANGED <<at, listener, handling, interface, nmeaSending, entry>>
  BY DEF SaveStep, passVars, listenerVars, nmeaVars
<1>4. /\ UNCHANGED up /\ call[t].at # "idle"
      /\ \A s \in Threads \ {t} : call'[s] = call[s]
      /\ call'[t].at # "idle" =>
            call'[t].field = call[t].field /\ call'[t].value = call[t].value
      /\ SeenValues'[f] = IF /\ call'[t].at = "idle" /\ call'[t].saved
                             /\ f = call[t].field
                          THEN call[t].value ELSE SeenValues[f]
  BY <1>1, SetterSeen, ConfigFact DEF VtInv
<1>5. CASE t = Can
  <2>1. /\ listener = "setting" /\ call[Can].field = handling[1]
        /\ call[Can].value = handling[2]
    BY <1>4, <1>5 DEF VtInv, ListenerInv
  <2>2. ListenerInv'
    BY <1>3, <1>4, <1>5, <2>1 DEF VtInv, ListenerInv, EntryOK
  <2>3. ~ToSwitch
    BY <1>4, <1>5 DEF ToSwitch
  <2>4. SendingInv'
    BY <1>3, <1>4, <1>5, <2>1, <2>3 DEF VtInv, SendingInv, ToSwitch
  <2> QED
    BY <1>2, <1>3, <1>4, <2>2, <2>4 DEF VtInv
<1>6. CASE t = Main
  <2>1. Can \in Threads /\ call'[Can] = call[Can]
    BY <1>4, <1>6, SettingsAssumption DEF Threads
  <2>2. call[t].field = "subnet"
    BY <1>4, <1>6 DEF VtInv, SettingsInv, CallOK
  <2>3. SeenValues'[f] = SeenValues[f]
    BY <1>4, <2>2
  <2> QED
    BY <1>2, <1>3, <1>4, <2>1, <2>3 DEF VtInv, ListenerInv, SendingInv, ToSwitch, EntryOK
<1> QED
  BY <1>5, <1>6 DEF Threads

\* An exception from save() ends the process, at once or with the pass.
LEMMA SaveThrowsKeeps ==
  ASSUME VtInv, NEW t \in Threads, SaveThrows(t)
  PROVE  VtInv' /\ AtomicStep
<1>1. CASE /\ PathFails(Main) /\ at' = "stopping"
           /\ UNCHANGED <<listenerVars, nmeaVars, entry>>
  <2>1. SettingsInv' /\ AtomicStep
    BY <1>1, PathFailsStep DEF VtInv
  <2>2. /\ UNCHANGED up /\ call'[Can] = call[Can]
        /\ SeenValues'["nmeaSendEnabled"] = SeenValues["nmeaSendEnabled"]
    BY <1>1, PathFailsSeen, ConfigFact DEF VtInv
  <2>3. up
    BY <1>1 DEF PathFails, VtInv, SettingsInv, CallOK, Threads
  <2> QED
    BY <1>1, <2>1, <2>2, <2>3
       DEF VtInv, ListenerInv, SendingInv, ToSwitch, EntryOK, listenerVars, nmeaVars
<1>2. CASE EndProcess
  BY <1>2, EndStep
<1> QED
  BY <1>1, <1>2 DEF SaveThrows

\* The listener takes the user's entry and calls its setter.
LEMMA HandleEntryKeeps ==
  ASSUME VtInv, HandleEntry
  PROVE  VtInv' /\ AtomicStep
<1>1. /\ up /\ EntryOK(entry) /\ listener = "idle" /\ call[Can].at = "idle"
      /\ handling' = entry /\ entry' = <<>>
      /\ UNCHANGED <<at, interface, nmeaSending>>
  BY DEF HandleEntry, VtInv, ListenerInv, passVars, nmeaVars
<1>2. CASE listener' = "answer" /\ UNCHANGED settingsVars
  <2>1. UNCHANGED <<up, values, file, temporary, owner, call>>
    BY <1>2 DEF settingsVars
  <2>2. SettingsInv' /\ SeenValues' = SeenValues
    BY <2>1 DEF VtInv, SettingsInv, ValuesOK, CallOK, SeenValues
  <2>3. UNCHANGED Atomic!settingsVars
    BY <2>1, <2>2 DEF Atomic!settingsVars
  <2> QED
    BY <1>1, <1>2, <2>1, <2>2, <2>3
       DEF VtInv, ListenerInv, SendingInv, ToSwitch, EntryOK, AtomicStep
<1>3. CASE listener' = "setting" /\ Ask(Can, entry[1], entry[2])
  <2>1. Can \in Threads /\ Can # Main /\ entry[1] \in Switches /\ entry[2] \in BOOLEAN
    BY <1>1, ConfigFact, SettingsAssumption DEF EntryOK, Threads
  <2>2. SettingsInv' /\ UNCHANGED Atomic!settingsVars
    BY <1>1, <1>3, <2>1, AskStep DEF VtInv
  <2>3. UNCHANGED up /\ SeenValues' = SeenValues
    BY <2>2 DEF Atomic!settingsVars
  <2>4. /\ call'[Can].at = "entering" /\ call'[Can].field = entry[1]
        /\ call'[Can].value = entry[2]
    BY <1>3, <2>1 DEF Ask, VtInv, SettingsInv
  <2> QED
    BY <1>1, <1>3, <2>2, <2>3, <2>4
       DEF VtInv, ListenerInv, SendingInv, ToSwitch, EntryOK, AtomicStep
<1> QED
  BY <1>2, <1>3 DEF HandleEntry

\* The listener goes on without touching the settings.
LEMMA ListenerKeeps ==
  ASSUME VtInv, AfterSet \/ AnswerStored \/ Confirm
  PROVE  VtInv' /\ AtomicStep
<1>1. UNCHANGED <<up, values, file, temporary, owner, call, at, interface, entry>>
  BY DEF AfterSet, AnswerStored, Confirm, settingsVars, passVars, nmeaVars
<1>2. SettingsInv' /\ SeenValues' = SeenValues
  BY <1>1 DEF VtInv, SettingsInv, ValuesOK, CallOK, SeenValues
<1>3. UNCHANGED Atomic!settingsVars
  BY <1>1, <1>2 DEF Atomic!settingsVars
<1>4. CASE AfterSet
  BY <1>1, <1>2, <1>3, <1>4
     DEF AfterSet, SwitchSending, VtInv, ListenerInv, SendingInv, ToSwitch, EntryOK, AtomicStep
<1>5. CASE AnswerStored
  BY <1>1, <1>2, <1>3, <1>5
     DEF AnswerStored, VtInv, ListenerInv, SendingInv, ToSwitch, EntryOK, nmeaVars, AtomicStep
<1>6. CASE Confirm
  BY <1>1, <1>2, <1>3, <1>6
     DEF Confirm, VtInv, ListenerInv, SendingInv, ToSwitch, EntryOK, nmeaVars, AtomicStep
<1> QED
  BY <1>4, <1>5, <1>6

---------------------------------------------------------------------------
(* The specification. *)

\* Every step of every thread, of the user and of the file system.
LEMMA VtStep == VtInv /\ [Next]_vars => VtInv' /\ AtomicStep
<1> SUFFICES ASSUME VtInv, [Next]_vars PROVE VtInv' /\ AtomicStep
  OBVIOUS
<1> USE DEF Goto
<1>1. CASE UNCHANGED vars
  BY <1>1, QuietStep DEF vars, passVars
<1>2. CASE NoSubnet \/ SubnetSet
  BY <1>2, QuietStep DEF NoSubnet, SubnetSet
<1>3. CASE SubnetArrives
  <2>1. PICK s \in Subnets : Ask(Main, "subnet", s)
    BY <1>3 DEF SubnetArrives
  <2>2. up /\ Main \in Threads /\ Main # Can /\ Can \in Threads
    BY <1>3, SettingsAssumption DEF SubnetArrives, VtInv, Threads
  <2>3. SettingsInv' /\ UNCHANGED Atomic!settingsVars
    BY <2>1, <2>2, AskStep DEF VtInv
  <2>4. UNCHANGED up /\ SeenValues' = SeenValues
    BY <2>3 DEF Atomic!settingsVars
  <2>5. call'[Can] = call[Can]
    BY <2>1, <2>2 DEF Ask, VtInv, SettingsInv
  <2>6. UNCHANGED <<listener, handling, interface, nmeaSending, entry>>
    BY <1>3 DEF SubnetArrives, listenerVars, nmeaVars
  <2> QED
    BY <2>2, <2>3, <2>4, <2>5, <2>6
       DEF VtInv, ListenerInv, SendingInv, ToSwitch, EntryOK, AtomicStep
<1>4. CASE \E t \in Threads : SaveStep(t)
  BY <1>4, SaveStepKeeps
<1>5. CASE TryStartVtClient \/ VtDisconnected \/ VtConnected
  BY <1>5, QuietStep DEF TryStartVtClient, VtDisconnected, VtConnected
<1>6. CASE ReadSetting \/ SyncSend \/ ConfigSend
  BY <1>6, QuietStep DEF ReadSetting, SyncSend, ConfigSend
<1>7. CASE SendStrings \/ NextPass
  BY <1>7, QuietStep DEF SendStrings, NextPass
<1>8. CASE Stop \/ Crash
  BY <1>8, EndStep DEF Stop, Crash
<1>9. CASE HandleEntry
  BY <1>9, HandleEntryKeeps
<1>10. CASE AfterSet \/ AnswerStored \/ Confirm
  BY <1>10, ListenerKeeps
<1>11. CASE Start
  BY <1>11, StartStep
<1>12. CASE Edited
  <2>1. SettingsInv' /\ AtomicStep
    BY <1>12, EditStep DEF Edited, VtInv
  <2>2. UNCHANGED <<up, values, owner, call>> /\ ~up
    BY <1>12 DEF Edited, EditFile
  <2>3. UNCHANGED <<at, listener, handling, interface, nmeaSending, entry>>
    BY <1>12 DEF Edited, passVars, listenerVars, nmeaVars
  <2> QED
    BY <2>1, <2>2, <2>3 DEF VtInv, ListenerInv, SendingInv, EntryOK
<1>13. CASE \E t \in Threads : SaveThrows(t)
  BY <1>13, SaveThrowsKeeps
<1>14. CASE UserEnters
  <2>1. EntryOK(entry')
    BY <1>14 DEF UserEnters, EntryOK
  <2> QED
    BY <1>14, <2>1, QuietStep DEF UserEnters, passVars
<1>15. CASE FactsChange
  BY <1>15, QuietStep DEF FactsChange, passVars
<1> QED
  BY <1>1, <1>2, <1>3, <1>4, <1>5, <1>6, <1>7, <1>8, <1>9, <1>10, <1>11, <1>12, <1>13, <1>14,
     <1>15 DEF Next, MainStep, CanStep, Threads

\* What the steps need holds always.
LEMMA VtInvHolds == Spec => []VtInv
  BY VtStart, VtStep, PTL DEF Spec

\* The setters of settings.cpp, called by two threads, with every file operation
\* that may fail and a process that may end anywhere between them, implement the
\* atomic settings of AtomicSettings, whatever subnets are announced and whatever
\* the user leaves in settings.json.
THEOREM SettingsAreAlwaysAtomic == Spec => SettingsAreAtomic
<1>1. Init => Atomic!Init
  BY VtStart
<1>2. VtInv /\ [Next]_vars => [Atomic!Next]_(Atomic!settingsVars)
  BY VtStep DEF AtomicStep
<1> QED
  BY <1>1, <1>2, VtInvHolds, PTL DEF Spec, SettingsAreAtomic, Atomic!Spec

\* The listener of setup_vt_client() keeps the NMEA interface in step with the
\* setting, whichever saves fail and whenever the process ends and starts again.
THEOREM SendingAlwaysFollowsSetting == Spec => []SendingFollowsSetting
<1>1. VtInv => SendingFollowsSetting
  BY DEF VtInv, SendingInv, ToSwitch, SendingFollowsSetting
<1> QED
  BY <1>1, VtInvHolds, PTL
=============================================================================
