------------------------------ MODULE Settings ------------------------------
(***************************************************************************)
(* The settings of src/settings.cpp: the values in memory, settings.json   *)
(* and its temporary file, and the recursive mutex under which a setter    *)
(* assigns, saves and, for a switch that could not be saved, takes back.   *)
(*                                                                         *)
(* The main thread sets the subnet AgIO announces, the CAN thread the      *)
(* switches a terminal changes; both keep `save' at TRUE.  Every step on   *)
(* the file system may fail, and the process may end between any two.      *)
(***************************************************************************)
EXTENDS Integers

CONSTANTS
  Main, Can,   \* the threads that call setters
  Subnets,     \* subnets AgIO may announce
  Edits        \* contents a user may give settings.json

ASSUME SettingsAssumption ==
  /\ Main # Can /\ "nobody" \notin {Main, Can}
  /\ Subnets \subseteq 0..255
  /\ \A json \in Edits : "subnet" \in DOMAIN json.data => json.data.subnet \in Int

VARIABLES
  up,         \* the process runs and has loaded its settings
  values,     \* the members of Settings
  file,       \* settings.json
  temporary,  \* settings.json.tmp
  owner,      \* the thread that holds settingsMutex, or "nobody"
  call        \* per thread: the setter it is in

settingsVars == <<up, values, file, temporary, owner, call>>

Threads == {Main, Can}
Switches == {"tecuEnabled", "nmeaSendEnabled", "aogHeartbeatEnabled", "vtEnabled"}
Fields == Switches \cup {"subnet", "tcVersion", "languageCode", "countryCode"}

Default ==
  [subnet |-> 5, tecuEnabled |-> TRUE, nmeaSendEnabled |-> TRUE, aogHeartbeatEnabled |-> TRUE,
   vtEnabled |-> TRUE, tcVersion |-> 3, languageCode |-> "en", countryCode |-> "US"]

\* A file is absent, holds a JSON document (`data' are its keys with a value of
\* the right type) or does not parse, as one that was not written to its end.
File(state, data) == [state |-> state, data |-> data]
Nothing == [f \in {} |-> f]
Absent == File("absent", Nothing)
Broken == File("broken", Nothing)

NoCall == [at |-> "idle", field |-> "subnet", value |-> 0, previous |-> 0, saved |-> TRUE]

SettingsInit ==
  /\ up = FALSE /\ values = Default
  /\ file = Absent /\ temporary = Absent
  /\ owner = "nobody" /\ call = [t \in Threads |-> NoCall]

---------------------------------------------------------------------------
(* load(). *)

\* What a key's value becomes: subnet octets are cut to eight bits, a version
\* that does not exist is the default one.
Accepted(field, raw) ==
  CASE field = "subnet" -> raw % 256
    [] field = "tcVersion" -> IF raw \in 0..4 THEN raw ELSE Default.tcVersion
    [] OTHER -> raw

\* Keys that are missing or of the wrong type fall back to their defaults.
Loaded(data) ==
  [f \in Fields |-> IF f \in DOMAIN data THEN Accepted(f, data[f]) ELSE Default[f]]

\* load() on a new object: without a file the members keep their defaults, and
\* a file that does not parse ends the start with an exception.
LoadOf(json) ==
  [loads |-> json.state # "broken",
   config |-> IF json.state = "whole" THEN Loaded(json.data) ELSE Default]

Load ==
  /\ ~up /\ LoadOf(file).loads
  /\ up' = TRUE /\ values' = LoadOf(file).config
  /\ UNCHANGED <<file, temporary, owner, call>>

---------------------------------------------------------------------------
(* The setters and save(). *)

CallAt(t, place) == call' = [call EXCEPT ![t].at = place]

\* A thread calls a setter and waits for the mutex.
Ask(t, field, value) ==
  /\ call[t].at = "idle"
  /\ call' = [call EXCEPT ![t] = [at |-> "entering", field |-> field, value |-> value,
                                  previous |-> value, saved |-> TRUE]]
  /\ UNCHANGED <<up, values, file, temporary, owner>>

\* Slip: the setters do not lock.
AnyTime(t) == TRUE

MayLock(t) == owner = "nobody"

Enter(t) ==
  /\ call[t].at = "entering" /\ MayLock(t)
  /\ owner' = t
  /\ values' = [values EXCEPT ![call[t].field] = call[t].value]
  /\ call' = [call EXCEPT ![t].previous = values[call[t].field], ![t].at = "opening"]
  /\ UNCHANGED <<up, file, temporary>>

Leave(t, saved) ==
  /\ owner' = "nobody"
  /\ call' = [call EXCEPT ![t] = [NoCall EXCEPT !.saved = saved]]

\* Slip: a switch that was not saved is not taken back.
KeepUnsaved(t) == UNCHANGED values

\* set_boolean() takes a switch back, set_subnet() keeps the subnet.
TakeBack(t) ==
  values' = IF call[t].field \in Switches
            THEN [values EXCEPT ![call[t].field] = call[t].previous] ELSE values

Fail(t) == TakeBack(t) /\ Leave(t, FALSE) /\ UNCHANGED <<up, file>>

\* save() opens the temporary file, which empties it.
Open(t) ==
  /\ call[t].at = "opening"
  /\ \/ temporary' = Broken /\ CallAt(t, "writing") /\ UNCHANGED <<up, values, file, owner>>
     \/ Fail(t) /\ UNCHANGED temporary

\* Text written, flushed and closed; a failure removes the temporary file,
\* which may fail as well and is ignored.
Write(t) ==
  /\ call[t].at = "writing"
  /\ \/ temporary' = File("whole", values) /\ CallAt(t, "renaming")
        /\ UNCHANGED <<up, values, file, owner>>
     \/ Fail(t) /\ temporary' \in {Absent, Broken}

\* Slip: the file is copied in place, in two steps.
CopyOver(t) ==
  /\ call[t].at = "renaming"
  /\ \/ /\ file.state # "broken" /\ file' = Broken
        /\ UNCHANGED <<up, values, temporary, owner, call>>
     \/ file.state = "broken" /\ file' = temporary /\ temporary' = Absent /\ Leave(t, TRUE)
        /\ UNCHANGED <<up, values>>

\* The rename replaces settings.json in one step or not at all.
Rename(t) ==
  /\ call[t].at = "renaming"
  /\ \/ file' = temporary /\ temporary' = Absent /\ Leave(t, TRUE)
        /\ UNCHANGED <<up, values>>
     \/ Fail(t) /\ temporary' \in {Absent, temporary}

\* get_filename_path() throws in save(): the lock is released, nothing is taken
\* back.  The caller's exception handler decides what becomes of the process.
PathFails(t) ==
  /\ call[t].at = "opening"
  /\ Leave(t, FALSE)
  /\ UNCHANGED <<up, values, file, temporary>>

\* The process ends, in whatever state its threads are.
Die ==
  /\ up' = FALSE /\ values' = Default
  /\ owner' = "nobody" /\ call' = [t \in Threads |-> NoCall]
  /\ UNCHANGED <<file, temporary>>

\* The user writes settings.json, which is read at the next start.
EditFile ==
  /\ ~up /\ file' \in Edits \ {file}
  /\ UNCHANGED <<up, values, temporary, owner, call>>

\* A getter waits for the mutex.
CanRead == owner = "nobody"

---------------------------------------------------------------------------
(* The abstract settings this module implements. *)

\* Until the rename the getters of other threads, which wait for the mutex,
\* have not seen the new value.
SeenValues ==
  IF owner = "nobody" THEN values
  ELSE [values EXCEPT ![call[owner].field] = call[owner].previous]

Atomic == INSTANCE AtomicSettings WITH values <- SeenValues, stored <- LoadOf(file)
=============================================================================
