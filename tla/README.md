# AOG-TaskController in TLA+

A verification development for AOG-TaskController, the program that connects
AgOpenGPS (AOG, through AgIO, over UDP) to implements on an ISOBUS network (over
CAN). The modules are translated from the source; TLC checks them on small
instances and TLAPS proves the most important properties for every instance.

## 1. The system

```
   AOG / AgIO --UDP--> UdpConnections --> Application::update()   main thread
                                              |  calls, copies
                                          MyTCServer  (clientsMutex)
                                              |  overrides
   implements --CAN--> AgIsoStack -------------                   CAN thread
   terminal  --CAN--> VT client, its listener ---> Settings ---> settings.json
   all threads --lines--> async_log queue ---> std::cout          writer thread
```

Two threads run for the lifetime of the process (docs/CONCURRENCY.md): the main
loop and the CAN stack's thread. A third one writes the log.

| Component | State | Operations | Hard behaviour | What makes it correct |
|---|---|---|---|---|
| `MyTCServer`, `ClientState` | per client: pool, DDI map, section setpoints and actual states, section/element maps, mode; queued DDOP transfers | DDOP upload, activation, deletion, timeout; value reports; demand, mode, GNSS quality and measurement commands from the main loop | two threads; the window between activation and mapping; only differences are sent; implicit insertion by `operator[]`; byte-wide section counts | implements' setpoints are AOG's demand; tractors get nothing; no index out of bounds; AOG sees a master that is off |
| element hierarchy | parent map | build, walk | cyclic pools | ends, finds every ancestor |
| `UdpConnections` | two static receive buffers, subnet | receive, detect, send, rebind | frames split or joined, left-over bytes, byte-wide position | frames handled once and intact, handlers return |
| `async_log`, crash handler | queue, counters, writer flag, line buffers | log, write, drop, flush | three threads, crash while holding the mutex, stuck output, overflow | bounded, nothing vanishes, flush tells the truth and returns |
| `Application::update()`, monitoring | demand, log and monitor state, scan snapshots | demand (0xE5), demand log, demand check, implement scan | clients change between the steps of a pass, stale values, time-outs | what AOG is told catches up with what is the case |
| `Application::update()`, periodic sends | addresses, conflict flag, last speed and fix, timers | conflict check, TECU alert, 0xF0 heartbeat, J1939 speed, GNSS quality | addresses and clients change between steps, datagrams and frames are refused, AOG takes alerts down by itself | what AOG and the bus are told catches up; a lost fix is not kept |
| start-up and shutdown | control functions, CAN thread, server, interfaces, `running` | `initialize()`, the loop, `stop()`, signals | address claims that come late or never, every step may fail or throw, signals during the start | silence after a claim, nothing outlives the program, a signal ends it |
| VT client | connection flags, cached strings, configuration values, update helper | `update_vt_client()` on the main thread, listener on the CAN thread | both threads send to the terminal, only changes are sent, connections are lost | strings and configuration catch up; the NMEA interface follows the setting |
| `Settings` | members, mutex, `settings.json` and its temporary file | load, save, setters | two threads, a save that fails at any step, a crash between any two | an atomic store (`AtomicSettings`) |

`PROJECT.json` lists the components with their status and, under `hazards`,
every place in the code that is hard to test, with the properties that cover it.

## 2. Modules

| Module | Models | Extends |
|---|---|---|
| `ElementHierarchy` | `build_parent_map()`, `any_in_chain()` as operators, and `MeetsAncestors`, the reference definition | |
| `Ddop` | what activation and the measurement commands read from a pool: geometry, control method, DDI map, subscriptions | `ElementHierarchy` |
| `MyTCServer` | the task controller server | `Ddop` |
| `MCMyTCServer` | pools of the kinds the code distinguishes (modern 290, old 161, oldest 141, tractor, 256 sections, broken) | `MyTCServer` |
| `ElementWalk`, `MCElementWalk` | the loop of `any_in_chain()` as it runs | `ElementHierarchy` |
| `UdpFraming`, `MCUdpFraming` | both receive handlers | |
| `LossyLog` | what the log promises: the abstract specification | |
| `AsyncLog`, `MCAsyncLog` | the log with its threads | instantiates `LossyLog` |
| `Application`, `MCApplication` | the demand monitor and the implement scan | |
| `AtomicSettings` | what settings promise their callers: the abstract specification | |
| `Settings` | settings.cpp with its files, its mutex and its failures | instantiates `AtomicSettings` |
| `VtClient`, `MCVtClient` | the VT client on both threads | `Settings` |
| `Transmissions` | the periodic sends of a pass | |
| `Lifecycle`, `MCLifecycle` | start, loop, stop, signals and restarts around them | `Transmissions` |
| `NaturalsProofs` | induction over the naturals and the least element, stated of sets | |
| `ElementHierarchyProofs` | the operators of the hierarchy | `ElementHierarchy`, `NaturalsProofs` |
| `ElementWalkProofs` | theorems about the loop | `ElementWalk`, `ElementHierarchyProofs` |
| `MyTCServerProofs` | theorems about the server | `MyTCServer`, `ElementHierarchyProofs` |
| `AsyncLogProofs` | theorems about the log, the refinement of `LossyLog` | `AsyncLog`, `NaturalsProofs` |
| `UdpFramingProofs` | theorems about the receive handlers | `UdpFraming` |
| `VtClientProofs` | the refinement of `AtomicSettings` and the NMEA interface | `VtClient` |
| `LifecycleProofs` | theorems about start, stop and the transmissions | `Lifecycle` |

Operators introduced by a comment `Slip:` are plausible mistakes in the
definition that follows them. No specification uses them; replacing the
definition by its slip must make a property fail, which shows that the property
depends on that code.

### MyTCServer

`clients` and `uploadedPools` are the maps of the class; a client is a record
with the fields of `ClientState`. `told` and `subscribed` record what the
implement has received since it registered (the last value per DDI and element,
the measurement commands); `demanded` and `requestedMode` are history variables.
Every override and every method called by `Application` holds `clientsMutex`
from its first line to its last, so each is one action, and the two threads are
the interleaving of `CanThread` and `MainThread` actions.

| Action | Code |
|---|---|
| `StorePool` | `store_device_descriptor_object_pool()` |
| `ActivatePool`, `RefusePool` | `activate_object_pool()`, its success and its refusals |
| `DropPool` | `deactivate_object_pool()`, `delete_device_descriptor_object_pool()` |
| `ClientTimeout` | `on_client_timeout()` |
| `ValueCommand` | `on_value_command()` for DDIs 161.., 160 and 141 |
| `RequestMeasurementCommands` | the method of that name, for all clients |
| `UpdateSectionStates` | `update_section_states()` with `send_section_setpoint_states()`, for all clients and all groups |
| `UpdateSectionControlEnabled` | the method of that name with `send_section_control_state()` |
| `SendGnssQuality` | `send_gnss_quality()` |

A pool is a record of what the code reads from it. Which objects several queued
transfers leave in one pool is AgIsoStack's affair: activation may see any of the
queued pools, and the result of the last transfer decides. A condensed value is
the function from positions to two-bit states rather than the 32-bit word.
`operator[]` value-initialises a `ClientState` (no sections, no pool).
`SectionsPerMessage` (16) and `DemandSize` (64) are parameters; the number of
condensed DDIs (16) and the width of the section count are not.

### UdpFraming

One pass of the `while` loop is one action, so that a loop that never ends is a
behaviour. Positions are bytes (`IndexModulus` 256) and buffers have their real
size. The two reads of `(rxBuffer[index++] << 8) | rxBuffer[index++]` are
unsequenced; the model takes them from left to right, without which no frame
would ever be recognised. `handle_address_detection()` reads its payload with
`index++`, so there a read wraps around; the packet handler is given a span.

### AsyncLog

Code under the queue's mutex that cannot block is one action; `submit()` takes
the mutex in a step of its own, so that a thread can crash inside. The writer's
two sections under the mutex, the end of one batch and the start of the next,
are one action because the mutex is held between them. A line is its size and
its number.

`LossyLog` has no threads, mutex, batch or counters: it is one queue. `Submit` appends
a line and may replace a run of entries in front of it, lines or an older notice, by
a notice of its bytes; `Write` moves the oldest entry to the output. `AsyncLog`
implements it (`LogIsLossyFifo`) with `Waiting`, the pending notice, the rest of the
batch, the notice still to come and the queue, one behind the other, as that queue.

### Application

The steps of `update()` are actions in program order; the CAN thread may change
`clients` between any two of them, as each takes its own copy from
`get_clients()`. Timestamps are ages that stop growing at `Oldest`; the code
only compares ages with intervals, so the difference cannot be observed (the
millisecond counter wraps after 49 days; that is not modelled). A pass takes one
unit of time. A demand is the set of clients of which it asks for some section.
What the packets do to the server is in `MyTCServer`. AOG shows hardware messages
and keeps no list, so the model records the last message about each NAME
(`lastMessage`) and whether it could be sent (`refused`).

### Settings and AtomicSettings

| Action | Code |
|---|---|
| `Load` | `load()`: missing or mistyped keys, octets cut to eight bits, unknown versions, a file that does not parse |
| `Ask`, `Enter` | a setter is called, takes the mutex and assigns |
| `Open`, `Write`, `Rename` | `save()`: open (and empty) the temporary file, write and close it, rename it; each may fail |
| `TakeBack` | the roll-back of `set_boolean()`; `set_subnet()` has none |
| `PathFails` | the exception `get_filename_path()` may throw |
| `Die`, `EditFile` | the process ends between any two steps; the user edits the file while it is down |

`AtomicSettings` has no mutex, no temporary file and no intermediate step: a
setter changes memory and disk at once, or fails. `SettingsAreAtomic` says that
`Settings`, driven by `VtClient`, implements it under the mapping

- `stored` is `LoadOf(file)`, what the next start would make of settings.json;
- `values` is `SeenValues`: the members, with the field a setter is changing as it
  was before, for as long as that setter holds the mutex and getters wait for it.

So an assignment is a stutter, the rename is the abstract step, and a failure that
is taken back is no step at all.

### VtClient

The main thread's pass is a sequence of actions (`SubnetArrives`, `VtConnected`,
`ReadSetting`, `SyncSend`, ...); reading a setting and sending it are two. The
listener (`HandleEntry` to `Confirm`) runs on the CAN thread. The terminal is
external: it shows what it was sent since it connected, on top of the object pool,
and its user changes configuration values. The library's update helper is external
too, with the two operations the code relies on: it sends values that differ from
the one it tracks, and it confirms entries after our listener, because
`initialize()` registers it later. Of the status strings those are kept that depend
on different things; `facts` is what they are about.

### Transmissions and Lifecycle

`Transmissions` holds one action per periodic step of `update()` and the bus that
changes addresses and clients between them; `Lifecycle` puts it between
`initialize()` and `stop()`, whose steps are actions that may fail or throw. One
pass stands for 100 ms, so everything the code sends every 100 ms is due in every
pass. A failed `send()` drops the datagram, a refused CAN frame is tried again,
as in the code; a hardware message that is refused is not repeated, whatever it
said. `conflictMessage` is the last message about an address conflict, `banner`
whether AOG shows the alert: AOG takes it down at any moment (`BannerGoes`), because
its duration counts redraws and the operator may dismiss it (docs/PROTOCOL.md, 0xDD).

The parts `stop()` shuts down are modelled twice, as what is there (`canRunning`,
`serverActive`, `vtActive`) and as what the code asks (`is_running()`, the pointers
`tcServer` and `vtClient`, the flag `vtClientStarted`). `StopVt`, `StopServer` and
`StopHardware` are the three statements of `stop()` with their conditions.
`tcAge` and `tecuAge` are the time
since the first claim: the bus claims at any moment, the code notices at its next
poll.

## 3. Runs

| Run | Checks | Shows |
|---|---|---|
| `tc_setpoints` | `CondensedFollowsDemand`, `WorkStateFollowsDemand`, `ElementFollowsDemand`, `MappedExactlyWhenMeasured`, `ElementReportIsReported` | under all three control methods the implement's setpoints and master state are the last demand's, and per-element reports reach the heartbeat |
| `tc_reports` | `TypeOK`, `TractorUntouched`, `MasterOffIsReported`, `EventuallyMeasured` | reports keep the client states well formed; unregistered partners and wrapped counts get nothing; a master that is off is reported; no client is passed over for ever |
| `walk` | `AnswerIsRight`, `OperatorIsLoop`, `WalkEnds` | the walk on every parent map of four elements |
| `log_queue` | `QueueBounded`, `NothingVanishes`, `LogIsLossyFifo` | overflow accounting under all interleavings; the log implements `LossyLog` |
| `log_flush` | `FlushAccountsForAll`, `FlushReturns`, `LinesAreWritten` | flush in the main thread and in crash handlers; no lost wake-up |
| `udp` | `TypeOK`, `FrameIsHandled`, `BackInStep`, `NothingInvented`, `SubnetWasAnnounced`, `HandlerReturns` | AOG's and AgIO's frames, alone and in pairs, some with the header bytes in their payload, among noise, on both sockets |
| `app_monitor` | `UnaskedWorkIsWarned`, `LogCatchesUp`, `AnnouncementsCatchUp` | demand monitor, demand log and the messages about implements |
| `vt` | `SettingsAreAtomic`, `SendingFollowsSetting`, `StringsCatchUp`, `ConfigCatchesUp`, `MissingTerminalIsReported` | both threads save, read and send while saves fail, the process is killed, the user edits the file and terminals come and go |
| `lifecycle` | `LostFixIsSent`, `QuietAfterClaim`, `StopsCleanly`, `ConflictCatchesUp`, `HeartbeatCatchesUp`, `BusSpeedCatchesUp`, `ClaimFailureIsReported`, `SignalEnds` | starts that fail anywhere, late claims, signals and restarts, and passes during which the bus changes, sends are refused and AOG takes alerts down |

Three runs state what a document or message says and find that the code does
otherwise:

| Run | Property | The code |
|---|---|---|
| `tc_mode` | `ModePropagated` | a mode request between activation and mapping never reaches the implement |
| `udp_short` | `EveryFrameIsHandled` | a seven-byte frame is held back and costs the next frame |
| `udp_longest` | `HandlerReturns` | a payload of 250 bytes makes the receive loop endless |

The models also show, without a run of their own:

- a demand between activation and mapping is cached as the client's setpoint
  and, only differences being sent, goes out with the next change of its group;
- an unsettable DDI 161 on a device under per-element control shadows that
  control: the legacy branch is entered and gives up (`SetpointPath`). What its
  elements were sent before the DDI map was filled is then never corrected; such a
  pool violates `ElementFollowsDemand`, and the theorem about it excludes them;
- a condensed report re-maps its sections to the reporting element and leaves the
  reverse entries of their former elements (`WithCondensedReport`). A device under
  per-element control that also sent condensed reports would violate
  `ElementReportIsReported` and `ElementFollowsDemand`;
- `flush()` also waits for lines that are logged after the call and can time out
  with all earlier lines written;
- `sync_vt_config_once()` reads a setting and sends it later, past the update
  helper. An entry that is saved and confirmed in between is overwritten on the
  terminal, and the helper, which tracks the saved value, does not send it again.
  `stale` marks exactly this, and `ConfigCatchesUp` excludes it;
- the entry of a client that disappears stays in `workingWithoutDemand` (`Tracked`),
  so a client that returns to work unasked inherits the time from before it left and
  may be warned about at once, with a text that says it "has been in automatic and
  working for" 10 s (app.cpp:1052, 1056);
- `QuietAfterClaim` speaks of the first claim: an address that is lost and claimed
  again while the loop runs is used at once;
- hardware messages are not repeated when the datagram cannot be sent: an implement
  may never be announced or never be taken back (app.cpp:715), the TECU alert may be
  lost (app.cpp:723) and so may the message that a conflict is over.
  `AnnouncementsCatchUp` and `ClaimFailureIsReported` are therefore about what the
  program tries to say;
- section bits are arbitrary, so a 0xE5 frame may hold 0x80 0x81. Alone in its
  datagram and with an empty buffer it is handled like any other. Behind a left-over
  0xF1, or behind another frame in its datagram, it is parsed from inside: a piece of
  its payload, possibly with older bytes of the buffer, is handed on as a frame, and
  bytes may again be left over. `HeaderInside` and `HeaderPastEnd` of the run do
  this; `BackInStep` and `NothingInvented` exclude it (`AllUnambiguous`) and without
  the exclusion TLC finds it;
- a speed above 71.1 m/s goes to the bus as its lower sixteen bits (app.cpp:774);
- after an exception the program returns 0, so a supervisor with
  `Restart=on-failure` (docs/LINUX_DAEMON.md) does not start it again.

### Bounds

- Server: one client, because no handler lets one client's entry influence
  another's (the proofs do not need the bound). Two sections per message instead
  of sixteen, with three or four sections, give full and partly filled groups;
  the demand of `tc_setpoints` is shorter than the largest implement. `MaxUploads`
  2 in `tc_reports` allows a good transfer before a bad one and the reverse.
- Walk: four elements give every shape of chain, tree and cycle up to length four.
- Log: two threads, up to four lines of one or two bytes and a limit of one or
  two bytes give drops of several lines, lines longer than the limit and batches
  taken in every order. `MaxLines` stops submission, after which threads wait at
  the lock; deadlock is therefore not checked in these runs.
- UDP: three datagrams, on either socket: one that leaves bytes behind, one that
  meets them, one after. All bytes are real. The runs end after the last
  datagram, so deadlock is not checked.
- Application: intervals are a few passes long, with every order between
  interval, time-out and `Oldest` kept. One client suffices since the entries of
  different clients are independent.
- VT client: `MaxDisturbances` 3 bounds what comes from outside (entries, lost
  connections, subnets, changes of the facts, faults and crashes) between them:
  enough for an entry that races a subnet's save which fails, or for a loss, a
  change and a return. Two subnets, two configuration objects, three files a user
  may leave (none, broken, partly mistyped) and two sets of facts that differ in
  every string.
- Life cycle: `MaxDisturbances` 2 changes and refused sends per run of the program,
  any number of runs. Wait loops of two polls let a claim come before, at and after
  the last one. The speeds are zero, the largest one sixteen bits hold, in reverse,
  and the next one.

### Fairness

- Server: `WF(RequestMeasurementCommands)`, since every pass of `update()` calls it.
- Walk and UDP: weak fairness of the loop body; nothing in it blocks.
- Log: threads inside `submit()` and `flush()` run on and deadlines pass; nothing
  is assumed of the writer. `LinesAreWritten` carries its own condition, that the
  writer runs (`std::cout` is not stuck for ever) and has not crashed; `flush()`
  must not depend on it.
- Application: `WF(Pass)`; `run_application_loop()` calls `update()` for ever.
  The environment is not fair.
- VT client: weak fairness of the main thread and of the CAN thread, which both run
  as long as the process. Nothing is assumed of the terminal, its user, AgIO or the
  file system; a thread waits at most for the mutex, which the other one releases.
- Life cycle: weak fairness of the main thread, which waits for nothing but time.
  Address claims, clients and signals need never come, and AOG need never take an
  alert down. That datagrams are not refused for ever comes from `MaxDisturbances`.

## 4. Proofs

The theorems hold for every value of the constants that satisfies the named
assumptions, so in particular for the sizes the code has and with no bound on
clients, threads, lines, restarts or disturbances.

### The server (`MyTCServerProofs`)

Assumptions: `SectionsAssumption`, `GroupsAssumption`, `ReportsAssumption`,
`PoolsAssumption`. They say that numbers have the widths of the C++ types, that
reports name existing numbers, and that sixteen groups reach every section.

| Theorem | Property | Further hypothesis |
|---|---|---|
| `TypeCorrect` | `TypeOK` | |
| `TractorsAreLeftAlone` | `TractorUntouched` | |
| `MapsAreComplete` | `MappedExactlyWhenMeasured` | |
| `CondensedIsDemand` | `CondensedFollowsDemand` | |
| `WorkStateIsDemand` | `WorkStateFollowsDemand` | |
| `MasterOffIsAlwaysReported` | `MasterOffIsReported` | |
| `ElementIsDemand` | `ElementFollowsDemand` | `OnlyByElement` |
| `ElementReportIsAlwaysReported` | `ElementReportIsReported` | no condensed reports (`ReportedStates = {}`) |

The invariant `IInv` says, besides `TypeOK`, of each client and its session
(`SessionInv`) that the DDI map is empty or complete, that a client without
sections has been sent nothing, that the cached setpoints are the last demand
(`SetpointsAre`), and that every condensed message lies on the address and branch
its group uses now and carries the cached setpoints (`MessageIsCurrent`). The last
part is what makes sending differences sound: a group without a changed section
keeps its value (`UnchangedGroup`), a group with one is sent again
(`DemandSession`). There is one lemma per operation on a client record, three that
lift a change of one client or of all clients to the invariant (`PutClient`,
`EraseClient`, `MapClients`) and one per action.

Three more invariants stand on `IInv`, one each for the master state, the elements'
setpoints and their reports. They share `EveryClientStep`, which says in terms of
one client what any step does to it.

- `WorkInv`: the last DDI 289 sent is the cached `setpointWorkState`, and once
  condensed setpoints went out that is whether any cached setpoint is on. The
  second half is why a missing 289 is never missed: the check is in every group
  that is sent, and setpoints that change change a group.
- `ElementInv`: the value an element was last sent is the cached setpoint of the
  one section it stands for.
- `ReportInv`: section and element maps are inverse to each other where an element
  stands for one section, and the section's actual state is the element's report.

The two hypotheses are not for the provers' sake. TLC finds that a per-element
client that also sends condensed reports violates both properties, because such a
report redirects its sections to the element it names; and that a pool with a
settable DDI 141 and a read-only DDI 161 violates `ElementFollowsDemand`, as
section 3 describes. `OnlyByElement` excludes exactly these, and the pools and
reports of `tc_setpoints` satisfy it.

`MasterOffIsAlwaysReported` needs no invariant but the types: it rests on
`ChainMeetsAncestors`.

### The element hierarchy (`ElementHierarchyProofs`, `ElementWalkProofs`)

`ChainMeetsAncestors` is about the operators: for every finite parent map, cyclic
ones included, the bounded walk `AnyInChain` finds an element exactly if every set
that holds the start and is closed under parents meets the elements sought
(`MeetsAncestors`). A walk longer than the number of entries visits some element
twice (`BoundIsEnough`, a pigeonhole argument), and from a repeated element on it
only repeats (`ChainRepeats`), so that the elements within the bound are all there
are.

`WalkIsRight` (`AnswerIsRight`) and `LoopIsOperator` (`OperatorIsLoop`) are about
the loop. The invariant collects the elements the loop has left: none of them is
off, all but the one it stands on have their parents among them, and their number
is the counter as long as none was met twice. When the counter passes the size of
the map, the element has been left before, so what was left is closed under the
parent map and refutes `MeetsAncestors`. With `ChainMeetsAncestors` the operator
which the server's model uses is the loop. Assumption: `ElementsAssumption`, the
elements are finitely many numbers.

### The log (`AsyncLogProofs`)

From `LogAssumption`: `LogTypes` (`TypeOK`), `QueueIsAlwaysBounded`
(`QueueBounded`), `NothingEverVanishes` (`NothingVanishes`) and
`FlushAlwaysAccounts` (`FlushAccountsForAll`); and `LogIsAlwaysLossyFifo`,
`Spec => LogIsLossyFifo`, the refinement.

The stream is what is written, followed by the rest of the batch and by the queue,
with a notice in front of the first line after dropped ones. `StreamInv` adds to
`NothingVanishes` that the bytes of the whole stream are the bytes submitted, and
what makes this inductive: between two batches nothing is left of the last one, and
dropped bytes always have a line behind them to be announced in front of. `FlushInv`
says that a flush has asked for lines that were submitted; when queue and batch are
empty, the stream is the output, so it holds all of them. The bytes of a sequence
are a recursive function; that they add up over concatenation (`BytesOfConcat` and
its neighbours) is proved by the induction of `NaturalsProofs`.

For the refinement, taking a batch over is a step of nothing, because the invariant
leaves no rest of the last batch and no unwritten notice (`LossyWriter`), and `Push`
is `Submit` with the run made of the notice still to come and the lines it drops, whose
bytes are what the new count announces (`LossyPush`). All other steps leave the three
abstract variables alone.

### The receive handlers (`UdpFramingProofs`)

From `FramingAssumption` (positions and sizes have the widths of the code, datagrams
are byte sequences no longer than the buffer, and the buffer is long enough for a
read position at its maximum and the longest frame behind it):

- `PositionsStayInBuffer` (`TypeOK`): for all datagrams on both sockets.
- `FramesAreHandled` (`FrameIsHandled`), under `FramesFit`: frames are shorter than
  the range of the read position. The hypothesis is needed: on a frame of exactly
  256 bytes the handler does not return (`udp_longest`). The invariant says of a
  frame that found the buffer empty that the loop has all of it before it, from
  position 0 (`Ahead`), or has handled it and left nothing (`Done`).
- `FramesWereSent` (`NothingInvented`), under `FramesFit`.
- `ParserFallsBackIntoStep` (`BackInStep`), under `FramesFit` and `ShortMinimum`:
  the minimum is at most eight bytes, as in the code.
- `SubnetsWereAnnounced` (`SubnetWasAnnounced`), under `OneFrameEach`: on the
  detection socket a frame has its datagram to itself and header bytes start frames.

Nothing is assumed of the payloads on the main socket; the two properties say
themselves when they hold. For a frame that finds the buffer empty they hold with any
payload, which follows from the invariant of `FramesAreHandled`. Behind left-over
bytes and in datagrams of several frames they hold as long as every datagram so far
is `Unambiguous`, and section 3 describes what happens otherwise. The condition is
needed because the handler keeps its read position when it moves the rest of the
buffer to the front, so its second pass reads behind the bytes that count, among
stale ones of earlier datagrams, and because it compares no length with the number of
bytes received. `Unambiguous` says of a datagram what makes that harmless: with the
bytes that may be left over it fits in the range of the read position (at most 246
bytes), 0x80 0x81 only occurs where a frame starts, and its last byte is not 0x80.
Nothing is asked of noise, of the number of frames in a datagram or of the order of
arrival. The invariant (`Buffers`) is about the whole buffer, stale part included:
wherever a header stands, the rest of a received frame stands behind it, within the
bytes that count if the header does (`RestReceived`). From it `HandledInv`,
`SubnetInv` and, pass by pass, `StepInv` follow.

### Settings and the VT client (`VtClientProofs`)

From `SettingsAssumption` (two threads, subnets are octets, a subnet in an edited
file that is a number is an integer) and `VtAssumption`:

- `SettingsAreAlwaysAtomic`: `Spec => SettingsAreAtomic`, the refinement. Initial
  states map to initial states, and each action has a lemma that it maps to a step
  of `AtomicSettings` or to none. `SettingsInv` ties the mutex to the place of each
  call: the thread between assignment and end of its setter is the owner, the field
  holds its value, and a temporary file about to be renamed is the complete text of
  the values in memory. Without it a rename might publish something no setter asked
  for, and a roll-back might undo the other thread's change.
- `SendingAlwaysFollowsSetting` (`SendingFollowsSetting`). `SendingInv` covers the
  one moment in which they differ, between the end of the setter and the switch: it
  is then the entry that agrees with the setting.

### Start, stop and transmissions (`LifecycleProofs`)

From `LifecycleAssumption` and `TransmissionsAssumption`, with one invariant:

- `QuietAfterEveryClaim` (`QuietAfterClaim`): the wait loop has polled at most as
  often as the claim is old (`TcInv`, `TecuInv`), so after `ClaimDelay` polls the
  claim is at least that old.
- `AlwaysStopsCleanly` (`StopsCleanly`): `PartsInv` says that the conditions `stop()`
  tests cover what is active (an active server has its pointer set, an active terminal
  client its pointer and its flag), that neither is active without the CAN thread, and
  which of the three may still be active at each place of the start and of `stop()`.
- `LostFixIsAlwaysSent` (`LostFixIsSent`): a quality that was already too old at the
  last send was sent as 0, and the age of that send is less than the interval at the
  end of every pass (`FixInv`).

### Only model-checked

- All liveness properties (`EventuallyMeasured`, `WalkEnds`, `FlushReturns`,
  `LinesAreWritten`, `HandlerReturns`, `UnaskedWorkIsWarned`, `SignalEnds`,
  `ClaimFailureIsReported`, `MissingTerminalIsReported` and everything that catches
  up): fairness and ENABLED are out of the prover's reach.
- What the operators of `Ddop` compute from a pool, beyond the facts the server's
  proofs use.


## 5. Not modelled

- Text and files nothing reads back: saved DDOPs, log lines, time stamps, crash
  dumps.
- Socket set-up and the choice of endpoints; the checksum, which the code does not
  check. Argument parsing and the creation of CAN drivers, which are platform code
  that ends the process at once when it fails.
- The TC status message: one more periodic send. The model of the others covers its
  shape, except that a status message the stack refuses also restarts its
  interval (app.cpp:1117), so that the gap doubles.
- The cross-track and distance values of 0xF2 and the NMEA 2000 contents:
  arithmetic without state. The machine-selected and ground-based speeds are cut
  to sixteen bits before they are scaled, the J1939 speed after (app.cpp:533, 774).
- VT page navigation and the numeric values that are sent in every pass without
  regard to what was sent before.
- Several implements in the 0xF0 heartbeat: frames of all clients go out one after
  the other and carry no name; the model has one client with sections.
- An exception out of `get_filename_path()` while activation saves the DDOP
  (task_controller.cpp:426), which would leave the override on the CAN thread.
- The inside of AgIsoStack; loss of CAN messages that the stack accepted.
- `tools/`: a build-time validator of the object pool and unit tests.

## 6. Plan

1. An abstract specification of the server in which an implement's setpoints simply
   follow AOG's demand, implemented by `MyTCServer`. The invariants of section 4 are
   what the refinement needs.
2. Safety companions of liveness properties that a proof can reach: that the demand
   monitor warns only about clients that have worked unasked for the whole interval,
   and that a scan leaves no implement it does not find as the last one announced.
