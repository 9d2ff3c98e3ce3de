# TLA+ models of homenet2mqtt

These modules model the concurrent core of homenet2mqtt, the bridge between the
RS-485 buses of a Korean wall-pad network and MQTT / Home Assistant / Matter.
They are translated from the TypeScript under `src/packages/core/src` (called
`core/` below) and `src/packages/service/src` (`service/`).  `PROJECT.json` maps
every definition to the lines it stands for, and lists components, runs,
hazards, findings and theorems in a form tools can read.

To check a run: `tlc -workers 2 -config MCCommandManager.cfg MCCommandManager.tla`.
To check the proofs: `tlapm CommandManagerProofs.tla`, and so for each of the other
modules whose name ends in `Proofs` (section 6).

## 1. Inventory

The program is one Node process.  Everything runs on its event loop, except the
parser, which may run in a worker thread; so the interleavings that matter are
those of timers, socket and MQTT callbacks, promise reactions and HTTP requests.
A stretch of code between two `await`s is atomic.

| Component (source) | State it keeps | Operations | Interacts with | Hard part | What makes it correct |
|---|---|---|---|---|---|
| Command manager (`core/service/command.manager.ts`) | two queues, `isProcessing`, per-job `attemptsLeft`, `isSettled`, `timer`; `ackListeners`, `packetAckListeners` | `send`, `sendRaw`, timers, ACK events | port (`write`), event bus (`state:changed`), packet processor (`packet`) | ACK racing two timers; shared listener keys; re-entrance between settlement and release | one command at a time, none lost, right number of writes, ACK to the right command, FIFO per priority |
| Automation manager (`core/automation/automation-manager.ts`) | list of automations, `runningAutomations`, `automationQueues`, abort controllers, debounce times, schedules, last states | triggers, runs, actions, scripts, edits by routes | command manager, state manager, MQTT publisher | finally blocks after awaits; four modes; edits while running | modes mean what they say; a cancelled run stops; queued runs are served in order |
| Serial connection (`core/transports/serial/*`) | socket, `reconnecting`, `reconnectTimer`, `currentDelay`, `writeBuffer`, `_isDestroyed` | connect, reconnect, `requestReconnect`, write, destroy | bridge watchdog, command manager | close/error/timeout in every order, forced reconnects, held writes | always exactly one way back; destroyed means quiet |
| State manager and persistence (`core/state/*`, `MqttConnector.start`) | `deviceStates`, shared `stateCache`, `saveTimer`, file, retained messages | update, restore, default, save, load | MQTT connector, event bus | crash between steps, stale copies, old timers after a restart | broker agrees with the state, file catches up, restore modes are honoured |
| Bridge (`core/service/bridge.service.ts`) | `portContexts`, `startPromise`, listener counts, latest error | `start`, `stop`, watchdog, `executeCommand`, raw listeners | everything above | start in the background, listeners that come before it | a port is heard by one listener, a lost port comes back |
| Protocol manager, worker, packet processor (`core/protocol/protocol-*.ts`) | worker, ready flag, pending chunks | post chunk, error, fall back | parser, state manager | hand-over while chunks are in flight | no chunk twice, none out of order, one parser |
| Packet parser (`core/protocol/packet-parser.ts`) | buffer, offsets, `lastScannedLength`, last receive time | `parseChunk` | checksum | resynchronization, buffer reuse, cuts between chunks | finds what a reference scan of the stream finds |
| Checksums, packet matching (`core/protocol/utils/checksum.ts`, `core/utils/packet-matching.ts`) | none | pure | parser, automations | the same checksum computed in several loops | agree with the definitions in the docs |
| CEL executor, devices, normalizer (`core/protocol/cel-executor.ts`, `device.ts`, `devices/*`) | expression caches | parse a packet, build a command | parser, command manager | stateless translations | outside this project: data, not control |
| MQTT client, publisher, subscriber (`core/transports/mqtt/*`) | subscriptions, connection, outgoing queue | publish, subscribe, `readRetainedMessages` | broker | lost messages, the will | what is retained is what was last meant |
| Discovery (`core/mqtt/discovery-manager.ts`) | `stateReceived`, `discoveryPublished`, names | discover, state, rename, revoke, republish | MQTT, state events | timers of renames, reconnects, restarts of the broker | the broker and Home Assistant hold the present configuration |
| Matter connector (`core/transports/matter/*`) | endpoints, patched attributes | start, state events, commands | bridge | optimistic updates against events | attributes follow the state |
| Event bus, log connector, loggers | listeners | emit | all | synchronous re-entrance | inlined in the other modules |
| Configuration (`core/config/*`) | none | load, normalize | all | none concurrent | its results are CONSTANTS here |
| Service process (`service/server.ts`) | `bridges`, restart of the process | load, start in the background, status events | bridges, routes | failures of a start, reported once | a fault that lasts restarts the process |
| Automatic restart (`service/services/auto-restart.service.ts`) | a timer per fault | schedule, clear, execute | server, settings file | awaits between the look at the map and the timer | no fault lasts, no restart without one |
| Log collector, WebSocket streams (`service/log-collector.service.ts`, `websocket/stream-manager.ts`) | consent, collection, subscribers | start, stop, consent | bridge raw listeners | counts of consumers that come before the port | nobody listens for nobody |
| Logs and packets (`service/activity-log`, `log-retention`, `raw-packet-logger`) | caches, files, sessions | append, trim, save | event bus, file system | bounds, stop while writing | bounded and complete |
| Rate limiter (`service/utils/rate-limiter.ts`) | timestamps | check | routes | window edges | never above the limit |
| Setup, backup, editor, discovery services, routes, gallery, UI, simulator | files | HTTP | server | I/O | not modelled |

## 2. Plan

Most important first.  Modules marked * exist.

A module that is proved about has its theorems in a module of its own, named after
it: `CommandManagerProofs`, `AutomationRunsProofs`, and so on.

1. * `CommandManager` with its abstract specification `CommandService`: every command
   the program sends goes through it.
2. * `AutomationRuns`: the four modes.
3. * `TcpSocket`: the connection under the commands.
4. * `StateStore`: states, cache, file, broker, restarts.
5. * `PacketParser` over `PacketFrames` and `Checksum`: framing against the
   documented frames.
6. * `ProtocolWorker`, which implements `ChunkPipe`; `RawListeners`; and `DataPath`,
   their composition: a chunk from the port to the parser.
7. * `AutoRestart`: the service process around faults of the links.
8. * `Discovery`: what the broker and Home Assistant know of the entities.
9. `CommandLink` = `CommandManager` x `TcpSocket` (both by `INSTANCE`, sharing the
   write): what reaches the bus after a reconnection.
10. `StateTriggers`: debouncing and the state snapshot of expressions
    (`automation-manager.ts` 404-610, 1582-1600) and schedules.
11. `RateLimiter`, log retention, raw packet logger; Matter.

Abstract specifications: `CommandService` and `ChunkPipe` (done), a register with
a durable copy for `StateStore`, a per-automation mutual exclusion for
`AutomationRuns`.

Theorems: section 6 has those of the command manager with its refinement, the port,
the states, the restart, the data path with its refinement, the automations, the
discovery, and the parser against the documented frames.  Worth proving next: whatever `CommandLink` adds.

## 3. What is modelled

In every module a section or definition whose comment begins with *Fault:* is a
plausible mistake in the definition after it; no specification uses it.
`PROJECT.json` pairs it with the property that detects it, which is how we know
that each property can fail.  What a comment calls history (`ahead`, `writes`,
`outcome`, `late`, `skipped`, `overwritten`, `lost`, `failed`, `revoked`,
`stream`, `packets`, ...) is written and never read by guards.

### CommandManager

| Model | Code |
|---|---|
| `queue`, `lowPriorityQueue` | fields of the same names |
| `active` | the job of the running `executeJob`; `NoJob` iff `isProcessing` is false |
| `job[j].settled`, `.left`, `.timer` | `isSettled`, `attemptsLeft`, which of the two timers of `executeJob` is pending |
| `job[j].promise` | the promise `send` returned |
| `ackListeners`, `packetAckListeners` | fields of the same names, a callback being named by its job |
| `Send` | `send` / `sendRaw`, with the `processQueue` they end in |
| `HandleAck`, `HandlePacketAck` | `state:changed` and `packet` events that find a listener |
| `TxTimeout`, `TxDelayElapsed` | the outer and the nested `setTimeout` |
| `Resolve`, `Release` | `.then(job.resolve)` and `.finally` of `processQueue` |

A job object is a name that is used again after its promise is resolved and the
manager has let go of it, so behaviours are infinite with four names.  Any event
may acknowledge: the code does not ask what changed the state.  `write` always
succeeds at this level; the port is `TcpSocket`.  `executeJob` never rejects, so
`.catch` has no action.

`CommandService` is what a caller may rely on: two lines, one command served, at
least one and at most `Tries` transmissions, one result, low only when no normal
command waits.  `ImplementsService` checks that every behaviour of the manager is
one of the service under the mapping at the end of `CommandManager`; listeners
and timers are stutters.

### AutomationRuns

`running` is `runningAutomations` (naming the run whose `AbortController` is
held), `waiting` is `automationQueues`, `run[r]` the local state of one call of
`executeAutomation`.  One `Trigger...` action per mode, `NextAction`,
`StepInsideAction`, `Finish` and `StopAction` for the way through the actions,
`Leave` for the finally block with the queue it serves (`RunNextQueued` also
follows closures whose guard leaves them nothing to do, which end inside the
call), `RunNow` for a manual run, `UpsertAutomation` and `RemoveAutomation` for
edits.  What an action does is left out; what counts is how often it looks at the
signal: `Body[a][i]` has an entry for every step of action i of automation a (one for
a delay or a command, one for each action that an `if`, a `repeat`, a `choose` or a
script comes to) and the entry says whether the signal is looked at before the step.
It is before those of `if`, `repeat` and `choose`, which hand it down, and not before
those of a script, which is not handed it.  Guards are nondeterministic.

### TcpSocket

`socket` is the life of the current `net.Socket`; `connectTimer`, `armed`,
`reconnecting`, `currentDelay` are the timers and fields; `chunk` is the one
chunk for which the Duplex has called `_write` and `queued` those behind it;
`owner` and `retries` are the loop of `createSerialPortConnection`.  One action
per callback, `RequestReconnect` for the idle watchdog, `Destroy` for
`bridge.stop`.  What Node does (one `_write` at a time, `close` a turn after
`destroy`, the error of a write to a broken socket, autoDestroy) is described at
the head of the module and marked external in the map.  The received data is
`DataPath`'s.  Local serial devices are plain I/O here; what their loss means is
in `AutoRestart`.

### StateStore

`phase` is how far `HomeNetBridge.initialize` is; `deviceStates`, `stateCache`,
`saveTimer` are the fields; `leftover` and `writing` the timers of stopped
managers and the writes in progress; `file` may be `Torn`; `retained` is the
broker.  `Start` (constructor), `LoadLocalCache` and `Cleaned` (its rewrite),
`FinishRestore` (`restoreRetainedStatesForPort` with whatever messages arrived in
time, then the defaults, then `publishRestoredLocalStates`), `Update`
(`applyStateUpdate`), `SaveTimer`, `LeftoverTimer`, `WriteDone`, `Stop`, `Crash`.
A state is one value that an update replaces; merging attributes and the
migration of the old shared file are left out.

Assumed there: reading or writing the file takes less than the second of a save
timer; no write fails while the process lives; the broker keeps what it accepts;
one stopped manager at a time has a timer pending (a bound).  `server.ts` ends the
process instead of stopping bridges; `Stop` is the operation the class offers.

### PacketParser, PacketFrames, Checksum

`Checksum` has the kinds of `checksum.ts` as functions of a frame, over bytes of
two bits: `Verify` is `verifyChecksum` with the places it looks at, and `Running`
the checksums the loops of the parser carry from one length to the next.  CRC-8 is
computed as in the code, from a table, and its polynomial keeps its top bits.
`PacketFrames` is the abstract side: `IsFrame` says what a frame of a
configuration is, `Frames` which frames a stream contains, from left to right (a
recursive function of the place, whose one step is `FramesFrom`), as
`docs/config/packet-validation-strategies.md` describes the three strategies.

`PacketParser` is `parseChunk`.  `buffer` holds the whole reused memory, with the
stale bytes behind the write offset, and the two offsets; `Receive` appends
(`MakeRoom`, `CompactBuffer`, the drop of the oldest bytes), `ReceiveLate` does so
after a gap of `rx_timeout`, and one iteration of the loop is one of `HeaderMissing`,
`Aligned`, `FixedStep`, `FooterStep`, `SweepStep`, each ending in `Emit`, `GoOn` or
`Wait`; `Return` leaves.  A checksum given as a CEL expression is verified for every
window by itself, the path `SparseLimit` also leads to.

### ProtocolWorker, ChunkPipe, RawListeners, DataPath

`ProtocolWorker` is the hand-over of the chunks of a port to a worker thread: the
state of the worker as the main thread sees it (`starting`, `ready`, `none`), the
thread itself, the two message queues between them, and the chunks held back.
`FallbackToMain` terminates the worker and parses what was held back.  `ChunkPipe`
is what that promises: chunks parsed in order, once, by one parser;
`ImplementsPipe` checks it up to a failure of a thread that was ready, after which
the code promises nothing (`broken`).

`RawListeners` is who wants raw data: the sockets of the user interface, counted as
one consumer, and the collection of a sample of the traffic, with the consent that
is saved asynchronously.  A consumer that starts before the bridge knows its port is
not counted by the bridge, and takes the count of another when it stops: `count` is
therefore at most the number of consumers, not equal to it.  `DataPath` joins both:
a chunk from the port goes through the raw listener or the permanent one, and the
consumers may detach the raw listener while it is telling them of the chunk.

### AutoRestart

A fault is a key of the service, `serial:` or `integration:` with a port.  `link`
and `start` are what the fault is about, `loading`, `timers`, `executing` and
`triggering` count the calls of `schedule` and `executeRestart` that are at one of
their awaits, `scheduled` is the map.  `Lose`, `Report`, `Recover`, `PortFails`,
`IdleTimeout`, `StartSucceeds` and `StartFails` are the events `server.ts` and the
bridge produce; `ScheduleRejected` and `ExecuteSkipped` are what a settings file that
is being overwritten or says no leads to; `Exit` and `Launch` are `restartProcess`
and `run.sh`, which starts the process again after the exit code 0 only.

### Discovery

`stateReceived`, `discoveryPublished` and the names are those of the manager;
`renames` its timers; `outbox` what the MQTT client has not delivered; `status` and
`config` what the broker retains; `session` and `oldSession` the sessions whose will
the broker may still execute; `birth` an `online` of Home Assistant on its way.
`Connect` is the handler of `connect` (always registered: the client that
`initialize` creates cannot be connected by the time of `start`).  `Lose` drops what
was written to the connection (QoS 0), `BrokerForgets` is a broker without
persistence, `Restart` a new process.  The content of a configuration is reduced to
the name in it.

## 4. Runs

| Run | Instance | Distinct states | Shows |
|---|---|---|---|
| `commands` | 4 commands: two of one entity (one with an `ackMatch`), a raw one with and one without a match, both priorities; 1 retry at most | 8 316 | queues, listeners and timers agree; attempts are exact; FIFO; the class implements the service; normal commands end, and a low one starves only behind endless normal ones |
| `automations` | an automation in `queued`, `restart` or `single` mode whose first action is an `if` with a script and a delay in it; edits to `parallel`; 3 runs | 81 960 | the map names only runs in progress; no overlap; order; queues served; a cancelled run begins nothing more, on any level of nesting, but the rest of a script; every run ends |
| `tcp_socket` | delays 1..3, one retry, 2 queued chunks | 221 | exactly one way back, which leads back; no writer is stranded |
| `states` | one entity of each kind, 2 values, bridge restarts and crashes | 93 293 | broker and cache agree with the state; the file is current when quiet, and gets there |
| `parser` | 14 configurations, bytes of two bits, chunks of 1, 2 and 5 or 6 bytes, a buffer of 5, streams of 6 | 411 765 | the buffer is the tail of the stream; packets are frames, disjoint, and those of the stream however it was cut; the loop ends |
| `supervision` | one serial port and one MQTT connection, 2 timers and 2 open calls each | 625 672 | the map of timers is consistent; a fault that is reported once keeps its restart; no fault lasts |
| `data_path` | 4 chunks, 2 held back at most, 2 sockets, a collection of 2 packets | 103 792 | every chunk has one place; the threads are one pipe; nobody listens for nobody |
| `discovery` | an entity linked to another, plain, always or hidden; 2 names, 2 overlapping renames, 4 messages under way | 903 444 | the broker ends with what was last meant; Home Assistant is answered |
| `restart_loses_run`, `crc_as_xor`, `recovered_restart`, `idle_device` | the smallest instance each | - | the findings below |

Why the bounds suffice.  *Commands*: the shared key of `ackListeners` needs two
commands of one entity, starvation and priority need both queues non-empty, FIFO
needs two of a class, `AttemptsAreAccounted` needs a first write, a retry and the
failure after it; the reuse of names makes histories unbounded.  *Automations*:
losing track of a run takes three triggers, and a queue order two closures behind
a run; automations share neither an entry of the maps nor a run, so one is enough; the
`if` has a step with a look and one without, and the second action is the boundary
between two actions.  *Socket*: the state is finite but for `queued`, `retries` and the delay;
with delays 1 to 3 the doubling takes two steps, one of them cut off by the
limit, and two queued chunks show one behind another.  *States*: a stale copy
needs an old and a new value, and each entity is independent of the others but
for the file and the timer they share, so one of each kind meets each other.
*Parser*: a frame of three or four bytes, a false start before it and a cut inside
either fit in six bytes; a buffer of five is exceeded by a chunk and by what
remains before one; two bits suffice for header, footer and data to coincide or
differ.  *Supervision*: two reports of one fault that await together are what the
map can get wrong; two faults meet only in the process and the settings.  *Data
path*: a chunk in each of the places (held back, posted, returned, parsed) at once.
*Discovery*: an entity meets another only through its link and the order of
messages, so one of them is followed; two renames overlap with each other and with
a revocation; the queue holds a status, a clearing and two configurations.

Deadlock is checked except in `tcp_socket`, where a destroyed port is finished, and
in the runs of the parser, where a stream ends at its bound.

Fairness.  `CommandManager`: weak fairness of a job's timers and promise
reactions, nothing about senders or answers.  `AutomationRuns`: weak fairness of
the next step of a run, since delays have timers and commands are resolved in any
case (`NormalCommandsResolve`).  A `wait_until` without a time limit is outside it.
`TcpSocket`: weak fairness of timers and callbacks; strong fairness of
`OnConnect`, the assumption that infinitely many attempts do not all fail;
nothing is assumed of the peer otherwise.  `StateStore`: timers fire and writes
end; `StatesReachTheFile` moreover assumes that the states stop changing, as the
save is postponed by each change.  `ProtocolWorker`: the thread gets its turn and
messages arrive, which the runtime guarantees.  `AutoRestart`: timers fire, files are
read and written, a failed attempt to reconnect is reported, `run.sh` runs; strong
fairness of `RestartTriggered`, the assumption that the write that requests the
restart does not fail for ever.  `Discovery`: what is sent arrives while the
connection lasts, and a message that arrived is handled.

## 5. Findings

Each is a run that ends in a counterexample.

1. *restart mode loses the current run* (`automation-manager.ts:754`).  The
   finally block of the aborted run deletes the map entry of its successor; a
   third trigger then aborts nobody and two runs go on.
   `docs/config/automation.md:471` promises that a running one is cancelled.
2. *a CRC is checked as an exclusive-or* (`packet-parser.ts:603`): the loops that
   carry a checksum along know sums and exclusive-or; with a footer, or in a sweep
   with many candidates, `crc8` (and `crc16` as `xor_add`) falls into the last case.
   Good frames are rejected and wrong ones accepted, against
   `docs/config/packet-defaults.md:61`.
3. *a recovered fault restarts* (`auto-restart.service.ts:64`): `schedule` looks at
   the map before an await and sets its timer after it; the `error` and the `close`
   of one MQTT failure leave a timer that no recovery cancels.
   `docs/guide/troubleshooting.md:53` says a recovery cancels it.
4. *an idle device is closed for good* (`bridge.service.ts:128`): the watchdog
   destroys a port that is not a TCP connection, nothing opens it again and no event
   asks for a restart; `docs/config/serial.md:14` says the connection is tried again.

Deviations seen while modelling that have no run of their own:

- The abort signal is not passed to scripts (`automation-manager.ts:793`): a cancelled
  run finishes its script.  No text says whether it should; `CancelledRunsStop` exempts
  the rest of a script and nothing else.
- Only a run that was itself `queued` serves the queue (`automation-manager.ts:758`).
  After an edit between `queued` and `single` or `restart` a queue may be left with
  nobody to serve it until a later queued run ends (section 6 has the trace).
  `QueuesAreServed` is checked and proved of automations without such an edit.
- The debounce fires on the leading edge and its key is shared by automations with the
  same trigger (`automation-manager.ts:578`).
- A write can end the reconnecting socket (`tcp-socket.ts:206`): the error of a chunk
  handed to a socket that is connecting, or that the peer has ended, destroys the
  Duplex.
- The file overrides the default of a `RESTORE_DEFAULT_*` entity although the docs
  promise the default when no retained message exists (`state-manager.ts:219`);
  internal states are not published (`state-manager.ts:371`) although they say so.
- In a scan of fixed length only the first window is compared with `rx_header`
  (`packet-parser.ts:407`), so `PacketsAreFrames` is run without that combination.  A
  sweep with `rx_max_length` can wait where it should drop a byte
  (`packet-parser.ts:797`); `ChunksDoNotMatter` exempts it.
- Two answers to the question of consent may be saved in the other order
  (`log-collector.service.ts:129`), and the listeners for raw transmissions are
  registered with every start of the raw packet log.
- Consumers of raw data that start before the bridge is ready are not counted
  (`bridge.service.ts:983`): the one that stops first may silence another.
- The restart of a bridge whose start failed after its TCP port had opened is cancelled
  by a reconnection of that port, which counts as `started`.
- A process that crashes, in contrast to one that exits with 0, is not started again;
  a crash while the settings are written leaves a file that `schedule` cannot read.
- The will of a process that lost power may come after its successor has said `online`:
  the entities stay unavailable until the next connection.  `BrokerHoldsTheDiscovered`
  exempts it (`late`).
- A configuration or a clearing lost with a connection is not sent again by the next
  `connect` (`discovery-manager.ts:314`): a configuration comes when Home Assistant
  asks, a clearing never.  A revoked entity comes back with its next state.
- A rename publishes an entity that has never been seen, and the state of an entity
  with `discovery_linked_id` publishes it without the other, although
  `docs/config/common-entity-options.md` ties discovery to the first state and the
  link.

## 6. Proofs

`CommandManagerProofs` proves, for every set of jobs, entities and schemas and
every number of retries satisfying the assumptions of `CommandManager` (a job is
not `NoJob`, an entity not `NoEntity`, parameters are functions of the right
type):

- `TypeCorrect`: `Spec => []TypeOK`
- `CallbacksMatchTheCommand`: `ListenersMatchTheCommand`, that callbacks reach only
  the awaiting job and that it is heard
- `TimersAreOwned`: `TimersBelongToTheActiveJob`
- `FifoPerPriority`: `SamePriorityIsFifo`
- `NothingForgotten`: `NoCommandIsForgotten`
- `AttemptsBounded`: `AttemptsAreAccounted`

None of these is inductive alone.  `IInv` adds what they lean on.  `LifeInv`: a
job is not sent, as `NewJob` made it, in execution with a timer and `left` equal
to the attempts minus the writes, or ended without a timer.  `QueueInv`: a queue
holds jobs as `NewJob` made them, of its priority, each once; `WaitInv`: every
such job is in one.  `ActiveInv`: the active job is in execution or ended, and
none is active only when both queues are empty.  `AheadInv`: of the jobs that
were pending when a queued one was sent, those not settled are active or stand
before it.  There is one lemma per action, with a step per conjunct below it; what
`Head`, `Tail` and `Append` do to a queue is stated once.  The
statement about `ahead` is what makes FIFO inductive: order in the queue must be
related to order of sending before a job becomes active.

`TcpSocketProofs` proves, for every delay, number of retries and bound on the queue
that `DelayAssumption` and `BoundsAssumption` allow:

- `SocketTypes`: `Spec => []TypeOK`, the doubled delay within its limits included
- `OneWayBack`: `ExactlyOneWayBack`
- `WritersServed`: `NoWriterIsStranded`

`ExactlyOneWayBack` is not inductive: it does not say which sockets and timers go
together.  `Situation` does: a port is in the first attempt of the factory
(`Attempting`), between two (`Pausing`), returned and not destroyed (`Using`:
connected or about to hear 'close', in an attempt, or waiting for the timer), or
`Gone`; and in each of them `armed`, `connectTimer` and `reconnecting` are fixed
by the socket.  `PortInvariant` shows it for every callback, one lemma each;
`RejectedOK` holds what an error and a time limit have in common.

`ManagerImplementsService`, also in `CommandManagerProofs`, is the refinement
`Spec => ImplementsService`: with the inductive invariant of the manager each of its
steps is a step of `CommandService` or a stutter.  The service sees of a command
its result, its transmissions and the line it waits in: a lemma per action says that
this changes for one command only (`SeenOfOne`) or not at all (`SeenAlike`).

`StateStoreProofs`, for every set of entities and values, every kind and default and
every order of restarts and crashes: `StoreTypes`, `BrokerFollows` (`BrokerAgrees`),
`CacheIsHonest` (`CacheHidesNoChange`) and `FileIsCurrent` (`QuietFileIsCurrent`).  It
assumes that a torn file is no content (`TornAssumption`).  `IInv` adds what may be
known in each phase: while `loading`, only the defaults of `ALWAYS_*` entities; and
while no save is pending and no old timer has interfered, that what is in the file, or
in every write on its way there, is the present state.  Without the writes the last
one is not inductive: a write that ends makes its content the file.

`AutoRestartProofs`, for every set of faults and timers: `RestartTypes` and
`OnceReportedStaysPending` (`LastingFaultIsPending`).  A call of `schedule` passes
from `loading` to `timers`, `executing` and `triggering`; the proof first shows what
each operation does to the number of calls of its fault, and that it leaves the other
faults alone.  `DeadIsStarted` is the strengthening: a port ends with an error only
after its bridge has started, so a start that succeeds, and clears the fault, cannot
be what clears a dead port.

`DataPathProofs`, for every number of chunks, of chunks held back and of sockets:
`PathTypes`, `NobodyNoListener` (`NoIdleListener`), `NoChunkTwice`
(`EveryChunkHasOnePlace`), `ChunksAreNumberedThrough` and `ThreadsArePipe`, the safety
part of `ImplementsPipe`.  `NoIdleListener` leans on nobody being counted before the
port is known.  `EveryChunkHasOnePlace` says that the places of chunks are disjoint,
that none of them holds a chunk twice and that together they are what was received;
`PipeInv` says in which order, as long as the thread has not failed: the chunks are
numbered through, from the parsed ones over the messages of the thread to those that
wait for it.  `ProtocolWorker` assumes `Chunks` and `MaxPending` to be numbers
(`WorkerAssumption`), `RawListeners` a positive target (`TargetAssumption`: a
collection counts a packet before it compares).

`AutomationRunsProofs`, for every number of automations and runs and bodies of any
length.  Two theorems hold whatever the modes are edited to, both from `BaseInvariant`:
the queue of an automation holds exactly its queued runs, each once.  `RunTypes` is
`TypeOK`: besides the kinds of values, that a run stays within the actions of its
automation, and that `runningAutomations` names only runs of it in progress.  For the
first `Moves` says of each step that a run stays where it is, begins, or goes one step
on (this uses `BodyAssumption`: an automation without actions ends in the call that
begins it, and an action without steps is one that awaits once); for the second `MapNamesRuns` is inductive beside `Base`,
because the closure that the finally block calls was waiting, and so is not a run that
the map names.  `AbortedRunsStop` is `CancelledRunsStop`, from `Moves`.  The others
depend on which modes an automation may have, because the finally block acts on the mode in which its run
was triggered (`automation-manager.ts:754`).  `Apart(S, T)` says that no automation is
configured, from the start or by an edit, both with a mode of S and with one of T:

- `RunsDoNotOverlap`: `NoOverlap` under `Apart({"single", "queued"}, {"restart"})`
- `NoQueueIsForgotten`, `QueueIsFirstInFirstOut`: `QueuesAreServed` and
  `QueuedInOrder` under `Apart({"queued"}, {"single", "restart"})`

The hypotheses are needed, not convenient; TLC finds the counterexamples when `Edits`
is enlarged.  With edits between single and queued: a single run is in progress, an
edit, a trigger is queued behind it, and the single run's finally block clears the map
without serving the queue (5 states).  With edits between single and restart, two runs
overlap after 6 states.  The instance of the run `automations` satisfies both
hypotheses, and its edits to `parallel`, which the theorems allow, are the ones it
makes.  `OverlapInv` and `QueueInv` are inductive: the map holds the run in progress,
and what a closure waits behind is in progress or before it in the queue.

`DiscoveryProofs`, for every finite set of entities, every link, option and name, and
queues of any length: `DiscoveryTypes` and `NothingStaleIsRetained`
(`BrokerHoldsTheDiscovered`).  That invariant speaks of quiet states only.  `Promised`
is what is inductive: at every moment, and for every entity that has lost nothing, the
last message under way about it (or the broker, when there is none) is what the
manager last wanted; or an `online` of Home Assistant is on its way and will have it
published again.  The sequence in which `publishDiscovery` sends a set of
configurations is any one without repetitions.  Assumed are a finite set of entities, one name at
least, and that no entity is called like the topic of the status (`TopicAssumption`).

`PacketParserProofs`, for every size of the buffer, every set of configurations the
assumptions of `PacketParser` allow, every set of chunks, also longer ones than the
buffer, and streams of any length, over the bytes of two bits of `Checksum`:

- `ParserTypes`, `TheBufferIsTheTail` (`BufferIsTheTail`), `PacketsArePieces`
  (`PacketsPartitionTheStream`), from `ParserInvariant`, their conjunction
- `TheLoopEnds` (`EachIterationConsumes`)
- `PacketsAreWhatIsDocumented`: `PacketsAreFrames` if every configuration is `Verifiable`
- `ChunksNeverMatter`: `ChunksDoNotMatter` under the same hypothesis

The three invariants are inductive together only: a packet is a piece of the stream
because the buffer is its end, and it is disjoint from the next because the offsets stay
in order.  `Keeps(b, c)` carries the argument: an operation on the offsets (compacting,
dropping, consuming, skipping to a header) leaves in `c` an end of what `b` held.  It is
transitive, and implied by each operation, one lemma each; `AppendHolds` is the arrival
of a chunk, with its three ways to make room.  `Progress` is what an iteration
guarantees, one lemma per strategy.  That packets are frames needs no induction over the
bytes: every comparison of an incremental loop is, by definition of the checksum, the
one `verifyChecksum` makes of the frame (`RunningVerifies`).  `Verifiable` says for which
configurations: no `crc8` but where windows are verified by themselves (finding
`crc_as_xor`), no header that only the first window of a fixed length is compared with,
no length too short for header and checksum.  `MCPacketParser` assumes it of its
configurations, so TLC evaluates it.

`ChunksDoNotMatter` compares the packets with all the frames of the stream whenever
`parseChunk` has returned, and says nothing in between.  `FramesInv` is what is
inductive, together with `IInv`:

- however the stream goes on, its frames are the packets so far and then those from the
  place the buffer is at (`Leads`; it quantifies over what may still arrive, because a
  byte must not be given up that a later one would complete to a frame);
- the lengths the sweep has tried at that place, and will not try again, are not those
  of a frame (`Tried`);
- when the loop has returned, no frame is left from that place on.

An iteration passes over bytes at which no frame can begin, whatever follows
(`Skipped`, `PassesOver`), or emits, and then no shorter piece at that place is a frame
or to be ignored (`EmitsNext`), or drops as a whole what a footer ends but has a length
that is not allowed.  Each strategy has a lemma that its iterations are of these kinds
and that its last one leaves nothing (`FixedKeepsFrames`, `FooterKeepsFrames`,
`SweepKeepsFrames`).  `At` gives the frames from every place of a stream; that a function
with the equation of `Frames` exists is proved first (`AtFacts`), as the equation may be
used only then.  Like the property, the theorem says nothing once the buffer has
overflowed, of an `rx_length_expr` or of an `rx_max_length`; a gap of `rx_timeout` begins
a new stream.

Every inductive invariant was model-checked on the instance of its run before it was
proved (`FramesInv` with the continuations of up to two bytes), and every invariant of a
passing run is stated by a theorem.

Only model-checked: liveness (`NormalCommandsResolve`,
`LowCommandsResolveUnlessNormalOnesKeepComing`, `EveryRunEnds`, `LossIsRepaired`,
`StatesReachTheFile`, `NoFaultLastsForEver`, `HomeAssistantIsAnswered`) and with it the
fairness of `ChunkPipe` in `ImplementsPipe`; fairness and `ENABLED` are not in the
prover's reach.

## 7. Not modelled

See the components marked `not_modelled` in `PROJECT.json`.  Planned: the
modules 9 to 11 above.  Not planned: the CEL library and the translation between
packets and states (data without control), configuration loading, statistics for
the user interface, HTTP and file plumbing, the UI, the gallery and the
simulator.  The UI and the routes are more than half of the repository's lines; they
keep no state of the protocol.
