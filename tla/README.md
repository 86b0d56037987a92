# Verification of the HIL simulation core and the ICD gateway

The repository is a hardware-in-the-loop simulator.  A 1 kHz real-time process
(`c_core`) steps a generated flight model.  Around it, Python services receive
interface messages from input sources (`icd_gateway`, `icd_runtime`), generate them
(`input_simulator`) and show the state to clients (`python_services`).  This
directory holds TLA+ modules of the parts whose correctness depends on the order of
things, the TLC configurations that check them on small instances, and TLAPS proofs
of the results that should hold whatever the sizes are.

Contents: 1 inventory - 2 modules and their code - 3 the runs - 4 bounds -
5 fairness - 6 proofs - 7 where code and documents disagree - 8 what is left out -
9 further work.

## 1. Inventory

"State" is what survives between operations, "hard" what tests would hardly reach.
The last column names the module; "-" means not modelled, see section 8.

### Real-time process, `c_core/src` (4 174 lines)

| Part | State | Operations | Hard | Module |
|---|---|---|---|---|
| Model thread, `main_rt.c:2090-2250, 2700-2835` | lifecycle, step counter, active and initial snapshots, pending ones, published projection | apply a lifecycle request at its boundary, apply live values, seven ICD transaction slots, control, step, publish | runs at 1 kHz against the command thread; RESET is done in pieces under the boundary lock only | `HilCore` |
| Command thread, `main_rt.c:900-2060, 2480-2700` | one request slot, transaction slots, reset-only receipt | `lifecycle`, `stage_lifecycle`, `configure`, `prepare_model_snapshot`, `tune`, `set_inputs`, `stage_icd_*` | admission reads lifecycle and sequence without a lock and commits later; legacy commands overwrite the slot | `HilCore` |
| Control arbiter, `control_arbiter.c` | source, last external command and its age | select, submit, tick | a timeout against a source switch between the two looks of one step | `ControlArbiter` |
| V3 TCP link, `fixed_wing_v3_tcp.c` | one connection, one event, one mission, one state | send event, send state, worker | reconnection between an event and its acknowledgement | `FixedWingLink` |
| Mission controller, UDP sockets, model wrapper, real-time setup | - | - | floating point and operating system | - |

The two threads share memory under two locks.  `command_lock` is held by the command
thread across a command, and taken by the model thread for one piece of work at a
time.  `model_boundary_lock` is held by the model thread for the whole of
`apply_lifecycle_request` and taken by `configure`, not by `prepare_model_snapshot`.

### Gateway, `icd_gateway` (6 409 lines) and `icd_runtime` (1 171 lines)

| Part | State | Operations | Hard | Module |
|---|---|---|---|---|
| Session registry, `session.py` | sessions and leases, openings, duplicate records with their feedback, pending resource feedback | accept, record a response, claim for a queue, revoke, close | duplicates that arrive after their record was evicted or expired; storage results late | `SessionRegistry` |
| Model input queue, `model_queue.py` | queued inputs, one writer per path, reservations per step | enqueue, begin step, discard, expire, reset, close | sessions die while their inputs wait; the cleanup knows only registered sessions | `ModelQueue` |
| Receiver and reassembly, `receiver.py`, `reassembly.py` | fragment groups, refusal cache, maintenance records | receive, tick, retire, close | a session ends half way through a message; a tick that cannot finish refuses all | `Ingress`, `SourceGateway` |
| Resource storage, `resource_worker.py`, `resources.py` | transfers, write queue, one worker thread, files | offer, write, publish, abort, close | a result racing its deadline or the end of its session; a crash between two file operations | `ResourceStorage` |
| Preparation and configuration, `preparation*.py`, `configuration_service.py` | one answer per request, one configured boundary | prepare, configure, read | two writers of one core, datagrams late or doubled, restarts | `Preparation` |
| Consumer, lifecycle and status services, `model_consumer.py`, `lifecycle_service.py`, `status_service.py` | replies, owner of the motor lane, attempt in progress | respond | the backend succeeds and the reply is lost; others move the core | `ModelConsumer` |
| Contract and codec, `contract.py`, `wire.py`, `payload.py` | none | validate, encode, decode | - | - |

All of it runs under one serialised owner, except the storage worker's thread and the
HTTP threads of the preparation.

### Sources, `input_simulator` (13 957 lines)

| Part | State | Operations | Hard | Module |
|---|---|---|---|---|
| Source session and dispatcher, `session.py`, `dispatch.py` | session, lease, pending requests, retries, reserved records | open, submit, poll, receive feedback | lost, repeated and late datagrams; lease taken by both sides | `SourceDispatcher`, `SourceGateway` |
| Source clock and approval, `model_clock.py`, `runtime_targets.py` | last Status, step floor, control lease | read, approve, transmit | feedback arrives while an approved input is half sent | `SourceClock` |
| Runs, `run_service.py`, `run_store.py`, `run_executor.py` | registry of runs, active execution | create, start, stop, restart | concurrent calls against a worker and a restart | `RunManagement` |
| Scenario, `scenario_execution.py`, `scenario_driver.py`, `native_scenario_actions.py` | actions, handles, cleanup | start, advance, stop | refusals half way; a cleanup that cannot finish | `ScenarioRun` |
| Timetable and waveforms, `scenario.py`, `waveform.py` | none | compile, iterate, sample | collisions and extrema found without enumerating | `Timetable` |
| Assertions, `scenario_assertions.py`, `assertion.py` | retained samples, windows | open, poll, cancel | samples out of order, resets in a window | `StatusAssertions` |
| Evidence, `evidence_recorder.py` | owners' rows, segments, chain | flush, poll, close | a crash between two files; what is reclaimed before it is saved | `EvidenceRecorder` |
| Tools, `tool_process.py`, `replay_process.py`, `can_signal.py`, `live_tool_input.py`, `native_tools.py` | children and their pipes; interface reservations, CAN groups | start, poll, stop; prepare, send, close | exit codes against pipes that stay open; a reservation lost in mid-group | `ToolProcess`, `NativeCan` |
| Capture and replay, `history.py`, `replay.py`, `replay_export.py` | files | decode, prepare, export | interleaved fragments; killed writers | `Replay`, `ExportDirectory` |

### Clients, `python_services` (6 143 lines), `hil_adapters`, and the rest

| Part | State | Operations | Hard | Module |
|---|---|---|---|---|
| UE4 bridge V2, `bridge_tcp_client.py`, `state_cache.py`, `udp_forwarder.py`, mission commands of `ws_server.py` | event queue, plan, publisher thread | connect, drain, publish, command | four threads, reconnections, resets | `VisualBridge` |
| Fixed-wing server V3, `fixed_wing_v3_bridge.py` | session, last state | serve | events repeated over connections | `FixedWingLink` |
| Model processes, `model_runtime.py`, `spring_ws_server.py` | executor state, child process | START, STOP | several connections, failing starts | `ModelRuntime` |
| Deployment, `ws_server.py`, `gitlab_stage.py`, `model_package.py`, `vehicle_profile.py` | packages, receipts, published contract | stage, build, deploy | failures between two steps, restarts | `Deployment` |
| Flight controllers, `virtual_quad_fc.py`, `px4_hil_service.py` | controller object, adapter, faults | step, command, reload | unlocked object shared by thread and commands | `FlightController`, `ControlArbiter` |

`shared/` validates packages; `scripts/`, `matlab_scripts/`, `web/`, `models/`,
`slprj/` build, install, generate and display.  Messages go from sources over UDP to the
receiver, which drives the core with JSON datagrams on a local UDP socket; the core
publishes its state over UDP.  Every component is listed in `PROJECT.json` with its
hazards and their lines.

## 2. Modules and the code they model

`PROJECT.json` maps each definition to its lines.  Each module says at its top what
its steps are and what it abstracts; here is what is not obvious from the code.
Definitions introduced by "Fault:" are plausible mistakes in the definition that
follows them.  Nothing uses them; substituted for the right one, each shows that a
property would notice.

### The core

**HilCore.**  `rpc` and `cpc` are the program counters of the model and the command
thread; `taken` and `loc` are their locals.  A step of the model is what a thread does
between two points where the other one can observe or disturb it: taking or releasing
a lock, or reading shared state that is used later.  So `RESET` is four actions
(`ResetBegin`, `ResetActive`, `ResetPending`, `ResetLifecycle`) and its receipts a
fifth, a legacy command is a read of `sequence` and a later queueing, and an ICD stage
is an unlocked admission and a locked commit.  Who holds a lock follows from the
counters, so `CommandLockHeld` and `BoundaryHeld` are operators, not variables.

A snapshot is a function from five fields to the request that last wrote the field;
`Default` stands for a contract default or a safe value.  Generations are kept as the
comparisons the code makes of them, and a deadline as whether it is still ahead.
`epoch` counts re-initialisations of the model; only properties read it.  Clients are
arbitrary: any request may be sent at any moment the command thread is idle.

**RunBoundary** has three variables - phase, step and whether a step is in progress -
and the transitions a client may rely on.  `HilCore!Boundary` instantiates it with
`lifecycle`, `sequence` and `rpc \in RunPhases`.

**ControlArbiter** is the arbiter with its callers: the command thread that submits,
the model thread that takes `command_lock` once to read the source and once for the
values, and senders that wait for a receipt or do not.

### The gateway

**SessionRegistry.**  The registry is passive and its callers serialise access, so an
action is one call.  Each call first expires what is too old: `LiveSessions`,
`KeptRecords` and `KeptOpens` are the tables after that, and the actions are written
over them.  An opening (`OpenAgain`, `Open`), a request (`AcceptAgain`, `Accept`),
feedback (`RecordResponse`, `RecordApplied`, `RecordLifecycle`), resource feedback in
two parts (`Defer`, `Finish`), `Claim`, `Revoke`, `Close`, `Refuse` for every call that
is turned away, and `Tick` for time.  The history variables count admissions and keep
the last feedback of each key after its record is gone.

**ModelQueue** extends it with `_pending`, `_writers`, `_reservations` and `_steps`.
`Discard` is `discard_session`; every action that expires sessions also decides what
happens to their inputs, as in the code: `ExpireInputs` and `BeginStep` remove them,
the registry's own calls leave them until then.  `Lifecycle` is the effect of an
applied lifecycle command: sessions retired by RESET and RESUME, inputs discarded by
every command but START, the step taken over from the model's report.  In this repository
`enqueue` and `begin_step` are called from tests only; the model follows the module's
own checks, not a caller.

**Ingress** is the packet side of the receiver: `TickReceiver` is the maintenance
every packet runs first, and a packet then finds, opens, completes or is refused by
its group.  `refusal` keeps why a message was refused until its retention ends or the
bounded cache forgets it.  Ends of sessions hand their pending inputs to the
maintenance records, or to the caller of the retirement.

**ResourceStorage** has the owner's sections under the condition variable and the
worker's steps between them; files, the publication by rename, the lock of the staging
area and a crash at any step are part of the state.  `uploads` are the transfers the
worker holds, `thread` where it is.

**Preparation** is two HTTP threads (the same request or another), the gateway's
configuration service, and a core that other clients move, restart and lose datagrams
for; an exchange is a datagram that takes effect now, later, twice or never, and a
reply that is lost or not.  **ModelConsumer** is the gateway during the run: inputs,
lifecycle commands and status reads, each a poll of a staged transaction that the core
applies, rejects or loses.  Both see the core as `HilCore` shows it, with its commands
atomic.

### The sources

**SourceDispatcher.**  One grant of one source.  `open`, `abandon`, attaching a
dispatcher and closing it, `submit` and `cancel` are an action each.  `poll` is the
steps its code takes between two readings of the clock, because time passes and
feedback arrives between them: `Poll` and `Receive` for each reply, then `NoHeartbeat`,
`HeartbeatDue` or `HeartbeatMissed`, then a pass over the requests in flight, lowest
first, with `Skip`, `GiveUp`, `Transmit` or `HeartbeatLate` for each.  `LeaseEnds` is
`_check_lease` wherever it is called without a reply at hand.  The code passes over
the requests again while it sent something and returns after 64 packets; here the
next poll makes that pass.  `ended` keeps how each request ended: "complete", "failed"
(the receiver said so after admission), "refused" (it said so without admitting),
"open" (timeout, cancellation or a local failure, which leave the outcome unknown).

`requests` and `feedback` are the sets of messages ever sent whole.  Whoever reads
them takes any member, at any later time, again, or never: that is loss, delay,
reordering and duplication in one.  A packet of a message of several is counted and
reserved for, but the message exists for the receiver with its last packet only.

**SourceGateway** adds the receiver.  `R` is an instance of `SessionRegistry` over the
same clock, and the receiver calls its actions.  `receive` is one call at a time, but
the services read the clock again after their backends, so a request stays `busy`
between `Admit`, `ApplyInput` and its feedback (`CompleteInput`, `FailRequest`,
`AnswerHeartbeat`, or `Escape` when the session lapsed meanwhile), while the source
retries, gives up or loses its lease.  `RefuseRequest` is a request that `accept` turns
down and that is told so.  A retry that is answered with the feedback it had sends
nothing that is not in `feedback` already; what is left of it is that the expired is
forgotten, which is `Maintain`.

**SourceClock** is what a scenario source concludes from feedback, with the approval
of a controller input from its plan to its last fragment.  Of the lifecycle requests it
keeps what they do to a source: RESET and RESUME end the session (`Retiring`), and PAUSE, STOP, STEP and the operations 37 and 38 (`HALT`) end the
control lease.

**RunManagement** is a thread per HTTP call, the store under its lock, and the worker
of the one execution.  A `fact` is the reason written to the run's log; `answers` is
what a repeated request gets.  `registered` are the operations the execution backend
knows: one that returns before its `try` (`run_executor.py:258-261`) stays there.  A restart
of the process is an action at any step.
**ScenarioRun** is the execution and its driver; each call the driver makes may be
refused or fail.  **EvidenceRecorder** writes a file a step, and
`read_observation_chain` may read at any of them.  **StatusAssertions** has the reader,
the handles and the windows as the code has them; the samples come in any order.
**Timetable** has no steps: a plan is compiled, iterated and compared with the
enumeration of what the scenario means; waveforms likewise.  **ToolProcess** is one
wait, poll or lock hold a step, beside readers, children and whatever keeps a pipe
open.  **NativeCan** is the book of reservations, the groups and the coordinator.
**Replay** decodes, prepares, may alter and exports a capture in one step each;
**ExportDirectory** is the system calls of several writers of one path.

### The clients

**VisualBridge** is the bridge thread, the publisher, the cache and the commands;
`owed` holds the senders that have a `seq` and have not sent it yet.  The Spring endpoint
clears the cache on START and STOP (`reset_for_new_run`); the module is about the deployment
the repository configures, `spring_ws.allow_commands: false`, where that endpoint takes no
commands.  **FixedWingLink**
is the C worker with its one box and the Python server at the other end of a stream.
**ModelRuntime** is the connections, the executor and the processes; **Deployment**
extends it with the commands of the management WebSocket, whose core is told to that
runtime; `DeploymentSpec` is both endpoints, `ManagementSpec` the management one alone.
`DirectoryChanges` may come at any moment, also between `Validates` and `Copies`; `run.valid`
is what was validated, `run.content` what was copied and `run.moved` whether the directory
changed between the two.  `Copies`, `Builds` and `StartsActive` may fail.  `Publish` may fail
before, between and after its two effects (the file, the flight controller); `active.failed`
is that the answer named a failed stage while the core goes on.  `ReloadContract` loads the
published contract, or any other file, into the flight controller.  `Restarts` comes at any
step; cores alive then go on, unknown to the new server (`active.left`), and a server whose
published contract has no profile does not start again.
**FlightController** is the controller thread and the commands, which share
the controller without a lock.

### Modules for TLC

`MCHilCore`, `MCModelQueue` and `MCSourceGateway` give one specification its finite
sets.  `MCReceiver`, `MCStorage`, `MCScenario`, `MCServices`, `MCConsumer`, `MCObservers`
and `MCTools` hold several that do not share variables, side by side: a variable chosen
in the initial state says which of them the behaviour is about, the others stand still
and no fairness is asked of them.  States then add instead of multiplying, and each
specification sees exactly the behaviours it has alone.

## 3. The runs

A run puts together what belongs to one part of the system.  Its properties are
conjunctions of named parts, each with its own comment in its module and at least one
mutant in `PROJECT.json` that it catches; the parts are named here.

| Run | Asks | Properties |
|---|---|---|
| `core_runs` | every lifecycle command, legacy and bound to a boundary, against `configure`, an ICD transaction and `prepare_model_snapshot`, with states that may be invalid | `CoreSound`: no iteration steps a model that is not running and no run begins past zero (`BoundaryInv`), no projection is ahead of the model (`ProjectionCoherent`); `ImplementsRunBoundary`: the refinement; `RequestsResolve`: a request taken is answered, a staged transaction ends |
| `core_inputs` | live inputs, both classes of parameters and ICD transactions on three slots, across starts, pauses, resets and configurations | `LiveInForce`: values taken are in force; `DeferredTracked`: what waits for a reset is still owed its receipt; `StepSeesApplied`: what is reported applied at a step is what the model stepped with |
| `receiver` | two sessions with lapsing leases, a two-record cache and late storage results, requests retried before and after their record is gone; packets whose headers and bytes may disagree, through maintenance, reassembly and the refusal cache | `AdmittedOnce`; `RegistrySound`: nonces, retries and bounds; `LapsedStaysLapsed`; `FeedbackStands`: what was told is never contradicted, what storage owes is kept; `IngressSound`: reserved bytes are the bytes held, a refusal holds as long as it must, every input a session left behind is accounted for |
| `queue` | two sessions writing one path or two that lapse, stop, reset and retire while inputs wait | `QueueSound`: places and owners agree with the queue; `AppliedOnce`; `HandedOver`: only what may act reaches the model, and nothing that a cleanup met |
| `source_gateway` | an opening, a heartbeat and a two-packet input that is sent twice, over a network that loses, delays, reorders and repeats, with services that take time and fail | `OutcomesAreTrue`: complete means applied, refused means not applied, an input is applied once; `SourceSound`: the receiver's lease outlasts the source's, the reserved records suffice, first transmissions keep the order the receiver demands; `EveryRequestEnds` |
| `storage` | two sessions upload a resource of two chunks while every file operation may fail and the process may end between any two; a run is created twice by one request, started and stopped by four concurrent calls while its execution drives a target that may fail | `StorageSound`: success is told of what is published and locked, jobs, transfers and aborts are accounted for; `RunsSound`: one run at a time, none forgotten, one result, repeated calls get one answer; `StorageSettles`; `StopPromise`: a run that is stopped says so before it ends, and ends |
| `scenario` | native sends, a WAIT and an end, stopped at any step while every call of the driver is refused or fails; the recorder beside it | `ScenarioSound`, `RecorderSound`: one ending per action, nothing saved twice or reclaimed before it is saved, a chain that can be read; `EndsAsPromised`: actions begin on time, waits, cleanups and executions end, what is sealed stays |
| `services` | the two visual links; two endpoints that start and stop model processes over two connections, with a deployment and a restart at any step | `VisualSound`, `VisualInOrder`, `LinkSound`: events and states reach the viewer in the order of the simulation, over reconnections; `Converges`; `DeploymentSound`, `DeploymentInOrder`: one process of the server's, one operation, a receipt used once, one contract for core and flight controller unless the answer named a failed stage; what is started was validated, and copied as validated unless the directory was changed in between |
| `consumer` | two threads and the gateway configure a core that other clients move, restart and lose datagrams for; then inputs, lifecycle requests and status reads of two sessions, while others move the core | `PreparationSound`: an answer is what the core did under that request, and stands; `ConsumerSound`: told of an effect there was one, the motor lane has one owner once there is one, retries do not act twice |
| `observers` | controllers, assertions, the source's clock and timetables | `ControlSafe`: frames in order, a controller without estimates disarms, what the model gets is of the source in force and not too old, an approval revoked is not sent; `AssertionSound`; `ClockSound`; `TimetableSound`: the compiled plan is the enumeration of what the scenario means |
| `tools` | replay tools that exit, fill their pipes and are killed around the calls; CAN reservations, senders and feedback; captures decoded, altered and exported; three writers of one directory | `ToolsSound`, `NativeSound`, `ReplaySound`, `PublishedIsWhole` |
| `one_driver` | one sentence of a comment | violated, section 7 |

Some remarks.  `HandedOver` is not obvious, because `run_session_ids` only names
sessions still registered, while inputs of a session that lapsed stay queued until
maintenance; it holds because a boundary drops inputs of dead sessions before it hands
over anything.  `LiveInForce` excepts fields written by an ICD transaction since: those
are newer, although `pending_live` does not know them.  `RefusedIsNotApplied` (in
`OutcomesAreTrue`) is the delicate property of the source: a late copy of a request that
was applied and then forgotten is refused as out of order, and what keeps the source
from believing it is that it takes no answer from the end of the request's validity on,
and validity is no longer than retention.  It is not promised of "failed": an effect whose
proof comes too late is told as FAILED, as `icd_gateway/README.md:376` says.

## 4. Bounds

- `core_inputs`, `core_runs`: `MaxSeq = 2` steps are "not begun", "one step done" and
  "beyond the target", and the interesting comparison is with `sequence + 1`.  Resets
  return to zero, so longer runs are repetitions; `AtBound` is the only behaviour of the
  bound.  `Requests` is the number of commands in a behaviour: five reach every
  interleaving of a configuration, a start, two writes and a reset; three are enough for a
  RESET against what it races, and keep the liveness of `core_runs` within reach.  A request
  is sent once, so a behaviour ends when they are used up.  `Lookahead = 2` stands for
  20 000: targets can be next, later and too far.  `MaxRevision = 1` reaches the refusal at
  the last revision.
- `receiver`: two session numbers and two request sequences each (the opening is the
  first).  The clock stops at 3 with `Retention = 1` and `Lease = 2`, so that records expire
  before leases do and a retry can meet a live session without a record; `MaxShort = 2`
  opens the long behaviours to the requests that need them only.  The two-record cache is
  full with one opening and one request, which forces evictions.  For packets, two headers,
  two contents one of which cannot be decoded, two slots and a quota of three bytes: a
  message complete, one waiting and one refused exist together.
- `queue`: an input for step 1 and one for step 2, `CacheSize = 1` so that the registry
  forgets requests that are queued, one cleanup per run (`MaxClears`), a queue of two.
- `source_gateway`: the unit of time is the acknowledgement timeout (200 ms in the
  catalogue).  Lease, validity and retention are two of them, in the order of the
  catalogue.  `LastSeq = 3`: the opening and two more requests, `LastTx = 5`: their feedback,
  so both counters reach their end.  `SubmitUntil = 0`: all is submitted at the start; the
  clock goes to 3, one beyond every deadline set then.
- `storage`: one transfer, object and abort at a time and a write queue of two, so every
  limit is met by two sessions; a tick of time, which is as long as a chunk may take.  A
  drain is asked for once something was aborted (`MCNext`): there is nothing to drain before.
  Four calls are two CREATEs of one request, START and STOP; `MaxRecords = 7` is the reservation of
  a run with one event.
- `scenario`: three steps, a plan with an action due at each, one that waits and one that
  ends it; one field that a
  cleanup must hold, rows for one field of two at a time, and three segments, so that a segment is
  full, another is written and the last is sealed.
- `services`: three commands, two connections and two loads of a mission meet every pair of
  commands around a reconnection (the last command or the last connection is only given at
  step zero of a core with one load, `MCNext`); three processes let one die, one be replaced
  and one run.  A deployment is checked with one receipt (each carries its own record of use), with
  two commands, one change of the release or the directory, and a restart that leaves a core behind
  once; a file a command names has another version than the package (`MCNext`).
- `consumer`: one move and one restart by others, two exchanges on the way; what is installed
  is everything or the motor lane alone, which has an owner.  `observers`: each model on the
  smallest clock on which its timeout both passes and does not; two steps of the controller, of
  whose sensors one may be a step old and one may not.  `tools`: two
  commands, interfaces, senders and plans; captures of up to four records that contain each
  way of interleaving, repeating and losing a fragment.  `KeptReplies = 1` for the eight replies a sender
  keeps of a group nobody has asked for yet.  Of the waveforms, a SINE and a CHIRP that stay
  within their limits over their crest, and one of each that does not, a RAMP and a STEP.
- Symmetry is used where names are compared for equality only, and in runs without
  liveness.

## 5. Fairness

- `core_runs` assumes weak fairness of the model thread (`RtNext`) and of a command in hand
  (`CmdProgress`).  The model thread is a `SCHED_FIFO` loop on an absolute timer, and each
  lock is released on every path of the code that takes it; the command thread waits for
  nothing while it holds `command_lock`.  Clients owe nothing (`CmdStart` is not fair), and
  nothing makes a deadline pass.  Weak fairness suffices because the requests of a behaviour
  are finite: an unlimited stream of commands could take `command_lock` whenever the model
  thread looks, which a `pthread_mutex_t` without priority inheritance permits.
- `source_gateway` assumes weak fairness of the steps of `poll` and of time: an owner calls
  `poll` in a loop, and the clock goes on.  Nothing is assumed of the network or of the
  receiver: `EveryRequestEnds` holds with every datagram lost.
- `storage`: the worker thread's steps are weakly fair; that a job queued is chosen is
  strongly fair, because the condition variable wakes the worker each time the owner lets
  go of the lock.  Senders repeat a chunk that was turned away, as the dispatcher does.
  A run's execution thread is weakly fair; its callers are not, so what they would have
  to finish is not promised.
- `scenario`: the driver's loop and its late cleanup are weakly fair, its advance to a later
  step strongly (the core's step may be unreadable in between), and so is the result of a
  cleanup that the remote end was asked for.  The recorder's writer, its close and the
  dispatcher's polling are fair as loops; a poll may fail now and then but not always.
- `services`: the worker of the V3 link and its publisher are weakly fair, and a thread that
  waits for a lock of the endpoints gets it.  Nothing is assumed of peers.
- The registry, the queue, the receiver, the consumer services, the observers and the tools
  are passive or claim safety only.

## 6. Proofs

TLAPS checks these for all values of the constants, from the assumptions stated with the
constants: `CoreAssumption`, `RegistryAssumption`, `QueueAssumption`, `ManagementAssumption`,
`StorageAssumption`, `SourceAssumption`, `GatewayAssumption`, `ClockAssumption`,
`RecorderAssumption`, `NativeCanAssumption`, `ExportDirectoryAssumption`, `RuntimeAssumption`,
`DeploymentAssumption`, `LinkAssumption` and `VisualAssumption` (sets are disjoint where one value may
not be taken for another, bounds are natural numbers, and what the catalogue orders is
ordered: a validity is no longer than the retention), and `AbsentAssumption`,
`QueueAbsentAssumption`, `NobodyAssumption`, `KindsAssumption`, `MissingAssumption` and
`NothingAssumption` (the value that stands for `None` is none of the values it is compared
with).  TLC evaluates them in the runs.

| Module | Theorem | Proves `[]` of |
|---|---|---|
| `HilCoreProofs` | `TypeCorrect`, `Authorised`, `PublishedIsReal`, together `CoreIsSound` | `TypeOK`, `BoundaryInv`, `ProjectionCoherent`: `CoreSound` |
| | `DeferredIsKept`, `AcceptedIsInForce`, `SteppedWithApplied` | `DeferredTracked`, `LiveInForce`, `StepSeesApplied` |
| | `Implements` | `ImplementsRunBoundary`, the refinement |
| `SessionRegistryProofs` | `RegistryTypeCorrect`, `NonceUnique`, `RetriesStand`, `TablesBounded`, together `RegistryIsSound` | `TypeOK`, `NonceNamesOne`, `ToldStands`, `Bounded`: `RegistrySound` |
| | `AtMostOnce`, `LeasesLapse` | `AdmittedOnce`, `LapsedStaysLapsed` |
| | `FeedbackImmutable`, `PendingIsKept`, together `FeedbackIsKept` | `AnswersStand`, `PendingStays`: `FeedbackStands` |
| `ModelQueueProofs` | `QueueTypeCorrect`, `PlacesAreExact`, `SingleWriter`, together `QueueIsSound` | `QueueTypeOK`, `ReservedExactly`, `WriterHolds`: `QueueSound` |
| | `ActsOnce`, `RegistryUnderQueue` | `AppliedOnce`, and the registry's `AdmittedOnce` under the queue's steps |
| | `HandedIsInForce`, `CleanupIsComplete`, together `HandedOverInTime` | `HandedInForce`, `NothingSurvivesCleanup`: `HandedOver` |
| `SourceGatewayProofs` | `SourceIsSound` | `LeaseConservative`, `ReservationSuffices`, `FirstSendsInOrder`, types: `SourceSound` |
| | `CompletesAreTrue` | `CompleteIsApplied`, `AppliedOnce` |
| | `OutcomesHold`, while nothing is evicted | `OutcomesAreTrue`, which adds `RefusedIsNotApplied` |
| `ScenarioProofs` | `SourceClockIsSound` | `ClockSound` |
| | `NothingSentRevoked` | the action property `TransmitNotRevoked` |
| | `RecorderIsSound` | `NothingLost`, `ChainTrue`, `FeedbackKept`, types: `RecorderSound` |
| | `CloseIsFinal` | the action property `SealedIsFinal` |
| `ToolsProofs` | `ExportIsWhole` | `PublishedIsWhole` |
| | `NativeLinksAreSound` | `NativeSound` |
| `ServicesProofs` | `RuntimeIsSound`, `StartsConfigured` | `OneModelProcess`, `OneOperation`, types; the action property `ConfiguredFirst` |
| | `StagedOnly`, with both endpoints | `ReceiptOnce`, and the action property `DeployedAsStaged`: what is started was validated, and copied as validated unless the directory changed in between |
| | `DeploymentIsSound`, with the management endpoint alone (`ManagementSpec`) | `DeploymentSound`, which adds `OneOfServer` and `ContractOfCore`, the latter for deployments answered without a failed stage |
| | `LinkIsSound` | `AppliedInOrder`, `PlanKnown`, types: `LinkSound` |
| | `VisualIsSound` | `OnlyApplied`, `EventsInOrder`, types: `VisualSound` |
| | `VisualIsInOrder` | the four action properties of `VisualInOrder` |
| `StorageProofs` | `RunsTypeCorrect`, `OneAtATime`, `NoRunForgotten`, `CompletedHasStopped`, `OneResult`, `RepeatsAgree`, together `RunsAreSound` | the conjuncts of `RunsSound` |
| | `StorageIsSound`, with `CommitsArePublished` | `StorageSound`, with `CommittedIsPublished` |
| | `CommitsInTime` | the action property `CommitInTime` |

*The core.*  The two facts worth having of a run's boundary are `IterationAuthorised`
(an iteration that steps the model was authorised by RUNNING) and `ConfiguredAtZero`
(a run begins at step zero).  Neither is inductive.  `prepare_model_snapshot` and RESET
exclude each other by no common lock: the first holds only `command_lock`, the second
only `model_boundary_lock`.  What saves them is that `prepare_model_snapshot` starts
only from STOPPED and never leaves it but for FAILED, and that RESET remembers that it
began in STOPPED (`taken.toStopped`).  The other conjuncts of `BoundaryInv` say that.
`TypeOK /\ BoundaryInv` is inductive, and with it every action of `HilCore` is a step or a
stutter of `RunBoundary`, one case per action.  `CoreInv` adds four parts.
`ProjectionInv`: a valid state during a reset is one of step zero, and `prepare` has
withdrawn it before it rewinds.  `ReceiptInv` follows the identity of a deferred request
through command, queue, taken copy and slot, because no one of them has it all the
time.  `LiveInv`: RESET leaves the pending values fresh, so the next application copies
them whole.  `SlotInv`: applied slots are ordered as the model thread passes them, and a
field is either the slot's or was written by a later one.

*The registry.*  A record's absence must not mean that the request is new, so the
argument does not go through the records.  `OnceInv` says that every admitted key has a
session number below `next_id` and, while that session exists, a sequence not beyond
`lastRx`; ids are never given again and `IsFresh` requires a greater sequence.
`FeedbackInv` ties the record to the history: a kept record carries the last answer
given, an unadmitted key has none, and what is pending was answered "received".
`SizeInv` needs that the table of openings is finite, which its bound speaks of.
`RegistryInv` is their conjunction.

*The queue.*  `QueueInv` adds `TablesSound` and `EntriesSound`: what is queued was
admitted, belongs to a session number given, is reserved and owned path by path, and was
not applied; with the registry's invariant under it, since every action of the queue
is one of the registry's, or leaves the registry alone.

*The runs.*  `RunsInv` relates three parties.  A call that is launching a run is the only
one (`CallInv`), the worker's run is not being launched and is terminal once it
concluded (`ExecutionInv`); only a run with an execution drives the target
(`TargetInv`); whoever is about to note a result holds the only licence to it
(`ResultInv`); and a call that was answered was answered what is stored (`AnswerInv`).
A restart of the process ends all three at once, which is the longest case.

*Source and gateway.*  `GatewayInv` is the one invariant that holds two programs and a
network together.  The registry's part is `RegistryInv` of `SessionRegistryProofs`,
instantiated with one grant and one session; the rest is what each side may conclude.
`RequestInv`: what was sent under a sequence is the content submitted under it, so a record
that remembers a sequence remembers its content.  `FlightInv`: attempts, packets and replies
of a request in flight are counted, which is what the reservation made at its submission
pays for.  `AdmittedInv`: the receiver has admitted only what was requested, and the request
it works on is on record without an answer; so `AdmittedOnce` gives `AppliedOnce`.
`LeaseInv` says of times that they are *backed*: they are past, or the receiver's session
lasts at least so long.  A source counts its lease from when it sent a request and the
receiver from when it admitted it, so the source's deadline is backed after each answer, and
answers to heartbeats that are still on their way are backed too.  `ReplyInv`: every reply
that was ever sent tells the truth, hence whichever of them arrives, whenever.

*Refusals.*  `RefusedIsNotApplied` needs more.  `MemoryInv` says that a request which was
admitted and is no longer on record is past its validity (`Overdue`), because validity is no
longer than retention; `RefusalInv`, that a refusal on its way is of a request that will
never be applied or is overdue, and then the source takes no answer.  An eviction breaks the
first: a record goes although its time has not come.  So the theorem `OutcomesHold` has the
premise `Roomy`, that no admission finds the duplicate cache full.  The premise is needed:
with a cache of two records for three requests TLC finds a request applied, evicted, retried,
and told OUT_OF_ORDER, which the source counts as not applied.  As deployed, the
cache has 8192 records (`input-simulator-icd-v0.3.json:4851`) for 64 requests in flight, but nothing in the
code ties the two.

*Storage.*  A chunk's result is decided by the thread and told by the owner, who may find
the session gone, the deadline over, or the process restarted.  `StorageInv` has one part for
each thing that crosses: what the thread's stage implies of its job (`ThreadInv`), what was
admitted and is owed until when (`AdmissionInv`), that the abort records suffice (`FitInv`),
that a running worker has the lock over an empty staging area (`LockInv`), that between
jobs it knows every session with uploads (`WatchInv`), that no job gets lost (`JobInv`), and that an
upload lacks a chunk unless it is being published (`PartialInv`), whence a good result of
a last chunk means that the resource is there (`PublishedInv`).

*Clock and lease of a source.*  `FloorInv` puts the step that was shown and the Status that
is held below the floor; `LeaseInv` says that a lease comes from a request sent after
the last revocation.  `ApprovalInv` follows the lease an approval was given for until its
last fragment, for the action property.

*The recorder.*  What a stream holds is a run of consecutive numbers, `RowsIn(a, b)`, and
`RecorderInv` cuts what was observed at two places: what is counted (`RowsInv`: the segments
before it are saved, the owners hold the rest) and what the job took (`JobInv`: the rows that
follow what is counted).  `DiskInv` says that there is at most one segment beyond those counted,
that it is the job's, and that it is published when the job ended well; so a
crash between publication and `poll` leaves a chain that is one segment longer than the recorder
knows, and still a prefix.  `FlattenSeq`, which the chain is read with, is defined by recursion: its
one equation (`FlattenLast`, a last sequence comes behind the others) follows from the least
number at which it would fail (`LeastNumber`, from the library's `WFMin`).  `SealInv`
adds that `close` counts only when the thread is gone and no poll will find its job.

*Tools.*  `DirectoryInv`: of all writers of one path, one made the directory, and a manifest
is over its whole files.  For the CAN links `NativeInv` goes along a frame: an interface is held
once (`BookInv`), inputs are allocated in order (`PlanInv`), what waits or reached a bus was
attempted (`WaitInv`, `WireInv`), heartbeats of a grant have transactions of their own (`BeatInv`),
and so a reply names one input only (`ToldInv`).

*Runtime and deployment.*  `RuntimeInv` says what each stage of a START or STOP implies of the
one process the runtime knows (`ProcessInv`), and that an operation under way has its client
and its job (`OperationInv`).  For packages, `StagingInv` follows the content from the receipt
through validation and build to the core: what was validated is what the command asks for, the
directory holds it until the copy and the copy holds it afterwards, or the directory was changed
between the two.  That holds whatever the other endpoint does, since the steps of the runtime touch
none of it.  `ContractOfCore` speaks of a moment when no command runs and therefore of who stops the
core: `ActiveInv` needs that the core that is alive was started by the last deployment or was left by
an earlier server.  A publication that fails leaves the core with the contract of before; the answer
says so, and the property speaks of the deployments it does not say it of.  For the cores left
behind nothing is promised but that `OneOfServer` counts them apart.  With both endpoints at once a deployment may meet a
core that it did not start; section 7 says what comes of it.  So the theorem about
`DeploymentSound` is about `ManagementSpec`, which is also what the run checks it of.

*The fixed-wing link.*  `OrderInv` numbers the events along one line: those the server has
applied, those in the stream, the one in the box, those not yet offered, each beyond the one before.
`HandshakeInv` says which replies can still arrive at each point of the worker.
`GenerationInv` and `AgreedInv` give `PlanKnown`: the generation the worker counts as sent is that of a
plan which is in the stream or at the server, until a reset takes it away, and then
`clear` is still owed.

*The V2.0 link.*  An event is reserved, asked of the core, resolved, queued, drained, sent and
acknowledged, in three threads.  `PendingInv` and `HeardInv` put what the server has heard, what the
session drained and what is queued in one line of increasing numbers, in which only the
number sent last may occur again, and `Decided` says that nothing in it is still asked of the core; so an event
that is resolved goes behind all of them.  `ReservedInv` is for `EndNotOvertaken`: an event reserved on
this connection that the core applied is reserved, held or heard; an iteration that ends
with nothing held and no end pending has therefore told the server of each.  `PublisherInv` ties the
publisher to the plan the server has and every step shown to the cache, which never goes back.
What `_discard_queued_mission` leaves (`Without`) is defined by recursion over the sequence; its
properties (`WithoutProperties`) follow by the least number, as for the recorder.

Only model-checked.  Liveness under fairness (`RequestsResolve`, `EveryRequestEnds`,
`StorageSettles`, `StopPromise`, `EndsAsPromised`, `Converges`, and the last conjunct of
`DeploymentInOrder`) is beyond the prover.  `StopInOrder` needs a count of the records
reserved.  `Timetable`, `StatusAssertions` and `Replay` are data: their functions are
compared with a reference over bounded inputs, because the library's induction theorems cannot
be instantiated; the byte count of `Ingress` (`ReservedExact`) is such a sum, which an argument
by the least number might reach.  The scenario, the tools' processes and the consumer services
have invariants that TLC checks and no theorem yet states.

## 7. Where code and documents disagree

Checked: `one_driver`.  `model_consumer.py:913` says "Exactly one live Controller SID may
drive the C motor lane."  The owner is set at 1141, after the reply was recorded; when the
first session is told FAILED while its transaction stays staged and is applied, nobody
owns the lane and a second session drives it too.

Read in the code, not run:

- *Core.*  A `tune` committed after RESET has copied `pending_reset` is reported applied by
  that reset (`main_rt.c:2072` against the comment at 282-284).  ICD slots stay staged over
  a reset and meet their step number in the next run (2162; data contract v0.3:208 has
  reset clear the queue).  A `set_inputs` that read its candidate before a RESET brings the
  old inputs back (2180).  A legacy command overwrites a staged request, which then never
  gets its final receipt (2019, against 2044-2046); one bound ahead of a model that stops
  stepping waits for ever and blocks the others (2102).  An ICD parameter group changes
  `reset_only` parameters of a running model (622-640; design of 2026-07-25:126).
  `mission_end` by landing steps once more (2785).  RESET of STOPPED ends in STOPPED
  (2199), the contract (:208) expects CONFIGURED.  `prepare_model_snapshot` amid a RESET
  publishes the earlier state (1174, against 2167-2168).
- *Source.*  A request evicted from the duplicate cache is refused although it was applied, and
  its source counts it as not applied (section 6; no document promises otherwise).  A lost reply is sent again under its number and dropped because a later reply
  was taken (`udp_source.py:152`, data contract v0.3:188).  Feedback over UDP and CAN
  shares one counter, so a CAN reply overtaken by a UDP one is out of order
  (`can_signal.py:371`).  A reset by another client is invisible once the model passes the
  old step (`model_clock.py`).
- *Control.*  Frames of the flight controllers carry no `request_id` and the core refuses them
  (`main_rt.c:2672`, `virtual_quad_fc.py:853`; `README.md:226-228`).  `reload_contract` starts the
  actuator sequence again while the adapter keeps the last one (README:226).
- *Consumer.*  A RESET from STOPPED, or at a step other than zero, is told FAILED after it took
  effect (`model_consumer.py:539-541`), and so is a PAUSE with an active source.  A source
  granted between the recheck and RESUME is reported as NONE (542-545).  The identity
  compared in START and RESUME receipts is built from the request itself.  After a
  FAILED lifecycle command the queue's step is not the model's, and later commands fail
  the scope check.
- *Runs.*  A STOP between `run_service.py:297` and 301 leaves an execution that no STOP reaches.  A
  failing run needs one record more than is reserved (258-261).  A lost START reply leaves
  the model running.  An event whose step has passed is neither sent nor an error
  (`run_executor.py:323-326`).  A failed cleanup is not polled again
  (`scenario_driver.py:350-351`); one that waits for the remote end with nothing held has no
  timeout (383-394).  A writer's leftover directory makes the whole recording unreadable.
- *Storage.*  `resource_worker.py:97-100` reads `available` without its lock.
- *Assertions.*  A poll with a stale Status fails the assertion for good; a WAIT first polled
  at its deadline times out although the samples kept satisfy it.
- *Visual links.*  Two missions loaded before the first plan: the newest is planned first.  The
  bridge thread returns for good after the first mission end.  `seq` is given outside
  `_send_lock` (`2026-07-27-real-ue4-z-mission-design.md:93`).  The core sends "start" and
  "stop" that the V3 server refuses; the one box for events loses the first of two.
- *Deployment.*  A deployment while the core of the other endpoint lives starts a second process
  (`ws_server.py:174`, `model_runtime.py:259-260`).  A failing START's cleanup kills a core just
  deployed.  `_put_control` timing out leaves STARTING.  The directory is validated
  at `ws_server.py:162` and copied at 187, after the old core was stopped: what is changed in between
  is built and started unseen (`DeployedAsStaged` has this exception).  A publication or evidence file that
  fails after the start (240-256) leaves the core running with the contract of before; the answer is
  DEV_DEPLOYED with `failed_stage`, and the audit line says SUCCEEDED (458).  `virtual_fc_reload_contract`
  with a path gives the flight controller another contract than the core's (559).  A published V3
  contract without a profile keeps the services from starting again while the virtual controller is enabled
  (`virtual_quad_fc.py:682-690`).  A restart of the services leaves the core alive and unknown; the next
  deployment starts a second one beside it, where `README.md:113-114` speaks of the only verified core.
- *Tools.*  LOCAL_EXITED can be told of a child that exited with an error
  (`replay_process.py:290`).  A CAN group whose reservation is released in its middle ends
  half sent.  In a capture, a fragment repeated after its group was complete opens a new
  group and refuses the whole capture.

## 8. What is left out

- *Torn copies.*  A snapshot is several hundred bytes and some are copied without a common
  lock.  In the model a copy is one step: what it shows of order holds, what a torn copy
  could add is not shown.
- *Generated code.*  Setters and getters succeed once the group is written, except the
  initial-state setter of `configure` and `prepare_model_snapshot`.  A build without the
  configuration entry points answers `configure` with a refusal (1342-1347).
- *Control laws*, sensors, wind and latency: floating point.  In `HilCore` the sources of control
  are one source that writes the motors, and its landing may end the run at any iteration.
- *Registry.*  Roles, models, links and permissions are checks that refuse and change nothing:
  `Refuse` covers them.  Registered readers and `cancel_session` of the worker are left out.
- *Queue.*  One run per model; the cleanup of a lifecycle command is one step, as its caller
  makes it.
- *Timetable.*  The limits on comparisons and actions (`scenario.py:157-158`, 321-323), which refuse.
- *CAN.*  Feedback repeated by the receiver (`udp_source.py:148-151`).
- *Preparation.*  Configurations that differ only in what is not read back (`model_consumer.py:239-256`).
- *Source.*  Reopening after an abandoned grant, the final chunk of a resource with its own
  deadline, the serial exchange without a dispatcher and the byte budgets.  No reply the
  contract rejects: the receiver validates what it sends.
- *Receiver.*  In `SourceGateway`, one grant and one session.  In `Ingress`, the capacity of the
  maintenance, its errors and the replacement of its owner.
- *Evidence and replay.*  Modelled as files that are whole or not; the directory's own fsync, the
  binding of destinations and incomplete captures are left out.
- *Deployment.*  Development mode; the systemd path is left out.  MATLAB and the network are external and
  may fail.
- Components `not_modelled` in `PROJECT.json`, with their reasons: codecs, floating point, file
  formats, generated code, scripts and the web pages.

## 9. Further work

1. `Ingress`: `ReservedExact` (a sum over groups: lemmas on `MapThenFoldSet` first), `RefusalHolds`.
2. `StopInOrder` of the runs; `ToolsSound`, `ScenarioSound`; the consumer services.
3. Small abstract specifications for the queue (a set of inputs, each used at most once and in its
   step) and for the recorder (a log that only grows), with refinements like that of `RunBoundary`.
