# TLA+ specifications of OpenEmber

OpenEmber is a C++ runtime for robots and devices: a supervisor that starts and
watches processes, services that keep parameters, health and devices, a bus
between them, and components for tasks, sensors and actuators. This directory
holds TLA+ modules that model its concurrent and stateful parts, TLC
configurations that check them on small instances, and proofs, checked by TLAPS,
that hold for all instances. Paths below are relative to `src/`.

Sections: [inventory](#inventory), [modules](#modules), [runs](#runs),
[proofs](#proofs), [findings](#findings), [abstractions](#abstractions-and-bounds),
[plan](#plan).

## Inventory

### launch_manager (`system/launch_manager`)

*State.* `ProcessManager` keeps the table `processes_` of managed processes: pid,
state, restart count, last heartbeat, stop deadline, whether the stop was
intended; and `stopping_`. `main.cpp` keeps the queue of runtime commands, the
set of pending heartbeats, the `RuntimeRegistry` (a view for queries) and
`g_signal`.

*Operations.* `StartAll`, `StartProcess`, `StopProcess`, `Poll` (which reaps with
`waitpid(-1, WNOHANG)` and restarts), `CheckHeartbeatTimeouts`, `MarkHeartbeat`,
`StopAll`; the service handlers that enqueue a command and wait three seconds for
its answer; `CreateLockFile`, `DestroyLockFile`, `ReadPidFile`.

*Interactions.* One supervision thread owns the table. Transport threads post
commands and heartbeats under a mutex and wait on a promise. The kernel and the
children move at any time: exit, hang, lose a SIGTERM between `fork` and `exec`.

*Hard.* Exits that race stops and restarts; pids that are reused; a command that
outlives the caller that gave up; heartbeats of one incarnation counted for the
next; shutdown while children ignore signals; several instances of the program
and one lock file, with crashes.

*Correct when* the table is exactly the set of existing children; an ordered stop
is final until a start; a command runs once; nothing survives shutdown; a hung
process is noticed; one instance runs at a time.

### thread_pool (`components/thread_pool`)

*State.* A priority queue ordered by priority and sequence number, `busy_`,
`stopping_`, `accept_`, the worker threads, and the condition variables `cv_` and
`idle_cv_`.

*Operations.* `post`, `submit`, `wait_idle`, `shutdown(drain)`, `worker_loop`.

*Hard.* Notifications sent after the mutex is released; spurious wakeups; tasks
that post tasks; waiters when the queue is discarded.

*Correct when* each accepted task is begun at most once, in order of priority
then age, and is run unless it was discarded; `wait_idle` returns only when what
was accepted before it is over; `shutdown` returns and leaves nothing running.

### Joint control (`components/actuator`, `services/hardware_interface`)

*State.* `MockJointController`: running, enabled, fault latched, emergency
stopped, the last command and its age, the joint outputs. `JointControllerEndpoint`:
its own `running_`, the thread of `Run()`, the subscriber, the status.

*Operations.* `Start`, `Stop`, `Enable`, `Disable`, `EmergencyStop`, `ClearFault`,
`InjectFault`, `SetCommand`, `Step`; the endpoint's `Configure`, `Start`, `Stop`,
`Run` and `HandleCommand`.

*Interactions.* The owner, the `Run()` thread and the subscriber's callback call
the controller, each call under its mutex; the endpoint's stop is several calls.

*Hard.* Commands that combine flags; faults between two calls; a command that
arrives while the endpoint is being stopped; commands that cease.

*Correct when* outputs are safe unless enabled and nothing is latched; a joint
moves only for an accepted command that names it; a silent sender is noticed;
after the endpoint's `Stop()` nothing moves.

### The hardware application (`services/hardware_interface`)

*State.* The main thread's place in `Start`, `Spin` and `Stop`; the list
`endpoints_`; for each endpoint its status (state, error count), `running_`, its
thread, and the `running_` of its sensor; `g_stop_requested`.

*Operations.* `BuildEndpoints`, `Start` (configure and start each endpoint),
`Spin` (node info every tenth turn; heartbeat, diagnostics, device info and state
every turn), `Stop` (from the last endpoint to the first); the endpoints' `Run()`.

*Hard.* A start that fails halfway, when some threads run already; an exception
between the start of a sensor and of its thread; a signal during the start; a stop
while a read is under way; a status read while it changes.

*Correct when* the program ends after a signal, and however it ends, no thread and
no sensor is left running.

### The services that watch (`health_monitor`, `device_manager`, `RuntimeRegistry`)

*State.* `HealthRegistry`: last heartbeat of each node, last diagnostic of each
key, with their times. `DeviceRegistry`: info and state of each device.
`RuntimeRegistry` of launch_manager: info and heartbeat of each node.

*Interactions.* Each subscribes to topics without history, best effort. A
message of an incarnation that has ended may arrive after the first one of the
next. `health_monitor` hears its own heartbeats and diagnostics too.

*Hard.* A state before its info, or without it; info published seldom and lost;
late messages of a process that is gone; an aggregate that repeats its own echo.

*Correct when* a registry comes to say what a live process says of itself, whatever
arrived in between, and a process that is gone is stale in `health_monitor`.

### config_service, and calls (`system/config_service`, `core`, `components/transport`)

*State.* `ParameterStore`: a value, a revision and a read-only flag per name, under
a mutex; the sequence number of events. Of a call: a promise on the caller's stack,
shared with the reply callback, and the query zenoh has open. Of a process: the
global `Context` with its session, nodes and their publishers, subscribers, services
and clients, each with a reference to the context or a pointer to its session.

*Operations.* `Get`, `Set`; the two service handlers; `Call` with its timeout;
`Init`, `Shutdown`, `CreateNode` and the constructors and destructors of endpoints.

*Hard.* Queries are handled by threads of the transport at the same time; events are
published after the lock is released; replies after a timeout; a process that is
killed between the store and the answer; a second `Init` or a failed one, with
objects of the earlier context still about.

*Correct when* a client reads what it was told it had set; who follows the events
knows the store; a process has one session, which is that of its context.

### OSAL (`platform/osal`)

*State.* Descriptors, names in the file system and the signal mask behind sockets,
pipes, fifos, queues, shared memory and signal waiters; the flag, mutex and condition
of an event.

*Hard.* An open of several system calls that fails in the middle; objects closed
twice; buffers moved in pieces, each with a timeout of its own; a waiter that was
woken and finds the flag taken.

*Correct when* nothing leaks and nothing foreign is closed; successful calls move
whole messages in order; no waiter sleeps on a set event.

### lpio (`platform/lpio`)

*State.* The descriptors, GPIO lines and exported PWM channels of device objects,
which can be moved; SBUSReader's place in a stream of bytes.

*Hard.* Steps of an open that fail; objects moved from; a PWM channel that two
objects export; a frame's header that may be a byte of its data; 11-bit channels
that straddle bytes.

*Correct when* resources follow the state of the objects; frames returned are
frames sent, and the channels those that were sent.

### Logging, MQTT, load of the host, configuration files

*Logging* (`components/logging`): the default logger, spdlog's registry, the topic
sink with its rate limit and its session. Hard: a logger that replaces one of its own
name; a reference used after the lock is released. Correct when a logger that replaced
another can write, the registry knows the default logger and no other, and no session is
left open.

*MQTT* (`components/mqtt`): a handle, a copy of the callback for the library's thread,
a connected flag. Hard: each of the library's calls may fail; the connection is lost
without a trace. Correct when there is one copy at most, the one of the handle.

*host_monitor* (`services/host_monitor`): the counters of the sample before. Hard:
unsigned differences, counters that go back, cores that come and go. Correct when a
ratio is a ratio, and is the share of time when nothing moved.

*Files*: `hardware_config.cpp`, `launch_config.cpp`. Hard: a key left out, empty, of the
wrong shape, or given under two names. Correct when what is taken is sound.

### Applications (`apps/`)

*agri_station_demo.* An acquisition card and a field master on Modbus TCP (one client
at a time, a poll of several reads, a failure threshold), mock sensors, and a station
that keeps the last reading of each quantity with its age. *rover_demo* and
*turtle_demo.* A teleoperation process and a simulation over a router that may be any
of three processes; an emergency stop; a command's age. *smart_device_demo.* A product
application that asks two services until each has answered.

*Hard.* Answers that come after a timeout, samples taken between two reads, processes
that end and start in any order. *Correct when* what is published was measured, where
and when it is said; a loss is noticed; all is taken up again.

### Not modelled

* `algorithm`: filters, control laws, statistics and checksums, sequential and mostly
  on floating point numbers, which TLA+'s checkers do not have.
* `web_console`, `emcom`, `sbus-receiver`, the Qt and SDL views: input and output of
  what other components hold; the web console forwards calls and keeps no decision
  of its own.
* `netdev`, `network`: read interfaces from the kernel, parse addresses.
* `logger service`: writes received messages to the log. `log_service`, `ota_agent`: stubs.
* Examples, tests, the build system and third party code.

## Modules

| module | models | state and actions |
|---|---|---|
| `ProcessManager` | `process_manager.cpp` with the children it forks | `processes` is `processes_`, one record per name; `child` is the kernel's view of each pid. An action is a call, or one turn of a loop that forks or reaps (`StartAll`, `HandleExit`, `KillOverdue`), because children may move between turns |
| `LaunchManager` | `main.cpp`: main loop, services, signal | extends `ProcessManager`; `pc` walks through one turn of the loop (swap commands, run them, mark heartbeats, poll, check timeouts); clients post and may give up |
| `PidLock` | the lock file of `main.cpp` | one system call a step; inodes, locks and names kept apart; instances may crash anywhere |
| `TaskPool` | what `thread_pool.hpp` promises | accepted, begun, ended and dropped tasks; begin the most urgent, oldest first |
| `ThreadPool` | `thread_pool.cpp` | one critical section a step; the `notify` calls after an unlock are steps of their own; waiting and spurious wakeups |
| `JointController` | `mock_joint_controller.cpp` | one call a step, `Start` of a running controller included; `SetCommand` has one disjunct per outcome; `fresh` and `restarted` remember what `Start` came between |
| `JointEndpoint` | `joint_controller_endpoint.cpp` | extends `JointController` with the owner, the thread and the callback, each calling the controller |
| `Topics` | what publishers and subscribers see of the bus (external) | `wire`: the messages under way, one queue for each incarnation of the publisher, so order is kept within one and not between two; `losses` |
| `HardwareInterface` | `hardware_interface_app.cpp`, the imu, gnss and temperature endpoints, `main.cpp` | `main` and `at` are the main thread's place; `endpoint[e]` holds status, flags and thread of `endpoints_[e]`. Each publication, each store of `Stop()` and each turn of `Run()` is a step; start of a sensor and of its thread fail in every way the code returns or throws |
| `HealthMonitor` | `health_monitor/main.cpp` | `nodes` and `external` are `nodes_` and `external_diagnostics_`; the two callbacks, and `MonitorTurn`, one turn of its loop with the return of its own messages |
| `DeviceManager` | `DeviceRegistry` of `device_manager/main.cpp` | `devices` is `devices_`; `UpdateInfo`, `UpdateState`, `Query` |
| `RuntimeRegistry` | `RuntimeRegistry` of `launch_manager/main.cpp` | `registered` is the record of the node; `UpdateNodeInfo`, `UpdateHeartbeat` |
| `SystemServices` | the five above together | a delivery takes a message off a wire and runs the subscriber's callback |
| `Context` | `init.cpp`, `context.cpp`, `node.cpp` and the endpoints made through a node | contexts are numbered; a node, publisher, subscriber or service keeps its context, a client only a pointer to the session; `Init` may fail |
| `ServiceCalls` | `service_client.cpp`, a query's life in zenoh (external) | `call[c]` is the call under way with its promise; `open` the queries whose replies may still come |
| `ParameterService` | `config_service/main.cpp` | extends `ServiceCalls`; a handler thread stores, publishes and replies in three steps; the process may be killed between any two |
| `Descriptors` | what `socket_ops.cpp`, `pipe.cpp`, `fifo.cpp`, `mq.cpp`, `shm.cpp`, `signals.cpp` open and close | `table` says who has which descriptor, `bound` and `name` what is in the file system; one action per operation, with every place it may fail at as a disjunct |
| `Streams` | reading and writing with timeouts, in the OSAL, lpio's `DeviceBase` and the farm's Modbus | one piece moved a step, by a writer and a reader |
| `Events` | `event.cpp` | flag, waiters blocked or woken, and timeouts at any time |
| `Logging` | `logger.cpp`, spdlog's registry | loggers are numbered, `spd` says whether spdlog took one, and `replaced` is the one it came in place of; `sink_it_` with time in half seconds |
| `Mqtt` | `mqtt_client.cpp` | `copies` are the callbacks allocated; every call of the library may fail |
| `ConfigFiles` | `hardware_config.cpp`, `launch_config.cpp` | a file is a record; `LoadConfigFromFile`, `LoadLaunchConfig` and `DefaultMockConfig` are operators |
| `Lpio` | the device classes | two objects of one class on one device: `open`, `close`, moves, and what changes while open; `stuck` is a PWM channel the kernel refused to take back |
| `SbusReader` | `SBUSReader.cpp` | `recvFrame` in its reads; the frame's bits and the decoder as operators |
| `FieldBus` | `agri_field_master.cpp`, `agri_io_card_mock.cpp`, `agri_modbus_tcp.hpp`, `agri_afp_regs.hpp` | card and master, one request and one answer a step |
| `AgriStation` | `agri_mock_sensors.cpp`, `agri_station_model.hpp`, `agri_station_app.cpp` | sources feed a station; ages of readings; `TickOnce` |
| `Teleop` | `rover_demo`, `turtle_demo` | three processes, the router's port, two topics, the simulation |
| `SmartDevice` | `smart_device_demo.cpp` | one turn of the loop in three steps |
| `HostSampler` | `host_sampler.cpp` | `Sample`, and the kernel's counters and cores |
| `ProcessManagerProofs`, `LaunchManagerProofs`, `ThreadPoolProofs`, `JointControllerProofs`, `PidLockProofs`, `FoundationProofs`, `SystemServicesProofs`, `DevicesProofs` | | theorems |
| `MC...` | | small instances; the `.cfg` files name them |

Composition is by extension: a step of `LaunchManager` or `JointEndpoint` either
is a step of the component below it, restricted to when the code makes that
call, or leaves that component alone. `ThreadPool` implements `TaskPool` by the
refinement mapping `PromisedPool`, and `LaunchManager` implements
`ProcessManager!Spec`.

A definition marked *Mutant* next to a definition is a bug the code could have
had. It is used to see that the properties would notice.

## Runs

| run | instance | shows |
|---|---|---|
| `launch_manager` | two names, three pids, two clients, restart limits 0 and 1, failing forks | `TableMatchesChildren`, `ShutdownStopsEverything`, `DownForAReason`, `OrderedStopIsFinal`, `StopRequestHolds`, `NoChildLeftBehind`, `EachCommandOnce` under every order of calls, exits, hangs and swallowed SIGTERMs, with commands that cross in the queue, clients that time out, and a signal at any time. Three pids for two names leave one free, so a restart may reuse the pid just reaped or take another |
| `stop_without_kill` | one name, two pids, one client | violates `StopIsForced` |
| `startup_without_heartbeat` | one name with only a startup timeout | violates `StartupSilenceIsNoticed` |
| `pid_lock_unlink` | clean ends only | violates `OneInstance` |
| `progress` | one subject at a time. The pool: two workers, two callers, three tasks of two priorities, both kinds of shutdown. The launch_manager: one name, two pids, one client, restart limit 1 | `ImplementsTaskPool`, `WaitIdleMeansDone`, `ShutdownLeavesNothing`, and, under fairness, `AcceptedTasksEnd`, `WaitIdleReturnsOrDrops`, `ShutdownReturns` of the pool; `ShutdownCompletes`, `EveryExitIsReaped`, `HungIsNoticed`, `PostedCommandsRun` of the launch_manager. Two workers and three tasks are the least with a worker busy, one asleep and a task queued; two callers, so that one waits while the other shuts down. Of the two tasks that are alike, the same one is posted first |
| `thread_pool_discard` | two tasks | violates `WaitIdleReturns` |
| `system_services` | two endpoints, critical or not, built or not, without a service; one endpoint with each service; two incarnations | `EndedIsStopped`, `SignalEnds` of the application; `DeadIsStale`, `LiveIsReported` of health_monitor; `RegistriesAreCurrent` of device_manager and launch_manager |
| `foundation` | one subject at a time, see below | `LockFileHolds`, `RefusedForAReason` of the lock file; `OneSession` of a process; `ParametersAreTold` of config_service; `NothingLeaks` of OSAL objects and MQTT clients; `WholeMessages`, `NoSleeperMisses` of the OSAL; `LogsAreKept`; `TakenFilesAreSound` |
| `devices` | one subject at a time, see below | `SafeUnlessEnabled`, `DrivenByCommand`, `SilenceIsMadeSafe`, `StoppedIsSafe`, `StopReturns` of the joint controller and its endpoint; `ResourcesFollowState` of lpio; `FramesAreSent` of the SBUS reader; `PublishedIsMeasured` of the field master and the host's load; `OutputsFollowSources` of the applications |
| `logging_replace` | the logging of `foundation`, alone | violates `InitReplaces` |
| `socket_close` | two sockets, one other object, four descriptors | violates `OnlyItsOwn` |
| `sbus_decode` | frames of three values | violates `ChannelsAreExact` |

`foundation`, `devices` and `progress` put components side by side that do not interact: a
variable `subject`, chosen at the start, says which one moves, so the states of a run
are the sum and not the product of theirs. A property such as `NothingLeaks` or
`OutputsFollowSources` is a conjunction of the modules' own.

The bounds of `foundation`. *Lock file*: four instances, one stop command, crashes and
clean ends; the race of the clean end takes three instances, the fourth starts after
it. *Contexts*: three, so that objects of the first meet a second that failed and a
third. *Parameters*: two clients (alike, hence symmetry), three calls each, a set of
two names, one of them new, one of them unnamed with a read-only one, two starts of
the process. *Descriptors*: two sockets, one other object, four descriptors, one of
them the standard input, up to the first descriptor closed astray (see the findings).
*Streams*: messages of two bytes, three of them, a buffer of three: a message may be cut
anywhere and two may meet in the buffer. *Events*: three waiters, so that one is woken,
one barges in and one sleeps. *Logging*: two writers, the two names (one is the
default's), four loggers, two lines a second, a topic level above the logger's.
*MQTT*: three copies of callbacks. *Files*: an endpoint, or a process, with any two keys
odd; two of them with names given in any way; the four that are built in by their names
alone; a list in either place.

The bounds of `devices`. *Joints*: two joints, so that a command may leave one out;
commands are not bounded. *lpio*: two objects of each class and four descriptors, as two
GPIOs need four, and two values of a PWM's times. *SBUS*: three frames of three values, all channels alike, cut up in any
way, with timeouts. *Field bus*: a card of two channels, a master told one to three of
them, three samples; at most three half blocks a read, an odd number as 120 registers
hold seven and a half blocks, so a block may be torn between two reads. *Station*: two
quantities of climate and one of soil, one source for all or one per role. *Teleop*: two
messages under way on a topic, three ways to deploy. *Host*: two cores, three jiffies,
counters of four bits, which wrap.

The bounds of `system_services`. Two incarnations let the last messages of one meet
the first of the next. One message under way for each is enough for a late one; a
second of the same incarnation would come in order. The services share no state,
so a behaviour follows one of them, and `Publish` sends to that one. Nothing that
a service keeps relates two endpoints, so with a service one endpoint is used; two
are needed where one fails while the other runs. The node info of every second
turn stands for that of every tenth: there are turns with and without it.
`device_manager` and `launch_manager` are checked with a lost message, which is
what may leave a registry behind; health_monitor without, since
a lost heartbeat differs from a late one only in that the next turn's replaces it.

Deadlock is not checked where the system may rightly stop: `launch_manager`
ends, instances with a lock file end, the pool is shut down, the application ends,
the bounded subjects of `foundation` and `devices` use their bounds up.

### Fairness

* The supervision thread, the workers, the `Run()` threads and the main threads of
  hardware_interface and health_monitor are weakly fair:
  they are threads that the code neither suspends nor ends, and each waits only
  in loops with a bounded sleep or on a condition variable, where the model takes
  fairness away from it until it is woken.
* A call that has begun proceeds (`CallProceeds`), but nobody is obliged to make
  one: no client must post, ask or signal.
* A child that was forked reaches `exec` or fails, and one with a SIGTERM pending
  that does not ignore it ends. Nothing is assumed of one that hangs.
* Time passes: a deadline is eventually reached, and a hung child falls silent.
* A task is eventually done, as `shutdown` and `wait_idle` need.
* A message that was sent and not lost arrives: the callbacks run on threads of the
  transport. Nobody need start hardware_interface, signal it or let it crash.
* The loops of the applications (card, master, sources, station, teleoperation,
  simulation, smart device) take their turns and what is under way arrives, but a
  reading or a command must age only while its source is gone. That all is taken up
  again is claimed where the processes stay up in the end and nothing is late for ever,
  as `<>[]` and `~[]<><<...>>` hypotheses of the properties say.
* Spurious wakeups are possible but never relied on.

## Proofs

Every theorem holds for all constants that satisfy the named assumptions of the
module: pids and names are arbitrary sets; a launch file is any function into
specifications; joints are any finite set, commands any set of valid items.

**Process table.** `TableMatchesChildren` (each existing child is recorded exactly
once) is not inductive: an entry that StartAll has yet to visit must have no
child, or a second fork would lose the first, and an entry with a child must be
running or stopping. `EntryStates` adds this, and
`IInv == TypeOK /\ TableMatchesChildren /\ EntryStates /\ ShutdownStopsEverything`
is inductive. There is one lemma for each operator that changes entries
(`StartedOneFacts`, `StopEachFacts`, ...) and one step of the proof per action.
From it follow `TypeCorrect`, `TableIsExact`, `ShutdownIsTotal`,
`StopIsFinal` (an action property) and `DownHasReason`. For the last an entry remembers
whether the `fork` of its last start failed (`fork_failed`, a history field): a crash that the
policy answers with a restart leaves a process down for that reason only.

**Main program.** `Implementation` shows that every step of `LaunchManager` is a
step of `ProcessManager` or leaves it alone, so the theorems about the table
hold of the program. `LInv` adds what `StopRequestHolds` needs: no request was
carried out before the loop, and StartAll is over after it, since it would start
a stopped process. `StopRequestsHold` and `NoneLeftBehind` follow, for any number
of clients, commands and processes. `CommandsRunOnce` (`EachCommandOnce`) looks at the
two queues as one: `CommandInv` says that each client is in it once at most and not among
those carried out, that one whose call has not begun is in neither, and that the swapped
queue is empty outside the loop over it, so that the next swap loses nothing.

**Thread pool.** For any finite set of workers, any callers and any tasks and priorities,
`IInv` has five parts beside the types: `busy_` is the number of workers that have taken a
task (`Counted`, which with the finite set of workers gives `TypeOK` its bound); the queue
holds accepted tasks, each once and in the order of acceptance (`QueueInOrder`); an accepted
task is queued, dropped, ended or with the one worker that runs it (`OnePlace`); a worker
leaves only when there is nothing left (`LeftWhenDone`). `NothingIsLeft` and `IdleIsDone`
follow (`wait_idle` returns when `busy_` is 0 and the queue empty, so all accepted tasks are
ended or dropped). `PoolKeepsItsPromise` is the refinement of `TaskPool`, where what was
begun is what was accepted without what is queued or dropped: a post accepts, a take begins the
task that may come next, a run ends it, a discarding shutdown drops what is queued, and
every other step stutters. `TaskPool` has no fairness, so the refinement is safety.

**Joint controller.** `SafeUnlessEnabled` needs that a latched fault keeps the
controller disabled (`DisabledWhenUnsafe`), for otherwise Step would drive joints, and
that a controller which is not running, or is disabled and was not restarted, is safe
(`SafeWhenDisabled`). `Start` asks for nothing and does not touch the outputs: called on a
controller that runs, it leaves them as they are, enabled or not, until the next step
(`restarted`, a history variable). `DrivenByCommand` needs that the command in
force is one accepted since the last start (`CommandIsFresh`). `Safe` and
`OnlyCommandsDrive` follow for any number of joints
and commands. The proof also shows that the code's check for a latched fault
after its check of `enabled_` can never refuse anything more. `EndpointUsesController`
is the composition: each step of the endpoint's threads and callbacks is one of the
controller, or leaves it alone, so that `Safe` and `OnlyCommandsDrive` hold in the
endpoint. The endpoint calls `Start` once, on a controller that does not run
(`StartsOnce`), so there the exception is not met: `EndpointIsSafe`. And `StopIsSafe`
(`StoppedIsSafe`) has to show only that nothing which may
still come after `Stop()`, such as the callback of the subscriber that is not reset, drives a joint
of a stopped controller.

**Hardware application.** `EndStopsAll` (`EndedIsStopped`), for any configurations and
any number of endpoints: the loop of `Stop()` goes down through the endpoints, and
those it has passed are down (`PassedIsDown`); the one whose thread it joins has its sensor stopped
(`SensorBeforeThread`). That what `BuildEndpoints` keeps of a configuration is again
a sequence of endpoints is said in `ConfigAssumption`, which TLC evaluates: it holds
of every sequence, but the prover has no definition of `SelectSeq`.

**Lock file.** `LockFileHolds` rests on `LockInv`: an instance that is past the open
has a file and one that is past the lock has that file's lock (`HoldersLock`); every
lock is held by one that has the file open, so that a crash at any step leaves none
behind (`LocksAreHeld`); until the name is given up, every open file is the one the
name leads to (`OneFile`); and the file of one that runs holds its pid. The same
invariant gives `RefusedForAReason`.

**What the services stand on.** (`FoundationProofs`.) `OneSession` follows from the
flag and the session of every context going together (`ContextInv`), for any number of
contexts; `NoSleeperMisses` is inductive, for any number of threads; so is
`ClientAccounted`, half of what `NothingLeaks` checks. `LogsAreKept` needs most: that the
registry has a name only while the default logger has it, so that a new logger is refused,
and mute, exactly if it has the name of one that works (`MuteForAReason`); that
loggers are numbered upwards, so that a new one has no session yet; that the null logger
has no sink; and, for the rate, how many lines there can be while the window is new, half
over or past (`WithinLimit`): a window begins with a line, so that one second may span the
end of one and the start of the next, with the two limits but for one line. It
assumes no more than that the limit is a natural number (`RateLimitAssumption`).

*Descriptors.* `AcquiredIsKnown` gives the other half of `NothingLeaks`, for any set of
sockets and any descriptors, given only that they are numbers, with the standard input among
them, and that their owners differ (`DescriptorsAssumption`): until a descriptor is closed astray
(finding 5), whoever is noted in the table has that descriptor in a member of its own, and
each member that is open is noted so. After that nothing is claimed, as nothing can be.
Of the names it says that a path in the file system is that of a socket which will remove
it, unless `listen()` failed on it, and that a queue or a memory has a name only after
a `create()` that succeeded and before `unlink()`.

*Streams.* `MessagesComeWhole` (`WholeMessages`) takes messages of any length that is not zero and
any number of them. What is under way, read halfway or not yet read, is the tail
of a sequence of whole messages, in order, that ends where the writer has got to
(`InOrder`, `CutAtWriter`); what was returned is whole, increasing, and older than anything
under way (`Returned`). The lemmas `PiecePutsOn` and `MessageIsTaken` say that this survives a
write and a read of any piece, and `Joined`, `Appended` are about the sequences.

*Parameters.* `ParametersAreToldTruly` (`ParametersAreTold`) for any clients, calls,
names and starts. Its invariant: a client that never gave up has one query or one handler
under way, and that is of its present call (`Orderly`); while no two sets overlapped, at
most one change is under way (`OneChange`), and the store is what was announced, updated by that
change (`Announced`); values number the accepted sets (`StoreIsNumbered`), so a value known
to a client is in the store or followed by a later one (`KnownIsStored`), also in answers that
are still to come, unless config_service was restarted since. The assumption
(`DefaultsAssumption`) is that the defaults are what no client has set.

*Files.* `SoundFilesAreTaken` (`TakenFilesAreSound`) for any set of files. `FilesAssumption` lets
ids be any texts and types any single words. The words are what keeps derived topics apart,
`sensors/<type>/<id>` or `joints/<id>/...`: a type with a slash in it could make two of them
equal, but no such type makes an endpoint (`hardware_interface_app.cpp` knows four words).
A file that names the four built-in endpoints and nothing else of them gives them as
`DefaultMockConfig` does but for the frame, `<id>_link` (`AsBuiltIn`, key by key in `MockFields`).

**Devices.** (`DevicesProofs`.) `ResourcesAreTracked` (`ResourcesFollowState`), for
any number of objects and descriptors: the property counts, so the invariant says which they
are: an object has the descriptors of its class exactly while it is open, no two objects have one
in common (`HeldByOne`), a descriptor in use is somebody's (`UsedIsHeld`), and so is the exported
PWM channel, unless the kernel refused to take it back (`ExportedIsHeld`, `stuck`). A GPIO has two, so every failure between the first and the second
is a case. It needs that descriptors are numbers, which `open` gives out from the least,
and that there is a least (`LeastNatural`).

`FramesComeThrough` (`FramesAreSent`), for any number of frames with any contents, every
way to cut up the bytes and any timeouts. What the reader holds are the last bytes it took
from the line, from a header's byte on (`RawIsLast`), and what it returned lies before that,
piece after piece (`CutBefore`). A frame that is over was returned (`Caught`) and one that
is not is being read from its first byte on (`Current`), but for those it gave up in (`cut`)
and those whose beginning it took for a part of another (`lost`). As long as it is in step, never
having given up or with nothing in the frames that looks like a header, there are none
of the latter, and every piece begins where a frame does (`Steady`).

`FieldMeasurements` (`FieldIsMeasured`), for any number of channels and any size of a read: at
most one request is on the connection and its answer, if there is one, is to the step
the master is at (`OneAtATime`), since a timeout or a third failure closes; so what was read are
the half blocks in their order, none older than the poll (`ReadInOrder`), and what is published is
cut out at the right place. It says why the close in `ReadHoldingRegisters` matters: without
it an answer of the last poll would be taken for the first of this one, as the
code compares neither transaction nor address.

`MeasurementsArePublished` (`PublishedIsMeasured`) puts the host's load beside that, for any
number of cores. `HostInv` says that while no core came or went and no counter fell, the
counters go on from where the last sample left them (`GoesOn`): so the sampler, which compares only
how many lines it read, has the same cores before it when it subtracts. `LinesAre` says what
the lines are, the sums first and then the cores in increasing order (`OrderExists`: there is one
such order); `CountersAddUp` and `StatAddsUp` that the differences of the sums are the sums
of the differences, modulo the counters' width as in the code; `EachIsShare` that each
ratio is then the share of its core, or of all. The facts about sums (`SumStep`,
`SumsDiffer`, `SumIsBounded`) are inductions on the number of cores. The library's induction
theorems cannot be used, so they go through the set of the numbers for which the claim holds, which
has no least number missing (`AllNaturals`). `HostAssumption` says that the sum of all
cores' time stays below the width, 64 bits in the code: at a hundred jiffies a second
that is almost six billion years of one core.

**Model-checked only.** All liveness, as the prover handles neither fairness nor ENABLED:
`ShutdownCompletes`, `EveryExitIsReaped`, `HungIsNoticed`, `PostedCommandsRun`, `AcceptedTasksEnd`,
`WaitIdleReturnsOrDrops`, `ShutdownReturns`, `SilenceIsMadeSafe`, `StopReturns`, `SignalEnds`,
`DeadIsStale`, `LiveIsReported`, `RegistriesAreCurrent` and `OutputsFollowSources`. Every
safety property that a passing run checks is proved. What the seven
runs that refute something show is not: a counterexample is enough. There are no recursive operators in the
modules, and of the folds they use only `SumFunction` has a proof about its value.

## Findings

Where the program does something else than its documents, comments or tests say
a run shows it. `PROJECT.json` quotes both sides.

1. *A stop is never forced* (`stop_without_kill`). `StopOne` sets a deadline that
   only `StopAll` reads: a process stopped on request, or for its heartbeat, that
   ignores SIGTERM stays in state stopping for ever.
2. *A startup timeout needs a heartbeat timeout* (`startup_without_heartbeat`). The
   supervision test waits for a timeout that cannot come with its configuration.
3. *The lock file is unlocked before it is unlinked* (`pid_lock_unlink`): two
   instances may run at once after a third ends.
4. *A discarding shutdown wakes no waiter* (`thread_pool_discard`): `wait_idle` may
   sleep for ever although queue and workers are idle.

5. *A closed socket names descriptor 0* (`socket_close`): closed once more, or destroyed,
   it closes the standard input, or what has that number by then.
6. *SBUS channels lose bits* (`sbus_decode`): the four channels that lie in three bytes are
   decoded from two.
7. *A logger that replaces one of its own name is mute* (`logging_replace`): spdlog knows the
   name still, so the new logger gets none of spdlog's and drops every line.

Some behaviours were met that no document rules out. A joint command refused for
its joints has already cleared faults or enabled the controller, after which the
last accepted command is played again; and a command given before a disable is
played again after the next enable, if it has not expired. After a stop or a crash
of hardware_interface, `device_manager` keeps its devices' last state, mostly online,
for ever: the offline state of a stopped endpoint is never published, and
states have no age. A sensor that is stopped while its endpoint reads leaves an
error in the endpoint's status. One read that times out makes the health of the
node a warning for as long as the process lives.

In the components of `foundation` and `devices`: a start request that meets a
process being stopped is answered "already running", and the process stays down; nothing
paces restarts without a limit. A reference to the logger from `default_logger()` may be used
after an `init()` of another thread has destroyed what it names; a rate limit of N lines
lets up to 2N-1 of them pass within a second. A lost MQTT connection is noted nowhere:
`connect()` answers EBUSY until `disconnect()`, and a callback that disconnects destroys
itself while it runs. Two clients that set parameters at once may be announced in the
other order. A rate given as NaN passes the check of a hardware configuration, the
built-in configuration names the frames of its four endpoints (`imu_link`,
`temperature_link`, `gnss_link`, `base_link`) otherwise than a file without
`frame_id` does (`<id>_link`), and a launch file may name a process twice. Any client may
make a parameter read-only by setting it so. The load of a core is
compared with that of another when one came and one went. A PWM does not notice
that the kernel refused a value, as its stream writes it when it is destroyed, nor that an unexport was refused: the channel
then stays exported and no object knows of it; `waitForEdge` asks for a line that its own object holds, and
is refused by the kernel. An SBUS reader that gave up in the middle of a frame is promised to be in step with the next
one only if no data byte looks like a header: among frames of centred sticks it may take a
byte of the data for one again and again, as it discards all 25 bytes on a wrong footer. A
server whose `listen()` fails leaves its path behind, and a fifo that fails to open may leave its
name. `Start()` of a joint controller that runs keeps what it drives until the next step,
disabled or not, and forgets the command, so that once enabled again its joints stay driven
without a timeout until a command comes. The card serves one
client without a timeout, so one that is silent keeps out all others; a master told of
more channels than the card has publishes nothing; its comment calls 120 registers a
multiple of a block's 16. The rover's teleoperation releases the emergency stop as it
quits, and one that is started again releases a stop that was engaged. The smart device
stays Running when both services are gone. Timed waits of events end at once, their
deadline being read from another clock than the condition's.

## Abstractions and bounds

* Time is two flags per process (`silent`, `expired`) and one per command
  (`expired`), set by the environment and cleared where the code stores a time.
  The code compares with one limit at a time, so nothing else of a time matters.
  A joint command may carry its sender's time, so it may be late on arrival.
* SIGKILL takes effect at once; SIGTERM stays pending until the child is scheduled.
* `ProcessManager` has each process once (the code does not check it; a second
  entry of a name could not be stopped); `ConfigFiles` lets names repeat, as it does.
* `restart_count` saturates at `MaxCount`, at or above every limit.
* The path of an exception out of the main loop, which ends the program without
  `StopAll`, is not modelled.
* Liveness is checked with a restart limit. Without one, children that die as
  fast as they are started keep `Poll` in its `waitpid` loop.
* Event publishing, texts, counters and statistics are left out.
* Tasks are posted once each; `submit` is `post` of a packaged task. A second
  `shutdown` returns at once and changes nothing. No task waits for its own pool.
* A joint's output is its mode and whether velocity and effort are zero. That a
  command is valid (known joints, finite values within limits) is a flag.
* An endpoint's error count is a flag, as the code asks only whether it is zero.
  `ReadSample` and the publication of what it read are one step. Whether a
  driver fails is free, though the mock sensors of this repository never do.
* Ages in health_monitor are counted in turns of its loop. A stale entry grows no
  older. `StaleAfter` turns stand for the five seconds of the code.
* Of a node's record the registry model keeps the pid, of a device whether its info
  is known and its state. The static device of `device_manager` and the filters of a
  query are left out.
* `MaxStarts`, `WireCapacity` and `MaxLost` bound incarnations, messages under way and
  losses, in TLC's runs. A full wire makes the publisher wait for a delivery; the
  deliveries are fair, so it waits for a while; how far a message may lag is cut off.
* `MaxCommands` bounds the commands a controller gets, in TLC's runs only.
* An endpoint's callbacks go on after `Stop()`, as the subscriber is not reset.
* A parameter's value is the number of the accepted set that wrote it; kinds of values
  and texts are left out. That two sets overlapped is remembered (`overlapped`), as
  `EventsTellTheTruth` is claimed without it, and that a reply came late or twice
  (`disturbed`), as no client is promised anything after it.
* A timed-out wait for an event never consumes a signal: so it is with glibc, and
  `event.cpp` does not look at the flag again after a timeout.
* `open` of the lock file does not fail.
* A buffer's bytes know the message and place they are from; a call that fails halfway
  sets `torn`, after which nothing is claimed of the stream.
* Names in the file system are one path for servers, and one name for the fifo, queue or
  memory; who else may use them is left out. An object
  opened while open (`reopened`) loses what it had, and nothing is claimed of it.
* lpio: a GPIO line is given to one descriptor at a time; the kernel may refuse anything.
* A reading or command has no age, a fresh or an old one; the code compares with one
  limit at a time. Ages count from reception.
* Registers are counted in half blocks; a half block holds the measurement or the upper
  word of the sequence number, which is what a torn read mixes up.
* A text in a file is a sequence of its parts, so that derived topics differ as theirs do.

## Plan

What is left, in this order.

1. Theorems about the callers: a refinement proof of (2), and safety lemmas on which the
   liveness of `wait_idle` and of the shutdown rests.
2. An abstract specification of a request that is answered once or times out, implemented
   by `ServiceCalls` and by the callers of `LaunchManager`.
3. Conditions, semaphores and queues of the OSAL with their timeouts; the filters of
   queries in device_manager and launch_manager; `Executor` and the order of callbacks.
4. Integer algorithms (checksums, ring buffers) as operators against reference
   definitions.

Runs are kept few: a new component joins `foundation` or `devices` as a subject, and
its property a conjunction there, unless it composes with another.
