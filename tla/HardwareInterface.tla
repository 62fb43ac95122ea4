-------------------------- MODULE HardwareInterface --------------------------
(***************************************************************************)
(* The hardware_interface process: its main thread (main.cpp and           *)
(* HardwareInterfaceApp: Start, Spin, Stop), the thread of every sensor    *)
(* endpoint, and the signals and crashes that end it.  The endpoints of    *)
(* the three sensors are the same code; the joint controller's, which has  *)
(* commands in addition, is the subject of JointEndpoint.                  *)
(***************************************************************************)
EXTENDS Topics

CONSTANTS
    Ids,           \* endpoint ids
    Configs,       \* the configurations: sequences of endpoints
    InfoInterval   \* kNodeInfoPublishInterval

EndpointConfig == [id : Ids, built : BOOLEAN, critical : BOOLEAN]

(* endpoints_: those of a configuration that this build has.               *)
Built(c) == SelectSeq(c, LAMBDA e : e.built)

(* That a selection from a sequence is a sequence is said here, as the     *)
(* prover has no definition of SelectSeq.                                  *)
ASSUME ConfigAssumption ==
    /\ InfoInterval \in Nat \ {0}
    /\ \A c \in Configs : c \in Seq(EndpointConfig) /\ Built(c) \in Seq(EndpointConfig)

VARIABLES
    config,    \* the enabled endpoints of the configuration, in order
    starts,    \* the number of incarnations so far; the last one's pid
    signal,    \* SIGTERM or SIGINT has been received
    main,      \* where the main thread is
    at,        \* the endpoint its loop is at
    turn,      \* sequence, modulo InfoInterval
    seen,      \* the status it took for the device topics
    endpoint   \* status and threads of each endpoint

processVars == <<config, starts, signal, main, at, turn, seen, endpoint>>

Created ==
    [state |-> "created", errors |-> FALSE,   \* EndpointStatus
     running |-> FALSE, sensor |-> FALSE,     \* running_, the sensor's running_
     thread |-> "none"]

ProcessInit ==
    /\ config \in Configs
    /\ starts = 0
    /\ signal = FALSE
    /\ main = "down"
    /\ at = 0
    /\ turn = 0
    /\ seen = Created
    /\ endpoint = [e \in Ids |-> Created]

Endpoints == Built(config)
EndpointIds == {Endpoints[i].id : i \in DOMAIN Endpoints}
Current == Endpoints[at].id

(* BuildEndpoints()                                                        *)
CanBuild ==
    /\ \A i \in DOMAIN config : config[i].critical => config[i].built
    /\ config # <<>> => Endpoints # <<>>

-----------------------------------------------------------------------------
(* Start()                                                                 *)

Goto(pc, i) == main' = pc /\ at' = i

(* The main thread has done its step at endpoint `at' of the start loop.   *)
NextToStart == IF at = Len(Endpoints) THEN Goto("spin", 1) ELSE Goto("configure", at + 1)

StopAll == Goto("stop", Len(Endpoints))

Set(e, new) == endpoint' = [endpoint EXCEPT ![e] = new]

(* The process is started, for the first time or again.                    *)
Launch ==
    /\ main \in {"down", "ended"} /\ starts < MaxStarts
    /\ starts' = starts + 1
    /\ endpoint' = [e \in Ids |-> Created]
    /\ IF ~CanBuild THEN StopAll
       ELSE IF Endpoints = <<>> THEN Goto("spin", 1)
       ELSE Goto("configure", 1)
    /\ UNCHANGED <<config, signal, turn, seen, topicVars>>

(* Mutant: a critical failure leaves without stopping the others.          *)
FailAndLeave(e) ==
    /\ Set(e, [endpoint[e] EXCEPT !.state = "error", !.errors = TRUE])
    /\ IF Endpoints[at].critical THEN Goto("ended", 0) ELSE NextToStart

(* An endpoint that fails ends the start only if it is critical.           *)
Fail(e) ==
    /\ Set(e, [endpoint[e] EXCEPT !.state = "error", !.errors = TRUE])
    /\ IF Endpoints[at].critical THEN StopAll ELSE NextToStart

Configure ==
    /\ main = "configure"
    /\ \/ /\ Set(Current, [endpoint[Current] EXCEPT !.state = "configured"])
          /\ Goto("start", at)
       \/ Fail(Current)
    /\ UNCHANGED <<config, starts, signal, turn, seen, topicVars>>

(* The sensor starts or fails to; Advertise may throw, which unwinds to    *)
(* the destructor and its Stop(); the thread starts.                       *)
StartEndpoint ==
    /\ main = "start"
    /\ \/ Fail(Current)
       \/ /\ Set(Current, [endpoint[Current] EXCEPT !.sensor = TRUE])
          /\ StopAll
       \/ /\ Set(Current, [endpoint[Current] EXCEPT !.sensor = TRUE,
                               !.running = TRUE, !.thread = "checking"])
          /\ Goto("started", at)
    /\ UNCHANGED <<config, starts, signal, turn, seen, topicVars>>

MarkRunning ==
    /\ main = "started"
    /\ Set(Current, [endpoint[Current] EXCEPT !.state = "running"])
    /\ NextToStart
    /\ UNCHANGED <<config, starts, signal, turn, seen, topicVars>>

-----------------------------------------------------------------------------
(* Spin()                                                                  *)

(* ToHealthState and BuildHeartbeat's health of all endpoints.             *)
ToHealthState(s) ==
    IF s.state = "error" THEN "error"
    ELSE IF s.errors THEN "warning"
    ELSE IF s.state = "running" THEN "ok" ELSE "stale"

Health ==
    IF \E e \in EndpointIds : endpoint[e].state = "error" THEN "error"
    ELSE IF \E e \in EndpointIds : endpoint[e].errors THEN "warning" ELSE "ok"

ToDiagnosticLevel(s) ==
    IF s.state = "error" THEN "ERROR"
    ELSE IF s.errors THEN "WARNING"
    ELSE IF s.state = "running" THEN "OK" ELSE "STALE"

ToDeviceAvailability(state) ==
    CASE state = "running" -> "online"
      [] state = "error" -> "error"
      [] OTHER -> "offline"

DeviceState(s) ==
    [availability |-> ToDeviceAvailability(s.state), health |-> ToHealthState(s)]

(* The condition of the loop, and the node info of every tenth turn.       *)
SpinTurn ==
    /\ main = "spin"
    /\ \/ /\ signal
          /\ StopAll
          /\ UNCHANGED topicVars
       \/ /\ ~signal
          /\ Goto("heartbeat", at)
          /\ IF turn = 0 THEN Publish(starts, [topic |-> "node info", pid |-> starts])
             ELSE UNCHANGED topicVars
    /\ UNCHANGED <<config, starts, signal, turn, seen, endpoint>>

PublishHeartbeat ==
    /\ main = "heartbeat"
    /\ Publish(starts, [topic |-> "heartbeat", health |-> Health])
    /\ Goto("diagnostics", at)
    /\ UNCHANGED <<config, starts, signal, turn, seen, endpoint>>

PublishDiagnostics ==
    /\ main = "diagnostics"
    /\ Publish(starts, [topic |-> "diagnostics",
                        level |-> [e \in EndpointIds |-> ToDiagnosticLevel(endpoint[e])]])
    /\ Goto("devices", 1)
    /\ UNCHANGED <<config, starts, signal, turn, seen, endpoint>>

(* The loop over the endpoints takes the status of each once.              *)
PublishDeviceInfo ==
    /\ main = "devices"
    /\ IF at > Len(Endpoints)
       THEN /\ Goto("spin", 1)
            /\ turn' = (turn + 1) % InfoInterval
            /\ UNCHANGED <<seen, topicVars>>
       ELSE /\ seen' = endpoint[Current]
            /\ Publish(starts, [topic |-> "device info", id |-> Current])
            /\ Goto("device state", at)
            /\ UNCHANGED turn
    /\ UNCHANGED <<config, starts, signal, endpoint>>

PublishDeviceState ==
    /\ main = "device state"
    /\ Publish(starts, [topic |-> "device state", id |-> Current,
                        state |-> DeviceState(seen)])
    /\ seen' = Created
    /\ Goto("devices", at + 1)
    /\ UNCHANGED <<config, starts, signal, turn, endpoint>>

-----------------------------------------------------------------------------
(* Stop(), from the last endpoint to the first.                            *)

(* Mutant: the thread is told by its sensor alone.                         *)
StopNextEndpoint ==
    /\ main = "stop"
    /\ IF at = 0
       THEN /\ Goto("ended", 0)
            /\ signal' = FALSE /\ turn' = 0
       ELSE /\ Goto("stop sensor", at)
            /\ UNCHANGED <<signal, turn>>
    /\ UNCHANGED <<config, starts, seen, endpoint, topicVars>>

StopRunning ==
    /\ main = "stop"
    /\ IF at = 0
       THEN /\ Goto("ended", 0)
            /\ signal' = FALSE /\ turn' = 0
            /\ UNCHANGED endpoint
       ELSE /\ Set(Current, [endpoint[Current] EXCEPT !.running = FALSE])
            /\ Goto("stop sensor", at)
            /\ UNCHANGED <<signal, turn>>
    /\ UNCHANGED <<config, starts, seen, topicVars>>

StopSensor ==
    /\ main = "stop sensor"
    /\ Set(Current, [endpoint[Current] EXCEPT !.sensor = FALSE])
    /\ Goto("join", at)
    /\ UNCHANGED <<config, starts, signal, turn, seen, topicVars>>

Join ==
    /\ main = "join"
    /\ endpoint[Current].thread \in {"none", "done"}
    /\ Set(Current, [endpoint[Current] EXCEPT
                         !.state = IF @ = "error" THEN @ ELSE "stopped"])
    /\ Goto("stop", at - 1)
    /\ UNCHANGED <<config, starts, signal, turn, seen, topicVars>>

-----------------------------------------------------------------------------
(* Run() of an endpoint                                                    *)

(* The condition of the loop.                                              *)
Check(e) ==
    /\ endpoint[e].thread = "checking"
    /\ Set(e, [endpoint[e] EXCEPT !.thread = IF endpoint[e].running THEN "sampling"
                                             ELSE "done"])

(* ReadSample() and Publish(): a sample is published if the sensor still   *)
(* runs; else, and when the read times out or the publishing fails, it is  *)
(* an error, recorded without a change of state.                           *)
Sample(e) ==
    /\ endpoint[e].thread = "sampling"
    /\ \/ /\ endpoint[e].sensor
          /\ Set(e, [endpoint[e] EXCEPT !.thread = "checking"])
       \/ Set(e, [endpoint[e] EXCEPT !.thread = "checking", !.errors = TRUE])

Run(e) ==
    /\ Check(e) \/ Sample(e)
    /\ UNCHANGED <<config, starts, signal, main, at, turn, seen, topicVars>>

-----------------------------------------------------------------------------
(* The environment                                                         *)

HandleStopSignal ==
    /\ main \notin {"down", "ended"}
    /\ signal' = TRUE
    /\ UNCHANGED <<config, starts, main, at, turn, seen, endpoint, topicVars>>

Crash ==
    /\ main \notin {"down", "ended"}
    /\ Goto("down", 0)
    /\ signal' = FALSE /\ turn' = 0
    /\ seen' = Created
    /\ endpoint' = [e \in Ids |-> Created]
    /\ UNCHANGED <<config, starts, topicVars>>

MainStep ==
    \/ Configure \/ StartEndpoint \/ MarkRunning
    \/ SpinTurn \/ PublishHeartbeat \/ PublishDiagnostics
    \/ PublishDeviceInfo \/ PublishDeviceState
    \/ StopRunning \/ StopSensor \/ Join

ProcessNext ==
    \/ Launch \/ MainStep \/ HandleStopSignal \/ Crash
    \/ \E e \in Ids : Run(e)

=============================================================================
