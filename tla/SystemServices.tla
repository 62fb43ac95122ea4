--------------------------- MODULE SystemServices ----------------------------
(***************************************************************************)
(* The hardware_interface process and the services that watch it: its      *)
(* topics carry its heartbeats to health_monitor and launch_manager, its   *)
(* diagnostics to health_monitor and its devices to device_manager.        *)
(***************************************************************************)
EXTENDS HardwareInterface, HealthMonitor, DeviceManager, RuntimeRegistry

CONSTANTS Deployments   \* configurations, with the service that is followed

ASSUME IdsAssumption == Diagnosed = Ids /\ Devices = Ids

registryVars == <<monitorVars, devices, registered>>
allVars == <<processVars, topicVars, registryVars>>

Init ==
    /\ TopicsInit /\ ProcessInit
    /\ MonitorInit /\ RegistryInit /\ NodeRegistryInit
    /\ [config |-> config, service |-> service, losses |-> losses] \in Deployments

Process(A) == A /\ UNCHANGED registryVars

(* The callbacks of the subscriptions, one message at a time.              *)
MonitorHears(m) ==
    /\ service = "health_monitor"
    /\ \/ m.topic = "heartbeat" /\ HeartbeatCallback(Node, m.health)
       \/ /\ m.topic = "diagnostics"
          /\ DiagnosticsCallback(Node, [k \in {Node} \X DOMAIN m.level |-> m.level[k[2]]])
    /\ UNCHANGED <<devices, registered>>

DeviceManagerHears(m) ==
    /\ service = "device_manager"
    /\ \/ m.topic = "device info" /\ UpdateInfo(m.id)
       \/ m.topic = "device state" /\ UpdateState(m.id, m.state)
    /\ UNCHANGED <<monitorVars, registered>>

LaunchManagerHears(m) ==
    /\ service = "launch_manager"
    /\ \/ m.topic = "node info" /\ UpdateNodeInfo(m.pid)
       \/ m.topic = "heartbeat" /\ UpdateHeartbeat
    /\ UNCHANGED <<monitorVars, devices>>

Deliver(p) ==
    /\ \E m \in {wire[p][i] : i \in DOMAIN wire[p]} :
          /\ Receive(p, m)
          /\ MonitorHears(m) \/ DeviceManagerHears(m) \/ LaunchManagerHears(m)
    /\ UNCHANGED processVars

Turn ==
    /\ service = "health_monitor"
    /\ MonitorTurn
    /\ UNCHANGED <<processVars, topicVars, devices, registered>>

Next ==
    \/ Process(ProcessNext)
    \/ \E p \in 1..MaxStarts : Deliver(p)
    \/ Turn

Spec == Init /\ [][Next]_allVars

(* Threads and messages go on; starts, signals and crashes need not come.  *)
FairSpec ==
    /\ Spec
    /\ WF_allVars(Process(MainStep))
    /\ \A e \in Ids : WF_allVars(Process(Run(e)))
    /\ \A p \in 1..MaxStarts : WF_allVars(Deliver(p))
    /\ WF_allVars(Turn)

-----------------------------------------------------------------------------
TypeOK ==
    /\ main \in {"down", "configure", "start", "started", "spin", "heartbeat",
                 "diagnostics", "devices", "device state", "stop",
                 "stop sensor", "join", "ended"}
    /\ at \in 0..(Len(Endpoints) + 1)
    /\ endpoint \in [Ids -> [state : {"created", "configured", "running", "stopped", "error"},
                             errors : BOOLEAN, running : BOOLEAN, sensor : BOOLEAN,
                             thread : {"none", "checking", "sampling", "done"}]]
    /\ \A k \in Keys : external[k] # None =>
          k \notin NodeKeys /\ external[k].age \in 0..(StaleAfter + 1)
    /\ \A p \in 1..MaxStarts : Len(wire[p]) <= WireCapacity

Spinning ==
    main \in {"spin", "heartbeat", "diagnostics", "devices", "device state"}

(***************************************************************************)
(* However the program ends by itself - after a signal, an endpoint that   *)
(* failed, an exception between the start of a sensor and of its thread -  *)
(* no endpoint's thread and no sensor is left running.                     *)
(***************************************************************************)
EndedIsStopped ==
    main = "ended" =>
        \A e \in EndpointIds :
            /\ endpoint[e].thread \in {"none", "done"}
            /\ ~endpoint[e].sensor
            /\ endpoint[e].state \in {"stopped", "error"}

(* A stop signal ends the program, wherever its threads are.               *)
SignalEnds == signal /\ main # "down" ~> main \in {"ended", "down"}

(***************************************************************************)
(* Once the process is gone for good, everything health_monitor says of it *)
(* is stale, whatever was still under way, and although the monitor hears  *)
(* its own diagnostics about the node.                                     *)
(***************************************************************************)
DeadIsStale ==
    <>[](main \in {"down", "ended"}) =>
        <>[](\A k \in DOMAIN Snapshot : k[1] = Node => Snapshot[k] = "STALE")

(***************************************************************************)
(* While a process goes on, what health_monitor says of it and of its      *)
(* endpoints becomes and stays what they report, except when messages are  *)
(* late, and it is said time and again; late messages of an earlier        *)
(* incarnation do not last.                                                *)
(***************************************************************************)
Said(k) == IF k \in DOMAIN Snapshot THEN Snapshot[k] ELSE None

Truth(k) ==
    IF k = NodeKey(Node) THEN ToMonitorLevel[Health] ELSE ToDiagnosticLevel(endpoint[k[2]])

Reported == {NodeKey(Node)} \cup {<<Node, e>> : e \in EndpointIds}

LiveIsReported ==
    service = "health_monitor" /\ <>[]Spinning =>
        /\ <>[](\A k \in Reported : Said(k) \in {Truth(k), "STALE"})
        /\ \A k \in Keys : []<>(k \in Reported => Said(k) = Truth(k))

(***************************************************************************)
(* While a process goes on, the services that follow it come to know it as *)
(* it is, in whatever order they heard of it and whatever was lost: a query*)
(* of device_manager returns the state each of its devices has, and a node *)
(* query its own pid, not that of an incarnation before or none.           *)
(***************************************************************************)
DevicesKnown ==
    \A e \in EndpointIds : e \in DOMAIN Query /\ Query[e] = {DeviceState(endpoint[e])}

RegistriesAreCurrent ==
    <>[]Spinning =>
        /\ service = "device_manager" => <>[]DevicesKnown
        /\ service = "launch_manager" => <>[](registered = {starts})

=============================================================================
