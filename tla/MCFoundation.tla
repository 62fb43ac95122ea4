---------------------------- MODULE MCFoundation -----------------------------
(* What the services stand on, one subject at a time: the lock file; the   *)
(* contexts of a process; config_service and its clients; the objects of   *)
(* the OSAL, up to the first descriptor closed astray; a stream; an event; *)
(* the logger of a process; an MQTT client; the files the system is        *)
(* described in.                                                           *)
EXTENDS PidLock, Context, ParameterService, Descriptors, Streams, Events,
        Logging, Mqtt, ConfigFiles

CONSTANTS mode, robot_id, new, c1, c2, i1, i2, i3, i4

VARIABLE subject

TheClients == {c1, c2}
Four == {i1, i2, i3, i4}
Alike == Permutations(TheClients)

TheDefaults ==
    (mode :> [value |-> 0, read_only |-> FALSE]) @@ (robot_id :> [value |-> 0, read_only |-> TRUE])

TheRequests ==
    {[op |-> "get", names |-> {}], [op |-> "unreadable"]}
    \cup {[op |-> "set", names |-> s, fixed |-> s \cap {new}] :
              s \in {{mode}, {mode, new}, {NoName, robot_id}}}

(* Files: an endpoint, or a process, with up to two keys as nobody would   *)
(* write them; two of them, with the names of the first in any way.        *)
Id(e) == <<e>>
Plain(type) ==
    [id |-> Id("a"), endpoint_id |-> Absent, type |-> type, mode |-> Absent, driver |-> Absent,
     topic |-> Absent, state_topic |-> Absent, command_topic |-> Absent, frame_id |-> Absent,
     publish_rate_hz |-> Absent, enabled |-> Absent, critical |-> Absent, disabled_on_start |-> Absent,
     command_timeout_ms |-> Absent]

Odd(key) ==
    CASE key \in {"publish_rate_hz", "command_timeout_ms"} -> {0, 5, Malformed}
      [] key \in {"enabled", "critical", "disabled_on_start"} -> {TRUE, FALSE, Malformed}
      [] OTHER -> {<<>>, Id("a"), Id("b"), Malformed, Absent}

Changed(node, keys) ==
    UNION {{[node EXCEPT ![k] = v, ![l] = w] : v \in Odd(k), w \in Odd(l)} : k, l \in keys}

TheEndpoints == UNION {Changed(Plain(t), DOMAIN Plain(t)) : t \in {<<"imu">>, Joint, <<"other">>}}

File(app, list, in_app) == [app |-> app, endpoints |-> list, app_endpoints |-> in_app]

TheHardwareFiles ==
    {File(app, n, m) : app \in {Absent, Malformed}, n, m \in {Absent, Malformed, <<>>}}
    \cup {File(Absent, <<e>>, Absent) : e \in TheEndpoints}
    \cup {File(Absent, [i \in 1..4 |-> [Plain(DefaultMockConfig[i].type)
                           EXCEPT !.id = DefaultMockConfig[i].endpoint_id]], Absent)}
    \cup {File(Absent, Absent, <<Plain(Joint), e>>) : e \in Changed(Plain(Joint), {"id", "endpoint_id", "topic"})}

Launched(n) ==
    [name |-> n, command |-> Id("node"), env |-> Absent, restart |-> Absent,
     restart_limit |-> Absent, startup_timeout |-> Absent, shutdown_timeout |-> Absent,
     heartbeat_timeout |-> Absent]

OddLaunched(key) ==
    CASE key \in {"name", "command", "env"} -> {<<>>, Malformed, Absent}
      [] key = "restart" -> {<<>>, Id("always"), Id("on_failure"), Id("sometimes"), Malformed}
      [] OTHER -> {0, 500, Malformed}

TheProcesses ==
    UNION {{[Launched(Id("a")) EXCEPT ![k] = v, ![l] = w] : v \in OddLaunched(k), w \in OddLaunched(l)}
              : k, l \in DOMAIN Launched(Id("a"))}

TheLaunchFiles ==
    {[runtime |-> r, nodes |-> n] : r \in {Absent, Malformed}, n \in {Absent, Malformed, <<>>}}
    \cup {[runtime |-> Absent, nodes |-> <<Launched(Id("a")), p>>] : p \in TheProcesses}

FoundationInit ==
    /\ subject \in {"lock", "context", "parameters", "descriptors", "stream", "event",
                    "logging", "mqtt", "files"}
    /\ LockInit
    /\ ContextInit
    /\ ParametersInit
    /\ IF subject = "descriptors" THEN DescriptorsInit
       ELSE DescriptorsInit /\ kind = "pipe"
    /\ IF subject = "stream" THEN StreamsInit
       ELSE StreamsInit /\ class = "pipe"
    /\ EventsInit
    /\ LoggingInit
    /\ MqttInit
    /\ IF subject = "files" THEN FilesInit
       ELSE given = [for |-> "hardware", file |-> File(Absent, <<>>, Absent)] /\ taken = Unread

FoundationNext ==
    /\ \/ subject = "lock" /\ LockNext
       \/ subject # "lock" /\ UNCHANGED lockVars
    /\ \/ subject = "context" /\ ContextNext
       \/ subject # "context" /\ UNCHANGED contextVars
    /\ \/ subject = "parameters" /\ ParametersNext
       \/ subject # "parameters" /\ UNCHANGED vars
    /\ \/ subject = "descriptors" /\ ~astray /\ DescriptorsNext
       \/ subject # "descriptors" /\ UNCHANGED descriptorVars
    /\ \/ subject = "stream" /\ StreamsNext
       \/ subject # "stream" /\ UNCHANGED streamVars
    /\ \/ subject = "event" /\ EventsNext
       \/ subject # "event" /\ UNCHANGED eventVars
    /\ \/ subject = "logging" /\ LoggingNext
       \/ subject # "logging" /\ UNCHANGED loggingVars
    /\ \/ subject = "mqtt" /\ MqttNext
       \/ subject # "mqtt" /\ UNCHANGED mqttVars
    /\ \/ subject = "files" /\ FilesNext
       \/ subject # "files" /\ UNCHANGED fileVars
    /\ UNCHANGED subject

FoundationSpec ==
    FoundationInit
    /\ [][FoundationNext]_<<subject, lockVars, contextVars, vars, descriptorVars,
                            streamVars, eventVars, loggingVars, mqttVars, fileVars>>

(***************************************************************************)
(* Whatever fails, what was acquired is still known to who acquired it, or *)
(* has been given back: the descriptors of the OSAL's objects, the handle  *)
(* and callbacks of an MQTT client.                                        *)
(***************************************************************************)
NothingLeaks == DescriptorsAccounted /\ ClientAccounted

=============================================================================
