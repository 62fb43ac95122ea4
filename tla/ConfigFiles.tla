----------------------------- MODULE ConfigFiles -----------------------------
(***************************************************************************)
(* The two files the system is described in: what hardware_interface makes *)
(* of its configuration (services/hardware_interface/src/                  *)
(* hardware_config.cpp) and launch_manager of its launch file              *)
(* (system/launch_manager/launch_config.cpp).  A text is a sequence of its *)
(* parts, the empty text the empty sequence; a value of the wrong shape is *)
(* Malformed, one that is not given Absent.                                *)
(***************************************************************************)
EXTENDS Integers, Sequences

CONSTANTS
    Absent, Malformed,
    Unread, Rejected,     \* taken from a file not read yet, from one with an error
    HardwareFiles,       \* the files given to hardware_interface
    LaunchFiles          \* the files given to launch_manager

VARIABLES
    given,   \* the file: [for : "hardware" or "launch", file]
    taken    \* Unread, Rejected, or what was made of it

fileVars == <<given, taken>>

Given(value, fallback) == IF value = Absent THEN fallback ELSE value
Distinct(s) == \A i, j \in DOMAIN s : s[i] = s[j] => i = j

FilesInit ==
    /\ given \in [for : {"hardware"}, file : HardwareFiles]
             \cup [for : {"launch"}, file : LaunchFiles]
    /\ taken = Unread

-----------------------------------------------------------------------------
(* hardware_interface                                                      *)
Joint == <<"joint_controller">>
Sensors == {<<"imu">>, <<"temperature">>, <<"gnss">>}

DefaultDriverFor(type, mode) == IF mode = <<"mock">> THEN mode \o type ELSE type

DefaultRateFor(type) ==
    IF type \in {<<"imu">>, Joint} THEN 100 ELSE IF type = <<"temperature">> THEN 2 ELSE 1

DefaultTopicFor(type, id) ==
    IF type = Joint THEN <<"joints">> \o id \o <<"state">>
    ELSE (IF type \in Sensors THEN <<"sensors">> ELSE <<"hardware">>) \o type \o id

DefaultCommandTopicFor(type, id) ==
    IF type = Joint THEN <<"joints">> \o id \o <<"command">> ELSE <<>>

(* RequiredString, OptionalString and their like throw.                    *)
Readable(node) ==
    /\ \A key \in DOMAIN node : node[key] # Malformed
    /\ node.type \notin {Absent, <<>>}

EndpointId(node) == Given(node.endpoint_id, Given(node.id, <<>>))

(* ParseEndpoint(): every value, given or by default ...                   *)
Endpoint(node) ==
    LET id    == EndpointId(node)
        runs  == Given(node.mode, <<"mock">>)
        topic == Given(node.topic, DefaultTopicFor(node.type, id))
    IN  [endpoint_id |-> id, type |-> node.type, mode |-> runs,
         driver |-> Given(node.driver, DefaultDriverFor(node.type, runs)),
         said_topic |-> topic,
         state_topic |-> Given(node.state_topic, topic),
         command_topic |-> Given(node.command_topic, DefaultCommandTopicFor(node.type, id)),
         topic |-> IF node.type = Joint THEN Given(node.state_topic, topic) ELSE topic,
         frame_id |-> Given(node.frame_id, id \o <<"link">>),
         publish_rate_hz |-> Given(node.publish_rate_hz, DefaultRateFor(node.type)),
         enabled |-> Given(node.enabled, TRUE), critical |-> Given(node.critical, FALSE),
         disabled_on_start |-> Given(node.disabled_on_start, TRUE),
         command_timeout_ms |-> Given(node.command_timeout_ms, 100)]

(* ... and what makes it throw of them.                                    *)
Usable(e) ==
    /\ <<>> \notin {e.endpoint_id, e.mode, e.driver, e.said_topic}
    /\ e.type = Joint => <<>> \notin {e.state_topic, e.command_topic}
    /\ e.publish_rate_hz > 0

(* Mutant: endpoints are told apart by the first key of the id alone.      *)
DistinctIdKeys(nodes) ==
    \A i, j \in DOMAIN nodes : i # j => nodes[i].id = Absent \/ nodes[i].id # nodes[j].id

(* endpoint_ids: an id that was inserted before is an error.               *)
DistinctIds(nodes) == Distinct([i \in DOMAIN nodes |-> EndpointId(nodes[i])])

(* LoadConfigFromFile()                                                    *)
EndpointNodes(file) == IF file.endpoints # Absent THEN file.endpoints ELSE file.app_endpoints

LoadConfigFromFile(file) ==
    LET nodes == EndpointNodes(file) IN
    IF file.app = Malformed \/ nodes \in {Absent, Malformed} THEN Rejected
    ELSE IF /\ \A i \in DOMAIN nodes : Readable(nodes[i]) /\ Usable(Endpoint(nodes[i]))
            /\ DistinctIds(nodes)
    THEN [i \in DOMAIN nodes |-> Endpoint(nodes[i])]
    ELSE Rejected

(* DefaultMockConfig(): what is used without a file, written out in full.  *)
Mock(id, type, where, command, frame, rate) ==
    [endpoint_id |-> id, type |-> type, mode |-> <<"mock">>, driver |-> <<"mock">> \o type,
     said_topic |-> where, topic |-> where, state_topic |-> where, command_topic |-> command,
     frame_id |-> frame, publish_rate_hz |-> rate, enabled |-> TRUE, critical |-> FALSE,
     disabled_on_start |-> TRUE, command_timeout_ms |-> 100]

MockEndpoints(frames) ==
    <<Mock(<<"imu0">>, <<"imu">>, <<"sensors", "imu", "imu0">>, <<>>, frames[1], 100),
      Mock(<<"temp0">>, <<"temperature">>, <<"sensors", "temperature", "temp0">>, <<>>,
           frames[2], 2),
      Mock(<<"gnss0">>, <<"gnss">>, <<"sensors", "gnss", "gnss0">>, <<>>, frames[3], 1),
      Mock(<<"joint_controller0">>, Joint, <<"joints", "joint_controller0", "state">>,
           <<"joints", "joint_controller0", "command">>, frames[4], 100)>>

DefaultMockConfig ==
    MockEndpoints(<<<<"imu", "link">>, <<"temperature", "link">>, <<"gnss", "link">>,
                    <<"base", "link">>>>)

(* A file has all keys of an endpoint.  Its ids may be any texts; a type   *)
(* is one of those that make an endpoint, or another single word.          *)
EndpointKeys == {"id", "endpoint_id", "type", "mode", "driver", "topic", "state_topic",
                 "command_topic", "frame_id", "publish_rate_hz", "enabled", "critical",
                 "disabled_on_start", "command_timeout_ms"}

Text(value) ==
    \/ value \in {Absent, Malformed}
    \/ Len(value) \in Nat /\ value = [k \in 1..Len(value) |-> value[k]]
Word(value) == value \in {Absent, Malformed, <<>>} \/ value = <<value[1]>>

ASSUME FilesAssumption ==
    /\ \A file \in HardwareFiles :
       \A nodes \in {file.endpoints, file.app_endpoints} \ {Absent, Malformed} :
       \A i \in DOMAIN nodes :
          /\ DOMAIN nodes[i] = EndpointKeys
          /\ Text(nodes[i].id) /\ Text(nodes[i].endpoint_id) /\ Word(nodes[i].type)
    /\ \A i \in DOMAIN DefaultMockConfig : DefaultMockConfig[i].endpoint_id # Absent

LoadHardware ==
    /\ taken = Unread /\ given.for = "hardware"
    /\ taken' = LoadConfigFromFile(given.file)
    /\ UNCHANGED given

-----------------------------------------------------------------------------
(* launch_manager                                                          *)
RestartPolicy(value) ==
    IF value = <<"always">> THEN "always"
    ELSE IF value \in {<<"on-failure">>, <<"on_failure">>} THEN "on-failure"
    ELSE IF value \in {<<"never">>, <<>>} THEN "never"
    ELSE Rejected

ProcessSpecOf(node) ==
    [name |-> Given(node.name, <<>>), command |-> Given(node.command, <<>>),
     restart |-> RestartPolicy(Given(node.restart, <<"never">>)),
     restart_limit |-> Given(node.restart_limit, 0),
     startup_timeout |-> Given(node.startup_timeout, 3000),
     shutdown_timeout |-> Given(node.shutdown_timeout, 3000),
     heartbeat_timeout |-> Given(node.heartbeat_timeout, 0)]

(* LoadLaunchConfig(): names may repeat.                                   *)
Launchable(node) ==
    /\ \A key \in DOMAIN node : node[key] # Malformed
    /\ <<>> \notin {ProcessSpecOf(node).name, ProcessSpecOf(node).command}
    /\ ProcessSpecOf(node).restart # Rejected

LoadLaunchConfig(file) ==
    IF file.nodes \in {Absent, Malformed} \/ file.runtime = Malformed THEN Rejected
    ELSE IF \A i \in DOMAIN file.nodes : Launchable(file.nodes[i])
    THEN [i \in DOMAIN file.nodes |-> ProcessSpecOf(file.nodes[i])]
    ELSE Rejected

LoadLaunch ==
    /\ taken = Unread /\ given.for = "launch"
    /\ taken' = LoadLaunchConfig(given.file)
    /\ UNCHANGED given

FilesNext == LoadHardware \/ LoadLaunch

-----------------------------------------------------------------------------
(***************************************************************************)
(* Whatever keys of a file are left out, empty, of the wrong shape or given*)
(* under both of their names: from a file that is taken, endpoints have an *)
(* id each that no other has, and publish where no other does unless the   *)
(* file says so; a joint controller is heard where it is commanded never by*)
(* default; a file that only names the built-in endpoints gives them as    *)
(* they are built in, but for the frame: the built-in imu0 measures in     *)
(* imu_link, that of the file in imu0_link, and so with all four; a process*)
(* has a name, a command and one of the policies, and is watched only if   *)
(* the file says so.                                                       *)
(***************************************************************************)
TopicsOf(i) ==
    IF EndpointNodes(given.file)[i].topic # Absent \/ EndpointNodes(given.file)[i].state_topic # Absent
    THEN {} ELSE {taken[i].topic}

HardwareIsSound ==
    /\ \A i, j \in DOMAIN taken :
          i # j => /\ taken[i].endpoint_id # taken[j].endpoint_id
                   /\ TopicsOf(i) \cap TopicsOf(j) = {}
    /\ \A i \in DOMAIN taken :
          /\ <<>> \notin {taken[i].endpoint_id, taken[i].driver, taken[i].topic}
          /\ taken[i].type = Joint =>
                /\ taken[i].topic = taken[i].state_topic
                /\ EndpointNodes(given.file)[i].command_topic = Absent =>
                      taken[i].command_topic \notin TopicsOf(i)

LaunchIsSound ==
    \A i \in DOMAIN taken :
        /\ <<>> \notin {taken[i].name, taken[i].command}
        /\ taken[i].restart \in {"never", "on-failure", "always"}
        /\ taken[i].heartbeat_timeout > 0 => given.file.nodes[i].heartbeat_timeout # Absent

NamesTheBuiltIn ==
    /\ DOMAIN EndpointNodes(given.file) = DOMAIN DefaultMockConfig
    /\ \A i \in DOMAIN DefaultMockConfig :
          LET node == EndpointNodes(given.file)[i] IN
          /\ node.id = DefaultMockConfig[i].endpoint_id /\ node.type = DefaultMockConfig[i].type
          /\ \A key \in DOMAIN node \ {"id", "type"} : node[key] = Absent

AsBuiltIn ==
    taken = MockEndpoints([i \in DOMAIN DefaultMockConfig |->
                               DefaultMockConfig[i].endpoint_id \o <<"link">>])

TakenFilesAreSound ==
    taken \notin {Unread, Rejected} =>
        IF given.for = "hardware"
        THEN HardwareIsSound /\ (NamesTheBuiltIn => AsBuiltIn)
        ELSE LaunchIsSound

=============================================================================
