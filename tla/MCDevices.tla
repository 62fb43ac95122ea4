------------------------------ MODULE MCDevices ------------------------------
(* What is nearest to the devices, one subject at a time: a joint          *)
(* controller and its endpoint, the objects of lpio, an SBUS receiver, the *)
(* farm's field bus and station, the remote controls, the smart device, the*)
(* load of the host.                                                       *)
EXTENDS JointEndpoint, Lpio, SbusReader, FieldBus, AgriStation, Teleop, SmartDevice,
        HostSampler

CONSTANTS j1, j2

VARIABLE subject

TwoJoints == {j1, j2}
Move == [mode |-> "velocity", velocity |-> Driven, effort |-> Unset]
Hold == [mode |-> "position", velocity |-> Unset, effort |-> Unset]
Moving == {Move, Hold}

(* All channels alike: at their least, in the middle, at their greatest.   *)
TheFrames ==
    {[channels |-> [i \in 0..15 |-> v], flags |-> 0] : v \in {172, 992, 1811}}

(* Started by launch_manager; by hand; by hand, and left to find out.      *)
Layout(manager, s, t) ==
    [p \in {"manager", "sim", "teleop"} |->
        IF p = "manager" THEN manager ELSE IF p = "sim" THEN s ELSE t]

TheLayouts ==
    {Layout("router", "client", "client"), Layout("unused", "router", "client"),
     Layout("unused", "auto", "auto")}

(* All but the subject stay as they are before anything is started.        *)
DevicesInit ==
    /\ subject \in {"joints", "lpio", "sbus", "bus", "station", "teleop", "smart", "host"}
    /\ EndpointInit /\ (subject # "joints" => owner = "created")
    /\ LpioInit     /\ (subject # "lpio" => deviceClass = "OneWire")
    /\ SbusInit     /\ (subject # "sbus" => \A i \in DOMAIN sent : sent[i].channels[0] = 172)
    /\ BusInit      /\ (subject # "bus" => cli.channels = 1 /\ ~card.up /\ master.at = "down")
    /\ StationInit  /\ (subject # "station" => "all" \in DOMAIN feeds /\ feeding = {} /\ ~station.runs)
    /\ TeleopInit
    /\ subject # "teleop" =>
          demo = [name |-> "rover", scripted |-> TRUE] /\ mode["manager"] = "router"
    /\ SmartInit    /\ (subject # "smart" => \A s \in Services : ~answers[s])
    /\ HostInit

DevicesNext ==
    /\ IF subject = "joints" THEN EndpointNext ELSE UNCHANGED allVars
    /\ IF subject = "lpio" THEN LpioNext ELSE UNCHANGED lpioVars
    /\ IF subject = "sbus" THEN SbusNext ELSE UNCHANGED sbusVars
    /\ IF subject = "bus" THEN BusNext ELSE UNCHANGED busVars
    /\ IF subject = "station" THEN StationNext ELSE UNCHANGED stationVars
    /\ IF subject = "teleop" THEN TeleopNext ELSE UNCHANGED teleopVars
    /\ IF subject = "smart" THEN SmartNext ELSE UNCHANGED smartVars
    /\ IF subject = "host" THEN HostNext ELSE UNCHANGED hostVars
    /\ UNCHANGED subject

DevicesSpec ==
    /\ DevicesInit
    /\ [][DevicesNext]_<<subject, allVars, lpioVars, sbusVars, busVars, stationVars,
                         teleopVars, smartVars, hostVars>>
    /\ EndpointFairness /\ BusFairness /\ StationFairness /\ TeleopFairness /\ SmartFairness

(***************************************************************************)
(* What is published as measured was measured, where and when it is said:  *)
(* at the channels of the farm, and of the processor (see the modules' own)*)
(***************************************************************************)
PublishedIsMeasured == FieldIsMeasured /\ LoadIsMeasured

(***************************************************************************)
(* What is shown to the outside follows what there is: a loss is noticed,  *)
(* and all is taken up again once it is back (see the modules' own).       *)
(***************************************************************************)
OutputsFollowSources == BusFollows /\ StationFollows /\ TeleopFollows /\ SmartFollows

=============================================================================
