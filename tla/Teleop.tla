-------------------------------- MODULE Teleop --------------------------------
(***************************************************************************)
(* apps/rover_demo and apps/turtle_demo: a teleoperation process and a     *)
(* simulation, two clients of a third process's router, or one of them the *)
(* router itself.  Commands and, of the rover, the emergency stop are two  *)
(* topics, each in order, neither waiting for the other.  Every process    *)
(* may end and be started again at any time.                               *)
(***************************************************************************)
EXTENDS Naturals, Sequences

CONSTANTS
    Layouts,       \* the LinkModes the processes may be started with, or "unused"
    MaxUnderWay    \* messages under way on a topic (bound of TLC's runs)

VARIABLES
    demo,       \* which of the two it is, and whether it was started with --demo
    mode,       \* the LinkMode of each process
    up,         \* the processes that run
    router,     \* the process that has the router's port, or "none"
    teleop,     \* what it sends: whether to move, and the emergency stop
    topics,     \* the messages under way
    sim         \* the command it has and its age, the stop, and whether it moves

teleopVars == <<demo, mode, up, router, teleop, topics, sim>>

Processes == {"manager", "sim", "teleop"}
Still == [moving |-> FALSE, estop |-> FALSE]
Nothing == [cmd_vel |-> <<>>, estop |-> <<>>]
Resting == [moving |-> FALSE, age |-> "none", estop |-> FALSE, moves |-> FALSE]

TeleopInit ==
    /\ demo \in [name : {"rover", "turtle"}, scripted : BOOLEAN]
    /\ mode \in Layouts
    /\ up = {} /\ router = "none"
    /\ teleop = Still /\ topics = Nothing /\ sim = Resting

(* Both hang on one router.                                                *)
LinkedBy(ups, port) == {"sim", "teleop"} \subseteq ups /\ port # "none"
Linked == LinkedBy(up, router)

----------------------------------------------------------------------------
(* InitLink: the port may be had by one process only; without a router no  *)
(* client comes up, and main() ends.                                       *)
InitLink(p) ==
    \/ /\ mode[p] \in {"auto", "router"} /\ router = "none"
       /\ up' = up \cup {p} /\ router' = p
    \/ /\ mode[p] \in {"auto", "client"} /\ router # "none"
       /\ up' = up \cup {p} /\ UNCHANGED router

Begins(p) ==
    /\ p \notin up
    /\ InitLink(p)
    /\ UNCHANGED <<demo, mode, teleop, topics, sim>>

(* What was under way is lost with any of the three.                       *)
Gone(p) ==
    /\ up' = up \ {p}
    /\ router' = IF router = p THEN "none" ELSE router
    /\ topics' = IF p \in {router, "sim", "teleop"} THEN Nothing ELSE topics

Ends(p) ==
    /\ p \in up /\ Gone(p)
    /\ teleop' = IF p = "teleop" THEN Still ELSE teleop
    /\ sim' = IF p = "sim" THEN Resting ELSE sim
    /\ UNCHANGED <<demo, mode>>

----------------------------------------------------------------------------
(* What a round of the loop makes of a key, or of the time of the script.  *)
RoverSends ==
    IF demo.scripted
    THEN {[moving |-> ~estop, estop |-> estop] : estop \in BOOLEAN}
    ELSE {teleop, [moving |-> FALSE, estop |-> teleop.estop],
          [moving |-> ~teleop.estop, estop |-> teleop.estop],
          [moving |-> teleop.moving /\ teleop.estop, estop |-> ~teleop.estop]}

TurtleSends ==
    IF demo.scripted THEN {[Still EXCEPT !.moving = TRUE]}
    ELSE {[Still EXCEPT !.moving = moving] : moving \in {teleop.moving, TRUE, FALSE}}

Carry(sends) ==
    [cmd_vel |-> Append(topics.cmd_vel, sends.moving),
     estop   |-> IF demo.name = "rover" THEN Append(topics.estop, sends.estop) ELSE <<>>]

Space == Len(topics.cmd_vel) < MaxUnderWay /\ Len(topics.estop) < MaxUnderWay

(* A round: what is sent without a link is lost.                           *)
Round(sends) ==
    /\ "teleop" \in up
    /\ Linked => Space
    /\ teleop' = sends
    /\ topics' = IF Linked THEN Carry(sends) ELSE topics
    /\ UNCHANGED <<demo, mode, up, router, sim>>

RoverTeleop  == demo.name = "rover"  /\ \E sends \in RoverSends : Round(sends)
TurtleTeleop == demo.name = "turtle" /\ \E sends \in TurtleSends : Round(sends)

(* Key q: the loop is left, all is released, and the process ends.  What   *)
(* was sent last arrives as long as the router stays.                      *)
Quit ==
    /\ "teleop" \in up /\ ~demo.scripted
    /\ Linked => Space
    /\ up' = up \ {"teleop"}
    /\ router' = IF router = "teleop" THEN "none" ELSE router
    /\ topics' \in {Nothing} \cup (IF Linked /\ router # "teleop" THEN {Carry(Still)} ELSE {})
    /\ teleop' = Still
    /\ UNCHANGED <<demo, mode, sim>>

----------------------------------------------------------------------------
(* The callbacks of the simulation.                                        *)
CommandReceived ==
    /\ "sim" \in up /\ topics.cmd_vel # <<>>
    /\ sim' = [sim EXCEPT !.moving = Head(topics.cmd_vel), !.age = "fresh"]
    /\ topics' = [topics EXCEPT !.cmd_vel = Tail(@)]
    /\ UNCHANGED <<demo, mode, up, router, teleop>>

EstopReceived ==
    /\ "sim" \in up /\ topics.estop # <<>>
    /\ sim' = [sim EXCEPT !.estop = Head(topics.estop)]
    /\ topics' = [topics EXCEPT !.estop = Tail(@)]
    /\ UNCHANGED <<demo, mode, up, router, teleop>>

(* kCommandTimeoutSec have passed since the last command.                  *)
CommandAges ==
    /\ sim.age = "fresh"
    /\ sim' = [sim EXCEPT !.age = "old"]
    /\ UNCHANGED <<demo, mode, up, router, teleop, topics>>

Moves(moves) ==
    /\ "sim" \in up
    /\ sim' = [sim EXCEPT !.moves = moves]
    /\ UNCHANGED <<demo, mode, up, router, teleop, topics>>

(* Mutant: the last command is carried out whatever its age.               *)
RoverSimAgeless == demo.name = "rover" /\ Moves(~sim.estop /\ sim.age # "none" /\ sim.moving)

RoverSim  == demo.name = "rover"  /\ Moves(~sim.estop /\ sim.age = "fresh" /\ sim.moving)
TurtleSim == demo.name = "turtle" /\ Moves(sim.age = "fresh" /\ sim.moving)

TeleopNext ==
    \/ \E p \in Processes : Begins(p) \/ Ends(p)
    \/ RoverTeleop \/ TurtleTeleop \/ Quit
    \/ CommandReceived \/ EstopReceived \/ CommandAges
    \/ RoverSim \/ TurtleSim

-----------------------------------------------------------------------------
(* Both loops run, what is under way arrives, and a command ages once none *)
(* follows.  Nothing makes a process end, or start.                        *)
TeleopFairness ==
    /\ WF_teleopVars(RoverTeleop) /\ WF_teleopVars(TurtleTeleop)
    /\ WF_teleopVars(CommandReceived) /\ WF_teleopVars(EstopReceived)
    /\ WF_teleopVars(~Linked /\ topics = Nothing /\ CommandAges)
    /\ WF_teleopVars(RoverSim) /\ WF_teleopVars(TurtleSim)

(***************************************************************************)
(* Whoever is lost, the operator's process, or the router that may be any  *)
(* of the three, the simulation comes to rest; so it does when the stop is *)
(* pressed and kept.  When all are there, commands to move are sent for    *)
(* good and none is late, it moves for good.                               *)
(***************************************************************************)
Commanded == Linked /\ teleop.moving

TeleopFollows ==
    /\ ~Linked ~> (Linked \/ ~sim.moves)
    /\ (Linked /\ teleop.estop) ~> (~Linked \/ ~teleop.estop \/ ~sim.moves)
    /\ <>[]Commanded /\ ~[]<><<CommandAges>>_teleopVars => <>[](sim.moves)

=============================================================================
