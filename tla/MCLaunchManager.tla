--------------------------- MODULE MCLaunchManager ---------------------------
(* Small instances of LaunchManager: a supervised entry from the launch file *)
(* and an entry that start requests create, with a start and a stop request. *)
EXTENDS LaunchManager, TLC

CONSTANTS camera, tool, p1, p2, p3, c1, c2

MCNames == {camera, tool}
MCPids == {p1, p2}
ThreePids == {p1, p2, p3}
MCConfigured == {camera}
Supervised(limit) ==
    [restart |-> "always", restart_limit |-> limit,
     startup_timeout |-> TRUE, heartbeat_timeout |-> TRUE]
LimitedConfig == [n \in MCConfigured |-> Supervised(1)]
MCApiSpec ==
    [restart |-> "on-failure", restart_limit |-> 1,
     startup_timeout |-> TRUE, heartbeat_timeout |-> FALSE]
MCApiSpecs == {MCApiSpec}
MCLimits == {0, 1}
MCClients == {c1, c2}
MCRequests ==
    {[what |-> "start", name |-> camera, spec |-> MCApiSpec],
     [what |-> "stop", name |-> camera, pid |-> NoPid]}
    \cup {[what |-> "stop", name |-> tool, pid |-> p] : p \in MCPids}
Symmetry == Permutations(Pids) \cup Permutations(MCClients)

(* One entry, one command: the size the liveness runs can afford.          *)
OneName == {camera}
OneClient == {c1}
OneRequest ==
    {[what |-> "start", name |-> camera, spec |-> MCApiSpec],
     [what |-> "stop", name |-> camera, pid |-> NoPid]}

(* The entry "no_heartbeat" of the supervision test.                       *)
NoHeartbeatConfig == [n \in OneName |->
    [restart |-> "never", restart_limit |-> 1,
     startup_timeout |-> TRUE, heartbeat_timeout |-> FALSE]]

=============================================================================
