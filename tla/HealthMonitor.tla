---------------------------- MODULE HealthMonitor ----------------------------
(***************************************************************************)
(* health_monitor (system/health_monitor/main.cpp): the HealthRegistry,    *)
(* filled by the callbacks of its two subscriptions, and the main loop     *)
(* that publishes a snapshot of it every second.  Its own messages come    *)
(* back to it, as it subscribes to the topics of every node.               *)
(***************************************************************************)
EXTENDS Naturals

CONSTANTS
    Diagnosed,    \* what the diagnostics of a node are about
    StaleAfter,   \* kNodeStaleTimeout and kDiagnosticStaleTimeout, in turns
    None          \* no entry

ASSUME StaleAssumption == StaleAfter \in Nat

Self == "health_monitor"
Node == "hardware_interface"
Nodes == {Self, Node}

(* ExternalKey, and the name "node.<name>" a node's own entry is given.    *)
NodeKey(n) == <<n, "node">>
NodeKeys == {NodeKey(n) : n \in Nodes}
Keys == NodeKeys \cup ({Node} \X Diagnosed)

VARIABLES
    nodes,      \* nodes_: health and age of the last heartbeat
    external    \* external_diagnostics_: level and age of the last one

monitorVars == <<nodes, external>>

MonitorInit ==
    /\ nodes = [n \in Nodes |-> None]
    /\ external = [k \in Keys |-> None]

(* Mutant: an entry that exists already keeps its health.                  *)
UpdatedFirst(n, health) ==
    [nodes EXCEPT ![n] = [health |-> IF @ = None THEN health ELSE @.health, age |-> 0]]

(* HealthRegistry::Update                                                  *)
Updated(n, health) == [nodes EXCEPT ![n] = [health |-> health, age |-> 0]]

HeartbeatCallback(n, health) ==
    /\ nodes' = Updated(n, health)
    /\ UNCHANGED external

(* Mutant: the monitor takes in what it publishes about others.            *)
UpdatedDiagnosticsEcho(source, level) ==
    [k \in Keys |-> IF k \in DOMAIN level /\ k[1] # Self
                    THEN [level |-> level[k], age |-> 0]
                    ELSE external[k]]

(* HealthRegistry::UpdateDiagnostics, `level` being the array published by *)
(* `source`: what comes from or concerns the monitor itself is left out.   *)
UpdatedDiagnostics(source, level) ==
    IF source = Self THEN external
    ELSE [k \in Keys |-> IF k \in DOMAIN level /\ k[1] # Self
                         THEN [level |-> level[k], age |-> 0]
                         ELSE external[k]]

DiagnosticsCallback(source, level) ==
    /\ external' = UpdatedDiagnostics(source, level)
    /\ UNCHANGED nodes

ToMonitorLevel == [ok |-> "OK", warning |-> "WARNING", error |-> "ERROR", stale |-> "STALE"]

Stale(entry) == entry.age > StaleAfter

(* Snapshot(): every node and every external diagnostic, if there is one;  *)
(* what the monitor publishes in its next turn.                            *)
NodeLevel(n) == IF Stale(nodes[n]) THEN "STALE" ELSE ToMonitorLevel[nodes[n].health]
ExternalLevel(k) == IF Stale(external[k]) THEN "STALE" ELSE external[k].level

Snapshot ==
    [k \in {NodeKey(n) : n \in {m \in Nodes : nodes[m] # None}}
           \cup {x \in Keys : external[x] # None} |->
        IF external[k] # None THEN ExternalLevel(k) ELSE NodeLevel(k[1])]

(* An age in turns; beyond the timeout it does not matter.                 *)
Older(entry) ==
    IF entry = None \/ Stale(entry) THEN entry ELSE [entry EXCEPT !.age = @ + 1]

Aged(f) == [x \in DOMAIN f |-> Older(f[x])]

(* One turn of the main loop: snapshot, heartbeat, diagnostics, one second.*)
MonitorTurn ==
    /\ nodes' = Aged(Updated(Self, "ok"))
    /\ external' = Aged(UpdatedDiagnostics(Self, Snapshot))

=============================================================================
