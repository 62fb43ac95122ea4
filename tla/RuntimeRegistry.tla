--------------------------- MODULE RuntimeRegistry ---------------------------
(***************************************************************************)
(* The RuntimeRegistry of launch_manager (system/launch_manager/main.cpp), *)
(* from which node queries are answered: what one node said of itself.     *)
(***************************************************************************)
EXTENDS Naturals

VARIABLES registered   \* nodes_: the pids of the node's record, if it has one

(* process_id of an info that was never filled in.                         *)
Placeholder == 0

NodeRegistryInit == registered = {}

UpdateNodeInfo(pid) == registered' = {pid}

(* Mutant: every heartbeat writes the placeholder.                         *)
UpdateHeartbeatReset == registered' = {Placeholder}

(* A node of which only a heartbeat was heard is recorded without its info.*)
UpdateHeartbeat == registered' = IF registered = {} THEN {Placeholder} ELSE registered

=============================================================================
