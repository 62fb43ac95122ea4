---------------------------- MODULE LaunchManager ----------------------------
(***************************************************************************)
(* The main program of launch_manager (system/launch_manager/main.cpp): the  *)
(* supervision thread that owns the process table, the transport threads   *)
(* that post runtime commands and heartbeats to it and wait at most three   *)
(* seconds for an answer, and the termination signal.                      *)
(*                                                                         *)
(* Every step of the supervision thread is a step of ProcessManager; this  *)
(* module adds the order in which the main loop takes them.                *)
(***************************************************************************)
EXTENDS ProcessManager, Sequences

CONSTANTS
    Clients,       \* calls of the start and stop services, one per client
    Requests       \* what a client may ask for

ASSUME RequestAssumption ==
    Requests \subseteq [what : {"start"}, name : Names, spec : ApiSpecs]
                       \cup [what : {"stop"}, name : Names, pid : Pids \cup {NoPid}]

VARIABLES
    pc,                  \* where the supervision thread is in main()
    g_signal,            \* a termination signal has been received
    pending_commands,    \* pending_runtime_commands: clients, in order
    runtime_commands,    \* the commands swapped out and not yet run
    pending_heartbeats,  \* node names heard since the last swap
    call,                \* what each client asks for, and how its call stands
    stopped,             \* history: names stopped on request since last started
    carried_out          \* history: the clients whose command has been run

mainVars == <<pc, g_signal, pending_commands, runtime_commands,
              pending_heartbeats, call, stopped, carried_out>>
allVars == <<vars, mainVars>>

LMInit ==
    /\ Init
    /\ pc = "start all"
    /\ g_signal = FALSE
    /\ pending_commands = <<>>
    /\ runtime_commands = <<>>
    /\ pending_heartbeats = {}
    /\ call \in [Clients -> [request : Requests, status : {"idle"}]]
    /\ stopped = {}
    /\ carried_out = {}

-----------------------------------------------------------------------------
(* The supervision thread                                                  *)

MainStartAll ==
    /\ pc = "start all"
    /\ \/ /\ \E n \in unstarted : StartAll(n)
          /\ UNCHANGED pc
       \/ /\ unstarted = {}
          /\ pc' = "loop"
          /\ UNCHANGED vars
    /\ UNCHANGED <<g_signal, pending_commands, runtime_commands,
                   pending_heartbeats, call, stopped, carried_out>>

(* Mutant: the queue is copied, not swapped.                               *)
CopyCommands ==
    /\ pc = "loop" /\ ~g_signal
    /\ pc' = "commands"
    /\ runtime_commands' = pending_commands
    /\ UNCHANGED <<vars, g_signal, pending_commands, pending_heartbeats, call,
                   stopped, carried_out>>

(* while (g_signal == 0), and the swap of the pending commands.            *)
SwapCommands ==
    /\ pc = "loop" /\ ~g_signal
    /\ pc' = "commands"
    /\ runtime_commands' = pending_commands
    /\ pending_commands' = <<>>
    /\ UNCHANGED <<vars, g_signal, pending_heartbeats, call, stopped,
                   carried_out>>

(***************************************************************************)
(* The response is ready; it reaches the client only if it still waits.    *)
(***************************************************************************)
Respond(c, ok) ==
    call' = IF call[c].status = "waiting"
            THEN [call EXCEPT ![c].status = IF ok THEN "ok" ELSE "failed"]
            ELSE call

RunStart(c, r) ==
    /\ r.what = "start"
    /\ StartProcess(r.name, r.spec)
    /\ Respond(c, processes'[r.name].state # "Failed")
    /\ stopped' = IF Live(r.name) THEN stopped ELSE stopped \ {r.name}

RunStop(c, r) ==
    /\ r.what = "stop"
    /\ StopProcess(r.name, r.pid)
    /\ Respond(c, StopTargets(r.name, r.pid) # {})
    /\ stopped' = stopped \cup StopTargets(r.name, r.pid)

(* Mutant: a command is skipped when its client has given up waiting.      *)
RunCommandIfAwaited ==
    /\ pc = "commands" /\ runtime_commands # <<>>
    /\ runtime_commands' = Tail(runtime_commands)
    /\ LET c == Head(runtime_commands)
       IN  IF call[c].status = "waiting"
           THEN /\ RunStart(c, call[c].request) \/ RunStop(c, call[c].request)
                /\ carried_out' = carried_out \cup {c}
           ELSE UNCHANGED <<vars, call, stopped, carried_out>>
    /\ UNCHANGED <<pc, g_signal, pending_commands, pending_heartbeats>>

RunCommand ==
    /\ pc = "commands" /\ runtime_commands # <<>>
    /\ runtime_commands' = Tail(runtime_commands)
    /\ LET c == Head(runtime_commands)
       IN  /\ RunStart(c, call[c].request) \/ RunStop(c, call[c].request)
           /\ carried_out' = carried_out \cup {c}
    /\ UNCHANGED <<pc, g_signal, pending_commands, pending_heartbeats>>

(* The swap of the pending heartbeats and the loop that marks them.        *)
MarkHeartbeats ==
    /\ pc = "commands" /\ runtime_commands = <<>>
    /\ pc' = "poll"
    /\ MarkHeartbeat(pending_heartbeats)
    /\ pending_heartbeats' = {}
    /\ UNCHANGED <<g_signal, pending_commands, runtime_commands, call, stopped,
                   carried_out>>

Zombies == {p \in Pids : child[p].phase = "zombie"}

(* Mutant: the loop of StopAll does not poll.                              *)
PollReapsInLoop ==
    /\ pc = "poll"
    /\ \E p \in Zombies : HandleExit(p)
    /\ UNCHANGED mainVars

(* One turn of the loop of Poll, from the main loop or from StopAll.       *)
PollReaps ==
    /\ pc \in {"poll", "stop all"}
    /\ \E p \in Zombies : HandleExit(p)
    /\ UNCHANGED mainVars

(* waitpid() has nothing more to return.                                   *)
PollReturns ==
    /\ pc = "poll" /\ Zombies = {}
    /\ CheckHeartbeatTimeouts
    /\ pc' = "loop"
    /\ UNCHANGED <<g_signal, pending_commands, runtime_commands,
                   pending_heartbeats, call, stopped, carried_out>>

LeaveLoop ==
    /\ pc = "loop" /\ g_signal
    /\ StopAll
    /\ pc' = "stop all"
    /\ UNCHANGED <<g_signal, pending_commands, runtime_commands,
                   pending_heartbeats, call, stopped, carried_out>>

(* Mutant: StopAll returns when it has killed, without reaping.            *)
StopAllTurnKills ==
    /\ pc = "stop all" /\ Zombies = {}
    /\ IF \E n \in Names : Live(n) /\ ~processes[n].expired
       THEN UNCHANGED <<vars, pc>>
       ELSE KillOverdue /\ pc' = "done"
    /\ UNCHANGED <<g_signal, pending_commands, runtime_commands,
                   pending_heartbeats, call, stopped, carried_out>>

(* A turn of the loop of StopAll once its Poll has returned.               *)
StopAllTurn ==
    /\ pc = "stop all" /\ Zombies = {}
    /\ IF \E n \in Names : Live(n)
       THEN KillOverdue /\ UNCHANGED pc
       ELSE pc' = "done" /\ UNCHANGED vars
    /\ UNCHANGED <<g_signal, pending_commands, runtime_commands,
                   pending_heartbeats, call, stopped, carried_out>>

Supervise ==
    \/ MainStartAll \/ SwapCommands \/ RunCommand \/ MarkHeartbeats
    \/ PollReaps \/ PollReturns \/ LeaveLoop \/ StopAllTurn

-----------------------------------------------------------------------------
(* The transport threads, the signal and the environment                   *)

(* EnqueueRuntimeCommand, up to the wait on the future.                    *)
EnqueueRuntimeCommand(c) ==
    /\ pc # "done"
    /\ call[c].status = "idle"
    /\ call' = [call EXCEPT ![c].status = "waiting"]
    /\ pending_commands' = Append(pending_commands, c)
    /\ UNCHANGED <<vars, pc, g_signal, runtime_commands, pending_heartbeats,
                   stopped, carried_out>>

(* Three seconds have passed: the client gets the timeout response, while  *)
(* its command stays where it is.                                          *)
CommandTimeout(c) ==
    /\ call[c].status = "waiting"
    /\ call' = [call EXCEPT ![c].status = "timeout"]
    /\ UNCHANGED <<vars, pc, g_signal, pending_commands, runtime_commands,
                   pending_heartbeats, stopped, carried_out>>

(* A running child publishes a NodeHeartbeat under the name of its entry.  *)
Heartbeat(n) ==
    /\ pc # "done"
    /\ Live(n) /\ child[processes[n].pid].phase = "up"
    /\ n \notin pending_heartbeats
    /\ pending_heartbeats' = pending_heartbeats \cup {n}
    /\ UNCHANGED <<vars, pc, g_signal, pending_commands, runtime_commands,
                   call, stopped, carried_out>>

SignalHandler ==
    /\ ~g_signal
    /\ g_signal' = TRUE
    /\ UNCHANGED <<vars, pc, pending_commands, runtime_commands,
                   pending_heartbeats, call, stopped, carried_out>>

LMNext ==
    \/ Supervise
    \/ \E c \in Clients : EnqueueRuntimeCommand(c) \/ CommandTimeout(c)
    \/ \E n \in Names : Heartbeat(n)
    \/ SignalHandler
    \/ EnvironmentNext /\ UNCHANGED mainVars

(***************************************************************************)
(* Fairness.  The supervision thread never stops; a forked child gets to   *)
(* exec(); a child that has a SIGTERM pending and does not ignore it ends; *)
(* a deadline passes; a child that hangs falls silent.                     *)
(***************************************************************************)
EndsOnTerm(p) == child[p].term /\ \E ok \in BOOLEAN : Exit(p, ok)

HungFallsSilent(n) ==
    /\ Live(n) /\ child[processes[n].pid].phase = "hung"
    /\ Silence(n)

Fairness ==
    /\ WF_allVars(Supervise)
    /\ \A p \in Pids :
          /\ WF_allVars((Exec(p) \/ ExecFails(p)) /\ UNCHANGED mainVars)
          /\ WF_allVars(EndsOnTerm(p) /\ UNCHANGED mainVars)
    /\ \A n \in Names :
          /\ WF_allVars(Expire(n) /\ UNCHANGED mainVars)
          /\ WF_allVars(HungFallsSilent(n) /\ UNCHANGED mainVars)

LMSpec == LMInit /\ [][LMNext]_allVars /\ Fairness

-----------------------------------------------------------------------------
(* Properties                                                              *)

(* Every variable of the main program has its type.                        *)
LMTypeOK ==
    /\ TypeOK
    /\ pc \in {"start all", "loop", "commands", "poll", "stop all", "done"}
    /\ g_signal \in BOOLEAN
    /\ pending_commands \in Seq(Clients) /\ runtime_commands \in Seq(Clients)
    /\ pending_heartbeats \subseteq Names
    /\ call \in [Clients -> [request : Requests,
                  status : {"idle", "waiting", "ok", "failed", "timeout"}]]
    /\ stopped \subseteq Names /\ carried_out \subseteq Clients

(* The main loop calls the process table as ProcessManager allows: every   *)
(* behaviour of the program is one of the class.                           *)
ImplementsProcessManager == Spec

(***************************************************************************)
(* A stop request that was carried out holds until a start request is      *)
(* carried out: the process is down, or its child is on its way out and    *)
(* will not be replaced, whatever heartbeats, exits and restarts come      *)
(* between, and also when the client had given up waiting.                 *)
(***************************************************************************)
StopRequestHolds ==
    \A n \in stopped : Live(n) => Ordered(n)

(* When the program ends, no child is left behind, not even a zombie.      *)
NoChildLeftBehind ==
    pc = "done" => \A p \in Pids : child[p].phase = "free"

(* A termination signal ends the program, also when children ignore        *)
(* SIGTERM, when one is lost before exec(), and when commands keep coming. *)
ShutdownCompletes == g_signal ~> (pc = "done")

(* Every child that exits is reaped.                                       *)
EveryExitIsReaped ==
    \A p \in Pids : (child[p].phase = "zombie") ~> (child[p].phase # "zombie")

(***************************************************************************)
(* A heartbeat-supervised process whose child hangs does not stay in state *)
(* running: heartbeats still queued, from this child or from the one       *)
(* before it, only delay its being stopped.                                *)
(***************************************************************************)
HungIsNoticed ==
    \A n \in Names :
        (/\ Live(n) /\ processes[n].state = "Running"
         /\ processes[n].spec.heartbeat_timeout
         /\ processes[n].spec.startup_timeout
         /\ child[processes[n].pid].phase = "hung")
        ~> (\/ processes[n].state # "Running"
            \/ child[processes[n].pid].phase # "hung")

(***************************************************************************)
(* A posted command is in one place: it waits in a queue, once, or it has  *)
(* been run.  None is lost between the post, the swap and the run, and     *)
(* none runs twice, whether or not its client still waits.                 *)
(***************************************************************************)
Queue == runtime_commands \o pending_commands

EachCommandOnce ==
    /\ \A i, j \in DOMAIN Queue : Queue[i] = Queue[j] => i = j
    /\ \A c \in Clients :
          /\ c \in carried_out => c \notin {Queue[i] : i \in DOMAIN Queue}
          /\ call[c].status # "idle" =>
                c \in carried_out \/ c \in {Queue[i] : i \in DOMAIN Queue}

(* A posted command is run, unless the program is told to end first: also  *)
(* when its client has already been answered with a timeout.               *)
PostedCommandsRun ==
    \A c \in Clients :
        (call[c].status # "idle") ~> (c \in carried_out \/ g_signal)

(***************************************************************************)
(* What the design document says of a stop: "SIGTERM, and after the        *)
(* timeout SIGKILL".  A child whose stop deadline has passed goes away.    *)
(***************************************************************************)
StopIsForced ==
    \A n \in Names :
        (Live(n) /\ processes[n].state = "Stopping" /\ processes[n].expired)
        ~> (~Live(n) \/ processes[n].state # "Stopping")

(***************************************************************************)
(* What the design document and the supervision test say of the start: a   *)
(* process with a startup_timeout that hangs before its first heartbeat is *)
(* stopped.                                                                *)
(***************************************************************************)
StartupSilenceIsNoticed ==
    \A n \in Names :
        (/\ Live(n) /\ processes[n].state = "Running"
         /\ processes[n].spec.startup_timeout
         /\ ~processes[n].has_heartbeat
         /\ child[processes[n].pid].phase = "hung")
        ~> (processes[n].state # "Running" \/ processes[n].has_heartbeat)

=============================================================================
