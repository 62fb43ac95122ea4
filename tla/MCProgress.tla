----------------------------- MODULE MCProgress ------------------------------
(* What must come about, in the thread pool and in the launch_manager, one *)
(* subject at a time: a pool of two workers, with the launch_manager at    *)
(* its end; or a launch_manager with one entry and one command, the size a *)
(* liveness run can afford, with the pool unused.                          *)
EXTENDS MCThreadPool

CONSTANTS camera, p1, p2, NoPid, c3

Names == {camera}
Pids == {p1, p2}
Configured == {camera}
RestartLimits == {0, 1}
MaxCount == 1
ForkMayFail == TRUE
Config == [n \in Configured |->
    [restart |-> "always", restart_limit |-> 1,
     startup_timeout |-> TRUE, heartbeat_timeout |-> TRUE]]
ApiSpec ==
    [restart |-> "on-failure", restart_limit |-> 1,
     startup_timeout |-> TRUE, heartbeat_timeout |-> FALSE]
ApiSpecs == {ApiSpec}
Callers == {c3}
Requests ==
    {[what |-> "start", name |-> camera, spec |-> ApiSpec],
     [what |-> "stop", name |-> camera, pid |-> NoPid]}

VARIABLES
    subject,
    processes, listed, unstarted, stopping_all, child,
    pc, g_signal, pending_commands, runtime_commands, pending_heartbeats,
    call, stopped, carried_out

lmVars ==
    <<processes, listed, unstarted, stopping_all, child, pc, g_signal, pending_commands,
      runtime_commands, pending_heartbeats, call, stopped, carried_out>>

LM == INSTANCE LaunchManager WITH Clients <- Callers, stopping <- stopping_all

(* The pool that nobody uses: its workers are asleep.                      *)
PoolIsUnused ==
    /\ queue = <<>> /\ stopping = FALSE /\ busy = 0 /\ handles = Workers
    /\ wpc = [w \in Workers |-> "asleep"] /\ task = [w \in Workers |-> NoTask]
    /\ cpc = [c \in Clients |-> "free"] /\ notify = [t \in Threads |-> "none"]
    /\ accepted = <<>> /\ ended = {} /\ dropped = {}
    /\ awaited = [c \in Clients |-> {}]

(* The launch_manager at the end of main().                                *)
LaunchManagerIsOver ==
    /\ LM!Init
    /\ pc = "done" /\ g_signal = TRUE
    /\ pending_commands = <<>> /\ runtime_commands = <<>> /\ pending_heartbeats = {}
    /\ call = [c \in Callers |-> [request |-> CHOOSE r \in Requests : TRUE, status |-> "idle"]]
    /\ stopped = {} /\ carried_out = {}

ProgressInit ==
    \/ subject = "pool" /\ Init /\ LaunchManagerIsOver
    \/ subject = "launch_manager" /\ PoolIsUnused /\ LM!LMInit

(* Of the tasks alike, t1 is the one that is posted first.                 *)
InTurn == t2 \in ToSet(accepted') => t1 \in ToSet(accepted')

ProgressNext ==
    /\ UNCHANGED subject
    /\ \/ subject = "pool" /\ Next /\ InTurn /\ UNCHANGED lmVars
       \/ subject = "launch_manager" /\ LM!LMNext /\ UNCHANGED vars

ProgressSpec ==
    /\ ProgressInit /\ [][ProgressNext]_<<subject, vars, lmVars>>
    /\ Fairness /\ LM!Fairness

(* A termination signal ends the program (LaunchManager).                  *)
ShutdownCompletes == LM!ShutdownCompletes

(* Every child that exits is reaped (LaunchManager).                       *)
EveryExitIsReaped == LM!EveryExitIsReaped

(* A supervised process whose child hangs does not stay in state running   *)
(* (LaunchManager).                                                        *)
HungIsNoticed == LM!HungIsNoticed

(* A posted command is run, also when its client has given up              *)
(* (LaunchManager).                                                        *)
PostedCommandsRun == LM!PostedCommandsRun

=============================================================================
