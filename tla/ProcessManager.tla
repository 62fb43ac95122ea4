--------------------------- MODULE ProcessManager ---------------------------
(***************************************************************************)
(* The process table of launch_manager: class ProcessManager of            *)
(* system/launch_manager/process_manager.cpp, together with the operating  *)
(* system's children it forks, signals and reaps.                          *)
(*                                                                         *)
(* The class is not thread safe: one supervision thread makes every call.  *)
(* A step of this module is one call, or one iteration of a call that      *)
(* forks or reaps several children, because a child may move in between.   *)
(* Which call comes when is left open here; module LaunchManager fixes it. *)
(*                                                                         *)
(* Time is kept as two flags per process, set by the environment and       *)
(* cleared where the code stores a new time: "silent" (the limit that      *)
(* applies, startup_timeout before the first heartbeat and                 *)
(* heartbeat_timeout after it, has passed) and "expired" (stop_deadline    *)
(* has passed).                                                            *)
(***************************************************************************)
EXTENDS Naturals

CONSTANTS
    Names,        \* process names, which identify the entries of the table
    Pids,         \* process ids the operating system may hand out
    NoPid,        \* a pid of -1: the entry has no child
    Configured,   \* the entries that come from the launch file
    Config,       \* [Configured -> Spec], their specifications
    ApiSpecs,     \* the specifications a start request may carry
    RestartLimits,\* values of restart_limit; 0 means no limit
    MaxCount,     \* restart_count saturates here, at or above every limit
    ForkMayFail   \* may fork() fail?

ProcessSpec == [restart : {"never", "on-failure", "always"},
          restart_limit : RestartLimits,
          startup_timeout : BOOLEAN,     \* is startup_timeout_ms > 0 ?
          heartbeat_timeout : BOOLEAN]   \* is heartbeat_timeout_ms > 0 ?

ASSUME PidAssumption == NoPid \notin Pids
ASSUME CountAssumption ==
    MaxCount \in Nat /\ RestartLimits \subseteq 0..MaxCount
ASSUME ConfigAssumption ==
    /\ Configured \subseteq Names
    /\ Config \in [Configured -> ProcessSpec]
    /\ ApiSpecs \subseteq ProcessSpec /\ ApiSpecs # {}
    /\ ForkMayFail \in BOOLEAN

ProcessState == {"Running", "Stopping", "Stopped", "Exited", "Failed"}

ManagedProcess ==
    [spec : ProcessSpec, pid : Pids \cup {NoPid}, state : ProcessState,
     restart_count : 0..MaxCount, has_heartbeat : BOOLEAN,
     intentional_stop : BOOLEAN, silent : BOOLEAN, expired : BOOLEAN,
     fork_failed : BOOLEAN]   \* history: its last StartOne found fork() failing

(***************************************************************************)
(* A child as the operating system sees it.  "forked": between fork() and  *)
(* exec(), still under the SIGTERM handler inherited from the parent;      *)
(* "up": the program runs; "hung": it no longer reacts to SIGTERM;         *)
(* "zombie": exited, to be reaped.  "term": a SIGTERM is pending.          *)
(***************************************************************************)
Child == [phase : {"free", "forked", "up", "hung", "zombie"},
          term : BOOLEAN, ok : BOOLEAN]

NoChild == [phase |-> "free", term |-> FALSE, ok |-> FALSE]

VARIABLES
    processes,   \* processes_: the table, one entry per name
    listed,      \* the names that have an entry in the vector
    unstarted,   \* the names the loop of StartAll has still to visit
    stopping,    \* stopping_: StopAll has begun
    child        \* the operating system's view of every pid

vars == <<processes, listed, unstarted, stopping, child>>

NewProcess(spec) ==
    [spec |-> spec, pid |-> NoPid, state |-> "Stopped", restart_count |-> 0,
     has_heartbeat |-> FALSE, intentional_stop |-> FALSE,
     silent |-> FALSE, expired |-> FALSE, fork_failed |-> FALSE]

(* Stands in the places the vector does not have yet; never read.          *)
UnusedSpec == CHOOSE s \in ApiSpecs : TRUE

Init ==
    /\ processes = [n \in Names |->
           NewProcess(IF n \in Configured THEN Config[n] ELSE UnusedSpec)]
    /\ listed = Configured
    /\ unstarted = Configured
    /\ stopping = FALSE
    /\ child = [p \in Pids |-> NoChild]

-----------------------------------------------------------------------------
(* Helpers                                                                 *)

Live(n) == processes[n].pid # NoPid

FreePids == {p \in Pids : child[p].phase = "free"}

(***************************************************************************)
(* What fork() may return when the pids of "reaped" have just been         *)
(* reaped: a free pid, possibly the one just released, or a failure.       *)
(***************************************************************************)
ForkResults(reaped) ==
    FreePids \cup reaped \cup (IF ForkMayFail THEN {NoPid} ELSE {})

(* StartOne on an entry without a child, fork() having returned p.         *)
StartedOne(e, p) ==
    IF p = NoPid
    THEN [e EXCEPT !.state = "Failed", !.has_heartbeat = FALSE,
                   !.intentional_stop = FALSE, !.fork_failed = TRUE]
    ELSE [e EXCEPT !.state = "Running", !.has_heartbeat = FALSE,
                   !.intentional_stop = FALSE, !.pid = p, !.silent = FALSE,
                   !.fork_failed = FALSE]

Forked(c, p) ==
    IF p = NoPid THEN c ELSE [c EXCEPT ![p] = [NoChild EXCEPT !.phase = "forked"]]

(* StopOne on an entry with a child.                                       *)
StoppedOne(e, intentional) ==
    [e EXCEPT !.state = "Stopping", !.intentional_stop = intentional,
              !.expired = FALSE]

(* kill(pid, SIGTERM) for every entry of S that has a child.               *)
Terminated(S) ==
    [p \in Pids |->
        IF child[p].phase \in {"forked", "up"}
           /\ \E n \in S : processes[n].pid = p
        THEN [child[p] EXCEPT !.term = TRUE]
        ELSE child[p]]

StopEach(S, intentional) ==
    /\ processes' = [n \in Names |->
                        IF n \in S /\ Live(n)
                        THEN StoppedOne(processes[n], intentional)
                        ELSE processes[n]]
    /\ child' = Terminated(S)

Exhausted(e) ==
    e.spec.restart_limit # 0 /\ e.restart_count >= e.spec.restart_limit

ShouldRestart(e, ok) ==
    /\ e.spec.restart # "never"
    /\ ~Exhausted(e)
    /\ e.spec.restart = "always" \/ ~ok

(* HandleExit starts the process again.                                    *)
RestartsOnceLess(e, ok) ==    \* mutant: the count is raised before it is compared
    ~stopping /\ ~e.intentional_stop
    /\ ShouldRestart([e EXCEPT !.restart_count = @ + 1], ok)

Restarts(e, ok) ==
    ~stopping /\ ~e.intentional_stop /\ ShouldRestart(e, ok)

(* ++restart_count, saturating above every limit it is compared with.      *)
Counted(count) == IF count < MaxCount THEN count + 1 ELSE count

-----------------------------------------------------------------------------
(* The calls of the supervision thread                                     *)

(* One iteration of StartAll: StartOne on the next entry.                  *)
StartAll(n) ==
    /\ ~stopping
    /\ n \in unstarted
    /\ unstarted' = unstarted \ {n}
    /\ \E p \in ForkResults({}) :
          /\ processes' = [processes EXCEPT ![n] = StartedOne(@, p)]
          /\ child' = Forked(child, p)
    /\ UNCHANGED <<listed, stopping>>

(* Mutant: a process that is already running is started again.             *)
StartProcessAgain(n, spec) ==
    /\ ~stopping /\ unstarted = {}
    /\ listed' = listed \cup {n}
    /\ \E p \in ForkResults({}) :
          /\ processes' = [processes EXCEPT ![n] =
                              StartedOne([@ EXCEPT !.spec = spec], p)]
          /\ child' = Forked(child, p)
    /\ UNCHANGED <<unstarted, stopping>>

(* The event StartProcess answers with: the state of the entry afterwards. *)
StartProcess(n, spec) ==
    /\ ~stopping /\ unstarted = {}
    /\ IF Live(n)
       THEN UNCHANGED <<processes, listed, child>>    \* "process already running"
       ELSE /\ listed' = listed \cup {n}
            /\ \E p \in ForkResults({}) :
                  /\ processes' = [processes EXCEPT ![n] =
                                      StartedOne([@ EXCEPT !.spec = spec], p)]
                  /\ child' = Forked(child, p)
    /\ UNCHANGED <<unstarted, stopping>>

(***************************************************************************)
(* The entry a stop request means: the one with that name, else the one    *)
(* with that pid.  n may be a name no entry has and p may be NoPid.        *)
(***************************************************************************)
StopTargets(n, p) ==
    IF n \in listed THEN {n}
    ELSE {m \in listed : p # NoPid /\ processes[m].pid = p}

StopProcess(n, p) ==
    /\ ~stopping /\ unstarted = {}
    /\ StopEach(StopTargets(n, p), TRUE)
    /\ UNCHANGED <<listed, unstarted, stopping>>

(* FindByPid, then HandleExit, for one child that waitpid() returned.      *)
HandleExit(p) ==
    /\ unstarted = {}
    /\ child[p].phase = "zombie"
    /\ LET ok == child[p].ok
           owners == {n \in Names : processes[n].pid = p}
           released == [child EXCEPT ![p] = NoChild]
       IN \/ /\ owners = {}                           \* "Unmanaged child exited"
             /\ child' = released
             /\ UNCHANGED processes
          \/ \E n \in owners :
               LET e == processes[n]
                   exited == [e EXCEPT
                       !.state = IF stopping \/ e.intentional_stop THEN "Stopped"
                                 ELSE IF ok THEN "Exited" ELSE "Failed",
                       !.pid = NoPid, !.intentional_stop = FALSE]
               IN IF Restarts(e, ok)
                  THEN \E q \in ForkResults({p}) :
                         /\ processes' = [processes EXCEPT ![n] = StartedOne(
                              [exited EXCEPT !.restart_count = Counted(@)], q)]
                         /\ child' = Forked(released, q)
                  ELSE /\ processes' = [processes EXCEPT ![n] = exited]
                       /\ child' = released
    /\ UNCHANGED <<listed, unstarted, stopping>>

(* Mutant: a process that is being stopped is stopped again.               *)
TimedOutWhileStopping(n) ==
    LET e == processes[n]
    IN  /\ Live(n)
        /\ e.spec.heartbeat_timeout
        /\ e.silent
        /\ e.has_heartbeat \/ e.spec.startup_timeout

(* Mutant: silence before the first heartbeat goes unnoticed.              *)
TimedOutAfterHeartbeat(n) ==
    LET e == processes[n]
    IN  /\ Live(n) /\ e.state # "Stopping"
        /\ e.spec.heartbeat_timeout
        /\ e.silent
        /\ e.has_heartbeat

(***************************************************************************)
(* The entries CheckHeartbeatTimeouts stops.  A process that is being      *)
(* stopped already is skipped, and one without a heartbeat_timeout is not  *)
(* supervised at all.                                                      *)
(***************************************************************************)
TimedOut(n) ==
    LET e == processes[n]
    IN  /\ Live(n) /\ e.state # "Stopping"
        /\ e.spec.heartbeat_timeout
        /\ e.silent
        /\ e.has_heartbeat \/ e.spec.startup_timeout

CheckHeartbeatTimeouts ==
    /\ ~stopping /\ unstarted = {}
    /\ StopEach({n \in Names : TimedOut(n)}, FALSE)
    /\ UNCHANGED <<listed, unstarted, stopping>>

MarkedHeartbeats(S) ==
    [n \in Names |->
        IF n \in S \cap listed
        THEN [processes[n] EXCEPT !.has_heartbeat = TRUE, !.silent = FALSE]
        ELSE processes[n]]

(* MarkHeartbeat for every name of S; names without an entry are ignored.  *)
MarkHeartbeat(S) ==
    /\ ~stopping /\ unstarted = {}
    /\ processes' = MarkedHeartbeats(S)
    /\ UNCHANGED <<listed, unstarted, stopping, child>>

(* Mutant: StopAll leaves alone what a missed heartbeat is stopping.       *)
StopAllRunning ==
    /\ ~stopping /\ unstarted = {}
    /\ stopping' = TRUE
    /\ StopEach({n \in Names : processes[n].state = "Running"}, TRUE)
    /\ UNCHANGED <<listed, unstarted>>

(* The first loop of StopAll.                                              *)
StopAll ==
    /\ ~stopping /\ unstarted = {}
    /\ stopping' = TRUE
    /\ StopEach(Names, TRUE)
    /\ UNCHANGED <<listed, unstarted>>

(* Mutant: a child past its deadline gets SIGTERM once more.               *)
TermOverdue ==
    LET overdue == {n \in Names : Live(n) /\ processes[n].expired}
    IN  /\ stopping
        /\ processes' = [n \in Names |->
                            IF n \in overdue
                            THEN [processes[n] EXCEPT !.expired = FALSE]
                            ELSE processes[n]]
        /\ child' = Terminated(overdue)
        /\ UNCHANGED <<listed, unstarted, stopping>>

(***************************************************************************)
(* One pass of StopAll over the entries after its Poll: every child past   *)
(* its deadline gets SIGKILL and one more second.                          *)
(***************************************************************************)
KillOverdue ==
    LET overdue == {n \in Names : Live(n) /\ processes[n].expired}
    IN  /\ stopping
        /\ processes' = [n \in Names |->
                            IF n \in overdue
                            THEN [processes[n] EXCEPT !.expired = FALSE]
                            ELSE processes[n]]
        /\ child' = [p \in Pids |->
                        IF /\ child[p].phase \in {"forked", "up", "hung"}
                           /\ \E n \in overdue : processes[n].pid = p
                        THEN [phase |-> "zombie", term |-> FALSE, ok |-> FALSE]
                        ELSE child[p]]
        /\ UNCHANGED <<listed, unstarted, stopping>>

SupervisorNext ==
    \/ \E n \in Names : StartAll(n)
    \/ \E n \in Names, s \in ApiSpecs : StartProcess(n, s)
    \/ \E n \in Names, p \in Pids \cup {NoPid} : StopProcess(n, p)
    \/ \E p \in Pids : HandleExit(p)
    \/ CheckHeartbeatTimeouts
    \/ \E S \in SUBSET Names : MarkHeartbeat(S)
    \/ StopAll
    \/ KillOverdue

-----------------------------------------------------------------------------
(* The environment: the children and the clock                             *)

ChildStep(p, from, to) ==
    /\ child[p].phase = from
    /\ child' = [child EXCEPT ![p] = to]
    /\ UNCHANGED <<processes, listed, unstarted, stopping>>

(* chdir() or exec() fails: the child exits with 127.                      *)
ExecFails(p) ==
    ChildStep(p, "forked", [phase |-> "zombie", term |-> FALSE, ok |-> FALSE])

(* exec() resets the inherited handler; a pending SIGTERM survives it.     *)
Exec(p) == ChildStep(p, "forked", [child[p] EXCEPT !.phase = "up"])

(***************************************************************************)
(* SignalHandler, inherited over fork(), runs in the child before exec():  *)
(* it sets the child's copy of g_signal and the SIGTERM is gone.           *)
(***************************************************************************)
SwallowTerm(p) ==
    /\ child[p].term
    /\ ChildStep(p, "forked", [child[p] EXCEPT !.term = FALSE])

(* The program ends, of its own accord or on SIGTERM.                      *)
Exit(p, ok) ==
    ChildStep(p, "up", [phase |-> "zombie", term |-> FALSE, ok |-> ok])

(* It stops reacting to SIGTERM (it blocks it, or its handler only sets a  *)
(* flag that a stuck main loop never reads).                               *)
Hang(p) ==
    ChildStep(p, "up", [phase |-> "hung", term |-> FALSE, ok |-> FALSE])

(* A child that hangs can still crash or be killed from outside.           *)
Crash(p) ==
    ChildStep(p, "hung", [phase |-> "zombie", term |-> FALSE, ok |-> FALSE])

Silence(n) ==
    /\ Live(n) /\ ~processes[n].silent
    /\ processes' = [processes EXCEPT ![n].silent = TRUE]
    /\ UNCHANGED <<listed, unstarted, stopping, child>>

Expire(n) ==
    /\ Live(n) /\ processes[n].state = "Stopping" /\ ~processes[n].expired
    /\ processes' = [processes EXCEPT ![n].expired = TRUE]
    /\ UNCHANGED <<listed, unstarted, stopping, child>>

EnvironmentNext ==
    \/ \E p \in Pids :
          \/ Exec(p) \/ ExecFails(p) \/ SwallowTerm(p)
          \/ \E ok \in BOOLEAN : Exit(p, ok)
          \/ Hang(p) \/ Crash(p)
    \/ \E n \in Names : Silence(n) \/ Expire(n)

Next == SupervisorNext \/ EnvironmentNext

Spec == Init /\ [][Next]_vars

-----------------------------------------------------------------------------
(* Properties                                                              *)

(* Every variable has its type.                                            *)
TypeOK ==
    /\ processes \in [Names -> ManagedProcess]
    /\ listed \subseteq Names /\ unstarted \subseteq listed
    /\ stopping \in BOOLEAN
    /\ child \in [Pids -> Child]

(***************************************************************************)
(* The table and the operating system agree: no pid is recorded for two    *)
(* entries, a recorded pid is a child that has not been reaped, and every  *)
(* child that exists is recorded, so that neither a forked child nor its   *)
(* exit is ever lost, also when pids are reused.                           *)
(***************************************************************************)
TableMatchesChildren ==
    /\ \A m, n \in Names :
          Live(m) /\ processes[m].pid = processes[n].pid => m = n
    /\ \A n \in Names : Live(n) => child[processes[n].pid].phase # "free"
    /\ \A p \in Pids : child[p].phase # "free" =>
          \E n \in Names : processes[n].pid = p

(***************************************************************************)
(* While StopAll runs, every child that is left is being stopped on        *)
(* purpose: none was started behind its back and none will be restarted.   *)
(***************************************************************************)
ShutdownStopsEverything ==
    stopping => \A n \in Names : Live(n) =>
        processes[n].state = "Stopping" /\ processes[n].intentional_stop

(***************************************************************************)
(* A process without a child has a reason to be down: it was stopped on    *)
(* purpose or never started, or its exit calls for no restart under its    *)
(* policy and limit, or the fork() of its last start, and no other, failed *)
(* (HandleExit does not try such a restart again).                         *)
(***************************************************************************)
DownForAReason ==
    \A n \in listed \ unstarted : ~Live(n) =>
        LET e == processes[n]
        IN  \/ e.state = "Stopped"
            \/ e.state = "Exited" /\ ~ShouldRestart(e, TRUE)
            \/ e.state = "Failed" /\ (e.fork_failed \/ ~ShouldRestart(e, FALSE))

(***************************************************************************)
(* A process that is being stopped on purpose stays so until its child is  *)
(* reaped, and no restart replaces that child: neither a missed heartbeat  *)
(* nor a start request nor the shutdown turns the stop into a restart.     *)
(***************************************************************************)
Ordered(n) == Live(n) /\ processes[n].intentional_stop

OrderedStopIsFinal ==
    [][\A n \in Names : Ordered(n) =>
          \/ Ordered(n)' /\ processes'[n].pid = processes[n].pid
          \/ processes'[n].pid = NoPid /\ processes'[n].state = "Stopped"]_vars

=============================================================================
