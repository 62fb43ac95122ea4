------------------------- MODULE LaunchManagerProofs -------------------------
(***************************************************************************)
(* Theorems about the main program of launch_manager.  They rest on those  *)
(* about the process table, which every step of the program moves as       *)
(* ProcessManager allows.                                                  *)
(***************************************************************************)
EXTENDS LaunchManager, ProcessManagerProofs, SequenceTheorems

(***************************************************************************)
(* Strengthening: StartAll is over once the loop has begun, no request was *)
(* carried out before, and at the end no entry has a child.                *)
(***************************************************************************)
LInv ==
    /\ LMTypeOK
    /\ IInv
    /\ pc = "start all" => stopped = {}
    /\ pc # "start all" => unstarted = {}
    /\ StopRequestHolds
    /\ pc = "done" => \A n \in Names : ~Live(n)

LEMMA InitLInv == LMInit => LInv
  <1> SUFFICES ASSUME LMInit PROVE LInv
    OBVIOUS
  <1>1. IInv
    BY InitIInv DEF LMInit
  <1>2. LMTypeOK
    <2>1. call \in [Clients -> [request : Requests,
              status : {"idle", "waiting", "ok", "failed", "timeout"}]]
      BY DEF LMInit
    <2> QED BY <1>1, <2>1, EmptySeq DEF LMInit, LMTypeOK, IInv
  <1> QED BY <1>1, <1>2 DEF LMInit, LInv, StopRequestHolds

(* A request is one that the process table accepts.                        *)
LEMMA RequestFacts ==
    ASSUME NEW r \in Requests
    PROVE  /\ r.name \in Names
           /\ r.what = "start" => r.spec \in ApiSpecs
           /\ r.what = "stop" => r.pid \in Pids \cup {NoPid}
  BY RequestAssumption

(* The command that is run next was posted by a client.                    *)
LEMMA NextCommand ==
    ASSUME LMTypeOK, runtime_commands # <<>>
    PROVE  /\ Head(runtime_commands) \in Clients
           /\ call[Head(runtime_commands)].request \in Requests
           /\ Tail(runtime_commands) \in Seq(Clients)
  BY HeadTailProperties DEF LMTypeOK

(***************************************************************************)
(* Every step of the program is a step of the process table, or none.      *)
(***************************************************************************)
LEMMA StepRefines == ASSUME LInv, [LMNext]_allVars PROVE [Next]_vars
  <1>1. ASSUME MainStartAll PROVE [Next]_vars
    BY <1>1 DEF MainStartAll, Next, SupervisorNext, LInv, IInv, TypeOK
  <1>2. ASSUME RunCommand PROVE [Next]_vars
    <2> DEFINE r == call[Head(runtime_commands)].request
    <2>1. r \in Requests
      BY <1>2, NextCommand DEF RunCommand, LInv
    <2>2. \/ r.what = "start" /\ StartProcess(r.name, r.spec)
          \/ r.what = "stop" /\ StopProcess(r.name, r.pid)
      BY <1>2 DEF RunCommand, RunStart, RunStop
    <2> HIDE DEF r
    <2> QED BY <2>1, <2>2, RequestFacts DEF Next, SupervisorNext
  <1>3. ASSUME MarkHeartbeats PROVE [Next]_vars
    BY <1>3 DEF MarkHeartbeats, LInv, LMTypeOK, Next, SupervisorNext
  <1>4. ASSUME PollReaps PROVE [Next]_vars
    BY <1>4 DEF PollReaps, Zombies, Next, SupervisorNext
  <1>5. ASSUME PollReturns \/ LeaveLoop \/ StopAllTurn PROVE [Next]_vars
    BY <1>5 DEF PollReturns, LeaveLoop, StopAllTurn, Next, SupervisorNext
  <1>6. ASSUME SwapCommands \/ SignalHandler PROVE [Next]_vars
    BY <1>6 DEF SwapCommands, SignalHandler
  <1>7. ASSUME NEW c \in Clients, EnqueueRuntimeCommand(c) \/ CommandTimeout(c)
        PROVE  [Next]_vars
    BY <1>7 DEF EnqueueRuntimeCommand, CommandTimeout
  <1>8. ASSUME NEW n \in Names, Heartbeat(n) PROVE [Next]_vars
    BY <1>8 DEF Heartbeat
  <1>9. ASSUME UNCHANGED allVars PROVE [Next]_vars
    BY <1>9 DEF allVars
  <1> QED BY <1>1, <1>2, <1>3, <1>4, <1>5, <1>6, <1>7, <1>8, <1>9
          DEF LMNext, Supervise, Next

-----------------------------------------------------------------------------
(* The parts of the invariant                                              *)

LEMMA TypeStep == ASSUME LInv, [LMNext]_allVars PROVE LMTypeOK'
  <1>1. TypeOK'
    BY StepRefines, NextIInv DEF LInv, IInv
  <1>2. LMTypeOK /\ TypeOK
    BY DEF LInv, LMTypeOK
  <1>3. ASSUME RunCommand PROVE LMTypeOK'
    <2> DEFINE c == Head(runtime_commands)
               r == call[c].request
    <2>1. c \in Clients /\ r \in Requests /\ runtime_commands' \in Seq(Clients)
      BY <1>2, <1>3, NextCommand DEF RunCommand
    <2>2. /\ \E ok \in BOOLEAN : Respond(c, ok)
          /\ stopped' \subseteq stopped \cup {r.name} \cup StopTargets(r.name, r.pid)
      BY <1>3 DEF RunCommand, RunStart, RunStop
    <2> HIDE DEF c, r
    <2>3. call' \in [Clients -> [request : Requests,
                  status : {"idle", "waiting", "ok", "failed", "timeout"}]]
      <3>1. PICK ok \in BOOLEAN : Respond(c, ok)
        BY <2>2
      <3>2. CASE call[c].status = "waiting"
        <4>1. call' = [call EXCEPT ![c].status = IF ok THEN "ok" ELSE "failed"]
          BY <3>1, <3>2 DEF Respond
        <4> QED BY <1>2, <2>1, <4>1 DEF LMTypeOK
      <3>3. CASE call[c].status # "waiting"
        BY <1>2, <3>1, <3>3 DEF Respond, LMTypeOK
      <3> QED BY <3>2, <3>3
    <2>4. stopped' \subseteq Names
      BY <1>2, <2>1, <2>2, RequestFacts DEF StopTargets, LMTypeOK, TypeOK
    <2> QED BY <1>1, <1>2, <1>3, <2>1, <2>3, <2>4 DEF RunCommand, LMTypeOK
  <1>4. ASSUME NEW c \in Clients, EnqueueRuntimeCommand(c) \/ CommandTimeout(c)
        PROVE  LMTypeOK'
    <2>1. PICK st \in {"waiting", "timeout"} : call' = [call EXCEPT ![c].status = st]
      BY <1>4 DEF EnqueueRuntimeCommand, CommandTimeout
    <2>2. call' \in [Clients -> [request : Requests,
                  status : {"idle", "waiting", "ok", "failed", "timeout"}]]
      BY <1>2, <2>1 DEF LMTypeOK
    <2>3. pending_commands' \in Seq(Clients)
          /\ UNCHANGED <<pc, g_signal, runtime_commands, pending_heartbeats, stopped,
                       carried_out>>
      <3>1. CASE EnqueueRuntimeCommand(c)
        BY <1>2, <3>1, AppendProperties DEF EnqueueRuntimeCommand, LMTypeOK
      <3>2. CASE CommandTimeout(c)
        BY <1>2, <3>2 DEF CommandTimeout, LMTypeOK
      <3> QED BY <1>4, <3>1, <3>2
    <2> QED BY <1>1, <1>2, <2>2, <2>3 DEF LMTypeOK
  <1>5. ASSUME MainStartAll \/ SwapCommands \/ MarkHeartbeats \/ PollReaps
               \/ PollReturns \/ LeaveLoop \/ StopAllTurn \/ SignalHandler
        PROVE  LMTypeOK'
    <2>1. /\ UNCHANGED <<call, stopped, carried_out>>
          /\ pending_commands' \in {pending_commands, <<>>}
          /\ runtime_commands' \in {runtime_commands, pending_commands}
          /\ pending_heartbeats' \in {pending_heartbeats, {}}
          /\ g_signal' \in {g_signal, TRUE}
          /\ pc' \in {pc, "loop", "commands", "poll", "stop all", "done"}
      BY <1>5 DEF MainStartAll, SwapCommands, MarkHeartbeats, PollReaps,
        PollReturns, LeaveLoop, StopAllTurn, SignalHandler, mainVars
    <2> QED BY <1>1, <1>2, <2>1, EmptySeq DEF LMTypeOK
  <1>6. ASSUME NEW n \in Names, Heartbeat(n) PROVE LMTypeOK'
    BY <1>1, <1>2, <1>6 DEF Heartbeat, LMTypeOK
  <1>7. ASSUME UNCHANGED mainVars PROVE LMTypeOK'
    BY <1>1, <1>2, <1>7 DEF LMTypeOK, mainVars
  <1> QED BY <1>3, <1>4, <1>5, <1>6, <1>7 DEF LMNext, Supervise, allVars

(***************************************************************************)
(* An entry without a child gets one only from StartAll and StartProcess.  *)
(***************************************************************************)
OtherCall ==
    \/ \E m \in Names, p \in Pids \cup {NoPid} : StopProcess(m, p)
    \/ CheckHeartbeatTimeouts \/ StopAll \/ KillOverdue
    \/ \E p \in Pids : HandleExit(p)
    \/ \E S \in SUBSET Names : MarkHeartbeat(S)
    \/ EnvironmentNext
    \/ UNCHANGED vars

LEMMA DownStays ==
    ASSUME IInv, OtherCall, NEW n \in Names, ~Live(n)
    PROVE  ~Live(n)'
  <1> DEFINE Down == processes'[n].pid = processes[n].pid
  <1>1. TypeOK /\ TableMatchesChildren /\ processes[n] \in ManagedProcess
    BY DEF IInv, TypeOK
  <1>5. ASSUME NEW S \in SUBSET Names, NEW i \in BOOLEAN, StopEach(S, i) PROVE Down
    BY <1>1, <1>5, StopEachFacts
  <1>6. ASSUME NEW m \in Names, NEW p \in Pids \cup {NoPid}, StopProcess(m, p)
        PROVE  Down
    BY <1>1, <1>5, <1>6 DEF StopProcess, StopTargets, TypeOK
  <1>7. ASSUME CheckHeartbeatTimeouts \/ StopAll PROVE Down
    BY <1>5, <1>7 DEF CheckHeartbeatTimeouts, StopAll
  <1>8. ASSUME NEW p \in Pids, HandleExit(p) PROVE Down
    <2>1. PICK m \in Names :
             /\ processes[m].pid = p
             /\ \/ /\ ~stopping /\ ~processes[m].intentional_stop
                   /\ ShouldRestart(processes[m], child[p].ok)
                   /\ \E q \in ForkResults({p}) :
                        /\ processes' = [processes EXCEPT ![m] =
                               StartedOne(Recounted(m, child[p].ok), q)]
                        /\ child' = Forked([child EXCEPT ![p] = NoChild], q)
                \/ /\ stopping \/ processes[m].intentional_stop
                      \/ ~ShouldRestart(processes[m], child[p].ok)
                   /\ processes' = [processes EXCEPT ![m] = Exited(m, child[p].ok)]
                   /\ child' = [child EXCEPT ![p] = NoChild]
      BY <1>1, <1>8, HandleExitCases
    <2>2. m # n
      BY <2>1, PidAssumption DEF Live
    <2>3. processes'[n] = processes[n]
      BY <1>1, <2>1, <2>2 DEF TypeOK
    <2> QED BY <2>3
  <1>9. ASSUME NEW S \in SUBSET Names, MarkHeartbeat(S) PROVE Down
    BY <1>1, <1>9 DEF MarkHeartbeat, MarkedHeartbeats, ManagedProcess
  <1>10. ASSUME KillOverdue PROVE Down
    BY <1>1, <1>10 DEF KillOverdue, ManagedProcess
  <1>11. ASSUME EnvironmentNext PROVE Down
    <2>1. UNCHANGED processes \/ \E m \in Names : Silence(m) \/ Expire(m)
      BY <1>11 DEF EnvironmentNext, Exec, ExecFails, SwallowTerm, Exit, Hang,
                   Crash, ChildStep
    <2>2. \/ processes'[n] = processes[n]
          \/ processes'[n] = [processes[n] EXCEPT !.silent = TRUE]
          \/ processes'[n] = [processes[n] EXCEPT !.expired = TRUE]
      BY <1>1, <2>1 DEF TypeOK, Silence, Expire
    <2> QED BY <1>1, <2>2 DEF ManagedProcess
  <1>12. ASSUME UNCHANGED vars PROVE Down
    BY <1>12 DEF vars
  <1>13. Down
    BY <1>6, <1>7, <1>8, <1>9, <1>10, <1>11, <1>12 DEF OtherCall
  <1> QED BY <1>13 DEF Live

(***************************************************************************)
(* Every step of the program but StartAll and a command is another call.   *)
(***************************************************************************)
LEMMA OtherSteps ==
    ASSUME LInv, [LMNext]_allVars
    PROVE  MainStartAll \/ RunCommand \/ (OtherCall /\ stopped' = stopped)
  <1>1. ASSUME MarkHeartbeats PROVE OtherCall /\ stopped' = stopped
    BY <1>1 DEF MarkHeartbeats, LInv, LMTypeOK, OtherCall
  <1>2. ASSUME PollReaps PROVE OtherCall /\ stopped' = stopped
    BY <1>2 DEF PollReaps, Zombies, OtherCall, mainVars
  <1>3. ASSUME PollReturns \/ LeaveLoop \/ StopAllTurn
        PROVE  OtherCall /\ stopped' = stopped
    BY <1>3 DEF PollReturns, LeaveLoop, StopAllTurn, OtherCall
  <1>4. ASSUME SwapCommands \/ SignalHandler PROVE OtherCall /\ stopped' = stopped
    BY <1>4 DEF SwapCommands, SignalHandler, OtherCall
  <1>5. ASSUME NEW c \in Clients, EnqueueRuntimeCommand(c) \/ CommandTimeout(c)
        PROVE  OtherCall /\ stopped' = stopped
    BY <1>5 DEF EnqueueRuntimeCommand, CommandTimeout, OtherCall
  <1>6. ASSUME NEW n \in Names, Heartbeat(n) PROVE OtherCall /\ stopped' = stopped
    BY <1>6 DEF Heartbeat, OtherCall
  <1>7. ASSUME EnvironmentNext, UNCHANGED mainVars
        PROVE  OtherCall /\ stopped' = stopped
    BY <1>7 DEF OtherCall, mainVars
  <1>8. ASSUME UNCHANGED allVars PROVE OtherCall /\ stopped' = stopped
    BY <1>8 DEF allVars, OtherCall, mainVars
  <1> QED BY <1>1, <1>2, <1>3, <1>4, <1>5, <1>6, <1>7, <1>8 DEF LMNext, Supervise

LEMMA StopRequestStep == ASSUME LInv, [LMNext]_allVars PROVE StopRequestHolds'
  <1> SUFFICES ASSUME NEW n \in stopped', Live(n)' PROVE Ordered(n)'
    BY DEF StopRequestHolds
  <1>1. IInv /\ TypeOK /\ [Next]_vars /\ LMTypeOK'
    BY StepRefines, TypeStep DEF LInv, IInv
  <1>2. n \in Names
    BY <1>1 DEF LMTypeOK
  <1>3. CASE n \in stopped /\ Live(n)
    <2>1. Ordered(n)
      BY <1>3 DEF LInv, StopRequestHolds
    <2> QED BY <1>1, <1>2, <2>1, OrderedStep DEF Live
  <1>4. CASE OtherCall /\ stopped' = stopped
    BY <1>1, <1>2, <1>3, <1>4, DownStays
  <1>5. CASE MainStartAll
    BY <1>5 DEF MainStartAll, LInv
  <1>6. CASE RunCommand
    <2> DEFINE r == call[Head(runtime_commands)].request
    <2>1. r \in Requests
      BY <1>6, NextCommand DEF RunCommand, LInv
    <2>2. CASE /\ StartProcess(r.name, r.spec)
               /\ stopped' = IF Live(r.name) THEN stopped ELSE stopped \ {r.name}
      <3>1. Live(n) \/ n # r.name
        BY <2>2
      <3>2. CASE ~Live(n)
        <4>1. processes'[n] = processes[n]
          BY <1>1, <1>2, <2>1, <2>2, <3>1, <3>2 DEF StartProcess, TypeOK
        <4> QED BY <3>2, <4>1 DEF Live
      <3> QED BY <1>3, <2>2, <3>2
    <2>3. CASE /\ r.what = "stop"
               /\ StopProcess(r.name, r.pid)
               /\ stopped' = stopped \cup StopTargets(r.name, r.pid)
      <3> DEFINE T == StopTargets(r.name, r.pid)
      <3>1. T \in SUBSET Names /\ StopEach(T, TRUE)
        BY <1>1, <2>3 DEF StopTargets, StopProcess, TypeOK
      <3>2. CASE ~Live(n)
        <4>1. OtherCall
          BY <2>1, <2>3, RequestFacts DEF OtherCall
        <4> QED BY <1>1, <1>2, <3>2, <4>1, DownStays
      <3>3. CASE Live(n) /\ n \in T
        <4> HIDE DEF T
        <4> QED BY <1>1, <1>2, <3>1, <3>3, StopEachFacts DEF Ordered
      <3> QED BY <1>3, <2>3, <3>2, <3>3
    <2> QED BY <1>6, <2>2, <2>3 DEF RunCommand, RunStart, RunStop
  <1> QED BY <1>4, <1>5, <1>6, OtherSteps

LEMMA EndStep ==
    ASSUME LInv, [LMNext]_allVars
    PROVE  /\ pc' = "start all" => stopped' = {}
           /\ pc' # "start all" => unstarted' = {}
           /\ pc' = "done" => \A n \in Names : ~Live(n)'
  <1>1. IInv /\ [Next]_vars
    BY StepRefines DEF LInv
  <1>2. CASE MainStartAll
    BY <1>2 DEF MainStartAll, LInv, vars
  <1>3. CASE RunCommand
    BY <1>3 DEF RunCommand, RunStart, RunStop, StartProcess, StopProcess, LInv
  <1>4. CASE OtherCall /\ stopped' = stopped
    <2>1. /\ unstarted' = unstarted
          /\ pc' = "start all" => pc = "start all"
      <3>1. unstarted' = unstarted
        BY <1>4 DEF OtherCall, StopProcess, CheckHeartbeatTimeouts, StopAll,
              KillOverdue, HandleExit, MarkHeartbeat, EnvironmentNext, Exec,
              ExecFails, SwallowTerm, Exit, Hang, Crash, ChildStep, Silence,
              Expire, vars
      <3>2. pc' = "start all" => pc = "start all"
        BY DEF LMNext, Supervise, MainStartAll, SwapCommands, RunCommand,
              MarkHeartbeats, PollReaps, PollReturns, LeaveLoop, StopAllTurn,
              EnqueueRuntimeCommand, CommandTimeout, Heartbeat, SignalHandler,
              mainVars, allVars
      <3> QED BY <3>1, <3>2
    <2>2. pc # "start all" \/ pc' = "start all" \/ MainStartAll
      BY DEF LMNext, Supervise, SwapCommands, RunCommand,
              MarkHeartbeats, PollReaps, PollReturns, LeaveLoop, StopAllTurn,
              EnqueueRuntimeCommand, CommandTimeout, Heartbeat, SignalHandler,
              mainVars, allVars
    <2>3. pc' = "done" => pc = "done" \/ StopAllTurn
      BY DEF LMNext, Supervise, MainStartAll, SwapCommands, RunCommand,
              MarkHeartbeats, PollReaps, PollReturns, LeaveLoop, StopAllTurn,
              EnqueueRuntimeCommand, CommandTimeout, Heartbeat, SignalHandler,
              mainVars, allVars
    <2>4. pc' = "done" => \A n \in Names : ~Live(n)
      BY <2>3 DEF StopAllTurn, LInv
    <2>5. pc' = "done" => \A n \in Names : ~Live(n)'
      BY <1>1, <1>4, <2>4, DownStays
    <2> QED BY <1>2, <1>4, <2>1, <2>2, <2>5 DEF LInv
  <1> QED BY <1>2, <1>3, <1>4, OtherSteps

LEMMA NextLInv == LInv /\ [LMNext]_allVars => LInv'
  BY TypeStep, StepRefines, NextIInv, StopRequestStep, EndStep DEF LInv

-----------------------------------------------------------------------------
(* The commands                                                            *)

Posted == {Queue[i] : i \in DOMAIN Queue}

(***************************************************************************)
(* Strengthening of EachCommandOnce: a client whose call has not begun has *)
(* no command anywhere, and the swapped commands are all run before the    *)
(* next swap, which would overwrite them.                                  *)
(***************************************************************************)
CommandInv ==
    /\ \A i, j \in DOMAIN Queue : Queue[i] = Queue[j] => i = j
    /\ carried_out \cap Posted = {}
    /\ \A c \in Clients : call[c].status # "idle" <=> c \in carried_out \cup Posted
    /\ pc # "commands" => runtime_commands = <<>>

LEMMA QueueFacts ==
    ASSUME LMTypeOK
    PROVE  /\ Queue \in Seq(Clients)
           /\ Len(Queue) \in Nat /\ DOMAIN Queue = 1 .. Len(Queue)
           /\ Posted \subseteq Clients
           /\ runtime_commands = <<>> => Queue = pending_commands
  <1>1. Queue \in Seq(Clients)
    BY ConcatProperties DEF LMTypeOK, Queue
  <1>2. Len(Queue) \in Nat /\ DOMAIN Queue = 1 .. Len(Queue)
    BY <1>1, LenProperties
  <1>3. Posted \subseteq Clients
    BY <1>1, <1>2, ElementOfSeq DEF Posted
  <1>4. runtime_commands = <<>> => Queue = pending_commands
    BY ConcatEmptySeq DEF LMTypeOK, Queue
  <1> QED BY <1>1, <1>2, <1>3, <1>4

LEMMA InitCommands == LMInit => CommandInv
  <1> SUFFICES ASSUME LMInit PROVE CommandInv
    OBVIOUS
  <1>1. Queue = <<>>
    BY EmptySeq, ConcatEmptySeq DEF LMInit, Queue
  <1>2. DOMAIN Queue = {} /\ Posted = {}
    BY <1>1 DEF Posted
  <1>3. \A c \in Clients : call[c].status = "idle"
    BY DEF LMInit
  <1> QED BY <1>2, <1>3 DEF LMInit, CommandInv

(* The post of a command puts its client at the end of the queue.          *)
LEMMA PostStep ==
    ASSUME LMTypeOK, LMTypeOK', CommandInv,
           NEW c \in Clients, EnqueueRuntimeCommand(c)
    PROVE  CommandInv'
  <1>1. Queue' = Append(Queue, c)
    <2>1. /\ pending_commands \in Seq(Clients) /\ runtime_commands \in Seq(Clients)
          /\ pending_commands' = Append(pending_commands, c)
          /\ runtime_commands' = runtime_commands
      BY DEF EnqueueRuntimeCommand, LMTypeOK
    <2>2. <<c>> \in Seq(Clients)
      OBVIOUS
    <2>3. pending_commands' = pending_commands \o <<c>>
      BY <2>1, AppendIsConcat
    <2>4. Append(Queue, c) = Queue \o <<c>>
      BY QueueFacts, AppendIsConcat
    <2>5. Queue \o <<c>> = runtime_commands \o (pending_commands \o <<c>>)
      BY <2>1, <2>2, ConcatAssociative DEF Queue
    <2> QED BY <2>1, <2>3, <2>4, <2>5 DEF Queue
  <1> DEFINE n == Len(Queue)
  <1>2. /\ n \in Nat /\ DOMAIN Queue = 1 .. n /\ DOMAIN Queue' = 1 .. n + 1
        /\ \A i \in 1 .. n : Queue'[i] = Queue[i]
        /\ Queue'[n + 1] = c
    BY <1>1, QueueFacts, AppendProperties, LenProperties
  <1> HIDE DEF n
  <1>3. Posted' = Posted \cup {c}
    BY <1>2 DEF Posted
  <1>4. c \notin Posted /\ c \notin carried_out /\ carried_out' = carried_out
    BY DEF CommandInv, EnqueueRuntimeCommand
  <1>5. \A i \in 1 .. n : Queue[i] # c
    BY <1>2, <1>4 DEF Posted
  <1>6. \A i, j \in 1 .. n + 1 : Queue'[i] = Queue'[j] => i = j
    <2> SUFFICES ASSUME NEW i \in 1 .. n + 1, NEW j \in 1 .. n + 1,
                        Queue'[i] = Queue'[j]
                 PROVE  i = j
      OBVIOUS
    <2>1. (i \in 1 .. n \/ i = n + 1) /\ (j \in 1 .. n \/ j = n + 1)
      BY <1>2
    <2> QED BY <2>1, <1>2, <1>5 DEF CommandInv
  <1>7. \A d \in Clients :
            call'[d].status # "idle" <=> d \in carried_out' \cup Posted'
    <2> TAKE d \in Clients
    <2>1. call[d].status # "idle" <=> d \in carried_out \cup Posted
      BY DEF CommandInv
    <2>2. CASE d = c
      BY <1>3, <2>2 DEF EnqueueRuntimeCommand, LMTypeOK
    <2>3. CASE d # c
      <3>1. call'[d] = call[d]
        BY <2>3 DEF EnqueueRuntimeCommand, LMTypeOK
      <3> QED BY <1>3, <1>4, <2>1, <2>3, <3>1
    <2> QED BY <2>2, <2>3
  <1> QED BY <1>2, <1>3, <1>4, <1>6, <1>7 DEF CommandInv, EnqueueRuntimeCommand

(* The run of a command takes its client from the head of the queue.       *)
LEMMA RunStep ==
    ASSUME LMTypeOK, LMTypeOK', CommandInv, RunCommand
    PROVE  CommandInv'
  <1> DEFINE c == Head(runtime_commands)
             n == Len(Queue')
  <1>1. c \in Clients /\ carried_out' = carried_out \cup {c}
    BY NextCommand DEF RunCommand
  <1>2. Queue = <<c>> \o Queue'
    <2>1. /\ <<c>> \in Seq(Clients) /\ Tail(runtime_commands) \in Seq(Clients)
          /\ pending_commands \in Seq(Clients)
      BY <1>1, NextCommand DEF RunCommand, LMTypeOK
    <2>2. runtime_commands = <<c>> \o Tail(runtime_commands)
      <3>1. runtime_commands \in Seq(Clients) /\ runtime_commands # <<>>
        BY DEF RunCommand, LMTypeOK
      <3> QED BY <3>1
    <2> QED BY <2>1, <2>2, ConcatAssociative DEF Queue, RunCommand
  <1>3. Queue' \in Seq(Clients) /\ <<c>> \in Seq(Clients) /\ Len(<<c>>) = 1
    <2>1. pending_commands' \in Seq(Clients) /\ runtime_commands' \in Seq(Clients)
      BY DEF LMTypeOK
    <2>2. Queue' \in Seq(Clients)
      BY <2>1, ConcatProperties DEF Queue
    <2> HIDE DEF c
    <2> QED BY <1>1, <2>2
  <1>4. /\ n \in Nat /\ DOMAIN Queue' = 1 .. n /\ DOMAIN Queue = 1 .. n + 1
        /\ Queue[1] = c
        /\ \A i \in 1 .. n : Queue'[i] = Queue[i + 1]
    <2>1. n \in Nat /\ DOMAIN Queue' = 1 .. n
      BY <1>3, LenProperties
    <2>2. /\ Len(Queue) = n + 1
          /\ \A i \in 1 .. n + 1 : Queue[i] = IF i <= 1 THEN c ELSE Queue'[i - 1]
      <3> HIDE DEF c
      <3>1. /\ Len(<<c>> \o Queue') = Len(<<c>>) + Len(Queue')
            /\ \A i \in 1 .. Len(<<c>>) + Len(Queue') : (<<c>> \o Queue')[i] =
                  IF i <= Len(<<c>>) THEN <<c>>[i] ELSE Queue'[i - Len(<<c>>)]
        BY <1>3, ConcatProperties
      <3> QED BY <1>2, <1>3, <2>1, <3>1
    <2>3. DOMAIN Queue = 1 .. n + 1
      BY <2>2, QueueFacts
    <2> QED BY <2>1, <2>2, <2>3
  <1> HIDE DEF c, n
  <1>5. Posted = Posted' \cup {c}
    <2>1. ASSUME NEW i \in 1 .. n + 1 PROVE Queue[i] \in Posted' \cup {c}
      <3>1. CASE i = 1
        BY <1>4, <3>1
      <3>2. CASE i # 1
        <4>1. i - 1 \in 1 .. n /\ (i - 1) + 1 = i
          BY <1>4, <3>2
        <4>2. Queue'[i - 1] = Queue[i] /\ i - 1 \in DOMAIN Queue'
          BY <1>4, <4>1
        <4> QED BY <4>2 DEF Posted
      <3> QED BY <3>1, <3>2
    <2>2. ASSUME NEW i \in 1 .. n PROVE Queue'[i] \in Posted
      BY <1>4 DEF Posted
    <2>3. c \in Posted
      BY <1>4 DEF Posted
    <2> QED BY <1>4, <2>1, <2>2, <2>3 DEF Posted
  <1>6. c \notin Posted'
    BY <1>4 DEF Posted, CommandInv
  <1>7. \A i, j \in 1 .. n : Queue'[i] = Queue'[j] => i = j
    <2> SUFFICES ASSUME NEW i \in 1 .. n, NEW j \in 1 .. n, Queue'[i] = Queue'[j]
                 PROVE  i = j
      OBVIOUS
    <2>1. i + 1 \in DOMAIN Queue /\ j + 1 \in DOMAIN Queue
      BY <1>4
    <2>2. Queue[i + 1] = Queue[j + 1]
      BY <1>4
    <2>3. i + 1 = j + 1
      BY <2>1, <2>2 DEF CommandInv
    <2> QED BY <1>4, <2>3
  <1>8. \A d \in Clients : call'[d].status = "idle" <=> call[d].status = "idle"
    <2>1. \E ok \in BOOLEAN : Respond(c, ok)
      BY DEF RunCommand, RunStart, RunStop, c
    <2>2. PICK ok \in BOOLEAN : Respond(c, ok)
      BY <2>1
    <2> TAKE d \in Clients
    <2>3. CASE d # c
      BY <2>2, <2>3 DEF Respond, LMTypeOK
    <2>4. CASE d = c
      <3>1. CASE call[c].status = "waiting"
        <4>1. call'[c] = [call[c] EXCEPT !.status = IF ok THEN "ok" ELSE "failed"]
          BY <1>1, <2>2, <3>1 DEF Respond, LMTypeOK
        <4>2. call[c] = [call[c] EXCEPT !.status = call[c].status]
          BY <1>1 DEF LMTypeOK
        <4>3. call'[c].status = IF ok THEN "ok" ELSE "failed"
          BY <4>1, <4>2
        <4> QED BY <2>4, <3>1, <4>3
      <3>2. CASE call[c].status # "waiting"
        BY <2>2, <2>4, <3>2 DEF Respond
      <3> QED BY <3>1, <3>2
    <2> QED BY <2>3, <2>4
  <1>9. pc' = "commands"
    BY DEF RunCommand
  <1> QED BY <1>1, <1>4, <1>5, <1>6, <1>7, <1>8, <1>9 DEF CommandInv

LEMMA CommandStep ==
    ASSUME LMTypeOK, LMTypeOK', CommandInv, [LMNext]_allVars
    PROVE  CommandInv'
  <1>1. ASSUME SwapCommands PROVE CommandInv'
    <2>1. /\ Queue' = Queue
          /\ UNCHANGED <<call, carried_out>> /\ pc' = "commands"
      BY <1>1, QueueFacts, ConcatEmptySeq
        DEF SwapCommands, CommandInv, Queue, LMTypeOK
    <2> QED BY <2>1 DEF CommandInv, Posted
  <1>2. ASSUME NEW c \in Clients, CommandTimeout(c) PROVE CommandInv'
    <2>1. /\ Queue' = Queue /\ UNCHANGED <<carried_out, pc, runtime_commands>>
          /\ \A d \in Clients : call'[d].status = "idle" <=> call[d].status = "idle"
      BY <1>2 DEF CommandTimeout, Queue, LMTypeOK
    <2> QED BY <2>1 DEF CommandInv, Posted
  <1>3. ASSUME UNCHANGED <<runtime_commands, pending_commands, call, carried_out>>,
               pc # "commands" => pc' # "commands",
               pc' # "commands" => pc # "commands" \/ runtime_commands = <<>>
        PROVE  CommandInv'
    BY <1>3 DEF CommandInv, Posted, Queue
  <1>4. ASSUME MainStartAll \/ MarkHeartbeats \/ PollReaps \/ PollReturns
               \/ LeaveLoop \/ StopAllTurn \/ SignalHandler
               \/ (\E n \in Names : Heartbeat(n)) \/ UNCHANGED mainVars
        PROVE  CommandInv'
    <2>1. /\ UNCHANGED <<runtime_commands, pending_commands, call, carried_out>>
          /\ pc # "commands" => pc' # "commands"
          /\ pc' # "commands" => pc # "commands" \/ runtime_commands = <<>>
      BY <1>4 DEF MainStartAll, MarkHeartbeats, PollReaps, PollReturns, LeaveLoop,
        StopAllTurn, SignalHandler, Heartbeat, mainVars
    <2> QED BY <1>3, <2>1
  <1> QED BY <1>1, <1>2, <1>4, PostStep, RunStep DEF LMNext, Supervise, allVars

-----------------------------------------------------------------------------
(* The theorems                                                            *)

LEMMA LInvariance == LMSpec => []LInv
  BY InitLInv, NextLInv, PTL DEF LMSpec

(* The program uses the process table as the class allows, so that every   *)
(* theorem about ProcessManager holds of the program.                      *)
THEOREM Implementation == LMSpec => ImplementsProcessManager
  <1>1. LMInit => Init
    BY DEF LMInit
  <1>2. LInv /\ [LMNext]_allVars => [Next]_vars
    BY StepRefines
  <1> QED BY <1>1, <1>2, LInvariance, PTL DEF LMSpec, Spec, ImplementsProcessManager

(* Every variable of the program keeps its type.                           *)
THEOREM MainTypeCorrect == LMSpec => []LMTypeOK
  BY LInvariance, PTL DEF LInv

(* A stop request that was carried out holds until the next start.         *)
THEOREM StopRequestsHold == LMSpec => []StopRequestHolds
  BY LInvariance, PTL DEF LInv

(* The program leaves no child behind, neither running nor unreaped.       *)
THEOREM NoneLeftBehind == LMSpec => []NoChildLeftBehind
  <1>1. LInv => NoChildLeftBehind
    BY PidAssumption DEF LInv, IInv, TableMatchesChildren, NoChildLeftBehind, Live
  <1> QED BY <1>1, LInvariance, PTL

(***************************************************************************)
(* Every posted command waits in one place until it is run, and is run     *)
(* once, whatever swaps, answers and timeouts come between.                *)
(***************************************************************************)
THEOREM CommandsRunOnce == LMSpec => []EachCommandOnce
  <1>1. CommandInv => EachCommandOnce
    BY DEF CommandInv, EachCommandOnce, Posted
  <1>2. LMTypeOK /\ LMTypeOK' /\ CommandInv /\ [LMNext]_allVars => CommandInv'
    BY CommandStep
  <1> QED BY <1>1, <1>2, InitCommands, MainTypeCorrect, PTL DEF LMSpec

=============================================================================
