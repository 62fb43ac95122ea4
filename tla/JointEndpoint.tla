---------------------------- MODULE JointEndpoint ----------------------------
(***************************************************************************)
(* JointControllerEndpoint of services/hardware_interface: the owner that  *)
(* starts and stops it, the thread of Run() that steps the controller, and *)
(* the subscriber's thread that brings commands.  The counters and texts   *)
(* of EndpointStatus are left out.  A controller may also be used without  *)
(* an endpoint, "on the bench": then any operation may be called any time. *)
(***************************************************************************)
EXTENDS JointController

VARIABLES
    alive,     \* running_ of the endpoint
    thread,    \* where Run() is
    owner      \* where the owner is in Configure(), Start() and Stop()

endpointVars == <<alive, thread, owner>>
allVars == <<vars, endpointVars>>

EndpointInit ==
    /\ Init
    /\ alive = FALSE
    /\ thread = "none"
    /\ owner \in {"created", "bench"}

Owner(from, to) == owner = from /\ owner' = to
Thread(from, to) == thread = from /\ thread' = to

-----------------------------------------------------------------------------
(* The owner.                                                              *)

(* Configure() fails without the names of both topics, and the endpoint is *)
(* then not started; it is stopped all the same.                           *)
Configure ==
    /\ \/ Owner("created", "configured")
       \/ Owner("created", "refused")
    /\ UNCHANGED <<vars, alive, thread>>

StartController ==
    /\ Owner("configured", "starting")
    /\ Start
    /\ UNCHANGED <<alive, thread>>

Subscribe ==
    /\ Owner("starting", "subscribed")
    /\ UNCHANGED <<vars, alive, thread>>

StartThread ==
    /\ Owner("subscribed", "started")
    /\ alive' = TRUE
    /\ Thread("none", "looping")
    /\ UNCHANGED vars

(* Stop(), also when it never started and when it is stopped already.      *)
BeginStop ==
    /\ \/ Owner("refused", "disabling")
       \/ Owner("started", "disabling")
       \/ Owner("stopped", "disabling")
    /\ alive' = FALSE
    /\ UNCHANGED <<vars, thread>>

StopDisables ==
    /\ Owner("disabling", "stopping")
    /\ Disable \/ NotRunning
    /\ UNCHANGED <<alive, thread>>

(* Mutant: disabling is taken to be enough.                                *)
StopNothing ==
    /\ Owner("stopping", "joining")
    /\ UNCHANGED <<vars, alive, thread>>

StopController ==
    /\ Owner("stopping", "joining")
    /\ Stop
    /\ UNCHANGED <<alive, thread>>

Join ==
    /\ Owner("joining", "stopped")
    /\ thread \in {"none", "ended"}
    /\ UNCHANGED <<vars, alive, thread>>

-----------------------------------------------------------------------------
(* Run()                                                                   *)

(* Mutant: the loop only ends when a step fails.                           *)
LoopForever ==
    /\ Thread("looping", "stepping")
    /\ UNCHANGED <<vars, alive, owner>>

Loop ==
    /\ IF alive THEN Thread("looping", "stepping") ELSE Thread("looping", "ended")
    /\ UNCHANGED <<vars, alive, owner>>

StepTurn ==
    /\ \/ Step /\ Thread("stepping", "reading")
       \/ NotRunning /\ Thread("stepping", "sleeping")
    /\ UNCHANGED <<alive, owner>>

(* ReadState() waits for the next period, or until the controller stops.   *)
ReadState ==
    /\ IF running THEN Thread("reading", "publishing") ELSE Thread("reading", "looping")
    /\ UNCHANGED <<vars, alive, owner>>

Publish ==
    /\ Thread("publishing", "looping")
    /\ UNCHANGED <<vars, alive, owner>>

SleepAfterError ==
    /\ Thread("sleeping", "looping")
    /\ UNCHANGED <<vars, alive, owner>>

-----------------------------------------------------------------------------
(* The subscriber calls back from Start() on, and still does after Stop(). *)
Subscribed == owner \notin {"bench", "created", "configured", "refused", "starting"}

HandleCommand(c) ==
    /\ Subscribed
    /\ SetCommand(c) \/ NotRunning
    /\ UNCHANGED endpointVars

Bench ==
    /\ owner = "bench"
    /\ Operate \/ Step
    /\ UNCHANGED endpointVars

OwnerStarts == Configure \/ StartController \/ Subscribe \/ StartThread
OwnerStops == StopDisables \/ StopController \/ Join
RunTurn == Loop \/ StepTurn \/ ReadState \/ Publish \/ SleepAfterError

EndpointNext ==
    \/ OwnerStarts \/ BeginStop \/ OwnerStops
    \/ RunTurn
    \/ \E c \in JointCommand : HandleCommand(c)
    \/ Expire /\ UNCHANGED endpointVars
    \/ Bench

(* The threads of the process run, and time passes; on the bench too, the  *)
(* controller is stepped again and again.                                  *)
EndpointFairness ==
    /\ WF_allVars(OwnerStops)
    /\ WF_allVars(RunTurn)
    /\ WF_allVars(Expire /\ UNCHANGED endpointVars)
    /\ WF_allVars(owner = "bench" /\ Step /\ UNCHANGED endpointVars)

EndpointSpec == EndpointInit /\ [][EndpointNext]_allVars /\ EndpointFairness

-----------------------------------------------------------------------------
(* Stop() leaves the outputs safe for good: a command that arrives between *)
(* Disable() and Stop() of the controller, or later still, and a step that *)
(* was under way move no joint once Stop() has returned.                   *)
StoppedIsSafe ==
    owner \in {"joining", "stopped"} => ~running /\ joint_states = SafeOutput

(* Stop() returns, wherever it finds Run().                                *)
StopReturns == owner = "disabling" ~> owner = "stopped"

=============================================================================
