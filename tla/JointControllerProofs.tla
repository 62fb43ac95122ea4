----------------------- MODULE JointControllerProofs -----------------------
(***************************************************************************)
(* Proofs about the joint controller: its types, and that outputs are safe *)
(* whenever it is not enabled, for any joints and any commands; and about  *)
(* the endpoint that owns it, which moves it as it allows and leaves it    *)
(* safe.                                                                   *)
(***************************************************************************)
EXTENDS JointEndpoint, TLAPS

LEMMA SafeOutputType ==
    SafeOutput \in [Joints -> [mode : Modes, velocity : {Zero, Driven}, effort : {Zero, Driven}]]
  BY DEF SafeOutput, SafeState, Modes

(* What Step makes of an output is an output.                              *)
LEMMA AppliedType ==
    ASSUME NEW item \in JointCommandItem,
           NEW old \in [mode : Modes, velocity : {Zero, Driven}, effort : {Zero, Driven}]
    PROVE  Applied(item, old) \in
               [mode : Modes, velocity : {Zero, Driven}, effort : {Zero, Driven}]
  <1>1. item \in [mode : Modes, velocity : {Unset, Zero, Driven}, effort : {Unset, Zero, Driven}]
    BY DEF JointCommandItem
  <1>2. Field(item, "velocity", "velocity", old.velocity) \in {Zero, Driven}
    BY <1>1 DEF Field
  <1>3. Field(item, "effort", "effort", old.effort) \in {Zero, Driven}
    BY <1>1 DEF Field
  <1> QED BY <1>1, <1>2, <1>3 DEF Applied

(* An item of a command is one of the items of the constants.              *)
LEMMA ItemOfCommand ==
    ASSUME NEW items \in ItemSets, NEW j \in DOMAIN items
    PROVE  items[j] \in JointCommandItem
  <1>1. PICK J \in SUBSET Joints : items \in [J -> Items]
    BY DEF ItemSets
  <1> QED BY <1>1, JointControllerAssumption DEF JointControllerAssumption

LEMMA NoItems == <<>> \in ItemSets
  <1>1. <<>> \in [{} -> Items]
    OBVIOUS
  <1> QED BY <1>1 DEF ItemSets

(* An output keeps its type under Step.                                    *)
LEMMA StepOutputType ==
    ASSUME TypeOK, Step
    PROVE  joint_states' \in
               [Joints -> [mode : Modes, velocity : {Zero, Driven}, effort : {Zero, Driven}]]
  <1>1. CASE joint_states' = SafeOutput
    BY <1>1, SafeOutputType
  <1>2. CASE joint_states' = joint_states
    BY <1>2 DEF TypeOK
  <1>3. CASE joint_states' = [j \in Joints |->
                          IF j \in DOMAIN last_command
                          THEN Applied(last_command[j], joint_states[j])
                          ELSE joint_states[j]]
    <2> DEFINE Out == [mode : Modes, velocity : {Zero, Driven}, effort : {Zero, Driven}]
    <2>1. ASSUME NEW j \in Joints
          PROVE  (IF j \in DOMAIN last_command
                  THEN Applied(last_command[j], joint_states[j])
                  ELSE joint_states[j]) \in Out
      <3>1. joint_states[j] \in Out /\ last_command \in ItemSets
        BY DEF TypeOK
      <3>2. CASE j \in DOMAIN last_command
        <4>1. last_command[j] \in JointCommandItem
          BY <3>1, <3>2, ItemOfCommand
        <4>2. Applied(last_command[j], joint_states[j]) \in Out
          BY <3>1, <4>1, AppliedType
        <4> QED BY <3>2, <4>2
      <3>3. CASE j \notin DOMAIN last_command
        BY <3>1, <3>3
      <3> QED BY <3>2, <3>3
    <2> HIDE DEF Out
    <2>2. joint_states' \in [Joints -> Out]
      BY <1>3, <2>1
    <2> QED BY <2>2 DEF Out
  <1> QED BY <1>1, <1>2, <1>3 DEF Step, ApplySafeOutput

LEMMA TypeInit ==
    ASSUME Init
    PROVE  TypeOK
  <1>1. last_command \in ItemSets
    BY NoItems, Zenon DEF Init
  <1>2. joint_states \in
            [Joints -> [mode : Modes, velocity : {Zero, Driven}, effort : {Zero, Driven}]]
    BY SafeOutputType DEF Init
  <1>3. /\ running \in BOOLEAN /\ enabled \in BOOLEAN
        /\ fault_latched \in BOOLEAN /\ emergency_stopped \in BOOLEAN
        /\ has_command \in BOOLEAN /\ expired \in BOOLEAN
        /\ reply \in {"ok", "failed"}
        /\ fresh \in BOOLEAN /\ restarted \in BOOLEAN
    BY DEF Init
  <1> QED BY <1>1, <1>2, <1>3 DEF TypeOK

(* The types are kept by every action.                                     *)
LEMMA TypeStep ==
    ASSUME TypeOK, [Next]_vars
    PROVE  TypeOK'
  <1> USE DEF TypeOK
  <1>1. CASE Start
    BY <1>1, JointControllerAssumption DEF Start, Ok, JointControllerAssumption
  <1>2. CASE Stop
    BY <1>2, SafeOutputType DEF Stop, ApplySafeOutput, Ok, command, history
  <1>3. CASE NotRunning
    BY <1>3 DEF NotRunning, power, command, history
  <1>4. CASE Enable
    BY <1>4 DEF Enable, Ok, command, history
  <1>5. CASE Disable
    BY <1>5, SafeOutputType DEF Disable, ApplySafeOutput, Ok, command, history
  <1>6. CASE EmergencyStop
    BY <1>6, SafeOutputType DEF EmergencyStop, ApplySafeOutput, Ok, command, history
  <1>7. CASE ClearFault
    BY <1>7, SafeOutputType DEF ClearFault, ApplySafeOutput, Ok, command, history
  <1>8. CASE InjectFault
    BY <1>8, SafeOutputType DEF InjectFault, ApplySafeOutput, command
  <1>9. CASE \E c \in JointCommand : SetCommand(c)
    <2>1. PICK c \in JointCommand : SetCommand(c)
      BY <1>9
    <2>2. /\ c.clear_fault \in BOOLEAN /\ c.enable \in BOOLEAN
          /\ c.joints \in ItemSets
      BY DEF JointCommand
    <2>3. running' \in BOOLEAN
      BY <2>1 DEF SetCommand
    <2>4. CASE Stops(c)
      BY <2>3, <2>4, SafeOutputType DEF Stops, ApplySafeOutput, Ok, command, history
    <2>5. CASE Disables(c)
      BY <2>3, <2>5, SafeOutputType DEF Disables, ClearedBy, ApplySafeOutput, Ok, command, history
    <2>6. CASE Refuses(c)
      BY <2>2, <2>3, <2>6 DEF Refuses, ClearedBy, EnabledBy, Enables, Latched, command, history
    <2>7. CASE AcceptsFlags(c)
      BY <2>2, <2>3, <2>7 DEF AcceptsFlags, ClearedBy, EnabledBy, Enables, Latched, Ok, command, history
    <2>8. CASE \E late \in BOOLEAN : AcceptsJoints(c, late)
      BY <2>2, <2>3, <2>8 DEF AcceptsJoints, ClearedBy, Ok
    <2> QED BY <2>1, <2>4, <2>5, <2>6, <2>7, <2>8 DEF SetCommand
  <1>10. CASE Step
    <2>1. /\ enabled' \in BOOLEAN /\ has_command' \in BOOLEAN
          /\ reply' \in {"ok", "failed"}
          /\ fresh' \in BOOLEAN /\ restarted' \in BOOLEAN
      BY <1>10 DEF Step, ApplySafeOutput, Ok, history
    <2> QED BY <1>10, <2>1, StepOutputType DEF Step
  <1>11. CASE Expire
    BY <1>11 DEF Expire, power, history
  <1>12. CASE UNCHANGED vars
    BY <1>12 DEF vars, power, command, history
  <1> QED
    BY <1>1, <1>2, <1>3, <1>4, <1>5, <1>6, <1>7, <1>8, <1>9, <1>10, <1>11, <1>12
    DEF Next, Operate

(* Every state of the joint controller has the types of TypeOK, whatever   *)
(* its joints, the commands it may be given and its options.               *)
THEOREM TypeCorrect == Spec => []TypeOK
  <1>1. Init => TypeOK
    BY TypeInit
  <1>2. TypeOK /\ [Next]_vars => TypeOK'
    BY TypeStep
  <1> QED BY <1>1, <1>2, PTL DEF Spec

-----------------------------------------------------------------------------
(* SafeUnlessEnabled is not inductive: Enable needs that nothing is        *)
(* latched when enabled, Step that a controller which is not enabled keeps *)
(* outputs only if it was started again while it ran, and DrivenByCommand  *)
(* that a command in force was accepted since the start.                   *)
DisabledWhenUnsafe ==
    ~running \/ fault_latched \/ emergency_stopped =>
        ~enabled /\ joint_states = SafeOutput

SafeWhenDisabled == ~enabled /\ ~restarted => joint_states = SafeOutput

CommandIsFresh == has_command => fresh

IInv == TypeOK /\ DisabledWhenUnsafe /\ SafeWhenDisabled /\ CommandIsFresh

LEMMA IInvSafe == IInv => SafeUnlessEnabled
  BY DEF IInv, DisabledWhenUnsafe, SafeWhenDisabled, SafeUnlessEnabled

LEMMA IInvInit == Init => IInv
  <1> SUFFICES ASSUME Init PROVE IInv
    OBVIOUS
  <1>1. TypeOK
    BY TypeInit
  <1> QED BY <1>1 DEF Init, IInv, DisabledWhenUnsafe, SafeWhenDisabled, CommandIsFresh

(* A command that is refused or only sets flags enables the controller     *)
(* only if nothing stays latched.                                          *)
LEMMA EnabledByUnlatched ==
    ASSUME IInv, NEW c \in JointCommand, running, ClearedBy(c), EnabledBy(c)
    PROVE  ~fault_latched' /\ ~emergency_stopped'
  BY DEF IInv, TypeOK, DisabledWhenUnsafe, ClearedBy, EnabledBy, Enables, Latched, JointCommand

LEMMA IInvStep ==
    ASSUME IInv, [Next]_vars
    PROVE  IInv'
  <1>1. TypeOK'
    BY TypeStep DEF IInv
  <1>2. DisabledWhenUnsafe' /\ SafeWhenDisabled' /\ CommandIsFresh'
    <2> USE DEF IInv, DisabledWhenUnsafe, SafeWhenDisabled, CommandIsFresh
    <2>0. SafeOutput' = SafeOutput
      BY DEF SafeOutput, SafeState
    <2>1. CASE Start
      BY <2>0, <2>1 DEF Start, TypeOK
    <2>2. CASE \/ Stop \/ Disable \/ EmergencyStop \/ ClearFault \/ InjectFault
      BY <2>0, <2>2 DEF Stop, Disable, EmergencyStop, ClearFault, InjectFault,
                        ApplySafeOutput, command
    <2>3. CASE NotRunning
      BY <2>0, <2>3 DEF NotRunning, power, command, history
    <2>4. CASE Enable
      BY <2>0, <2>4 DEF Enable, command, history
    <2>5. CASE \E c \in JointCommand : SetCommand(c)
      <3>1. PICK c \in JointCommand : SetCommand(c)
        BY <2>5
      <3>2. running /\ running'
        BY <3>1 DEF SetCommand
      <3>3. CASE Stops(c) \/ Disables(c)
        BY <2>0, <3>3 DEF Stops, Disables, ApplySafeOutput, command
      <3>4. CASE Refuses(c) \/ AcceptsFlags(c)
        <4>1. /\ ClearedBy(c) /\ enabled' = EnabledBy(c) /\ joint_states' = joint_states
              /\ UNCHANGED <<has_command, fresh, restarted>>
          BY <3>4 DEF Refuses, AcceptsFlags, command, history
        <4>2. CASE EnabledBy(c)
          BY <3>2, <4>1, <4>2, EnabledByUnlatched
        <4>3. CASE ~EnabledBy(c)
          <5>1. ~enabled /\ ~enabled'
            BY <4>1, <4>3 DEF EnabledBy
          <5>2. fault_latched' \/ emergency_stopped' => fault_latched \/ emergency_stopped
            BY <4>1 DEF ClearedBy
          <5> QED BY <2>0, <3>2, <4>1, <5>1, <5>2
        <4> QED BY <4>2, <4>3
      <3>5. CASE \E late \in BOOLEAN : AcceptsJoints(c, late)
        <4>1. ClearedBy(c) /\ EnabledBy(c) /\ enabled' /\ fresh'
          BY <3>5 DEF AcceptsJoints
        <4> QED BY <3>2, <4>1, EnabledByUnlatched
      <3> QED BY <3>1, <3>3, <3>4, <3>5 DEF SetCommand
    <2>6. CASE Step
      BY <2>0, <2>6 DEF Step, ApplySafeOutput, history
    <2>7. CASE Expire
      BY <2>0, <2>7 DEF Expire, power, history
    <2>8. CASE UNCHANGED vars
      BY <2>0, <2>8 DEF vars, power, command, history
    <2> QED BY <2>1, <2>2, <2>3, <2>4, <2>5, <2>6, <2>7, <2>8 DEF Next, Operate
  <1> QED BY <1>1, <1>2 DEF IInv

(* A joint controller that is stopped, or has a fault or an emergency stop *)
(* latched, drives no joint, nor does one that is not enabled but for what *)
(* Start() leaves of one that ran: whatever the joints, whatever the calls *)
(* and in whatever order they come.                                        *)
THEOREM Safe == Spec => []SafeUnlessEnabled
  <1>1. Spec => []IInv
    BY IInvInit, IInvStep, PTL DEF Spec
  <1> QED BY <1>1, IInvSafe, PTL

(* What an item makes of an output that does not drive: it drives only if  *)
(* the item does.                                                          *)
LEMMA AppliedDrives ==
    ASSUME NEW item \in JointCommandItem,
           NEW old \in [mode : Modes, velocity : {Zero, Driven}, effort : {Zero, Driven}],
           old.velocity # Driven, old.effort # Driven,
           \/ Applied(item, old).velocity = Driven
           \/ Applied(item, old).effort = Driven
    PROVE  Drives(item)
  <1>1. item \in [mode : Modes, velocity : {Unset, Zero, Driven}, effort : {Unset, Zero, Driven}]
    BY DEF JointCommandItem
  <1>2. /\ Applied(item, old).velocity = Field(item, "velocity", "velocity", old.velocity)
        /\ Applied(item, old).effort = Field(item, "effort", "effort", old.effort)
    BY DEF Applied
  <1> QED BY <1>1, <1>2 DEF Field, Drives, Zero, Driven, Unset

(* Only Step drives a joint that was not driven.                           *)
LEMMA DrivenStep ==
    ASSUME IInv, [Next]_vars, NEW j \in Joints, ~IsDriven(j), IsDriven(j)'
    PROVE  /\ fresh
           /\ j \in DOMAIN last_command /\ Drives(last_command[j])
           /\ HasTimeout => ~expired
           /\ running /\ enabled /\ ~fault_latched /\ ~emergency_stopped
  <1>1. joint_states' # joint_states
    BY DEF IsDriven
  <1>2. joint_states' # SafeOutput
    BY DEF IsDriven, SafeOutput, SafeState, Zero, Driven
  <1>3. Step
    BY <1>1, <1>2 DEF Next, Operate, Start, Stop, NotRunning, Enable, Disable,
       EmergencyStop, ClearFault, InjectFault, SetCommand, Stops, Disables, Refuses,
       AcceptsFlags, AcceptsJoints, ApplySafeOutput, Expire, vars
  <1>4. enabled /\ ~TimesOut /\ has_command
    BY <1>1, <1>2, <1>3 DEF Step, ApplySafeOutput
  <1>5. j \in DOMAIN last_command
    <2>1. SUFFICES ASSUME j \notin DOMAIN last_command PROVE joint_states'[j] = joint_states[j]
      BY DEF IsDriven
    <2> QED BY <1>2, <1>3, <1>4, <2>1 DEF Step
  <1>6. Drives(last_command[j])
    <2>1. joint_states'[j] = Applied(last_command[j], joint_states[j])
      BY <1>2, <1>3, <1>4, <1>5 DEF Step
    <2>2. /\ last_command[j] \in JointCommandItem
          /\ joint_states[j] \in
                [mode : Modes, velocity : {Zero, Driven}, effort : {Zero, Driven}]
      BY <1>5, ItemOfCommand DEF IInv, TypeOK
    <2>3. /\ joint_states[j].velocity # Driven /\ joint_states[j].effort # Driven
          /\ \/ joint_states'[j].velocity = Driven
             \/ joint_states'[j].effort = Driven
      BY DEF IsDriven
    <2> QED BY <2>1, <2>2, <2>3, AppliedDrives
  <1> QED BY <1>3, <1>4, <1>5, <1>6
          DEF Step, TimesOut, IInv, TypeOK, DisabledWhenUnsafe, CommandIsFresh

(* A joint starts to be driven only for the last command accepted since    *)
(* the start, in its time, on a controller that is enabled and unlatched.  *)
THEOREM OnlyCommandsDrive == Spec => DrivenByCommand
  <1>1. Spec => []IInv
    BY IInvInit, IInvStep, PTL DEF Spec
  <1>2. IInv /\ [Next]_vars =>
          [\A j \in Joints : ~IsDriven(j) /\ IsDriven(j)' =>
              /\ fresh
              /\ j \in DOMAIN last_command /\ Drives(last_command[j])
              /\ HasTimeout => ~expired
              /\ running /\ enabled /\ ~fault_latched /\ ~emergency_stopped]_vars
    BY DrivenStep
  <1> QED BY <1>1, <1>2, PTL DEF Spec, DrivenByCommand

-----------------------------------------------------------------------------
(* The endpoint                                                            *)

(* Whatever thread of the endpoint takes a step, the controller takes one  *)
(* of its own, or none.                                                    *)
LEMMA EndpointStep == ASSUME [EndpointNext]_allVars PROVE [Next]_vars
  <1>1. CASE UNCHANGED vars
    BY <1>1
  <1>2. CASE Operate \/ Step \/ Expire
    BY <1>2 DEF Next
  <1>3. ASSUME OwnerStarts \/ BeginStop \/ OwnerStops \/ RunTurn
        PROVE  Operate \/ Step \/ UNCHANGED vars
    BY <1>3 DEF OwnerStarts, Configure, StartController, Subscribe, StartThread,
      BeginStop, OwnerStops, StopDisables, StopController, Join, RunTurn, Loop,
      StepTurn, ReadState, Publish, SleepAfterError, Operate
  <1>4. ASSUME NEW c \in JointCommand, HandleCommand(c) PROVE Operate
    BY <1>4 DEF HandleCommand, Operate
  <1>5. Bench => Operate \/ Step
    BY DEF Bench
  <1> QED BY <1>1, <1>2, <1>3, <1>4, <1>5 DEF EndpointNext, allVars

(* The endpoint's threads use the controller as it may be used, so that    *)
(* every theorem about the controller holds in the endpoint.               *)
THEOREM EndpointUsesController == EndpointSpec => Spec
  <1>1. EndpointInit => Init
    BY DEF EndpointInit
  <1>2. [EndpointNext]_allVars => [Next]_vars
    BY EndpointStep
  <1> QED BY <1>1, <1>2, PTL DEF EndpointSpec, Spec

(* A controller that is not running is moved by nothing but its start.     *)
LEMMA NothingMovesStopped ==
    ASSUME ~running, joint_states = SafeOutput,
           Step \/ NotRunning \/ Stop \/ Expire
              \/ (\E c \in JointCommand : SetCommand(c)) \/ UNCHANGED vars
    PROVE  ~running' /\ joint_states' = SafeOutput
  BY DEF Step, NotRunning, Stop, Expire, SetCommand, ApplySafeOutput, vars, power

LEMMA StoppedStep ==
    ASSUME StoppedIsSafe, [EndpointNext]_allVars
    PROVE  StoppedIsSafe'
  <1> SUFFICES ASSUME owner' \in {"joining", "stopped"}
               PROVE  ~running' /\ joint_states' = SafeOutput
    BY DEF StoppedIsSafe, SafeOutput, SafeState
  <1>1. CASE StopController
    BY <1>1 DEF StopController, Stop, ApplySafeOutput
  <1>2. CASE ~StopController
    <2>1. owner \in {"joining", "stopped"}
      BY <1>2 DEF EndpointNext, OwnerStarts, Configure, StartController, Subscribe,
        StartThread, BeginStop, OwnerStops, StopDisables, Join, Owner, RunTurn, Loop,
        StepTurn, ReadState, Publish, SleepAfterError, HandleCommand, Bench,
        endpointVars, allVars
    <2>2. \/ Step \/ NotRunning \/ Expire
          \/ \E c \in JointCommand : SetCommand(c)
          \/ UNCHANGED vars
      BY <1>2, <2>1 DEF EndpointNext, OwnerStarts, Configure, StartController, Subscribe,
        StartThread, BeginStop, OwnerStops, StopDisables, Join, Owner, RunTurn, Loop,
        StepTurn, ReadState, Publish, SleepAfterError, HandleCommand, Bench,
        endpointVars, allVars
    <2> QED BY <2>1, <2>2, NothingMovesStopped DEF StoppedIsSafe
  <1> QED BY <1>1, <1>2

(***************************************************************************)
(* Once Stop() of the endpoint has stopped its controller, no joint moves  *)
(* again, whatever commands and whatever turn of Run() still come.         *)
(***************************************************************************)
THEOREM StopIsSafe == EndpointSpec => []StoppedIsSafe
  <1>1. EndpointInit => StoppedIsSafe
    BY DEF EndpointInit, StoppedIsSafe
  <1>2. StoppedIsSafe /\ [EndpointNext]_allVars => StoppedIsSafe'
    BY StoppedStep
  <1> QED BY <1>1, <1>2, PTL DEF EndpointSpec

-----------------------------------------------------------------------------
(* The exception that SafeUnlessEnabled makes is not met in an endpoint.   *)

StartsOnce ==
    /\ owner \in {"created", "configured"} => ~running
    /\ owner # "bench" => ~restarted

LEMMA StartsOnceStep ==
    ASSUME TypeOK, StartsOnce, [EndpointNext]_allVars
    PROVE  StartsOnce'
  <1>1. ASSUME Step \/ NotRunning \/ Stop \/ Disable \/ Expire
                  \/ (\E c \in JointCommand : SetCommand(c)) \/ UNCHANGED vars
        PROVE  (running' => running) /\ (restarted' => restarted)
    BY <1>1 DEF Step, NotRunning, Stop, Disable, Expire, SetCommand, Stops, Disables, Refuses,
      AcceptsFlags, AcceptsJoints, ApplySafeOutput, vars, power, history
  <1>2. CASE StartController
    BY <1>2 DEF StartController, Start, Owner, StartsOnce
  <1>3. CASE Bench
    BY <1>3 DEF Bench, endpointVars, StartsOnce
  <1>4. CASE ~StartController /\ ~Bench
    <2>1. \/ Step \/ NotRunning \/ Stop \/ Disable \/ Expire
          \/ \E c \in JointCommand : SetCommand(c)
          \/ UNCHANGED vars
      BY <1>4 DEF EndpointNext, OwnerStarts, Configure, Subscribe, StartThread, BeginStop,
        OwnerStops, StopDisables, StopController, Join, RunTurn, Loop, StepTurn, ReadState,
        Publish, SleepAfterError, HandleCommand, allVars
    <2>2. /\ owner' \in {"created", "configured"} => owner \in {"created", "configured"}
          /\ owner' # "bench" => owner # "bench"
      BY <1>4 DEF EndpointNext, OwnerStarts, Configure, Subscribe, StartThread, BeginStop,
        OwnerStops, StopDisables, StopController, Join, Owner, RunTurn, Loop, StepTurn,
        ReadState, Publish, SleepAfterError, HandleCommand, endpointVars, allVars
    <2> QED BY <1>1, <2>1, <2>2 DEF StartsOnce
  <1> QED BY <1>2, <1>3, <1>4

(***************************************************************************)
(* The endpoint starts its controller once and when it does not run, so    *)
(* that in an endpoint a controller that is not enabled drives no joint.   *)
(***************************************************************************)
THEOREM EndpointIsSafe ==
    EndpointSpec => [](owner # "bench" /\ ~enabled => joint_states = SafeOutput)
  <1>1. EndpointInit => StartsOnce
    BY DEF EndpointInit, Init, StartsOnce
  <1>2. TypeOK /\ StartsOnce /\ [EndpointNext]_allVars => StartsOnce'
    BY StartsOnceStep
  <1>3. EndpointSpec => []TypeOK /\ []SafeUnlessEnabled
    BY EndpointUsesController, TypeCorrect, Safe
  <1>4. StartsOnce /\ SafeUnlessEnabled =>
            (owner # "bench" /\ ~enabled => joint_states = SafeOutput)
    BY DEF StartsOnce, SafeUnlessEnabled
  <1> QED BY <1>1, <1>2, <1>3, <1>4, PTL DEF EndpointSpec

=============================================================================
