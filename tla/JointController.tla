--------------------------- MODULE JointController ---------------------------
(***************************************************************************)
(* The joint controller of components/actuator                             *)
(* (mock_joint_controller.cpp): the enable, fault and emergency stop state *)
(* machine between joint commands and joint outputs.  A step is one call   *)
(* under mutex_.  Of a joint's output the model keeps its mode and whether *)
(* velocity and effort are other than zero; of a command's time, whether   *)
(* command_timeout_ms has passed since.                                    *)
(***************************************************************************)
EXTENDS Naturals, FiniteSets

CONSTANTS
    Joints,           \* the joints of the controller
    Items,            \* the commands a joint may be given
    DisabledOnStart,  \* options_.disabled_on_start
    HasTimeout        \* options_.command_timeout_ms > 0

Zero == "zero"        \* a velocity or an effort of 0.0
Driven == "driven"    \* any other
Unset == "unset"      \* a field that is not enabled in the command

Modes == {"disabled", "position", "velocity", "effort", "mit"}

(* A valid item: its mode is disabled or it enables a field.  A mode       *)
(* "position" or "mit" always enables one that is not modelled.            *)
JointCommandItem ==
    {i \in [mode : Modes, velocity : {Unset, Zero, Driven}, effort : {Unset, Zero, Driven}] :
        /\ i.mode = "velocity" => i.velocity # Unset \/ i.effort # Unset
        /\ i.mode = "effort" => i.velocity # Unset \/ i.effort # Unset}

ASSUME JointControllerAssumption ==
    /\ IsFiniteSet(Joints) /\ Joints # {}
    /\ Items \subseteq JointCommandItem
    /\ DisabledOnStart \in BOOLEAN /\ HasTimeout \in BOOLEAN

(* The items of a command; the joints it does not name are left out.       *)
ItemSets == UNION {[J -> Items] : J \in SUBSET Joints}

(* A command addressed to this controller; another is refused untouched.   *)
(* valid is what ValidateCommandLocked says of the items.                  *)
JointCommand ==
    {c \in [emergency_stop : BOOLEAN, clear_fault : BOOLEAN, disable : BOOLEAN,
            enable : BOOLEAN, valid : BOOLEAN, joints : ItemSets] :
        c.joints = <<>> => c.valid}

VARIABLES
    running,            \* running_
    enabled,            \* enabled_
    fault_latched,      \* fault_latched_
    emergency_stopped,  \* emergency_stopped_
    has_command,        \* has_command_
    last_command,       \* last_command_.joints
    expired,            \* command_timeout_ms has passed since last_command_
    joint_states,       \* joint_states_
    reply,              \* whether the last call succeeded
    fresh,              \* history: last_command was accepted since the last Start
    restarted           \* history: Start came while it ran, its outputs were kept,
                        \* and neither a command nor ApplySafeOutput has come since

power == <<running, enabled, fault_latched, emergency_stopped>>
command == <<has_command, last_command, expired>>
history == <<fresh, restarted>>
vars == <<power, command, joint_states, reply, history>>

SafeState == [mode |-> "disabled", velocity |-> Zero, effort |-> Zero]
SafeOutput == [j \in Joints |-> SafeState]

Init ==
    /\ running = FALSE /\ enabled = FALSE
    /\ fault_latched = FALSE /\ emergency_stopped = FALSE
    /\ has_command = FALSE /\ last_command = <<>> /\ expired = FALSE
    /\ joint_states = SafeOutput
    /\ reply = "ok"
    /\ fresh = FALSE /\ restarted = FALSE

-----------------------------------------------------------------------------
(* ApplySafeOutputLocked                                                   *)
ApplySafeOutput ==
    /\ enabled' = FALSE
    /\ joint_states' = SafeOutput
    /\ restarted' = FALSE /\ UNCHANGED fresh

Ok == reply' = "ok"

(* Every call but Start and Stop fails on a controller that is not running *)
(* and changes nothing.                                                    *)
NotRunning ==
    /\ ~running
    /\ reply' = "failed"
    /\ UNCHANGED <<power, command, joint_states, history>>

(* Mutant: the command of before the start stays in force.                 *)
StartKeepsCommand ==
    /\ running' = TRUE
    /\ enabled' = ~DisabledOnStart
    /\ fault_latched' = FALSE /\ emergency_stopped' = FALSE
    /\ Ok
    /\ fresh' = FALSE /\ restarted' = (restarted \/ running)
    /\ UNCHANGED <<command, joint_states>>

(* It is not asked whether the controller runs already: one that does      *)
(* keeps its outputs.                                                      *)
Start ==
    /\ running' = TRUE
    /\ enabled' = ~DisabledOnStart
    /\ fault_latched' = FALSE /\ emergency_stopped' = FALSE
    /\ has_command' = FALSE
    /\ Ok
    /\ fresh' = FALSE /\ restarted' = (restarted \/ running)
    /\ UNCHANGED <<last_command, expired, joint_states>>

(* Mutant: the outputs stay as they are.                                   *)
StopOnly ==
    /\ running' = FALSE
    /\ enabled' = FALSE
    /\ Ok
    /\ UNCHANGED <<fault_latched, emergency_stopped, command, joint_states, history>>

Stop ==
    /\ running' = FALSE
    /\ ApplySafeOutput
    /\ Ok
    /\ UNCHANGED <<fault_latched, emergency_stopped, command>>

Enable ==
    /\ running
    /\ IF fault_latched \/ emergency_stopped
       THEN reply' = "failed" /\ UNCHANGED enabled
       ELSE Ok /\ enabled' = TRUE
    /\ UNCHANGED <<running, fault_latched, emergency_stopped, command, joint_states, history>>

Disable ==
    /\ running
    /\ ApplySafeOutput
    /\ Ok
    /\ UNCHANGED <<running, fault_latched, emergency_stopped, command>>

EmergencyStop ==
    /\ running
    /\ emergency_stopped' = TRUE
    /\ ApplySafeOutput
    /\ Ok
    /\ UNCHANGED <<running, fault_latched, command>>

ClearFault ==
    /\ running
    /\ fault_latched' = FALSE /\ emergency_stopped' = FALSE
    /\ ApplySafeOutput
    /\ Ok
    /\ UNCHANGED <<running, command>>

InjectFault ==
    /\ fault_latched' = TRUE
    /\ ApplySafeOutput
    /\ UNCHANGED <<running, emergency_stopped, command, reply>>

-----------------------------------------------------------------------------
(* SetCommand: the first of these that applies decides what the command    *)
(* does; clear_fault takes effect before the later ones are looked at.     *)

Latched(c) == ~c.clear_fault /\ (fault_latched \/ emergency_stopped)

ClearedBy(c) ==
    /\ fault_latched' = (fault_latched /\ ~c.clear_fault)
    /\ emergency_stopped' = (emergency_stopped /\ ~c.clear_fault)

(* Mutant: enable is obeyed whatever is latched.                           *)
EnablesAnyway(c) == c.enable

Enables(c) == c.enable /\ ~Latched(c)
EnabledBy(c) == enabled \/ Enables(c)

Stops(c) ==
    /\ c.emergency_stop
    /\ emergency_stopped' = TRUE
    /\ ApplySafeOutput
    /\ Ok
    /\ UNCHANGED <<fault_latched, command>>

Disables(c) ==
    /\ ~c.emergency_stop /\ c.disable
    /\ ClearedBy(c)
    /\ ApplySafeOutput
    /\ Ok
    /\ UNCHANGED command

(* Refused: enable while faulted, joints while disabled, faulted or        *)
(* invalid; the faults it cleared and the enable it obeyed stay.           *)
Refuses(c) ==
    /\ ~c.emergency_stop /\ ~c.disable
    /\ \/ c.enable /\ ~Enables(c)
       \/ c.joints # <<>> /\ (~EnabledBy(c) \/ Latched(c) \/ ~c.valid)
    /\ ClearedBy(c)
    /\ enabled' = EnabledBy(c)
    /\ reply' = "failed"
    /\ UNCHANGED <<command, joint_states, history>>

(* A command without joints: enable, clear_fault or nothing.               *)
AcceptsFlags(c) ==
    /\ ~c.emergency_stop /\ ~c.disable
    /\ c.joints = <<>>
    /\ c.enable => Enables(c)
    /\ ClearedBy(c)
    /\ enabled' = EnabledBy(c)
    /\ Ok
    /\ UNCHANGED <<command, joint_states, history>>

(* late: the sender's command_time_monotonic_ns is already that old.       *)
AcceptsJoints(c, late) ==
    /\ ~c.emergency_stop /\ ~c.disable
    /\ c.joints # <<>> /\ c.valid
    /\ c.enable => Enables(c)
    /\ EnabledBy(c) /\ ~Latched(c)
    /\ ClearedBy(c)
    /\ enabled' = TRUE
    /\ has_command' = TRUE
    /\ last_command' = c.joints
    /\ expired' = late
    /\ fresh' = TRUE /\ restarted' = FALSE
    /\ Ok
    /\ UNCHANGED joint_states

SetCommand(c) ==
    /\ running
    /\ \/ Stops(c)
       \/ Disables(c)
       \/ Refuses(c)
       \/ AcceptsFlags(c)
       \/ \E late \in BOOLEAN : AcceptsJoints(c, late)
    /\ UNCHANGED running

-----------------------------------------------------------------------------
(* Step: what an item makes of a joint's output.  A velocity or an effort  *)
(* the item does not set stays, except that of its own mode.               *)

Field(item, mode, field, old) ==
    IF item.mode = "disabled" THEN Zero
    ELSE IF item[field] # Unset THEN item[field]
    ELSE IF item.mode = mode THEN Zero
    ELSE old

Applied(item, old) ==
    [mode |-> item.mode,
     velocity |-> Field(item, "velocity", "velocity", old.velocity),
     effort |-> Field(item, "effort", "effort", old.effort)]

(* Mutant: the timeout only concerns a controller without a command.       *)
TimesOutIdle == ~has_command /\ HasTimeout /\ expired

TimesOut == has_command /\ HasTimeout /\ expired

Step ==
    /\ running
    /\ Ok
    /\ IF ~enabled
       THEN ApplySafeOutput /\ UNCHANGED has_command
       ELSE IF TimesOut
       THEN ApplySafeOutput /\ has_command' = FALSE
       ELSE /\ joint_states' =
                  IF has_command
                  THEN [j \in Joints |->
                          IF j \in DOMAIN last_command
                          THEN Applied(last_command[j], joint_states[j])
                          ELSE joint_states[j]]
                  ELSE joint_states
            /\ UNCHANGED <<enabled, has_command, history>>
    /\ UNCHANGED <<running, fault_latched, emergency_stopped, last_command, expired>>

(* Time passes.                                                            *)
Expire ==
    /\ has_command /\ ~expired
    /\ expired' = TRUE
    /\ UNCHANGED <<power, has_command, last_command, joint_states, reply, history>>

Operate ==
    \/ Start \/ Stop \/ NotRunning
    \/ Enable \/ Disable \/ EmergencyStop \/ ClearFault \/ InjectFault
    \/ \E c \in JointCommand : SetCommand(c)

Next == Operate \/ Step \/ Expire

Spec == Init /\ [][Next]_vars

-----------------------------------------------------------------------------
TypeOK ==
    /\ running \in BOOLEAN /\ enabled \in BOOLEAN
    /\ fault_latched \in BOOLEAN /\ emergency_stopped \in BOOLEAN
    /\ has_command \in BOOLEAN /\ expired \in BOOLEAN
    /\ last_command \in ItemSets
    /\ joint_states \in [Joints -> [mode : Modes, velocity : {Zero, Driven}, effort : {Zero, Driven}]]
    /\ reply \in {"ok", "failed"}
    /\ fresh \in BOOLEAN /\ restarted \in BOOLEAN

IsDriven(j) == joint_states[j].velocity = Driven \/ joint_states[j].effort = Driven

(***************************************************************************)
(* A controller that is stopped, or has a fault or an emergency stop       *)
(* latched, drives no joint, whatever calls it was given and in which      *)
(* order; nor does one that is not enabled, but for what Start() leaves of *)
(* one that ran: disabled or not, it keeps its outputs until its next step.*)
(***************************************************************************)
SafeUnlessEnabled ==
    /\ ~running \/ fault_latched \/ emergency_stopped => joint_states = SafeOutput
    /\ ~enabled /\ ~restarted => joint_states = SafeOutput

(***************************************************************************)
(* A joint starts to be driven only by a running, enabled controller with  *)
(* nothing latched, for the last command it accepted: one of since it was  *)
(* last started that drives this joint and whose time has not passed.  A   *)
(* disable, an emergency stop or a clear_fault in between does not make    *)
(* the command void: it is carried out again after the next enable.        *)
(***************************************************************************)
Drives(item) == item.velocity = Driven \/ item.effort = Driven

DrivenByCommand ==
    [][\A j \in Joints : ~IsDriven(j) /\ IsDriven(j)' =>
          /\ fresh
          /\ j \in DOMAIN last_command /\ Drives(last_command[j])
          /\ HasTimeout => ~expired
          /\ running /\ enabled /\ ~fault_latched /\ ~emergency_stopped]_vars

(***************************************************************************)
(* Once commands cease to come, the outputs are made safe: a driven joint  *)
(* does not stay driven for ever.  Start() on a controller that runs makes *)
(* an exception: it forgets the command and with it the time it came, so   *)
(* that what is enabled then stays driven until the next command.          *)
(***************************************************************************)
CommandComes == \E c \in JointCommand : SetCommand(c)

SilenceIsMadeSafe ==
    ~[]<><<CommandComes>>_vars =>
        \A j \in Joints : IsDriven(j) ~> ~IsDriven(j) \/ (enabled /\ restarted)

=============================================================================
