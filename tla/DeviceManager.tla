---------------------------- MODULE DeviceManager ----------------------------
(***************************************************************************)
(* The DeviceRegistry of device_manager (system/device_manager/main.cpp):  *)
(* the devices it hears of, by the callbacks of its subscriptions.  Its    *)
(* one static device, which only its own main loop writes, with the same   *)
(* values every time, is left out.                                         *)
(***************************************************************************)
CONSTANTS Devices   \* the ids it may hear of

NotReported == [availability |-> "offline", health |-> "stale"]

(* devices_: has_info, and the state as a set, empty unless has_state.     *)
VARIABLES devices

RegistryInit == devices = [d \in Devices |-> [info |-> FALSE, state |-> {}]]

(* Mutant: the placeholder replaces a state that arrived before.           *)
UpdateInfoReset(d) ==
    devices' = [devices EXCEPT ![d] = [info |-> TRUE, state |-> {NotReported}]]

(* A device that has not reported its state counts as offline.             *)
UpdateInfo(d) ==
    devices' = [devices EXCEPT ![d] =
                    [info |-> TRUE,
                     state |-> IF @.state = {} THEN {NotReported} ELSE @.state]]

UpdateState(d, s) == devices' = [devices EXCEPT ![d].state = {s}]

(* The states Query() returns for a request of every device.               *)
Query == [d \in {x \in Devices : devices[x].info} |-> devices[d].state]

=============================================================================
