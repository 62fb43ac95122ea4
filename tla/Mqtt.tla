-------------------------------- MODULE Mqtt ---------------------------------
(***************************************************************************)
(* The MQTT client (components/mqtt/mqtt_client.cpp): the handle of the    *)
(* Paho library, the copy of the callback that the library calls from a    *)
(* thread of its own, and the connected flag.  The library and the network *)
(* are external: any of its calls may fail, the connection may be lost, and*)
(* messages arrive while a callback is registered and the connection is up.*)
(***************************************************************************)
EXTENDS Integers, FiniteSets

CONSTANTS MaxCallbacks   \* copies of callbacks made (bound of TLC's runs)

VARIABLES
    client,        \* is there a handle?
    connected,
    storage,       \* callback_storage: the number of the copy, or 0
    copies,        \* the copies allocated
    copied,        \* how many were made
    context,       \* the copy the library was given for this handle, or 0
    link,          \* is the handle connected to the broker?
    calling,       \* the copy the library's thread is in, or 0
    arrived,       \* messages the library has handed over that are not freed
    answer         \* of the last call: "ok", "EBUSY", "EINVAL", "failed"

mqttVars == <<client, connected, storage, copies, copied, context, link, calling, arrived, answer>>

MqttInit ==
    /\ client = FALSE /\ connected = FALSE /\ link = FALSE
    /\ storage = 0 /\ copies = {} /\ copied = 0 /\ context = 0
    /\ calling = 0 /\ arrived = 0
    /\ answer = "ok"

(* connect(): the copy of the last attempt goes, a new one is made when    *)
(* there is a callback; what fails after the handle was made destroys both,*)
(* a handle that cannot be made leaves the copy for the next call.         *)
Copying(on) == IF on THEN copied + 1 ELSE 0

Busy == client /\ answer' = "EBUSY" /\ UNCHANGED <<client, connected, storage, copies, copied, context, link>>

NoHandle(new) ==
    /\ answer' = "failed"
    /\ storage' = new
    /\ copies' = (copies \ {storage}) \cup ({new} \ {0})
    /\ UNCHANGED <<client, connected, context, link>>

NotConnected ==
    /\ answer' = "failed"
    /\ storage' = 0 /\ copies' = copies \ {storage}
    /\ UNCHANGED <<client, connected, context, link>>

Connected(new) ==
    /\ answer' = "ok"
    /\ client' = TRUE /\ connected' = TRUE /\ link' = TRUE
    /\ storage' = new /\ context' = new
    /\ copies' = (copies \ {storage}) \cup ({new} \ {0})

connect(on) ==
    /\ \/ Busy
       \/ /\ ~client /\ copied < MaxCallbacks
          /\ copied' = IF on THEN copied + 1 ELSE copied
          /\ NoHandle(Copying(on)) \/ NotConnected \/ Connected(Copying(on))
    /\ UNCHANGED <<calling, arrived>>

(* shutdown(), by disconnect() and the destructor: the library waits for   *)
(* its thread, though not for ever, and not for the caller's own.          *)
shutdown ==
    /\ client' = FALSE /\ connected' = FALSE /\ link' = FALSE /\ context' = 0
    /\ storage' = 0 /\ copies' = copies \ {storage}
    /\ answer' = "ok"
    /\ UNCHANGED <<copied, calling, arrived>>

(* publish_raw(), subscribe(), unsubscribe(): refused without a handle and *)
(* for bad arguments, else what the library makes of it; whether the       *)
(* connection is still there only the library's answer tells.              *)
Asks ==
    /\ answer' \in IF ~client \/ ~connected THEN {"EINVAL"}
                   ELSE {"EINVAL", "failed"} \cup (IF link THEN {"ok"} ELSE {})
    /\ UNCHANGED <<client, connected, storage, copies, copied, context, link, calling, arrived>>

publish_raw == Asks
subscribe == Asks
unsubscribe == Asks

(* on_connection_lost() notes nothing.                                     *)
on_connection_lost ==
    /\ link /\ link' = FALSE
    /\ UNCHANGED <<client, connected, storage, copies, copied, context, calling, arrived, answer>>

(* on_message_arrived(): calls the copy, and frees the message after it.   *)
MessageArrives ==
    /\ link /\ context # 0 /\ calling = 0
    /\ calling' = context /\ arrived' = arrived + 1
    /\ UNCHANGED <<client, connected, storage, copies, copied, context, link, answer>>

CallbackReturns ==
    /\ calling # 0 /\ calling' = 0 /\ arrived' = arrived - 1
    /\ UNCHANGED <<client, connected, storage, copies, copied, context, link, answer>>

MqttNext ==
    \/ \E on \in BOOLEAN : connect(on)
    \/ shutdown
    \/ publish_raw \/ subscribe \/ unsubscribe
    \/ on_connection_lost
    \/ MessageArrives \/ CallbackReturns

MqttSpec == MqttInit /\ [][MqttNext]_mqttVars

(***************************************************************************)
(* Whatever failed, was lost or called out of turn: one copy of a callback *)
(* exists at most, and it is the one the library calls; between calls a    *)
(* handle is there exactly when the client says it is connected, even when *)
(* the connection is gone - then only disconnect() leads back to a         *)
(* connection; and every message handed over is freed once.                *)
(***************************************************************************)
ClientAccounted ==
    /\ copies = {storage} \ {0}
    /\ client <=> connected
    /\ client => context = storage
    /\ arrived = IF calling = 0 THEN 0 ELSE 1

=============================================================================
