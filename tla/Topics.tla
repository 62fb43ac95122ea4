------------------------------- MODULE Topics --------------------------------
(***************************************************************************)
(* The topics between a node and the services that subscribe to it, as the *)
(* program uses them (core's Publisher and Subscriber over zenoh, volatile *)
(* and best effort): what one session publishes arrives in order or not at *)
(* all, and what an incarnation of a node published may arrive after its   *)
(* end, in any order with what the next incarnation publishes.             *)
(*                                                                         *)
(* The subscribers share no state, so a behaviour follows one of them.     *)
(***************************************************************************)
EXTENDS Naturals, Sequences

CONSTANTS
    MaxStarts,     \* incarnations of the node (bound of TLC's runs)
    WireCapacity,  \* messages under way per incarnation (bound of TLC's runs)
    MaxLost        \* messages that may be lost (bound of TLC's runs)

VARIABLES
    service,   \* the subscriber this behaviour follows
    wire,      \* the messages under way to it, by incarnation
    losses     \* how many may still be lost

topicVars == <<service, wire, losses>>

Subscriptions ==
    [health_monitor |-> {"heartbeat", "diagnostics"},
     device_manager |-> {"device info", "device state"},
     launch_manager |-> {"node info", "heartbeat"},
     nobody |-> {}]

Services == DOMAIN Subscriptions

TopicsInit ==
    /\ service \in Services
    /\ wire = [p \in 1..MaxStarts |-> <<>>]
    /\ losses \in 0..MaxLost

Followed(m) == m.topic \in Subscriptions[service]

(* publish() by incarnation p: a message to nobody, one sent, one lost.    *)
Publish(p, m) ==
    /\ UNCHANGED service
    /\ \/ /\ ~Followed(m)
          /\ UNCHANGED <<wire, losses>>
       \/ /\ Followed(m) /\ Len(wire[p]) < WireCapacity
          /\ wire' = [wire EXCEPT ![p] = Append(@, m)]
          /\ UNCHANGED losses
       \/ /\ Followed(m) /\ losses > 0
          /\ losses' = losses - 1
          /\ UNCHANGED wire

(* The callback of the subscription takes the next message.                *)
Receive(p, m) ==
    /\ wire[p] # <<>> /\ m = Head(wire[p])
    /\ wire' = [wire EXCEPT ![p] = Tail(@)]
    /\ UNCHANGED <<service, losses>>

=============================================================================
