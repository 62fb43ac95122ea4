------------------------------- MODULE Context --------------------------------
(***************************************************************************)
(* The OpenEmber Link of one process: the global context (core/src/init    *)
(* and context), the transport session each context owns, and the nodes    *)
(* and endpoints made with it, which keep their context alive after it was *)
(* replaced.  Contexts are numbered in the order of their making.          *)
(***************************************************************************)
EXTENDS Naturals

CONSTANTS
    MaxContexts,   \* contexts made (bound of TLC's runs)
    NoContext

VARIABLES
    made,        \* how many contexts were made
    g_context,   \* the global context, or NoContext
    ok_,         \* the contexts whose ok_ is set
    opened_,     \* the contexts whose session is open
    nodes,       \* the contexts that nodes were made with
    endpoints,   \* publishers, subscribers, services and clients: kind (publisher, subscriber, service, client) and context
    outcome      \* what the last call came to: "ok", "false", "thrown", "undefined"

contextVars == <<made, g_context, ok_, opened_, nodes, endpoints, outcome>>

ContextInit ==
    /\ made = 0
    /\ g_context = NoContext
    /\ ok_ = {} /\ opened_ = {}
    /\ nodes = {} /\ endpoints = {}
    /\ outcome = "ok"

(* Ok()                                                                    *)
Ok == g_context \in ok_

(* A context that neither the global pointer nor a node holds is destroyed *)
(* and shut down.                                                          *)
Held(global) == nodes \cup {global}

(* InitContextLocked(): nothing to do, or a new context whose session      *)
(* opens or not; it stays the global one either way.                       *)
Init ==
    \/ /\ Ok
       /\ outcome' = "ok"
       /\ UNCHANGED <<made, g_context, ok_, opened_, nodes, endpoints>>
    \/ /\ ~Ok /\ made < MaxContexts
       /\ made' = made + 1
       /\ g_context' = made'
       /\ \E opens \in BOOLEAN :
             /\ opened_' = (opened_ \cap Held(made')) \cup (IF opens THEN {made'} ELSE {})
             /\ ok_' = (ok_ \cap Held(made')) \cup (IF opens THEN {made'} ELSE {})
             /\ outcome' = IF opens THEN "ok" ELSE "thrown"
       /\ UNCHANGED <<nodes, endpoints>>

(* Mutant: the global pointer is dropped; nodes keep the session open.     *)
ShutdownDrops ==
    /\ g_context' = NoContext
    /\ opened_' = opened_ \cap nodes
    /\ ok_' = ok_ \cap nodes
    /\ outcome' = "ok"
    /\ UNCHANGED <<made, nodes, endpoints>>

(* Shutdown() closes the session, whoever else holds the context.          *)
Shutdown ==
    /\ ok_' = ok_ \ {g_context}
    /\ opened_' = opened_ \ {g_context}
    /\ g_context' = NoContext
    /\ outcome' = "ok"
    /\ UNCHANGED <<made, nodes, endpoints>>

(* CreateNode(): also with a context that failed to open.                  *)
CreateNode ==
    /\ IF g_context = NoContext
       THEN outcome' = "thrown" /\ UNCHANGED nodes
       ELSE outcome' = "ok" /\ nodes' = nodes \cup {g_context}
    /\ UNCHANGED <<made, g_context, ok_, opened_, endpoints>>

(* The last node of a context goes, with the endpoints it keeps, and with  *)
(* the context unless that is the global one.                              *)
DestroyNodes(c) ==
    /\ c \in nodes
    /\ nodes' = nodes \ {c}
    /\ endpoints' = {e \in endpoints : e.context # c}
    /\ ok_' = IF c = g_context THEN ok_ ELSE ok_ \ {c}
    /\ opened_' = IF c = g_context THEN opened_ ELSE opened_ \ {c}
    /\ UNCHANGED <<made, g_context, outcome>>

(* The node's part of making an endpoint: an error of the transport, which *)
(* a session that is not open always gives, is thrown on.                  *)
Create(c, kind) ==
    /\ c \in nodes
    /\ \/ /\ c \in opened_
          /\ endpoints' = endpoints \cup {[kind |-> kind, context |-> c]}
          /\ outcome' = "ok"
       \/ /\ outcome' = "thrown"
          /\ UNCHANGED endpoints
    /\ UNCHANGED <<made, g_context, ok_, opened_, nodes>>

CreatePublisher(c)  == Create(c, "publisher")
CreateSubscriber(c) == Create(c, "subscriber")
CreateService(c)    == Create(c, "service")
CreateClient(c)     == Create(c, "client")

(* Publish(): any error, also that of a session closed since, is false.    *)
Publishes(e) ==
    /\ e \in endpoints /\ e.kind = "publisher"
    /\ \/ e.context \in opened_ /\ outcome' = "ok"
       \/ outcome' = "false"
    /\ UNCHANGED <<made, g_context, ok_, opened_, nodes, endpoints>>

(* Call(): any error is false; a client asks through a pointer to a session*)
(* that Shutdown() may have deleted.                                       *)
Calling(e) ==
    /\ e \in endpoints /\ e.kind = "client"
    /\ outcome' \in IF e.context \in opened_ THEN {"ok", "false"} ELSE {"undefined"}
    /\ UNCHANGED <<made, g_context, ok_, opened_, nodes, endpoints>>

ContextNext ==
    \/ Init \/ Shutdown \/ CreateNode
    \/ \E c \in nodes :
          \/ CreatePublisher(c) \/ CreateSubscriber(c)
          \/ CreateService(c) \/ CreateClient(c)
          \/ DestroyNodes(c)
    \/ \E e \in endpoints : Publishes(e) \/ Calling(e)

ContextSpec == ContextInit /\ [][ContextNext]_contextVars

(***************************************************************************)
(* However a program initialises, fails, shuts down and starts again, with *)
(* nodes of earlier contexts still about: it has one open session at most, *)
(* and that is the one of the global context, which Ok() tells.            *)
(***************************************************************************)
OneSession ==
    /\ opened_ \subseteq {g_context}
    /\ Ok <=> g_context \in opened_

=============================================================================
