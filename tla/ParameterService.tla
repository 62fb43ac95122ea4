-------------------------- MODULE ParameterService ---------------------------
(***************************************************************************)
(* config_service: the parameters, the services /parameters/get and        *)
(* /parameters/set that clients call, and the events on the topic          *)
(* /parameters/events.  Each query is answered by a thread of its own.  A  *)
(* value is the number of the accepted set that wrote it.                  *)
(***************************************************************************)
EXTENDS ServiceCalls

CONSTANTS
    Defaults,    \* the store of a new process: name -> [value, read_only]
    NoName,      \* the empty name
    MaxStarts    \* starts of the process (bound of TLC's runs)

(* No set has written the values of a new store.                           *)
ASSUME DefaultsAssumption == \A name \in DOMAIN Defaults : Defaults[name].value = 0

VARIABLES
    starts, up,      \* how often config_service was started, and whether it runs
    parameters_,     \* the store: name -> [value, read_only]
    sets,            \* how many sets were accepted
    handlers,        \* callbacks under way: client, n, changed and response
    announced,       \* what the events since the last start say: name -> value
    overlapped,      \* two set calls were under way at once
    known            \* known[c]: values of c's own sets, answered "ok" since then

serviceVars == <<starts, up, parameters_, sets, handlers, announced, overlapped, known>>
vars == <<callVars, serviceVars>>

Values(names) == [name \in names |-> parameters_[name].value]
DefaultValues == [name \in DOMAIN Defaults |-> Defaults[name].value]
Nothing == <<>>   \* the empty function

(* The entries of new written into old.                                    *)
Updated(old, new) ==
    [n \in DOMAIN old \cup DOMAIN new |-> IF n \in DOMAIN new THEN new[n] ELSE old[n]]

ServiceInit ==
    /\ starts = 0 /\ up = FALSE
    /\ parameters_ = Defaults
    /\ sets = 0 /\ handlers = {}
    /\ announced = DefaultValues
    /\ overlapped = FALSE
    /\ known = [c \in Clients |-> Nothing]

(* main(): the store is built anew, nothing is read back or announced.     *)
Start ==
    /\ ~up /\ starts < MaxStarts
    /\ starts' = starts + 1 /\ up' = TRUE
    /\ parameters_' = Defaults
    /\ announced' = DefaultValues
    /\ known' = [c \in Clients |-> Nothing]
    /\ UNCHANGED <<callVars, sets, handlers, overlapped>>

(* Two set calls under way at once: a call that was given up may still be. *)
Setting(calls, c) == calls[c].waiting /\ calls[c].request.op = "set"

Contended(calls, loose) ==
    \E c, d \in Clients :
       Setting(calls, c) /\ (d \in loose \/ (c # d /\ Setting(calls, d)))

(* The process is killed, with its callbacks.                              *)
Kill ==
    /\ up /\ up' = FALSE
    /\ handlers' = {}
    /\ UNCHANGED <<callVars, starts, parameters_, sets, announced, overlapped, known>>

(* Queries that come while it is down.                                     *)
Refused(q) ==
    /\ ~up
    /\ Unanswered(q)
    /\ UNCHANGED serviceVars

(* ParameterStore::Get(): the parameters asked for that exist, or all.     *)
Get(names) ==
    Values(IF names = {} THEN DOMAIN parameters_ ELSE names \cap DOMAIN parameters_)

(* ParameterStore::Set(): all of the names may be written, or none is.     *)
Writable(names) ==
    /\ NoName \notin names
    /\ \A name \in names \cap DOMAIN parameters_ : ~parameters_[name].read_only

(* Put(): value and definition, as the client has them.                    *)
Put(names, fixed, value) ==
    Updated(parameters_, [name \in names |-> [value |-> value, read_only |-> name \in fixed]])

Handler(q, changed, response) ==
    [client |-> q.client, n |-> q.n, changed |-> changed, response |-> response]

Taken(q) ==
    /\ up /\ q \in queries
    /\ queries' = queries \ {q}
    /\ UNCHANGED <<call, open, disturbed, starts, up, announced, overlapped, known>>

(* Mutant: answered from the values that were announced last.              *)
HandleGetFromEvents(q) ==
    /\ q.request.op = "get"
    /\ Taken(q)
    /\ handlers' = handlers \cup
          {Handler(q, Nothing, [kind |-> "get", values |-> announced])}
    /\ UNCHANGED <<parameters_, sets>>

(* The callback of /parameters/get.                                        *)
HandleGet(q) ==
    /\ q.request.op = "get"
    /\ Taken(q)
    /\ handlers' = handlers \cup
          {Handler(q, Nothing, [kind |-> "get", values |-> Get(q.request.names)])}
    /\ UNCHANGED <<parameters_, sets>>

(* The callback of /parameters/set, up to the end of ParameterStore::Set().*)
HandleSet(q) ==
    LET names   == q.request.names
        changed == [name \in names |-> sets + 1]
        SetResponse(ok, values) == [kind |-> "set", ok |-> ok, values |-> values, since |-> starts]
    IN
    /\ q.request.op = "set"
    /\ Taken(q)
    /\ IF Writable(names)
       THEN /\ sets' = sets + 1
            /\ parameters_' = Put(names, q.request.fixed, sets')
            /\ handlers' = handlers \cup {Handler(q, changed, SetResponse(TRUE, changed))}
       ELSE /\ handlers' = handlers \cup {Handler(q, Nothing, SetResponse(FALSE, Nothing))}
            /\ UNCHANGED <<sets, parameters_>>

(* A request that cannot be read: the text of the error is the answer.     *)
HandleUnreadable(q) ==
    /\ q.request.op = "unreadable"
    /\ Taken(q)
    /\ handlers' = handlers \cup {Handler(q, Nothing, [kind |-> "text"])}
    /\ UNCHANGED <<parameters_, sets>>

(* The event of a change, after the lock of the store was released.        *)
Publish(h) ==
    /\ h \in handlers /\ h.changed # Nothing
    /\ announced' = Updated(announced, h.changed)
    /\ handlers' = (handlers \ {h}) \cup {[h EXCEPT !.changed = Nothing]}
    /\ UNCHANGED <<callVars, starts, up, parameters_, sets, overlapped, known>>

(* The callback ends and its response travels to the client.               *)
Reply(h) ==
    /\ h \in handlers /\ h.changed = Nothing
    /\ handlers' = handlers \ {h}
    /\ OnReply(h.client, h.n, h.response)
    /\ UNCHANGED <<queries, starts, up, parameters_, sets, announced, overlapped, known>>

(* What the steps of the clients mean for what the properties remember.    *)
Returns(c, kind) ==
    /\ call[c].waiting /\ ~call'[c].waiting
    /\ call[c].promise.kind = kind /\ Outcome(call[c].promise) = "response"

ClientStep ==
    /\ CallsNext
    /\ overlapped' = (overlapped \/ Contended(call', disturbed'))
    /\ known' = [c \in Clients |->
          IF Returns(c, "set") /\ call[c].promise.ok /\ call[c].promise.since = starts
          THEN Updated(known[c], call[c].promise.values) ELSE known[c]]
    /\ UNCHANGED <<starts, up, parameters_, sets, handlers, announced>>

ParametersInit == CallsInit /\ ServiceInit

ParametersNext ==
    \/ ClientStep
    \/ Start \/ Kill
    \/ \E q \in queries : Refused(q) \/ HandleGet(q) \/ HandleSet(q) \/ HandleUnreadable(q)
    \/ \E h \in handlers : Publish(h) \/ Reply(h)

(***************************************************************************)
(* A client none of whose calls went without an answer finds in the answer *)
(* of a get its own earlier sets that were answered with ok, or something  *)
(* that was accepted after them, unless config_service was started again   *)
(* in between.                                                             *)
(***************************************************************************)
OwnSetsAreSeen ==
    \A c \in Clients \ disturbed :
       Returns(c, "get") =>
          \A name \in DOMAIN known[c] \cap DOMAIN call[c].promise.values :
             call[c].promise.values[name] >= known[c][name]

AnsweredSetsAreSeen == [][OwnSetsAreSeen]_vars

(***************************************************************************)
(* When no change waits to be announced, whoever followed the events from  *)
(* the start knows the values in the store, provided that no two set calls *)
(* were ever under way at once.                                            *)
(***************************************************************************)
EventsTellTheTruth ==
    up /\ ~overlapped /\ (\A h \in handlers : h.changed = Nothing)
       => announced = Values(DOMAIN parameters_)

(***************************************************************************)
(* What config_service tells of its parameters, asked or not, is so.       *)
(***************************************************************************)
ParametersAreTold == []EventsTellTheTruth /\ AnsweredSetsAreSeen

=============================================================================
