---------------------------- MODULE ServiceCalls -----------------------------
(***************************************************************************)
(* Request and response over the transport: ServiceClient::Call() of the   *)
(* clients, and what zenoh does with their queries.  The callback of a     *)
(* query writes into the stack frame of the call that asked, which may be  *)
(* gone by then or may belong to a later call.                             *)
(***************************************************************************)
EXTENDS Naturals, FiniteSetsExt

CONSTANTS
    Clients,    \* processes that call, one call at a time each
    Requests,   \* what they may ask; a request has an "op", and a "set" the
                \* names it writes and those of them that shall be fixed
    MaxCalls    \* calls all clients make (bound of TLC's runs)

VARIABLES
    call,       \* call[c]: n, waiting, request and promise of c's last call
    queries,    \* queries on their way to the server: client, n and request
    open,       \* queries zenoh still expects a reply to: <<client, n>>
    disturbed   \* clients a call of which went without the server's answer

callVars == <<call, queries, open, disturbed>>

Empty  == [kind |-> "empty"]
Failed == [kind |-> "error"]

Over(n) == [n |-> n, waiting |-> FALSE, request |-> Empty, promise |-> Empty]

CallsInit ==
    /\ call = [c \in Clients |-> Over(0)]
    /\ queries = {} /\ open = {} /\ disturbed = {}

Calls == MapThenSumSet(LAMBDA c : call[c].n, Clients)

(* Call(): the query is sent with the timeout the caller waits for.        *)
Begin(c, request) ==
    LET n == call[c].n + 1 IN
    /\ ~call[c].waiting /\ Calls < MaxCalls
    /\ call' = [call EXCEPT ![c] = [n |-> n, waiting |-> TRUE, request |-> request, promise |-> Empty]]
    /\ queries' = queries \cup {[client |-> c, n |-> n, request |-> request]}
    /\ open' = open \cup {<<c, n>>}
    /\ UNCHANGED disturbed

(* on_reply: the promise on the frame it captured.  When that call is over *)
(* the write is undefined: it is lost, or meets the frame of the next call,*)
(* whose own reply then comes too late.                                    *)
OnReply(c, n, reply) ==
    /\ open' = open \ {<<c, n>>}
    /\ \/ /\ <<c, n>> \in open /\ call[c].waiting
          /\ call[c].promise = Empty
          /\ call' = [call EXCEPT ![c].promise = reply]
       \/ /\ <<c, n>> \in open =>
                call[c].n # n \/ ~call[c].waiting \/ call[c].promise # Empty
          /\ UNCHANGED call
    /\ disturbed' = disturbed \cup (IF reply = Failed THEN {c} ELSE {})

(* The future is ready, and what Client::Call() makes of it: a response,   *)
(* nullopt, or the exception of an answer that cannot be read.             *)
Outcome(promise) ==
    CASE promise.kind = "error" -> "nullopt"
      [] promise.kind = "text"  -> "thrown"
      [] OTHER                  -> "response"

Finish(c) ==
    /\ call[c].waiting /\ call[c].promise # Empty
    /\ call' = [call EXCEPT ![c] = Over(call[c].n)]
    /\ UNCHANGED <<queries, open, disturbed>>

(* wait_for() runs out: the query stays with zenoh.                        *)
GiveUp(c) ==
    /\ call[c].waiting /\ call[c].promise = Empty
    /\ call' = [call EXCEPT ![c] = Over(call[c].n)]
    /\ disturbed' = disturbed \cup {c}
    /\ UNCHANGED <<queries, open>>

(* zenoh's own timeout of a query: an error reply.                         *)
Expire(c, n) ==
    /\ <<c, n>> \in open
    /\ OnReply(c, n, Failed)
    /\ UNCHANGED queries

(* A query that finds no queryable is over without any reply.              *)
Unanswered(q) ==
    /\ queries' = queries \ {q}
    /\ open' = open \ {<<q.client, q.n>>}
    /\ UNCHANGED <<call, disturbed>>

CallsNext ==
    \E c \in Clients :
       \/ \E r \in Requests : Begin(c, r)
       \/ Finish(c) \/ GiveUp(c)
       \/ \E n \in 1..MaxCalls : Expire(c, n)

=============================================================================
