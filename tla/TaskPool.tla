------------------------------ MODULE TaskPool ------------------------------
(***************************************************************************)
(* What the thread pool of components/thread_pool promises its callers     *)
(* (the comments of thread_pool.hpp): tasks are accepted until the pool is *)
(* shut down, each accepted task is run once by one of a fixed number of   *)
(* workers, the highest priority first and in the order of submission      *)
(* among equals, unless a shutdown discards the tasks not begun.           *)
(***************************************************************************)
EXTENDS Integers, Sequences, FiniteSets

CONSTANTS
    Tasks,       \* the tasks ever submitted
    Priority,    \* the priority of each task
    WorkerCount  \* the number of tasks that may run at a time

VARIABLES
    accepted,    \* the tasks accepted, in the order of submission
    begun,       \* the tasks handed to a worker
    ended,       \* the tasks that have been run to their end
    dropped,     \* the tasks a shutdown discarded
    open         \* whether new tasks are accepted

poolVars == <<accepted, begun, ended, dropped, open>>

Accepted == {accepted[i] : i \in DOMAIN accepted}
Pending == Accepted \ (begun \cup dropped)

(* i comes before j in the order in which tasks are handed out.            *)
Before(i, j) ==
    \/ Priority[accepted[i]] > Priority[accepted[j]]
    \/ Priority[accepted[i]] = Priority[accepted[j]] /\ i < j

Init ==
    /\ accepted = <<>>
    /\ begun = {}
    /\ ended = {}
    /\ dropped = {}
    /\ open = TRUE

Accept(t) ==
    /\ open
    /\ t \notin Accepted
    /\ accepted' = Append(accepted, t)
    /\ UNCHANGED <<begun, ended, dropped, open>>

Begin(i) ==
    /\ accepted[i] \in Pending
    /\ \A j \in DOMAIN accepted : accepted[j] \in Pending => i = j \/ Before(i, j)
    /\ Cardinality(begun \ ended) < WorkerCount
    /\ begun' = begun \cup {accepted[i]}
    /\ UNCHANGED <<accepted, ended, dropped, open>>

End(t) ==
    /\ t \in begun \ ended
    /\ ended' = ended \cup {t}
    /\ UNCHANGED <<accepted, begun, dropped, open>>

ShutDown(drain) ==
    /\ open
    /\ open' = FALSE
    /\ dropped' = IF drain THEN dropped ELSE Pending
    /\ UNCHANGED <<accepted, begun, ended>>

Next ==
    \/ \E t \in Tasks : Accept(t) \/ End(t)
    \/ \E i \in DOMAIN accepted : Begin(i)
    \/ \E drain \in BOOLEAN : ShutDown(drain)

Spec == Init /\ [][Next]_poolVars

=============================================================================
