----------------------------- MODULE ThreadPool -----------------------------
(***************************************************************************)
(* The thread pool of components/thread_pool: workers that take tasks from *)
(* a priority queue, and the threads that call post(), wait_idle() and     *)
(* shutdown().  A step is one critical section of mutex_; the notify_*()   *)
(* calls made after the mutex is released are steps of their own.          *)
(***************************************************************************)
EXTENDS Integers, Sequences, FiniteSets, SequencesExt

CONSTANTS
    Workers,     \* the threads of workers_
    Clients,     \* the other threads
    Tasks,       \* the tasks ever posted, each at most once
    Priority,    \* the priority each is posted with
    Drains,      \* the values of drain that shutdown() is called with
    NoTask

ASSUME ThreadPoolAssumption ==
    /\ IsFiniteSet(Workers) /\ Workers # {}
    /\ Workers \cap Clients = {}
    /\ NoTask \notin Tasks
    /\ Priority \in [Tasks -> Int]
    /\ Drains \subseteq BOOLEAN

Threads == Workers \cup Clients

VARIABLES
    queue,       \* queue_, in the order of seq
    stopping,    \* stopping_, which is ~accept_ in every state
    busy,        \* busy_
    handles,     \* the threads in workers_
    wpc,         \* where each worker is in worker_loop()
    task,        \* the task each worker has taken
    cpc,         \* where each client is
    notify,      \* the call of cv_ a thread is about to make
    accepted,    \* history: the tasks posted, in order
    ended,       \* history: the tasks run to their end
    dropped,     \* history: the tasks shutdown(false) popped
    awaited      \* history: what was accepted when wait_idle() was called

state == <<queue, stopping, busy, handles>>
threads == <<wpc, task, cpc, notify>>
history == <<accepted, ended, dropped, awaited>>
vars == <<state, threads, history>>

Accepted == ToSet(accepted)
Begun == Accepted \ (ToSet(queue) \cup dropped)

Init ==
    /\ queue = <<>>
    /\ stopping = FALSE
    /\ busy = 0
    /\ handles = Workers
    /\ wpc = [w \in Workers |-> "checking"]
    /\ task = [w \in Workers |-> NoTask]
    /\ cpc = [c \in Clients |-> "free"]
    /\ notify = [t \in Threads |-> "none"]
    /\ accepted = <<>>
    /\ ended = {}
    /\ dropped = {}
    /\ awaited = [c \in Clients |-> {}]

-----------------------------------------------------------------------------
(* The condition variables.                                                *)

Asleep == {w \in Workers : wpc[w] = "asleep"}
Waiting == {c \in Clients : cpc[c] = "waiting"}

(* A sleeping worker is woken up to check the predicate again.             *)
Wake(W) == wpc' = [w \in Workers |-> IF w \in W THEN "checking" ELSE wpc[w]]

(* cv_.notify_one() of post(): lost when no worker sleeps.                 *)
NotifyOne(t) ==
    /\ notify[t] = "one"
    /\ notify' = [notify EXCEPT ![t] = "none"]
    /\ IF Asleep = {} THEN UNCHANGED wpc ELSE \E w \in Asleep : Wake({w})
    /\ UNCHANGED <<state, task, cpc, history>>

(* cv_.notify_all() of shutdown().                                         *)
NotifyAll(c) ==
    /\ notify[c] = "all"
    /\ notify' = [notify EXCEPT ![c] = "none"]
    /\ Wake(Asleep)
    /\ UNCHANGED <<state, task, cpc, history>>

(* A wait may also return with no notification.                            *)
SpuriousWakeup(t) ==
    /\ \/ t \in Asleep /\ Wake({t}) /\ UNCHANGED cpc
       \/ t \in Waiting /\ cpc' = [cpc EXCEPT ![t] = "checking"] /\ UNCHANGED wpc
    /\ UNCHANGED <<state, task, notify, history>>

-----------------------------------------------------------------------------
(* post(), from a client or from the task a worker runs.                   *)

MayCall(t) ==
    /\ notify[t] = "none"
    /\ IF t \in Workers THEN wpc[t] = "running" ELSE cpc[t] = "free"

(* Mutant: the notification is forgotten.                                  *)
PostSilently(t, x) ==
    /\ MayCall(t)
    /\ x \notin Accepted
    /\ ~stopping
    /\ queue' = Append(queue, x)
    /\ accepted' = Append(accepted, x)
    /\ UNCHANGED <<stopping, busy, handles, threads, ended, dropped, awaited>>

(* Once the pool is stopping, post() throws and changes nothing.           *)
Post(t, x) ==
    /\ MayCall(t)
    /\ x \notin Accepted
    /\ ~stopping
    /\ queue' = Append(queue, x)
    /\ notify' = [notify EXCEPT ![t] = "one"]
    /\ accepted' = Append(accepted, x)
    /\ UNCHANGED <<stopping, busy, handles, wpc, task, cpc, ended, dropped, awaited>>

-----------------------------------------------------------------------------
(* worker_loop()                                                           *)

(* Mutant: the latest of equal priority first.                             *)
LaterFirst(i, j) ==
    \/ Priority[queue[i]] > Priority[queue[j]]
    \/ Priority[queue[i]] = Priority[queue[j]] /\ i >= j

(* Task::operator<: the task that top() returns.                           *)
First(i, j) ==
    \/ Priority[queue[i]] > Priority[queue[j]]
    \/ Priority[queue[i]] = Priority[queue[j]] /\ i <= j

Sleep(w) ==
    /\ wpc[w] = "checking"
    /\ ~stopping /\ queue = <<>>
    /\ wpc' = [wpc EXCEPT ![w] = "asleep"]
    /\ UNCHANGED <<state, task, cpc, notify, history>>

(* Mutant: a stopping pool is left with tasks in its queue.                *)
ExitAtOnce(w) ==
    /\ wpc[w] = "checking"
    /\ stopping
    /\ wpc' = [wpc EXCEPT ![w] = "exited"]
    /\ UNCHANGED <<state, task, cpc, notify, history>>

Exit(w) ==
    /\ wpc[w] = "checking"
    /\ stopping /\ queue = <<>>
    /\ wpc' = [wpc EXCEPT ![w] = "exited"]
    /\ UNCHANGED <<state, task, cpc, notify, history>>

(* Mutant: a worker that has taken a task is not counted.                  *)
TakeUncounted(w) ==
    /\ wpc[w] = "checking"
    /\ \E i \in DOMAIN queue :
          /\ \A j \in DOMAIN queue : First(i, j)
          /\ queue' = RemoveAt(queue, i)
          /\ task' = [task EXCEPT ![w] = queue[i]]
    /\ wpc' = [wpc EXCEPT ![w] = "running"]
    /\ UNCHANGED <<busy, stopping, handles, cpc, notify, history>>

Take(w) ==
    /\ wpc[w] = "checking"
    /\ \E i \in DOMAIN queue :
          /\ \A j \in DOMAIN queue : First(i, j)
          /\ queue' = RemoveAt(queue, i)
          /\ task' = [task EXCEPT ![w] = queue[i]]
    /\ busy' = busy + 1
    /\ wpc' = [wpc EXCEPT ![w] = "running"]
    /\ UNCHANGED <<stopping, handles, cpc, notify, history>>

(* The task returns or throws, which the worker catches.                   *)
Run(w) ==
    /\ wpc[w] = "running"
    /\ notify[w] = "none"
    /\ ended' = ended \cup {task[w]}
    /\ wpc' = [wpc EXCEPT ![w] = "ran"]
    /\ UNCHANGED <<state, task, cpc, notify, accepted, dropped, awaited>>

(* Mutant: the wait_idle() callers are not notified.                       *)
CompleteSilently(w) ==
    /\ wpc[w] = "ran"
    /\ busy' = busy - 1
    /\ wpc' = [wpc EXCEPT ![w] = "checking"]
    /\ task' = [task EXCEPT ![w] = NoTask]
    /\ UNCHANGED <<cpc, queue, stopping, handles, notify, history>>

(* idle_cv_ is notified with the mutex held, when nothing is left.         *)
Complete(w) ==
    /\ wpc[w] = "ran"
    /\ busy' = busy - 1
    /\ wpc' = [wpc EXCEPT ![w] = "checking"]
    /\ task' = [task EXCEPT ![w] = NoTask]
    /\ cpc' = IF queue = <<>> /\ busy' = 0
              THEN [c \in Clients |-> IF c \in Waiting THEN "checking" ELSE cpc[c]]
              ELSE cpc
    /\ UNCHANGED <<queue, stopping, handles, notify, history>>

-----------------------------------------------------------------------------
(* wait_idle()                                                             *)

WaitIdle(c) ==
    /\ MayCall(c)
    /\ cpc' = [cpc EXCEPT ![c] = "checking"]
    /\ awaited' = [awaited EXCEPT ![c] = Accepted]
    /\ UNCHANGED <<state, wpc, task, notify, accepted, ended, dropped>>

Idle == queue = <<>> /\ busy = 0

WaitMore(c) ==
    /\ cpc[c] = "checking"
    /\ ~Idle
    /\ cpc' = [cpc EXCEPT ![c] = "waiting"]
    /\ UNCHANGED <<state, wpc, task, notify, history>>

WaitEnds(c) ==
    /\ cpc[c] = "checking"
    /\ Idle
    /\ cpc' = [cpc EXCEPT ![c] = "free"]
    /\ awaited' = [awaited EXCEPT ![c] = {}]
    /\ UNCHANGED <<state, wpc, task, notify, accepted, ended, dropped>>

-----------------------------------------------------------------------------
(* shutdown()                                                              *)

(* Mutant: the sleeping workers are not told.                              *)
ShutdownSilently(c, drain) ==
    /\ MayCall(c)
    /\ ~stopping
    /\ stopping' = TRUE
    /\ queue' = IF drain THEN queue ELSE <<>>
    /\ dropped' = IF drain THEN dropped ELSE ToSet(queue)
    /\ cpc' = [cpc EXCEPT ![c] = "joining"]
    /\ UNCHANGED <<notify, busy, handles, wpc, task, accepted, ended, awaited>>

Shutdown(c, drain) ==
    /\ MayCall(c)
    /\ ~stopping
    /\ stopping' = TRUE
    /\ queue' = IF drain THEN queue ELSE <<>>
    /\ dropped' = IF drain THEN dropped ELSE ToSet(queue)
    /\ notify' = [notify EXCEPT ![c] = "all"]
    /\ cpc' = [cpc EXCEPT ![c] = "joining"]
    /\ UNCHANGED <<busy, handles, wpc, task, accepted, ended, awaited>>

(* A shutdown() that is not the first returns at once, joined or not, and  *)
(* changes nothing.                                                        *)
Joined(c) ==
    /\ cpc[c] = "joining"
    /\ notify[c] = "none"
    /\ \A w \in handles : wpc[w] = "exited"
    /\ handles' = {}
    /\ cpc' = [cpc EXCEPT ![c] = "free"]
    /\ UNCHANGED <<queue, stopping, busy, wpc, task, notify, accepted, ended, dropped, awaited>>

-----------------------------------------------------------------------------
WorkerNext(w) ==
    \/ Sleep(w) \/ Exit(w) \/ Take(w) \/ Run(w) \/ Complete(w) \/ NotifyOne(w)

(* What a client does once it has called a method.                         *)
CallProceeds(c) ==
    NotifyOne(c) \/ NotifyAll(c) \/ WaitMore(c) \/ WaitEnds(c) \/ Joined(c)

ClientCalls(c) ==
    \/ WaitIdle(c)
    \/ \E drain \in Drains : Shutdown(c, drain)

Next ==
    \/ \E w \in Workers : WorkerNext(w)
    \/ \E c \in Clients : CallProceeds(c) \/ ClientCalls(c)
    \/ \E t \in Threads : SpuriousWakeup(t) \/ \E x \in Tasks : Post(t, x)

Spec == Init /\ [][Next]_vars

(* The threads that are inside the pool run; nobody has to call it, and    *)
(* the tasks return.                                                       *)
Fairness ==
    /\ \A w \in Workers : WF_vars(WorkerNext(w))
    /\ \A c \in Clients : WF_vars(CallProceeds(c))

FairSpec == Spec /\ Fairness

-----------------------------------------------------------------------------
TypeOK ==
    /\ queue \in Seq(Tasks) /\ accepted \in Seq(Tasks)
    /\ stopping \in BOOLEAN
    /\ busy \in 0..Cardinality(Workers)
    /\ handles \in {Workers, {}}
    /\ wpc \in [Workers -> {"checking", "asleep", "running", "ran", "exited"}]
    /\ task \in [Workers -> Tasks \cup {NoTask}]
    /\ cpc \in [Clients -> {"free", "checking", "waiting", "joining"}]
    /\ notify \in [Threads -> {"none", "one", "all"}]
    /\ ended \subseteq Tasks /\ dropped \subseteq Tasks
    /\ awaited \in [Clients -> SUBSET Tasks]

(* When wait_idle() returns, everything accepted before it was called has  *)
(* been run to its end, or discarded by shutdown(false): the count of busy *)
(* workers never misses a task that has left the queue.                    *)
WaitIdleMeansDone ==
    [][\A c \in Clients : cpc[c] = "checking" /\ cpc'[c] = "free" =>
          awaited[c] \subseteq ended \cup dropped]_vars

(* When the joining shutdown() is over no task is left behind: whatever    *)
(* was accepted has ended or was discarded, and nothing is running.        *)
ShutdownLeavesNothing ==
    handles = {} =>
        /\ Accepted = ended \cup dropped
        /\ \A w \in Workers : task[w] = NoTask

(* The pool is the task pool its comments promise.                         *)
PromisedPool == INSTANCE TaskPool WITH
    begun <- Begun, open <- ~stopping, WorkerCount <- Cardinality(Workers)
ImplementsTaskPool == PromisedPool!Spec

(* Every accepted task ends or is discarded, although notify_one() may     *)
(* find no sleeping worker and wake one that another has robbed.           *)
AcceptedTasksEnd ==
    \A x \in Tasks : x \in Accepted ~> x \in ended \cup dropped

(* wait_idle() returns once no more tasks are posted.                      *)
WaitIdleReturns ==
    \A c \in Clients :
        cpc[c] \in {"checking", "waiting"} ~> cpc[c] \notin {"checking", "waiting"}

(* It does as long as no shutdown() discards tasks: of the tasks that are  *)
(* run, the last one to complete wakes every waiting thread up.            *)
WaitIdleReturnsOrDrops ==
    \A c \in Clients :
        cpc[c] \in {"checking", "waiting"} ~>
            cpc[c] \notin {"checking", "waiting"} \/ dropped # {}

(* The joining shutdown() returns, whatever the workers were doing.        *)
ShutdownReturns ==
    \A c \in Clients : cpc[c] = "joining" ~> cpc[c] # "joining"

=============================================================================
