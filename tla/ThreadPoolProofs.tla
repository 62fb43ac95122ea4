--------------------------- MODULE ThreadPoolProofs ---------------------------
(***************************************************************************)
(* Proofs about the thread pool, for any number of workers, of threads that*)
(* call it and of tasks, with any priorities: what wait_idle() and         *)
(* shutdown() leave behind, and that the pool implements TaskPool.         *)
(***************************************************************************)
EXTENDS ThreadPool, FiniteSetTheorems, SequenceTheorems, TLAPS

Queued == ToSet(queue)
Running == {w \in Workers : wpc[w] = "running"}
Active == {w \in Workers : wpc[w] \in {"running", "ran"}}

(* TypeOK without the bound of busy, which Counted gives.                  *)
Types ==
    /\ queue \in Seq(Tasks) /\ accepted \in Seq(Tasks)
    /\ stopping \in BOOLEAN
    /\ handles \in {Workers, {}}
    /\ wpc \in [Workers -> {"checking", "asleep", "running", "ran", "exited"}]
    /\ task \in [Workers -> Tasks \cup {NoTask}]
    /\ cpc \in [Clients -> {"free", "checking", "waiting", "joining"}]
    /\ notify \in [Threads -> {"none", "one", "all"}]
    /\ ended \subseteq Tasks /\ dropped \subseteq Tasks
    /\ awaited \in [Clients -> SUBSET Tasks]

(* busy_ is the number of workers that have taken a task.                  *)
Counted == busy = Cardinality(Active)

(* The queue holds accepted tasks, each once, in the order of acceptance.  *)
QueueInOrder ==
    /\ Queued \subseteq Accepted
    /\ \A a, b \in DOMAIN accepted : accepted[a] = accepted[b] => a = b
    /\ \A i, j \in DOMAIN queue, a, b \in DOMAIN accepted :
          accepted[a] = queue[i] /\ accepted[b] = queue[j] /\ i < j => a < b

(* An accepted task is in one place: the queue, dropped, ended or with the *)
(* one worker that runs it.                                                *)
OnePlace ==
    /\ ended \subseteq Begun
    /\ dropped \subseteq Accepted \ Queued
    /\ ~stopping => dropped = {}
    /\ \A w \in Workers : task[w] # NoTask <=> w \in Active
    /\ \A w \in Running : task[w] \in Begun \ ended
    /\ \A w, v \in Running : task[w] = task[v] => w = v
    /\ \A x \in Begun \ ended : \E w \in Running : task[w] = x

(* A worker leaves, and the threads are joined, when nothing is left.      *)
LeftWhenDone ==
    /\ \A w \in Workers : wpc[w] = "exited" => stopping /\ queue = <<>>
    /\ handles = {} => \A w \in Workers : wpc[w] = "exited"

AwaitedAccepted == \A c \in Clients : awaited[c] \subseteq Accepted

IInv == Types /\ Counted /\ QueueInOrder /\ OnePlace /\ LeftWhenDone /\ AwaitedAccepted

-----------------------------------------------------------------------------
(* What the operators on sequences do.                                     *)

LEMMA ToSetAppend ==
  ASSUME NEW S, NEW s \in Seq(S), NEW x \in S
  PROVE  ToSet(Append(s, x)) = ToSet(s) \cup {x}
  <1>1. /\ DOMAIN s = 1..Len(s) /\ Len(s) \in Nat
        /\ DOMAIN Append(s, x) = 1..(Len(s) + 1)
    BY LenProperties, AppendProperties
  <1>2. \A i \in 1..Len(s) : Append(s, x)[i] = s[i]
    BY AppendProperties
  <1>3. Append(s, x)[Len(s) + 1] = x
    BY AppendProperties
  <1> QED BY <1>1, <1>2, <1>3 DEF ToSet

LEMMA ToSetEmpty ==
  ASSUME NEW S, NEW s \in Seq(S)
  PROVE  ToSet(s) = {} <=> s = <<>>
  <1>1. DOMAIN s = 1..Len(s) /\ Len(s) \in Nat
    BY LenProperties
  <1>2. s # <<>> => Len(s) \in Nat \ {0}
    BY EmptySeq
  <1>3. s = <<>> => Len(s) = 0
    BY EmptySeq
  <1>4. CASE s = <<>>
    BY <1>1, <1>3, <1>4 DEF ToSet
  <1>5. CASE s # <<>>
    <2>1. 1 \in DOMAIN s
      BY <1>1, <1>2, <1>5
    <2> QED BY <2>1, <1>5 DEF ToSet
  <1> QED BY <1>4, <1>5

LEMMA RemoveAtProperties ==
  ASSUME NEW S, NEW s \in Seq(S), NEW i \in DOMAIN s
  PROVE  /\ RemoveAt(s, i) \in Seq(S)
         /\ DOMAIN RemoveAt(s, i) = 1..(Len(s) - 1)
         /\ \A j \in 1..(Len(s) - 1) : RemoveAt(s, i)[j] = IF j < i THEN s[j] ELSE s[j + 1]
  <1>1. DOMAIN s = 1..Len(s) /\ Len(s) \in Nat /\ i \in 1..Len(s)
    BY LenProperties
  <1>2. \A j \in 1..Len(s) : s[j] \in S
    BY ElementOfSeq
  <1> DEFINE before == SubSeq(s, 1, i - 1)
             after == SubSeq(s, i + 1, Len(s))
  <1>3. /\ before \in Seq(S) /\ Len(before) = i - 1
        /\ \A j \in 1..(i - 1) : before[j] = s[j]
    <2>1. \A j \in 1..(i - 1) : s[j] \in S
      BY <1>1, <1>2
    <2>2. /\ before \in Seq(S)
          /\ Len(before) = IF 1 <= i - 1 THEN (i - 1) - 1 + 1 ELSE 0
          /\ \A j \in 1..((i - 1) - 1 + 1) : before[j] = s[1 + j - 1]
      BY <1>1, <2>1, SubSeqProperties
    <2> QED BY <1>1, <2>2
  <1>4. /\ after \in Seq(S) /\ Len(after) = Len(s) - i
        /\ \A j \in 1..(Len(s) - i) : after[j] = s[i + j]
    <2>1. \A j \in (i + 1)..Len(s) : s[j] \in S
      BY <1>1, <1>2
    <2>2. /\ after \in Seq(S)
          /\ Len(after) = IF i + 1 <= Len(s) THEN Len(s) - (i + 1) + 1 ELSE 0
          /\ \A j \in 1..(Len(s) - (i + 1) + 1) : after[j] = s[(i + 1) + j - 1]
      BY <1>1, <2>1, SubSeqProperties
    <2> QED BY <1>1, <2>2
  <1> HIDE DEF before, after
  <1>5. /\ before \o after \in Seq(S)
        /\ Len(before \o after) = Len(s) - 1
        /\ \A j \in 1..(Len(s) - 1) :
              (before \o after)[j] = IF j <= i - 1 THEN before[j] ELSE after[j - (i - 1)]
    <2>1. Len(before) + Len(after) = Len(s) - 1
      BY <1>1, <1>3, <1>4
    <2>2. /\ before \o after \in Seq(S)
          /\ Len(before \o after) = Len(before) + Len(after)
          /\ \A j \in 1..(Len(before) + Len(after)) :
                (before \o after)[j] = IF j <= Len(before) THEN before[j] ELSE after[j - Len(before)]
      BY <1>3, <1>4, ConcatProperties
    <2> QED BY <1>3, <2>1, <2>2
  <1>6. RemoveAt(s, i) = before \o after
    BY DEF RemoveAt, before, after
  <1>7. DOMAIN RemoveAt(s, i) = 1..(Len(s) - 1)
    BY <1>5, <1>6, LenProperties
  <1>8. ASSUME NEW j \in 1..(Len(s) - 1)
        PROVE  RemoveAt(s, i)[j] = IF j < i THEN s[j] ELSE s[j + 1]
    <2>1. CASE j < i
      BY <2>1, <1>1, <1>3, <1>5, <1>6
    <2>2. CASE ~(j < i)
      <3>1. j - (i - 1) \in 1..(Len(s) - i) /\ i + (j - (i - 1)) = j + 1
        BY <2>2, <1>1
      <3>2. RemoveAt(s, i)[j] = after[j - (i - 1)]
        BY <2>2, <1>1, <1>5, <1>6
      <3> QED BY <2>2, <3>1, <3>2, <1>4
    <2> QED BY <2>1, <2>2
  <1> QED BY <1>5, <1>6, <1>7, <1>8

LEMMA ToSetRemoveAt ==
  ASSUME NEW S, NEW s \in Seq(S), NEW i \in DOMAIN s,
         \A j, k \in DOMAIN s : s[j] = s[k] => j = k
  PROVE  ToSet(RemoveAt(s, i)) = ToSet(s) \ {s[i]}
  <1>1. DOMAIN s = 1..Len(s) /\ Len(s) \in Nat
    BY LenProperties
  <1>2. /\ DOMAIN RemoveAt(s, i) = 1..(Len(s) - 1)
        /\ \A j \in 1..(Len(s) - 1) : RemoveAt(s, i)[j] = IF j < i THEN s[j] ELSE s[j + 1]
    BY RemoveAtProperties
  <1>3. ASSUME NEW j \in 1..(Len(s) - 1) PROVE RemoveAt(s, i)[j] \in ToSet(s) \ {s[i]}
    <2>1. CASE j < i
      BY <2>1, <1>1, <1>2 DEF ToSet
    <2>2. CASE ~(j < i)
      BY <2>2, <1>1, <1>2 DEF ToSet
    <2> QED BY <2>1, <2>2
  <1>4. ASSUME NEW k \in DOMAIN s, k # i PROVE s[k] \in ToSet(RemoveAt(s, i))
    <2>1. CASE k < i
      <3>1. k \in 1..(Len(s) - 1) /\ RemoveAt(s, i)[k] = s[k]
        BY <2>1, <1>1, <1>2
      <3> QED BY <3>1, <1>2 DEF ToSet
    <2>2. CASE k > i
      <3>1. k - 1 \in 1..(Len(s) - 1) /\ RemoveAt(s, i)[k - 1] = s[k]
        BY <2>2, <1>1, <1>2
      <3> QED BY <3>1, <1>2 DEF ToSet
    <2> QED BY <1>1, <1>4, <2>1, <2>2
  <1> QED BY <1>2, <1>3, <1>4 DEF ToSet

-----------------------------------------------------------------------------
(* The invariant.                                                          *)

LEMMA IInvInit == Init => IInv
  <1> SUFFICES ASSUME Init PROVE IInv
    OBVIOUS
  <1> USE ThreadPoolAssumption DEF Init
  <1>1. <<>> \in Seq(Tasks) /\ DOMAIN <<>> = {}
    BY EmptySeq, LenProperties
  <1>2. Accepted = {} /\ Queued = {} /\ Begun = {}
    BY <1>1 DEF Accepted, Queued, Begun, ToSet
  <1>3. Active = {} /\ Running = {}
    BY DEF Active, Running
  <1>4. Types
    BY <1>1 DEF Types, Threads
  <1>5. Counted
    BY <1>3, FS_EmptySet DEF Counted
  <1>6. QueueInOrder
    BY <1>1, <1>2 DEF QueueInOrder
  <1>7. OnePlace
    BY <1>2, <1>3 DEF OnePlace
  <1>8. LeftWhenDone /\ AwaitedAccepted
    BY DEF LeftWhenDone, AwaitedAccepted
  <1> QED BY <1>4, <1>5, <1>6, <1>7, <1>8 DEF IInv

LEMMA ActiveCount ==
  ASSUME Types
  PROVE  /\ IsFiniteSet(Active) /\ Cardinality(Active) \in Nat
         /\ IsFiniteSet(Running) /\ Running \subseteq Active
  <1>1. Active \in SUBSET Workers /\ Running \in SUBSET Workers /\ Running \subseteq Active
    BY DEF Active, Running
  <1> QED BY <1>1, ThreadPoolAssumption, FS_Subset, FS_CardinalityType

(* No task moves: threads call, sleep, wake up or return.                  *)
LEMMA QuietStep ==
  ASSUME IInv, Types', UNCHANGED <<queue, stopping, busy, task, accepted, ended, dropped>>,
         Active' = Active, Running' = Running, LeftWhenDone', AwaitedAccepted'
  PROVE  IInv'
  <1>1. Accepted' = Accepted /\ Queued' = Queued /\ Begun' = Begun
    BY DEF Accepted, Queued, Begun
  <1>2. Counted'
    BY DEF IInv, Counted
  <1>3. QueueInOrder'
    BY <1>1 DEF IInv, QueueInOrder
  <1>4. OnePlace'
    BY <1>1 DEF IInv, OnePlace
  <1> QED BY <1>2, <1>3, <1>4 DEF IInv

LEMMA WakeKeeps ==
  ASSUME Types, NEW W \in SUBSET Asleep, Wake(W)
  PROVE  /\ wpc' \in [Workers -> {"checking", "asleep", "running", "ran", "exited"}]
         /\ Active' = Active /\ Running' = Running
         /\ \A w \in Workers : wpc'[w] = "exited" <=> wpc[w] = "exited"
  BY DEF Types, Wake, Asleep, Active, Running

(* Every step that moves no task.                                          *)
LEMMA CallsKeepIInv ==
  ASSUME IInv,
         \/ \E t \in Threads : NotifyOne(t) \/ SpuriousWakeup(t)
         \/ \E c \in Clients : NotifyAll(c) \/ WaitIdle(c) \/ WaitMore(c) \/ WaitEnds(c) \/ Joined(c)
         \/ \E w \in Workers : Sleep(w) \/ Exit(w)
         \/ UNCHANGED vars
  PROVE  IInv'
  <1> USE DEF state, threads, history, vars, IInv
  <1>0. ASSUME UNCHANGED <<state, accepted, ended, dropped>>, UNCHANGED <<wpc, task>>,
               cpc' \in [Clients -> {"free", "checking", "waiting", "joining"}],
               notify' \in [Threads -> {"none", "one", "all"}],
               \A c \in Clients : awaited'[c] \subseteq Accepted,
               awaited' \in [Clients -> SUBSET Tasks]
        PROVE  IInv'
    <2>1. Active' = Active /\ Running' = Running /\ Accepted' = Accepted
      BY <1>0 DEF Active, Running, Accepted
    <2>2. Types' /\ LeftWhenDone' /\ AwaitedAccepted'
      BY <1>0, <2>1 DEF Types, LeftWhenDone, AwaitedAccepted
    <2> QED BY <1>0, <2>1, <2>2, QuietStep
  <1>1. ASSUME UNCHANGED <<state, task, history>>,
               cpc' \in [Clients -> {"free", "checking", "waiting", "joining"}],
               notify' \in [Threads -> {"none", "one", "all"}],
               NEW W \in SUBSET Asleep, Wake(W)
        PROVE  IInv'
    <2>1. /\ wpc' \in [Workers -> {"checking", "asleep", "running", "ran", "exited"}]
          /\ Active' = Active /\ Running' = Running
          /\ \A w \in Workers : wpc'[w] = "exited" <=> wpc[w] = "exited"
      BY <1>1, WakeKeeps
    <2>2. Types'
      BY <1>1, <2>1 DEF Types
    <2>3. LeftWhenDone' /\ AwaitedAccepted'
      BY <1>1, <2>1 DEF LeftWhenDone, AwaitedAccepted, Accepted
    <2> QED BY <1>1, <2>1, <2>2, <2>3, QuietStep
  <1>2. ASSUME NEW t \in Threads, NotifyOne(t) PROVE IInv'
    <2>1. /\ UNCHANGED <<state, task, history, cpc>>
          /\ notify' \in [Threads -> {"none", "one", "all"}]
          /\ cpc' \in [Clients -> {"free", "checking", "waiting", "joining"}]
      BY <1>2 DEF NotifyOne, Types
    <2>2. CASE UNCHANGED wpc
      BY <2>1, <2>2, <1>0 DEF Types, AwaitedAccepted
    <2>3. ASSUME NEW w \in Asleep, Wake({w}) PROVE IInv'
      BY <2>1, <2>3, <1>1
    <2> QED BY <1>2, <2>2, <2>3 DEF NotifyOne
  <1>3. ASSUME NEW t \in Threads, SpuriousWakeup(t) PROVE IInv'
    <2>1. UNCHANGED <<state, task, history, notify>> /\ notify \in [Threads -> {"none", "one", "all"}]
      BY <1>3 DEF SpuriousWakeup, Types
    <2>2. CASE t \in Asleep /\ Wake({t}) /\ UNCHANGED cpc
      BY <2>1, <2>2, <1>1 DEF Types
    <2>3. CASE t \in Waiting /\ cpc' = [cpc EXCEPT ![t] = "checking"] /\ UNCHANGED wpc
      BY <2>1, <2>3, <1>0 DEF Types, AwaitedAccepted
    <2> QED BY <1>3, <2>2, <2>3 DEF SpuriousWakeup
  <1>4. ASSUME NEW c \in Clients, NotifyAll(c) PROVE IInv'
    <2>1. /\ UNCHANGED <<state, task, history>> /\ Wake(Asleep)
          /\ notify' \in [Threads -> {"none", "one", "all"}]
          /\ cpc' \in [Clients -> {"free", "checking", "waiting", "joining"}]
      BY <1>4 DEF NotifyAll, Types
    <2> QED BY <2>1, <1>1
  <1>5. ASSUME NEW c \in Clients, WaitIdle(c) PROVE IInv'
    <2>1. Accepted \subseteq Tasks
      BY ElementOfSeq, LenProperties DEF Types, Accepted, ToSet
    <2> QED BY <1>5, <2>1, <1>0 DEF WaitIdle, Types, AwaitedAccepted
  <1>6. ASSUME NEW c \in Clients, WaitMore(c) \/ WaitEnds(c) PROVE IInv'
    BY <1>6, <1>0 DEF WaitMore, WaitEnds, Types, AwaitedAccepted
  <1>7. ASSUME NEW c \in Clients, Joined(c) PROVE IInv'
    <2>1. UNCHANGED <<queue, stopping, busy, wpc, task, accepted, ended, dropped, awaited>> /\ Types'
      BY <1>7 DEF Joined, Types
    <2>2. Active' = Active /\ Running' = Running
      BY <2>1 DEF Active, Running
    <2>3. \A w \in Workers : wpc'[w] = "exited"
      BY <1>7, <2>1 DEF Joined, Types, LeftWhenDone
    <2>4. LeftWhenDone' /\ AwaitedAccepted'
      BY <2>1, <2>3 DEF LeftWhenDone, AwaitedAccepted, Accepted
    <2> QED BY <2>1, <2>2, <2>4, QuietStep
  <1>8. ASSUME NEW w \in Workers, Sleep(w) \/ Exit(w) PROVE IInv'
    <2>1. /\ UNCHANGED <<state, task, cpc, notify, history>>
          /\ wpc' \in [Workers -> {"checking", "asleep", "running", "ran", "exited"}]
          /\ Active' = Active /\ Running' = Running
      BY <1>8 DEF Sleep, Exit, Types, Active, Running
    <2>2. Types' /\ LeftWhenDone' /\ AwaitedAccepted'
      BY <1>8, <2>1 DEF Sleep, Exit, Types, LeftWhenDone, AwaitedAccepted, Accepted
    <2> QED BY <2>1, <2>2, QuietStep
  <1>9. CASE UNCHANGED vars
    BY <1>9, <1>0 DEF Types, AwaitedAccepted
  <1> QED BY <1>2, <1>3, <1>4, <1>5, <1>6, <1>7, <1>8, <1>9

LEMMA AcceptedAreTasks ==
  ASSUME Types
  PROVE  Accepted \subseteq Tasks /\ Queued \subseteq Tasks /\ Begun \subseteq Accepted
  BY ElementOfSeq, LenProperties DEF Types, Accepted, Queued, Begun, ToSet

(* An accepted task is at the end of the queue and of what was accepted.   *)
LEMMA PostKeepsIInv ==
  ASSUME IInv, NEW t \in Threads, NEW x \in Tasks, Post(t, x)
  PROVE  IInv'
  <1> USE DEF IInv
  <1>1. /\ x \notin Accepted /\ ~stopping
        /\ queue' = Append(queue, x) /\ accepted' = Append(accepted, x)
        /\ notify' = [notify EXCEPT ![t] = "one"]
        /\ UNCHANGED <<stopping, busy, handles, wpc, task, cpc, ended, dropped, awaited>>
    BY DEF Post
  <1>2. Active' = Active /\ Running' = Running
    BY <1>1 DEF Active, Running
  <1>3. Accepted' = Accepted \cup {x} /\ Queued' = Queued \cup {x}
    BY <1>1, ToSetAppend DEF Types, Accepted, Queued
  <1>4. Begun' = Begun
    BY <1>1, <1>3 DEF Begun, OnePlace, Queued
  <1>5. /\ queue' \in Seq(Tasks) /\ accepted' \in Seq(Tasks)
        /\ Len(queue) \in Nat /\ Len(accepted) \in Nat
        /\ DOMAIN queue = 1..Len(queue) /\ DOMAIN accepted = 1..Len(accepted)
        /\ DOMAIN queue' = 1..(Len(queue) + 1) /\ DOMAIN accepted' = 1..(Len(accepted) + 1)
        /\ \A i \in 1..Len(queue) : queue'[i] = queue[i]
        /\ \A a \in 1..Len(accepted) : accepted'[a] = accepted[a]
        /\ queue'[Len(queue) + 1] = x /\ accepted'[Len(accepted) + 1] = x
    BY <1>1, AppendProperties, LenProperties DEF Types
  <1>6. Types'
    BY <1>1, <1>5 DEF Types
  <1>7. Counted'
    BY <1>1, <1>2 DEF Counted
  <1>8. /\ \A i \in 1..Len(queue) : queue[i] # x
        /\ \A a \in 1..Len(accepted) : accepted[a] # x
    BY <1>1, <1>5 DEF QueueInOrder, Accepted, Queued, ToSet
  <1>9. QueueInOrder'
    <2>1. Queued' \subseteq Accepted'
      BY <1>3 DEF QueueInOrder
    <2>2. \A a, b \in DOMAIN accepted' : accepted'[a] = accepted'[b] => a = b
      BY <1>5, <1>8 DEF QueueInOrder
    <2>3. ASSUME NEW i \in DOMAIN queue', NEW j \in DOMAIN queue',
                 NEW a \in DOMAIN accepted', NEW b \in DOMAIN accepted',
                 accepted'[a] = queue'[i], accepted'[b] = queue'[j], i < j
          PROVE  a < b
      <3>1. i \in 1..Len(queue) /\ queue'[i] = queue[i] /\ queue[i] # x
        BY <2>3, <1>5, <1>8
      <3>2. a \in 1..Len(accepted) /\ accepted'[a] = accepted[a]
        BY <2>3, <3>1, <1>5
      <3>3. CASE j = Len(queue) + 1
        <4>1. accepted'[b] = x
          BY <2>3, <3>3, <1>5
        <4>2. b = Len(accepted) + 1
          BY <4>1, <1>5, <1>8
        <4> QED BY <3>2, <4>2, <1>5
      <3>4. CASE j \in 1..Len(queue)
        <4>1. queue'[j] = queue[j] /\ queue[j] # x
          BY <3>4, <1>5, <1>8
        <4>2. b \in 1..Len(accepted) /\ accepted'[b] = accepted[b]
          BY <2>3, <4>1, <1>5
        <4> QED BY <2>3, <3>1, <3>2, <3>4, <4>1, <4>2, <1>5 DEF QueueInOrder
      <3> QED BY <3>3, <3>4, <1>5
    <2> QED BY <2>1, <2>2, <2>3 DEF QueueInOrder
  <1>10. OnePlace'
    BY <1>1, <1>2, <1>3, <1>4 DEF OnePlace
  <1>11. LeftWhenDone'
    BY <1>1 DEF LeftWhenDone
  <1>12. AwaitedAccepted'
    BY <1>1, <1>3 DEF AwaitedAccepted
  <1> QED BY <1>6, <1>7, <1>9, <1>10, <1>11, <1>12

(* No accepted task is twice in the queue.                                 *)
LEMMA QueuedOnce ==
  ASSUME IInv
  PROVE  \A i, j \in DOMAIN queue : queue[i] = queue[j] => i = j
  <1> SUFFICES ASSUME NEW i \in DOMAIN queue, NEW j \in DOMAIN queue, queue[i] = queue[j], i < j
               PROVE  FALSE
    BY LenProperties DEF IInv, Types
  <1>1. PICK a \in DOMAIN accepted : accepted[a] = queue[i]
    BY DEF IInv, QueueInOrder, Queued, Accepted, ToSet
  <1>2. a < a
    BY <1>1 DEF IInv, QueueInOrder
  <1>3. a \in Nat
    BY LenProperties DEF IInv, Types
  <1> QED BY <1>2, <1>3

(* A task leaves the queue with the worker that takes it.                  *)
LEMMA TakeKeepsIInv ==
  ASSUME IInv, NEW w \in Workers, Take(w)
  PROVE  IInv'
  <1> USE DEF IInv
  <1>1. PICK i \in DOMAIN queue : /\ queue' = RemoveAt(queue, i)
                                  /\ task' = [task EXCEPT ![w] = queue[i]]
    BY DEF Take
  <1>2. /\ wpc[w] = "checking" /\ wpc' = [wpc EXCEPT ![w] = "running"] /\ busy' = busy + 1
        /\ UNCHANGED <<stopping, handles, cpc, notify, accepted, ended, dropped, awaited>>
    BY DEF Take, history
  <1>3. /\ Len(queue) \in Nat /\ DOMAIN queue = 1..Len(queue)
        /\ queue' \in Seq(Tasks)
        /\ DOMAIN queue' = 1..(Len(queue) - 1)
        /\ \A j \in 1..(Len(queue) - 1) : queue'[j] = IF j < i THEN queue[j] ELSE queue[j + 1]
    BY <1>1, RemoveAtProperties, LenProperties DEF Types
  <1>4. Queued' = Queued \ {queue[i]} /\ queue[i] \in Queued
    <2>1. queue[i] \in Queued
      BY DEF Queued, ToSet
    <2> QED BY <1>1, <2>1, QueuedOnce, ToSetRemoveAt DEF Types, Queued
  <1>5. Accepted' = Accepted
    BY <1>2 DEF Accepted
  <1>6. Begun' = Begun \cup {queue[i]} /\ queue[i] \notin Begun
    BY <1>2, <1>4, <1>5 DEF Begun, OnePlace, QueueInOrder, Queued
  <1>7. queue[i] \in Tasks /\ queue[i] # NoTask /\ queue[i] \notin ended
    BY <1>4, <1>6, AcceptedAreTasks, ThreadPoolAssumption DEF OnePlace
  <1>8. Active' = Active \cup {w} /\ Running' = Running \cup {w} /\ w \notin Active /\ w \notin Running
    BY <1>2 DEF Active, Running, Types
  <1>9. Types'
    BY <1>1, <1>2, <1>3, <1>7 DEF Types
  <1>10. Counted'
    BY <1>2, <1>8, ActiveCount, FS_AddElement DEF Counted
  <1>11. QueueInOrder'
    <2>1. Queued' \subseteq Accepted'
      BY <1>4, <1>5 DEF QueueInOrder
    <2>2. ASSUME NEW j \in DOMAIN queue', NEW k \in DOMAIN queue',
                 NEW a \in DOMAIN accepted, NEW b \in DOMAIN accepted,
                 accepted[a] = queue'[j], accepted[b] = queue'[k], j < k
          PROVE  a < b
      <3> DEFINE p(m) == IF m < i THEN m ELSE m + 1
      <3>1. /\ p(j) \in DOMAIN queue /\ queue'[j] = queue[p(j)]
            /\ p(k) \in DOMAIN queue /\ queue'[k] = queue[p(k)]
        BY <1>3
      <3>2. p(j) < p(k)
        BY <1>3, <2>2
      <3> QED BY <3>1, <3>2, <2>2 DEF QueueInOrder
    <2> QED BY <2>1, <2>2, <1>2 DEF QueueInOrder
  <1>12. OnePlace'
    <2>1. \A v \in Workers : task'[v] = IF v = w THEN queue[i] ELSE task[v]
      BY <1>1 DEF Types
    <2>2. \A v \in Running : task[v] # queue[i]
      BY <1>6 DEF OnePlace
    <2>3. /\ \A v \in Workers : task'[v] # NoTask <=> v \in Active'
          /\ \A v \in Running' : task'[v] \in Begun' \ ended'
      BY <1>2, <1>6, <1>7, <1>8, <2>1 DEF OnePlace, Running
    <2>4. \A v, u \in Running' : task'[v] = task'[u] => v = u
      BY <1>8, <2>1, <2>2 DEF OnePlace, Running
    <2>5. ASSUME NEW x \in Begun' \ ended' PROVE \E v \in Running' : task'[v] = x
      <3>1. CASE x = queue[i]
        BY <3>1, <1>8, <2>1
      <3>2. CASE x \in Begun \ ended
        <4>1. PICK v \in Running : task[v] = x
          BY <3>2 DEF OnePlace
        <4> QED BY <4>1, <1>8, <2>1 DEF Running
      <3> QED BY <3>1, <3>2, <1>2, <1>6
    <2>6. /\ ended' \subseteq Begun' /\ dropped' \subseteq Accepted' \ Queued'
          /\ ~stopping' => dropped' = {}
      BY <1>2, <1>4, <1>5, <1>6 DEF OnePlace
    <2> QED BY <2>3, <2>4, <2>5, <2>6 DEF OnePlace
  <1>13. LeftWhenDone'
    <2>1. queue # <<>>
      BY <1>3, EmptySeq
    <2> QED BY <1>2, <2>1 DEF LeftWhenDone, Types
  <1>14. AwaitedAccepted'
    BY <1>2, <1>5 DEF AwaitedAccepted
  <1> QED BY <1>9, <1>10, <1>11, <1>12, <1>13, <1>14

LEMMA RunKeepsIInv ==
  ASSUME IInv, NEW w \in Workers, Run(w)
  PROVE  IInv'
  <1> USE DEF IInv
  <1>1. /\ w \in Running /\ ended' = ended \cup {task[w]}
        /\ wpc' = [wpc EXCEPT ![w] = "ran"]
        /\ UNCHANGED <<queue, stopping, busy, handles, task, cpc, notify, accepted, dropped, awaited>>
    BY DEF Run, Running, state
  <1>2. Accepted' = Accepted /\ Queued' = Queued /\ Begun' = Begun
    BY <1>1 DEF Accepted, Queued, Begun
  <1>3. Active' = Active /\ Running' = Running \ {w}
    BY <1>1 DEF Active, Running, Types
  <1>4. task[w] \in Begun \ ended /\ task[w] \in Tasks
    BY <1>1, AcceptedAreTasks DEF OnePlace
  <1>5. Types'
    BY <1>1, <1>4 DEF Types
  <1>6. Counted' /\ QueueInOrder' /\ AwaitedAccepted'
    BY <1>1, <1>2, <1>3 DEF Counted, QueueInOrder, AwaitedAccepted
  <1>7. OnePlace'
    <2>1. \A v \in Running' : task'[v] \in Begun' \ ended'
      BY <1>1, <1>2, <1>3 DEF OnePlace
    <2>2. \A x \in Begun' \ ended' : \E v \in Running' : task'[v] = x
      BY <1>1, <1>2, <1>3 DEF OnePlace
    <2> QED BY <1>1, <1>2, <1>3, <1>4, <2>1, <2>2 DEF OnePlace
  <1>8. LeftWhenDone'
    BY <1>1 DEF LeftWhenDone, Types, Running
  <1> QED BY <1>5, <1>6, <1>7, <1>8

LEMMA CompleteKeepsIInv ==
  ASSUME IInv, NEW w \in Workers, Complete(w)
  PROVE  IInv'
  <1> USE DEF IInv
  <1>1. /\ wpc[w] = "ran" /\ busy' = busy - 1
        /\ wpc' = [wpc EXCEPT ![w] = "checking"]
        /\ task' = [task EXCEPT ![w] = NoTask]
        /\ UNCHANGED <<queue, stopping, handles, notify, accepted, ended, dropped, awaited>>
    BY DEF Complete, history
  <1>2. Accepted' = Accepted /\ Queued' = Queued /\ Begun' = Begun
    BY <1>1 DEF Accepted, Queued, Begun
  <1>3. Active' = Active \ {w} /\ Running' = Running /\ w \in Active /\ w \notin Running
    BY <1>1 DEF Active, Running, Types
  <1>4. cpc' \in [Clients -> {"free", "checking", "waiting", "joining"}]
    BY DEF Complete, Types
  <1>5. Types'
    BY <1>1, <1>4 DEF Types
  <1>6. Counted'
    BY <1>1, <1>3, ActiveCount, FS_RemoveElement DEF Counted
  <1>7. QueueInOrder' /\ AwaitedAccepted'
    BY <1>1, <1>2 DEF QueueInOrder, AwaitedAccepted
  <1>8. OnePlace'
    <2>1. \A v \in Workers : task'[v] = IF v = w THEN NoTask ELSE task[v]
      BY <1>1 DEF Types
    <2>2. \A v \in Running : task'[v] = task[v]
      BY <1>3, <2>1 DEF Running
    <2> QED BY <1>1, <1>2, <1>3, <2>1, <2>2 DEF OnePlace
  <1>9. LeftWhenDone'
    BY <1>1 DEF LeftWhenDone, Types
  <1> QED BY <1>5, <1>6, <1>7, <1>8, <1>9

(* What is in the queue is dropped, if it is not to be drained.            *)
LEMMA ShutdownKeepsIInv ==
  ASSUME IInv, NEW c \in Clients, NEW drain \in Drains, Shutdown(c, drain)
  PROVE  IInv' /\ Begun' = Begun
  <1> USE DEF IInv
  <1>1. /\ ~stopping /\ stopping' = TRUE
        /\ queue' = IF drain THEN queue ELSE <<>>
        /\ dropped' = IF drain THEN dropped ELSE Queued
        /\ notify' = [notify EXCEPT ![c] = "all"]
        /\ cpc' = [cpc EXCEPT ![c] = "joining"]
        /\ UNCHANGED <<busy, handles, wpc, task, accepted, ended, awaited>>
    BY DEF Shutdown, Queued
  <1>2. Active' = Active /\ Running' = Running /\ Accepted' = Accepted
    BY <1>1 DEF Active, Running, Accepted
  <1>3. <<>> \in Seq(Tasks) /\ DOMAIN <<>> = {} /\ ToSet(<<>>) = {}
    BY EmptySeq, LenProperties, ToSetEmpty
  <1>4. Types'
    BY <1>1, <1>3, AcceptedAreTasks DEF Types, Threads
  <1>5. Queued' = IF drain THEN Queued ELSE {}
    BY <1>1, <1>3 DEF Queued
  <1>6. Begun' = Begun /\ dropped' \subseteq Accepted' \ Queued'
    BY <1>1, <1>2, <1>5 DEF Begun, OnePlace, QueueInOrder, Queued
  <1>7. Counted' /\ AwaitedAccepted'
    BY <1>1, <1>2 DEF Counted, AwaitedAccepted
  <1>8. QueueInOrder'
    BY <1>1, <1>2, <1>3, <1>5 DEF QueueInOrder
  <1>9. OnePlace'
    BY <1>1, <1>2, <1>6 DEF OnePlace
  <1>10. LeftWhenDone'
    BY <1>1 DEF LeftWhenDone
  <1> QED BY <1>4, <1>6, <1>7, <1>8, <1>9, <1>10

LEMMA IInvStep == IInv /\ [Next]_vars => IInv'
  BY CallsKeepIInv, PostKeepsIInv, TakeKeepsIInv, RunKeepsIInv, CompleteKeepsIInv, ShutdownKeepsIInv
     DEF Next, WorkerNext, CallProceeds, ClientCalls, Threads

LEMMA IInvAlways == Spec => []IInv
  BY IInvInit, IInvStep, PTL DEF Spec

-----------------------------------------------------------------------------
(***************************************************************************)
(* Every variable of the pool keeps its type; busy_ never exceeds the      *)
(* number of workers and never goes below zero.                            *)
(***************************************************************************)
THEOREM TypeCorrect == Spec => []TypeOK
  <1>1. IInv => TypeOK
    <2> SUFFICES ASSUME IInv PROVE TypeOK
      OBVIOUS
    <2>1. Active \in SUBSET Workers
      BY DEF Active
    <2>2. busy \in 0..Cardinality(Workers)
      BY <2>1, ThreadPoolAssumption, FS_Subset, FS_CardinalityType DEF IInv, Counted
    <2> QED BY <2>2 DEF IInv, Types, TypeOK
  <1> QED BY <1>1, IInvAlways, PTL

(* With nothing queued and nothing running, all is ended or dropped.       *)
LEMMA IdleMeansDone ==
  ASSUME IInv, queue = <<>>, Active = {}
  PROVE  Accepted = ended \cup dropped
  <1>1. Queued = {} /\ Running = {}
    BY ActiveCount, ToSetEmpty DEF IInv, Types, Queued
  <1> QED BY <1>1 DEF IInv, OnePlace, Begun, Queued

(***************************************************************************)
(* Once the joining shutdown() is over, every task that post() accepted has*)
(* been run to its end or was discarded, and no worker holds one.          *)
(***************************************************************************)
THEOREM NothingIsLeft == Spec => []ShutdownLeavesNothing
  <1>1. IInv => ShutdownLeavesNothing
    <2> SUFFICES ASSUME IInv, handles = {}
                 PROVE  /\ Accepted = ended \cup dropped
                        /\ \A w \in Workers : task[w] = NoTask
      BY DEF ShutdownLeavesNothing
    <2>1. \A w \in Workers : wpc[w] = "exited"
      BY DEF IInv, LeftWhenDone
    <2>2. Active = {}
      BY <2>1 DEF Active
    <2>3. queue = <<>>
      BY <2>1, ThreadPoolAssumption DEF IInv, LeftWhenDone
    <2> QED BY <2>2, <2>3, IdleMeansDone DEF IInv, OnePlace
  <1> QED BY <1>1, IInvAlways, PTL

(***************************************************************************)
(* When wait_idle() returns, all that was accepted before it was called has*)
(* ended or was discarded, whoever posts and takes in between.             *)
(***************************************************************************)
THEOREM IdleIsDone == Spec => WaitIdleMeansDone
  <1> DEFINE Done == \A c \in Clients : cpc[c] = "checking" /\ cpc'[c] = "free" =>
                        awaited[c] \subseteq ended \cup dropped
  <1>1. IInv /\ [Next]_vars => [Done]_vars
    <2> SUFFICES ASSUME IInv, Next, NEW c \in Clients, cpc[c] = "checking", cpc'[c] = "free"
                 PROVE  awaited[c] \subseteq ended \cup dropped
      OBVIOUS
    <2>1. WaitEnds(c)
      <3> USE DEF IInv, Types
      <3>1. ASSUME NEW t \in Threads, NotifyOne(t) \/ SpuriousWakeup(t) \/ \E x \in Tasks : Post(t, x)
            PROVE  FALSE
        BY <3>1 DEF NotifyOne, SpuriousWakeup, Post
      <3>2. ASSUME NEW w \in Workers, Sleep(w) \/ Exit(w) \/ Take(w) \/ Run(w) PROVE FALSE
        BY <3>2 DEF Sleep, Exit, Take, Run
      <3>3. ASSUME NEW w \in Workers, Complete(w) PROVE FALSE
        BY <3>3 DEF Complete, Waiting
      <3>4. ASSUME NEW d \in Clients, WaitIdle(d) \/ WaitMore(d) \/ NotifyAll(d) \/ Joined(d) PROVE FALSE
        BY <3>4 DEF WaitIdle, WaitMore, NotifyAll, Joined
      <3>5. ASSUME NEW d \in Clients, NEW drain \in Drains, Shutdown(d, drain) PROVE FALSE
        BY <3>5 DEF Shutdown
      <3>6. ASSUME NEW d \in Clients, WaitEnds(d) PROVE WaitEnds(c)
        BY <3>6 DEF WaitEnds
      <3> QED BY <3>1, <3>2, <3>3, <3>4, <3>5, <3>6 DEF Next, WorkerNext, CallProceeds, ClientCalls, Threads
    <2>2. queue = <<>> /\ busy = 0
      BY <2>1 DEF WaitEnds, Idle
    <2>3. Active = {}
      BY <2>2, ActiveCount, FS_EmptySet DEF IInv, Counted
    <2> QED BY <2>2, <2>3, IdleMeansDone DEF IInv, AwaitedAccepted
  <1> QED BY <1>1, IInvAlways, PTL DEF Spec, WaitIdleMeansDone

-----------------------------------------------------------------------------
(* The refinement: the queue is what is pending.                           *)

LEMMA SameCardinality == \A S : PromisedPool!Cardinality(S) = Cardinality(S)
  BY DEF PromisedPool!Cardinality, Cardinality

LEMMA PendingIsQueued ==
  ASSUME IInv
  PROVE  PromisedPool!Accepted = Accepted /\ PromisedPool!Pending = Queued
  <1>1. PromisedPool!Accepted = Accepted
    BY DEF PromisedPool!Accepted, Accepted, ToSet
  <1> QED BY <1>1 DEF PromisedPool!Pending, Begun, IInv, OnePlace, QueueInOrder, Queued

(* A worker that is about to take a task leaves room for it.               *)
LEMMA RoomForOne ==
  ASSUME IInv, NEW w \in Workers, w \notin Active
  PROVE  Cardinality(Begun \ ended) < Cardinality(Workers)
  <1> DEFINE held == [v \in Running |-> task[v]]
  <1>1. held \in Surjection(Running, Begun \ ended)
    BY DEF IInv, OnePlace, Surjection
  <1>2. Cardinality(Begun \ ended) <= Cardinality(Running) /\ IsFiniteSet(Begun \ ended)
    BY <1>1, ActiveCount, FS_Surjection DEF IInv
  <1>3. Running \in SUBSET Workers /\ Running # Workers
    BY DEF Running, Active
  <1>4. Cardinality(Running) <= Cardinality(Workers) /\ Cardinality(Running) # Cardinality(Workers)
    BY <1>3, ThreadPoolAssumption, FS_Subset
  <1>5. /\ Cardinality(Running) \in Nat /\ Cardinality(Workers) \in Nat
        /\ Cardinality(Begun \ ended) \in Nat
    BY <1>2, <1>3, ThreadPoolAssumption, FS_Subset, FS_CardinalityType
  <1> QED BY <1>2, <1>4, <1>5

(* The task that top() returns comes first of all that are pending.        *)
LEMMA TakeIsBegin ==
  ASSUME IInv, NEW w \in Workers, Take(w)
  PROVE  \E a \in DOMAIN accepted : PromisedPool!Begin(a)
  <1> USE DEF IInv
  <1>1. PICK i \in DOMAIN queue : /\ \A j \in DOMAIN queue : First(i, j)
                                  /\ queue' = RemoveAt(queue, i)
    BY DEF Take
  <1>2. PICK a \in DOMAIN accepted : accepted[a] = queue[i]
    BY DEF QueueInOrder, Queued, Accepted, ToSet
  <1>3. accepted[a] \in PromisedPool!Pending
    BY <1>2, PendingIsQueued DEF Queued, ToSet
  <1>4. ASSUME NEW b \in DOMAIN accepted, accepted[b] \in PromisedPool!Pending
        PROVE  a = b \/ PromisedPool!Before(a, b)
    <2>1. PICK j \in DOMAIN queue : accepted[b] = queue[j]
      BY <1>4, PendingIsQueued DEF Queued, ToSet
    <2>2. First(i, j)
      BY <1>1
    <2>3. CASE Priority[queue[i]] > Priority[queue[j]]
      BY <2>3, <2>1, <1>2 DEF PromisedPool!Before
    <2>4. CASE Priority[queue[i]] = Priority[queue[j]] /\ i <= j
      <3>1. i \in Int /\ j \in Int
        BY LenProperties DEF Types
      <3>2. i = j => a = b
        BY <1>2, <2>1 DEF QueueInOrder
      <3>3. i < j => a < b
        BY <1>2, <2>1 DEF QueueInOrder
      <3> QED BY <2>4, <3>1, <3>2, <3>3, <2>1, <1>2 DEF PromisedPool!Before
    <2> QED BY <2>2, <2>3, <2>4 DEF First
  <1>5. Cardinality(Begun \ ended) < Cardinality(Workers)
    BY RoomForOne DEF Take, Active
  <1>6. Begun' = Begun \cup {accepted[a]}
    <2>1. Queued' = Queued \ {queue[i]} /\ queue[i] \in Queued
      <3>1. queue[i] \in Queued
        BY DEF Queued, ToSet
      <3> QED BY <1>1, <3>1, QueuedOnce, ToSetRemoveAt DEF Types, Queued
    <2>2. UNCHANGED <<accepted, dropped>>
      BY DEF Take, history
    <2> QED BY <2>1, <2>2, <1>2 DEF Begun, Accepted, OnePlace, QueueInOrder, Queued
  <1>7. UNCHANGED <<accepted, ended, dropped, stopping>>
    BY DEF Take, history
  <1>8. \A b \in DOMAIN accepted : accepted[b] \in PromisedPool!Pending => a = b \/ PromisedPool!Before(a, b)
    BY <1>4
  <1>9. PromisedPool!Begin(a)
    BY <1>3, <1>5, <1>6, <1>7, <1>8, SameCardinality DEF PromisedPool!Begin
  <1> QED BY <1>9

LEMMA Refines == IInv /\ [Next]_vars => [PromisedPool!Next]_PromisedPool!poolVars
  <1> SUFFICES ASSUME IInv, [Next]_vars PROVE [PromisedPool!Next]_PromisedPool!poolVars
    OBVIOUS
  <1>1. ASSUME UNCHANGED <<queue, stopping, accepted, ended, dropped>>
        PROVE  UNCHANGED PromisedPool!poolVars
    BY <1>1 DEF PromisedPool!poolVars, Begun, Accepted
  <1>2. ASSUME NEW t \in Threads, NEW x \in Tasks, Post(t, x) PROVE PromisedPool!Next
    <2>1. /\ ~stopping /\ x \notin Accepted
          /\ queue' = Append(queue, x) /\ accepted' = Append(accepted, x)
          /\ UNCHANGED <<stopping, ended, dropped>>
      BY <1>2 DEF Post
    <2>2. Accepted' = Accepted \cup {x} /\ Queued' = Queued \cup {x}
      BY <2>1, ToSetAppend DEF IInv, Types, Accepted, Queued
    <2>3. Begun' = Begun
      BY <2>1, <2>2 DEF Begun, IInv, OnePlace, Queued
    <2>4. PromisedPool!Accept(x)
      BY <2>1, <2>3, PendingIsQueued DEF PromisedPool!Accept
    <2> QED BY <2>4 DEF PromisedPool!Next
  <1>3. ASSUME NEW w \in Workers, Take(w) PROVE PromisedPool!Next
    BY <1>3, TakeIsBegin DEF PromisedPool!Next
  <1>4. ASSUME NEW w \in Workers, Run(w) PROVE PromisedPool!Next
    <2>1. /\ task[w] \in Begun \ ended /\ task[w] \in Tasks
          /\ ended' = ended \cup {task[w]}
          /\ UNCHANGED <<queue, stopping, accepted, dropped>>
      BY <1>4, AcceptedAreTasks DEF Run, Running, IInv, OnePlace, state
    <2>2. PromisedPool!End(task[w])
      BY <2>1 DEF PromisedPool!End, Begun, Accepted
    <2> QED BY <2>1, <2>2 DEF PromisedPool!Next
  <1>5. ASSUME NEW c \in Clients, NEW drain \in Drains, Shutdown(c, drain) PROVE PromisedPool!Next
    <2>1. /\ ~stopping /\ stopping' = TRUE /\ UNCHANGED <<accepted, ended>>
          /\ dropped' = IF drain THEN dropped ELSE Queued
      BY <1>5 DEF Shutdown, Queued
    <2>2. Begun' = Begun /\ drain \in BOOLEAN
      BY <1>5, ShutdownKeepsIInv, ThreadPoolAssumption
    <2>3. PromisedPool!ShutDown(drain)
      BY <2>1, <2>2, PendingIsQueued DEF PromisedPool!ShutDown
    <2> QED BY <2>2, <2>3 DEF PromisedPool!Next
  <1>6. ASSUME NEW w \in Workers, Sleep(w) \/ Exit(w) \/ Complete(w) PROVE UNCHANGED PromisedPool!poolVars
    BY <1>6, <1>1 DEF Sleep, Exit, Complete, state, history
  <1>7. ASSUME NEW t \in Threads, NotifyOne(t) \/ SpuriousWakeup(t) PROVE UNCHANGED PromisedPool!poolVars
    BY <1>7, <1>1 DEF NotifyOne, SpuriousWakeup, state, history
  <1>8. ASSUME NEW c \in Clients,
               NotifyAll(c) \/ WaitIdle(c) \/ WaitMore(c) \/ WaitEnds(c) \/ Joined(c)
        PROVE  UNCHANGED PromisedPool!poolVars
    BY <1>8, <1>1 DEF NotifyAll, WaitIdle, WaitMore, WaitEnds, Joined, state, history
  <1>9. CASE UNCHANGED vars
    BY <1>9, <1>1 DEF vars, state, history
  <1> QED BY <1>2, <1>3, <1>4, <1>5, <1>6, <1>7, <1>8, <1>9
          DEF Next, WorkerNext, CallProceeds, ClientCalls, Threads

(***************************************************************************)
(* The thread pool implements TaskPool: tasks are accepted until it is shut*)
(* down, each is run once, by as many workers as there are at most, the    *)
(* most urgent first and in the order of acceptance among equals, unless   *)
(* shutdown(false) discards it before it was begun.                        *)
(***************************************************************************)
THEOREM PoolKeepsItsPromise == Spec => ImplementsTaskPool
  <1>1. Init => PromisedPool!Init
    <2> SUFFICES ASSUME Init PROVE PromisedPool!Init
      OBVIOUS
    <2>1. Begun = {}
      BY LenProperties, EmptySeq DEF Init, Begun, Accepted, ToSet
    <2> QED BY <2>1 DEF Init, PromisedPool!Init
  <1> QED BY <1>1, Refines, IInvAlways, PTL DEF Spec, ImplementsTaskPool, PromisedPool!Spec

=============================================================================
