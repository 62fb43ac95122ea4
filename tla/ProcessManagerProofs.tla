------------------------ MODULE ProcessManagerProofs ------------------------
(***************************************************************************)
(* Theorems about ProcessManager, for every set of names and pids, every   *)
(* launch file, every start request and every restart limit.               *)
(***************************************************************************)
EXTENDS ProcessManager, TLAPS

(***************************************************************************)
(* The states of an entry that the other invariants rest on: an entry with *)
(* a child is running or being stopped, only a child being stopped is      *)
(* marked as stopped on purpose, and an entry the table does not hold yet, *)
(* or that StartAll has still to visit, has no child.                      *)
(***************************************************************************)
EntryStates ==
    /\ \A n \in Names :
          /\ Live(n) => processes[n].state \in {"Running", "Stopping"}
          /\ processes[n].intentional_stop =>
                Live(n) /\ processes[n].state = "Stopping"
          /\ Live(n) => n \in listed \ unstarted
    /\ stopping => unstarted = {}

IInv == TypeOK /\ TableMatchesChildren /\ EntryStates /\ ShutdownStopsEverything

-----------------------------------------------------------------------------
(* The operators the actions are built from                                *)

(* A forked entry records the new pid and forgets heartbeats and stops.    *)
LEMMA StartedOneFacts ==
    ASSUME NEW e \in ManagedProcess, NEW p \in Pids \cup {NoPid}, e.pid = NoPid
    PROVE  /\ StartedOne(e, p) \in ManagedProcess
           /\ StartedOne(e, p).pid = p
           /\ StartedOne(e, p).intentional_stop = FALSE
           /\ StartedOne(e, p).state = IF p = NoPid THEN "Failed" ELSE "Running"
           /\ StartedOne(e, p).spec = e.spec
           /\ StartedOne(e, p).restart_count = e.restart_count
  BY DEF StartedOne, ManagedProcess, ProcessState

(* A start that finds fork() failing remembers it.                         *)
LEMMA ForkFailedFact ==
    ASSUME NEW e \in ManagedProcess
    PROVE  StartedOne(e, NoPid).fork_failed = TRUE
  BY DEF StartedOne, ManagedProcess

(* Stopping an entry keeps its child.                                      *)
LEMMA StoppedOneFacts ==
    ASSUME NEW e \in ManagedProcess, NEW i \in BOOLEAN
    PROVE  /\ StoppedOne(e, i) \in ManagedProcess
           /\ StoppedOne(e, i).pid = e.pid
           /\ StoppedOne(e, i).intentional_stop = i
           /\ StoppedOne(e, i).state = "Stopping"
  BY DEF StoppedOne, ManagedProcess, ProcessState


(* StopEach leaves pids and the phases of the children alone.              *)
LEMMA StopEachFacts ==
    ASSUME NEW S \in SUBSET Names, NEW i \in BOOLEAN, TypeOK, StopEach(S, i)
    PROVE  /\ processes' \in [Names -> ManagedProcess]
           /\ child' \in [Pids -> Child]
           /\ \A p \in Pids : child'[p].phase = child[p].phase
           /\ \A n \in Names : processes'[n].pid = processes[n].pid
           /\ \A n \in Names : n \in S /\ Live(n) =>
                 /\ processes'[n].state = "Stopping"
                 /\ processes'[n].intentional_stop = i
           /\ \A n \in Names : ~(n \in S /\ Live(n)) =>
                 processes'[n] = processes[n]
  <1>1. ASSUME NEW n \in Names
        PROVE  /\ processes'[n] \in ManagedProcess
               /\ processes'[n].pid = processes[n].pid
               /\ n \in S /\ Live(n) => /\ processes'[n].state = "Stopping"
                                        /\ processes'[n].intentional_stop = i
               /\ ~(n \in S /\ Live(n)) => processes'[n] = processes[n]
    <2>1. processes[n] \in ManagedProcess
      BY DEF TypeOK
    <2>2. CASE n \in S /\ Live(n)
      <3>1. processes'[n] = StoppedOne(processes[n], i)
        BY <2>2 DEF StopEach
      <3> QED BY <2>1, <2>2, <3>1, StoppedOneFacts
    <2>3. CASE ~(n \in S /\ Live(n))
      BY <2>1, <2>3 DEF StopEach
    <2> QED BY <2>2, <2>3
  <1>2. processes' \in [Names -> ManagedProcess]
    BY <1>1 DEF StopEach
  <1>3. ASSUME NEW p \in Pids
        PROVE  child'[p] \in Child /\ child'[p].phase = child[p].phase
    BY DEF StopEach, Terminated, TypeOK, Child
  <1>4. child' \in [Pids -> Child]
    BY <1>3 DEF StopEach, Terminated
  <1> QED BY <1>1, <1>2, <1>3, <1>4

-----------------------------------------------------------------------------
(* The inductive invariant                                                 *)

LEMMA InitIInv == Init => IInv
  <1> SUFFICES ASSUME Init PROVE IInv
    OBVIOUS
  <1>1. ASSUME NEW n \in Names
        PROVE  /\ processes[n] \in ManagedProcess
               /\ processes[n].pid = NoPid
               /\ processes[n].intentional_stop = FALSE
    <2>1. (IF n \in Configured THEN Config[n] ELSE UnusedSpec) \in ProcessSpec
      BY ConfigAssumption DEF UnusedSpec
    <2> DEFINE s == IF n \in Configured THEN Config[n] ELSE UnusedSpec
    <2>2. processes[n] = NewProcess(s)
      BY DEF Init
    <2> HIDE DEF s
    <2>3. s \in ProcessSpec
      BY <2>1 DEF s
    <2> QED BY <2>2, <2>3, CountAssumption
            DEF NewProcess, ManagedProcess, ProcessState
  <1>2. processes \in [Names -> ManagedProcess]
    BY <1>1 DEF Init
  <1>3. child \in [Pids -> Child] /\ \A p \in Pids : child[p].phase = "free"
    BY DEF Init, NoChild, Child
  <1>4. TypeOK
    BY <1>2, <1>3, ConfigAssumption DEF Init, TypeOK
  <1> QED BY <1>1, <1>3, <1>4 DEF IInv, TableMatchesChildren, EntryStates,
            ShutdownStopsEverything, Live, Init

(***************************************************************************)
(* A fork for an entry without a child: the step of StartAll, of           *)
(* StartProcess and of a restart, once the old child is reaped.            *)
(***************************************************************************)
LEMMA ForkPreservesIInv ==
    ASSUME IInv, ~stopping, NEW n \in Names, NEW e \in ManagedProcess,
           e.pid = NoPid, stopping' = stopping,
           listed' \subseteq Names, listed \cup {n} \subseteq listed',
           unstarted' \subseteq unstarted, n \notin unstarted',
           NEW c \in [Pids -> Child],
           \A p \in Pids : c[p].phase # "free" <=>
              child[p].phase # "free" /\ p # processes[n].pid,
           NEW p \in Pids \cup {NoPid},
           p # NoPid => c[p].phase = "free",
           processes' = [processes EXCEPT ![n] = StartedOne(e, p)],
           child' = Forked(c, p)
    PROVE  IInv'
  <1> USE PidAssumption
  <1> DEFINE s == StartedOne(e, p)
  <1>1. /\ s \in ManagedProcess /\ s.pid = p
        /\ s.intentional_stop = FALSE
        /\ s.state = IF p = NoPid THEN "Failed" ELSE "Running"
    BY StartedOneFacts
  <1> HIDE DEF s
  <1>2. processes' = [processes EXCEPT ![n] = s]
    BY DEF s
  <1>3. processes' \in [Names -> ManagedProcess] /\ processes'[n] = s
        /\ \A m \in Names \ {n} : processes'[m] = processes[m]
    BY <1>1, <1>2 DEF IInv, TypeOK
  <1>4. child' \in [Pids -> Child]
    BY DEF Forked, NoChild, Child
  <1>5. \A q \in Pids : child'[q].phase # "free" <=> (q = p \/ c[q].phase # "free")
    BY DEF Forked, NoChild, Child
  <1>6. TypeOK'
    BY <1>3, <1>4 DEF TypeOK, IInv
  <1>7. TableMatchesChildren'
    <2>1. ASSUME NEW m \in Names, NEW k \in Names, m # k, Live(m)',
                 processes'[m].pid = processes'[k].pid
          PROVE  FALSE
      BY <2>1, <1>1, <1>3 DEF IInv, TypeOK, TableMatchesChildren, Live, ManagedProcess
    <2>2. ASSUME NEW m \in Names, Live(m)'
          PROVE  child'[processes'[m].pid].phase # "free"
      BY <2>2, <1>1, <1>3, <1>5 DEF IInv, TypeOK, TableMatchesChildren, Live, ManagedProcess
    <2>3. ASSUME NEW q \in Pids, child'[q].phase # "free"
          PROVE  \E m \in Names : processes'[m].pid = q
      <3>1. CASE q = p
        BY <3>1, <1>1, <1>3
      <3>2. CASE q # p
        <4>1. PICK m \in Names : processes[m].pid = q
          BY <3>2, <2>3, <1>5 DEF IInv, TableMatchesChildren
        <4>2. m # n
          BY <4>1, <3>2, <2>3, <1>5
        <4> QED BY <4>1, <4>2, <1>3
      <3> QED BY <3>1, <3>2
    <2> QED BY <2>1, <2>2, <2>3 DEF TableMatchesChildren
  <1>8. EntryStates'
    BY <1>1, <1>3 DEF IInv, EntryStates, Live, TypeOK
  <1> QED BY <1>6, <1>7, <1>8 DEF IInv, ShutdownStopsEverything

(***************************************************************************)
(* A step that keeps every pid, every listing and whether a child exists,  *)
(* and that leaves the entries that are stopped on purpose so.             *)
(***************************************************************************)
LEMMA QuietStepPreservesIInv ==
    ASSUME IInv, UNCHANGED <<listed, unstarted, stopping>>,
           processes' \in [Names -> ManagedProcess],
           child' \in [Pids -> Child],
           \A p \in Pids : child'[p].phase = "free" <=> child[p].phase = "free",
           \A n \in Names :
              /\ processes'[n].pid = processes[n].pid
              /\ \/ /\ processes'[n].state = processes[n].state
                    /\ processes'[n].intentional_stop = processes[n].intentional_stop
                 \/ /\ ~stopping /\ Live(n) /\ processes'[n].state = "Stopping"
    PROVE  IInv'
  <1>1. TypeOK'
    BY DEF IInv, TypeOK
  <1>2. TableMatchesChildren'
    BY DEF IInv, TypeOK, TableMatchesChildren, Live, ManagedProcess
  <1>3. EntryStates'
    BY DEF IInv, EntryStates, Live
  <1>4. ShutdownStopsEverything'
    BY DEF IInv, ShutdownStopsEverything, Live
  <1> QED BY <1>1, <1>2, <1>3, <1>4 DEF IInv


LEMMA StartAllStep == ASSUME IInv, NEW n \in Names, StartAll(n) PROVE IInv'
  <1>1. /\ processes[n] \in ManagedProcess /\ processes[n].pid = NoPid
        /\ n \in listed /\ listed \subseteq Names /\ child \in [Pids -> Child]
    BY DEF IInv, TypeOK, EntryStates, Live, StartAll
  <1>2. PICK p \in ForkResults({}) :
           /\ processes' = [processes EXCEPT ![n] = StartedOne(processes[n], p)]
           /\ child' = Forked(child, p)
    BY DEF StartAll, IInv, TypeOK
  <1>3. p \in Pids \cup {NoPid} /\ (p # NoPid => child[p].phase = "free")
    BY <1>2 DEF ForkResults, FreePids
  <1>4. /\ ~stopping /\ stopping' = stopping /\ listed' = listed
        /\ unstarted' \subseteq unstarted /\ n \notin unstarted'
    BY DEF StartAll
  <1>5. \A q \in Pids : child[q].phase # "free" <=>
           child[q].phase # "free" /\ q # processes[n].pid
    BY <1>1, PidAssumption
  <1>6. listed' \subseteq Names /\ listed \cup {n} \subseteq listed'
    BY <1>1, <1>4
  <1>7. processes' = [processes EXCEPT ![n] = StartedOne(processes[n], p)]
        /\ child' = Forked(child, p)
    BY <1>2
  <1> QED BY <1>1, <1>3, <1>4, <1>5, <1>6, <1>7, ForkPreservesIInv

LEMMA StartProcessStep ==
    ASSUME IInv, NEW n \in Names, NEW s \in ApiSpecs, StartProcess(n, s)
    PROVE  IInv'
  <1>1. CASE Live(n)
    BY <1>1 DEF IInv, TypeOK, TableMatchesChildren, EntryStates,
        ShutdownStopsEverything, Live, StartProcess
  <1>2. CASE ~Live(n)
    <2> DEFINE e == [processes[n] EXCEPT !.spec = s]
    <2>1. processes[n] \in ManagedProcess /\ s \in ProcessSpec
      BY ConfigAssumption DEF IInv, TypeOK
    <2>2. e \in ManagedProcess /\ e.pid = NoPid /\ processes[n].pid = NoPid
      BY <1>2, <2>1 DEF ManagedProcess, Live
    <2>3. PICK p \in ForkResults({}) :
             /\ processes' = [processes EXCEPT ![n] = StartedOne(e, p)]
             /\ child' = Forked(child, p)
      BY <1>2 DEF StartProcess, IInv, TypeOK
    <2> HIDE DEF e
    <2>4. p \in Pids \cup {NoPid} /\ (p # NoPid => child[p].phase = "free")
      BY <2>3 DEF ForkResults, FreePids
    <2>5. /\ ~stopping /\ stopping' = stopping /\ listed' = listed \cup {n}
          /\ listed \subseteq Names /\ unstarted' = unstarted /\ unstarted = {}
          /\ child \in [Pids -> Child]
      BY <1>2 DEF StartProcess, IInv, TypeOK
    <2> QED BY <2>2, <2>3, <2>4, <2>5, PidAssumption, ForkPreservesIInv
  <1> QED BY <1>1, <1>2

LEMMA StopEachStep ==
    ASSUME IInv, ~stopping, NEW S \in SUBSET Names, NEW i \in BOOLEAN,
           StopEach(S, i), UNCHANGED <<listed, unstarted, stopping>>
    PROVE  IInv'
  <1>1. TypeOK
    BY DEF IInv
  <1> QED BY <1>1, StopEachFacts, QuietStepPreservesIInv

LEMMA StopAllStep == ASSUME IInv, StopAll PROVE IInv'
  <1>1. TypeOK /\ StopEach(Names, TRUE)
        /\ UNCHANGED <<listed, unstarted>> /\ stopping' = TRUE
    BY DEF IInv, StopAll
  <1>2. /\ processes' \in [Names -> ManagedProcess]
        /\ child' \in [Pids -> Child]
        /\ \A p \in Pids : child'[p].phase = child[p].phase
        /\ \A n \in Names :
              /\ processes'[n].pid = processes[n].pid
              /\ Live(n) => /\ processes'[n].state = "Stopping"
                            /\ processes'[n].intentional_stop = TRUE
              /\ ~Live(n) => processes'[n] = processes[n]
    BY <1>1, StopEachFacts
  <1>3. TypeOK'
    BY <1>1, <1>2 DEF TypeOK
  <1>4. TableMatchesChildren'
    BY <1>2 DEF IInv, TypeOK, TableMatchesChildren, Live, ManagedProcess
  <1>5. EntryStates'
    BY <1>1, <1>2 DEF IInv, EntryStates, Live, StopAll
  <1>6. ShutdownStopsEverything'
    BY <1>2 DEF ShutdownStopsEverything, Live
  <1> QED BY <1>3, <1>4, <1>5, <1>6 DEF IInv

(***************************************************************************)
(* What HandleExit does to a managed child: the entry is left without a    *)
(* child, or is forked again.                                              *)
(***************************************************************************)
Exited(n, ok) ==
    [processes[n] EXCEPT
        !.state = IF stopping \/ processes[n].intentional_stop THEN "Stopped"
                  ELSE IF ok THEN "Exited" ELSE "Failed",
        !.pid = NoPid, !.intentional_stop = FALSE]

Recounted(n, ok) ==
    [Exited(n, ok) EXCEPT !.restart_count = Counted(@)]

LEMMA ExitedFacts ==
    ASSUME NEW n \in Names, NEW ok \in BOOLEAN, TypeOK
    PROVE  /\ Exited(n, ok) \in ManagedProcess
           /\ Exited(n, ok).pid = NoPid
           /\ Exited(n, ok).intentional_stop = FALSE
           /\ Exited(n, ok).spec = processes[n].spec
           /\ Exited(n, ok).restart_count = processes[n].restart_count
           /\ Exited(n, ok).state =
                 IF stopping \/ processes[n].intentional_stop THEN "Stopped"
                 ELSE IF ok THEN "Exited" ELSE "Failed"
           /\ Recounted(n, ok) \in ManagedProcess
           /\ Recounted(n, ok).pid = NoPid
           /\ Recounted(n, ok).spec = processes[n].spec
           /\ Recounted(n, ok).restart_count =
                 IF processes[n].restart_count < MaxCount
                 THEN processes[n].restart_count + 1
                 ELSE processes[n].restart_count
  <1>1. processes[n] \in ManagedProcess
    BY DEF TypeOK
  <1>2. /\ Exited(n, ok) \in ManagedProcess
        /\ Exited(n, ok).pid = NoPid
        /\ Exited(n, ok).intentional_stop = FALSE
        /\ Exited(n, ok).spec = processes[n].spec
        /\ Exited(n, ok).restart_count = processes[n].restart_count
        /\ Exited(n, ok).state =
                 IF stopping \/ processes[n].intentional_stop THEN "Stopped"
                 ELSE IF ok THEN "Exited" ELSE "Failed"
    BY <1>1 DEF Exited, ManagedProcess, ProcessState
  <1>3. /\ Recounted(n, ok) \in ManagedProcess
        /\ Recounted(n, ok).pid = NoPid
        /\ Recounted(n, ok).spec = processes[n].spec
        /\ Recounted(n, ok).restart_count =
                 IF processes[n].restart_count < MaxCount
                 THEN processes[n].restart_count + 1
                 ELSE processes[n].restart_count
    BY <1>2, CountAssumption DEF Recounted, Counted, ManagedProcess
  <1> QED BY <1>2, <1>3

LEMMA HandleExitCases ==
    ASSUME NEW p \in Pids, TypeOK, TableMatchesChildren, HandleExit(p)
    PROVE  \E n \in Names :
             /\ processes[n].pid = p
             /\ \/ /\ ~stopping /\ ~processes[n].intentional_stop
                   /\ ShouldRestart(processes[n], child[p].ok)
                   /\ \E q \in ForkResults({p}) :
                        /\ processes' = [processes EXCEPT ![n] =
                               StartedOne(Recounted(n, child[p].ok), q)]
                        /\ child' = Forked([child EXCEPT ![p] = NoChild], q)
                \/ /\ stopping \/ processes[n].intentional_stop
                      \/ ~ShouldRestart(processes[n], child[p].ok)
                   /\ processes' = [processes EXCEPT ![n] = Exited(n, child[p].ok)]
                   /\ child' = [child EXCEPT ![p] = NoChild]
  <1>1. PICK m \in Names : processes[m].pid = p
    BY DEF HandleExit, TableMatchesChildren
  <1>2. PICK n \in {k \in Names : processes[k].pid = p} :
          LET e == processes[n]
              ok == child[p].ok
              released == [child EXCEPT ![p] = NoChild]
              exited == [e EXCEPT
                  !.state = IF stopping \/ e.intentional_stop THEN "Stopped"
                            ELSE IF ok THEN "Exited" ELSE "Failed",
                  !.pid = NoPid, !.intentional_stop = FALSE]
          IN  IF Restarts(e, ok)
              THEN \E q \in ForkResults({p}) :
                     /\ processes' = [processes EXCEPT ![n] = StartedOne(
                          [exited EXCEPT !.restart_count = Counted(@)], q)]
                     /\ child' = Forked(released, q)
              ELSE /\ processes' = [processes EXCEPT ![n] = exited]
                   /\ child' = released
    BY <1>1, Zenon DEF HandleExit
  <1>3. n \in Names /\ processes[n].pid = p
    BY <1>2
  <1> QED BY <1>2, <1>3, Zenon DEF Exited, Recounted, Restarts


LEMMA HandleExitStep == ASSUME IInv, NEW p \in Pids, HandleExit(p) PROVE IInv'
  <1>1. TypeOK /\ TableMatchesChildren
    BY DEF IInv
  <1>2. PICK n \in Names :
             /\ processes[n].pid = p
             /\ \/ /\ ~stopping /\ ~processes[n].intentional_stop
                   /\ ShouldRestart(processes[n], child[p].ok)
                   /\ \E q \in ForkResults({p}) :
                        /\ processes' = [processes EXCEPT ![n] =
                               StartedOne(Recounted(n, child[p].ok), q)]
                        /\ child' = Forked([child EXCEPT ![p] = NoChild], q)
                \/ /\ stopping \/ processes[n].intentional_stop
                      \/ ~ShouldRestart(processes[n], child[p].ok)
                   /\ processes' = [processes EXCEPT ![n] = Exited(n, child[p].ok)]
                   /\ child' = [child EXCEPT ![p] = NoChild]
    BY <1>1, HandleExitCases
  <1> DEFINE ok == child[p].ok
             released == [child EXCEPT ![p] = NoChild]
  <1>3. ok \in BOOLEAN
    BY <1>1 DEF TypeOK, Child
  <1>4. /\ released \in [Pids -> Child]
        /\ \A q \in Pids : released[q].phase # "free" <=>
              child[q].phase # "free" /\ q # p
    BY <1>1 DEF TypeOK, NoChild, Child
  <1>5. /\ UNCHANGED <<listed, unstarted, stopping>>
        /\ unstarted = {} /\ listed \subseteq Names /\ n \in listed
    BY <1>1, <1>2, PidAssumption DEF HandleExit, TypeOK, IInv, EntryStates, Live
  <1> HIDE DEF released, ok
  <1>6. CASE /\ ~stopping
             /\ \E q \in ForkResults({p}) :
                  /\ processes' = [processes EXCEPT ![n] =
                         StartedOne(Recounted(n, ok), q)]
                  /\ child' = Forked(released, q)
    <2>1. PICK q \in ForkResults({p}) :
             /\ processes' = [processes EXCEPT ![n] =
                    StartedOne(Recounted(n, ok), q)]
             /\ child' = Forked(released, q)
      BY <1>6
    <2>2. /\ q \in Pids \cup {NoPid}
          /\ q # NoPid => released[q].phase = "free"
      BY <2>1, <1>4 DEF ForkResults, FreePids
    <2>3. Recounted(n, ok) \in ManagedProcess /\ Recounted(n, ok).pid = NoPid
      BY <1>1, <1>3, ExitedFacts
    <2>4. /\ ~stopping /\ stopping' = stopping
          /\ listed' \subseteq Names /\ listed \cup {n} \subseteq listed'
          /\ unstarted' \subseteq unstarted /\ n \notin unstarted'
      BY <1>5, <1>6
    <2>5. \A r \in Pids : released[r].phase # "free" <=>
              child[r].phase # "free" /\ r # processes[n].pid
      BY <1>2, <1>4
    <2> QED BY <1>4, <2>1, <2>2, <2>3, <2>4, <2>5, ForkPreservesIInv
  <1>7. CASE /\ processes' = [processes EXCEPT ![n] = Exited(n, ok)]
             /\ child' = released
    <2>1. /\ Exited(n, ok) \in ManagedProcess /\ Exited(n, ok).pid = NoPid
          /\ Exited(n, ok).intentional_stop = FALSE
      BY <1>1, <1>3, ExitedFacts
    <2>2. /\ processes' \in [Names -> ManagedProcess]
          /\ processes'[n] = Exited(n, ok)
          /\ \A m \in Names \ {n} : processes'[m] = processes[m]
      BY <1>1, <1>7, <2>1 DEF TypeOK
    <2>3. TypeOK'
      BY <1>1, <1>4, <1>5, <1>7, <2>2 DEF TypeOK
    <2>4. TableMatchesChildren'
      <3>1. ASSUME NEW k \in Names, NEW m \in Names, Live(m)',
                   processes'[m].pid = processes'[k].pid
            PROVE  m = k
        BY <1>1, <2>1, <2>2, <3>1 DEF Live, TableMatchesChildren
      <3>2. ASSUME NEW m \in Names, Live(m)'
            PROVE  child'[processes'[m].pid].phase # "free"
        <4>1. m # n /\ Live(m) /\ processes'[m].pid = processes[m].pid
          BY <2>1, <2>2, <3>2 DEF Live
        <4>2. processes[m].pid \in Pids /\ processes[m].pid # p
          BY <1>1, <1>2, <4>1 DEF Live, TypeOK, ManagedProcess, TableMatchesChildren
        <4> QED BY <1>1, <1>4, <1>7, <4>1, <4>2 DEF TableMatchesChildren
      <3>3. ASSUME NEW q \in Pids, child'[q].phase # "free"
            PROVE  \E m \in Names : processes'[m].pid = q
        <4>1. q # p /\ child[q].phase # "free"
          BY <1>4, <1>7, <3>3
        <4>2. PICK m \in Names : processes[m].pid = q
          BY <1>1, <4>1 DEF TableMatchesChildren
        <4> QED BY <1>2, <2>2, <4>1, <4>2
      <3> QED BY <3>1, <3>2, <3>3 DEF TableMatchesChildren
    <2>5. EntryStates'
      BY <1>5, <2>1, <2>2 DEF IInv, EntryStates, Live
    <2>6. ShutdownStopsEverything'
      BY <1>5, <2>1, <2>2 DEF IInv, ShutdownStopsEverything, Live
    <2> QED BY <2>3, <2>4, <2>5, <2>6 DEF IInv
  <1> QED BY <1>2, <1>6, <1>7 DEF ok, released

LEMMA MarkHeartbeatStep ==
    ASSUME IInv, NEW S \in SUBSET Names, MarkHeartbeat(S) PROVE IInv'
  <1>1. ASSUME NEW n \in Names
        PROVE  /\ processes'[n] \in ManagedProcess
               /\ processes'[n].pid = processes[n].pid
               /\ processes'[n].state = processes[n].state
               /\ processes'[n].intentional_stop = processes[n].intentional_stop
    BY DEF IInv, TypeOK, MarkHeartbeat, MarkedHeartbeats, ManagedProcess
  <1>2. processes' \in [Names -> ManagedProcess]
    BY <1>1 DEF MarkHeartbeat, MarkedHeartbeats
  <1>3. UNCHANGED <<listed, unstarted, stopping, child>> /\ child \in [Pids -> Child]
    BY DEF MarkHeartbeat, IInv, TypeOK
  <1> QED BY <1>1, <1>2, <1>3, QuietStepPreservesIInv

LEMMA KillOverdueStep == ASSUME IInv, KillOverdue PROVE IInv'
  <1>1. ASSUME NEW n \in Names
        PROVE  /\ processes'[n] \in ManagedProcess
               /\ processes'[n].pid = processes[n].pid
               /\ processes'[n].state = processes[n].state
               /\ processes'[n].intentional_stop = processes[n].intentional_stop
    BY DEF IInv, TypeOK, KillOverdue, ManagedProcess
  <1>2. processes' \in [Names -> ManagedProcess]
    BY <1>1 DEF KillOverdue
  <1>3. ASSUME NEW p \in Pids
        PROVE  child'[p] \in Child /\ (child'[p].phase = "free" <=> child[p].phase = "free")
    BY DEF IInv, TypeOK, KillOverdue, Child
  <1>4. child' \in [Pids -> Child] /\ UNCHANGED <<listed, unstarted, stopping>>
    BY <1>3 DEF KillOverdue
  <1> QED BY <1>1, <1>2, <1>3, <1>4, QuietStepPreservesIInv

LEMMA ChildStepQuiet ==
    ASSUME IInv, NEW p \in Pids, NEW from \in {"forked", "up", "hung"},
           NEW to \in Child, to.phase # "free", ChildStep(p, from, to)
    PROVE  IInv'
  <1>1. child' \in [Pids -> Child]
        /\ \A q \in Pids : child'[q].phase = "free" <=> child[q].phase = "free"
    BY DEF ChildStep, IInv, TypeOK
  <1>2. UNCHANGED <<processes, listed, unstarted, stopping>>
        /\ processes \in [Names -> ManagedProcess]
    BY DEF ChildStep, IInv, TypeOK
  <1> QED BY <1>1, <1>2, QuietStepPreservesIInv

LEMMA EnvironmentStep == ASSUME IInv, EnvironmentNext PROVE IInv'
  <1>1. ASSUME NEW p \in Pids, Exec(p) PROVE IInv'
    <2>1. [child[p] EXCEPT !.phase = "up"] \in Child
          /\ [child[p] EXCEPT !.phase = "up"].phase # "free"
      BY DEF IInv, TypeOK, Child
    <2> QED BY <1>1, <2>1, ChildStepQuiet DEF Exec
  <1>2. ASSUME NEW p \in Pids, ExecFails(p) PROVE IInv'
    BY <1>2, ChildStepQuiet DEF ExecFails, Child
  <1>3. ASSUME NEW p \in Pids, SwallowTerm(p) PROVE IInv'
    <2>1. [child[p] EXCEPT !.term = FALSE] \in Child
          /\ [child[p] EXCEPT !.term = FALSE].phase # "free"
      BY <1>3 DEF IInv, TypeOK, Child, SwallowTerm, ChildStep
    <2> QED BY <1>3, <2>1, ChildStepQuiet DEF SwallowTerm
  <1>4. ASSUME NEW p \in Pids, NEW ok \in BOOLEAN, Exit(p, ok) PROVE IInv'
    BY <1>4, ChildStepQuiet DEF Exit, Child
  <1>5. ASSUME NEW p \in Pids, Hang(p) PROVE IInv'
    BY <1>5, ChildStepQuiet DEF Hang, Child
  <1>6. ASSUME NEW p \in Pids, Crash(p) PROVE IInv'
    BY <1>6, ChildStepQuiet DEF Crash, Child
  <1>7. ASSUME NEW n \in Names, Silence(n) \/ Expire(n) PROVE IInv'
    <2>1. ASSUME NEW m \in Names
          PROVE  /\ processes'[m] \in ManagedProcess
                 /\ processes'[m].pid = processes[m].pid
                 /\ processes'[m].state = processes[m].state
                 /\ processes'[m].intentional_stop = processes[m].intentional_stop
      <3>1. processes[m] \in ManagedProcess
        BY DEF IInv, TypeOK
      <3>2. \/ processes'[m] = processes[m]
            \/ processes'[m] = [processes[m] EXCEPT !.silent = TRUE]
            \/ processes'[m] = [processes[m] EXCEPT !.expired = TRUE]
        BY <1>7 DEF IInv, TypeOK, Silence, Expire
      <3> QED BY <3>1, <3>2 DEF ManagedProcess
    <2>2. processes' \in [Names -> ManagedProcess] /\ child \in [Pids -> Child]
          /\ UNCHANGED <<listed, unstarted, stopping, child>>
      BY <1>7, <2>1 DEF IInv, TypeOK, Silence, Expire
    <2> QED BY <2>1, <2>2, QuietStepPreservesIInv
  <1> QED BY <1>1, <1>2, <1>3, <1>4, <1>5, <1>6, <1>7 DEF EnvironmentNext

LEMMA NextIInv == IInv /\ [Next]_vars => IInv'
  <1> SUFFICES ASSUME IInv, [Next]_vars PROVE IInv'
    OBVIOUS
  <1>1. ASSUME NEW n \in Names, NEW p \in Pids \cup {NoPid}, StopProcess(n, p)
        PROVE  IInv'
    <2>1. StopTargets(n, p) \in SUBSET Names
      BY DEF StopTargets, IInv, TypeOK
    <2> QED BY <1>1, <2>1, StopEachStep DEF StopProcess
  <1>2. CASE CheckHeartbeatTimeouts
    BY <1>2, StopEachStep DEF CheckHeartbeatTimeouts
  <1>3. CASE UNCHANGED vars
    BY <1>3 DEF vars, IInv, TypeOK, TableMatchesChildren, EntryStates,
                ShutdownStopsEverything, Live
  <1> QED BY <1>1, <1>2, <1>3, StartAllStep, StartProcessStep, HandleExitStep,
             MarkHeartbeatStep, StopAllStep, KillOverdueStep, EnvironmentStep
          DEF Next, SupervisorNext

(* The inductive invariant holds in every behaviour of the process table.  *)
THEOREM Invariance == Spec => []IInv
  BY InitIInv, NextIInv, PTL DEF Spec

(* Every variable keeps its type.                                          *)
THEOREM TypeCorrect == Spec => []TypeOK
  BY Invariance, PTL DEF IInv

(* The table records exactly the children that exist, each of them once.   *)
THEOREM TableIsExact == Spec => []TableMatchesChildren
  BY Invariance, PTL DEF IInv

(* Nothing is started or restarted once StopAll has begun.                 *)
THEOREM ShutdownIsTotal == Spec => []ShutdownStopsEverything
  BY Invariance, PTL DEF IInv


-----------------------------------------------------------------------------
(* A stop on purpose is final                                              *)

LEMMA OrderedStep ==
    ASSUME IInv, [Next]_vars, NEW n \in Names, Ordered(n)
    PROVE  \/ Ordered(n)' /\ processes'[n].pid = processes[n].pid
           \/ processes'[n].pid = NoPid /\ processes'[n].state = "Stopped"
  <1> DEFINE Kept == /\ processes'[n].pid = processes[n].pid
                     /\ processes'[n].intentional_stop
             Goal == \/ Ordered(n)' /\ processes'[n].pid = processes[n].pid
                     \/ processes'[n].pid = NoPid /\ processes'[n].state = "Stopped"
  <1>1. /\ Live(n) /\ processes[n].state = "Stopping"
        /\ processes[n].intentional_stop = TRUE
        /\ n \in listed \ unstarted /\ TypeOK /\ TableMatchesChildren
        /\ processes[n] \in ManagedProcess
    BY DEF IInv, EntryStates, Ordered, TypeOK, ManagedProcess
  <1>2. Kept => Goal
    BY <1>1 DEF Ordered, Live
  <1>3. ASSUME NEW m \in Names, StartAll(m) PROVE Kept
    BY <1>1, <1>3 DEF StartAll, TypeOK
  <1>4. ASSUME NEW m \in Names, NEW s \in ApiSpecs, StartProcess(m, s) PROVE Kept
    <2>1. m = n => UNCHANGED processes
      BY <1>1, <1>4 DEF StartProcess
    <2>2. m # n => processes'[n] = processes[n]
      BY <1>1, <1>4 DEF StartProcess, TypeOK
    <2> QED BY <1>1, <2>1, <2>2
  <1>5. ASSUME NEW S \in SUBSET Names, StopEach(S, TRUE) PROVE Kept
    BY <1>1, <1>5, StopEachFacts
  <1>6. ASSUME CheckHeartbeatTimeouts PROVE Kept
    <2> DEFINE S == {m \in Names : TimedOut(m)}
    <2>1. n \notin S
      BY <1>1 DEF TimedOut
    <2>2. StopEach(S, FALSE)
      BY <1>6 DEF CheckHeartbeatTimeouts
    <2> HIDE DEF S
    <2>3. S \in SUBSET Names
      BY DEF S
    <2> QED BY <1>1, <2>1, <2>2, <2>3, StopEachFacts
  <1>7. ASSUME NEW p \in Pids, HandleExit(p) PROVE Goal
    <2>1. PICK m \in Names :
             /\ processes[m].pid = p
             /\ \/ /\ ~stopping /\ ~processes[m].intentional_stop
                   /\ ShouldRestart(processes[m], child[p].ok)
                   /\ \E q \in ForkResults({p}) :
                        /\ processes' = [processes EXCEPT ![m] =
                               StartedOne(Recounted(m, child[p].ok), q)]
                        /\ child' = Forked([child EXCEPT ![p] = NoChild], q)
                \/ /\ stopping \/ processes[m].intentional_stop
                      \/ ~ShouldRestart(processes[m], child[p].ok)
                   /\ processes' = [processes EXCEPT ![m] = Exited(m, child[p].ok)]
                   /\ child' = [child EXCEPT ![p] = NoChild]
      BY <1>1, <1>7, HandleExitCases
    <2>2. child[p].ok \in BOOLEAN
      BY <1>1 DEF TypeOK, Child
    <2>3. CASE m # n
      <3>1. processes'[n] = processes[n]
        BY <1>1, <2>1, <2>3 DEF TypeOK
      <3> QED BY <1>1, <1>2, <3>1
    <2>4. CASE m = n
      <3>1. processes'[n] = Exited(n, child[p].ok)
        BY <1>1, <2>1, <2>4 DEF TypeOK
      <3>2. Exited(n, child[p].ok).pid = NoPid
            /\ Exited(n, child[p].ok).state = "Stopped"
        BY <1>1, <2>2, ExitedFacts
      <3> QED BY <3>1, <3>2
    <2> QED BY <2>3, <2>4
  <1>8. ASSUME NEW S \in SUBSET Names, MarkHeartbeat(S) PROVE Kept
    BY <1>1, <1>8 DEF MarkHeartbeat, MarkedHeartbeats, ManagedProcess
  <1>9. ASSUME KillOverdue PROVE Kept
    BY <1>1, <1>9 DEF KillOverdue, ManagedProcess
  <1>10. ASSUME EnvironmentNext PROVE Kept
    <2>1. \/ UNCHANGED processes
          \/ \E m \in Names : Silence(m) \/ Expire(m)
      BY <1>10 DEF EnvironmentNext, Exec, ExecFails, SwallowTerm, Exit, Hang,
                   Crash, ChildStep
    <2>2. \/ processes'[n] = processes[n]
          \/ processes'[n] = [processes[n] EXCEPT !.silent = TRUE]
          \/ processes'[n] = [processes[n] EXCEPT !.expired = TRUE]
      BY <1>1, <2>1 DEF TypeOK, Silence, Expire
    <2> QED BY <1>1, <2>2 DEF ManagedProcess
  <1>11. ASSUME UNCHANGED vars PROVE Kept
    BY <1>1, <1>11 DEF vars
  <1>12. ASSUME NEW m \in Names, NEW p \in Pids \cup {NoPid}, StopProcess(m, p)
         PROVE  Kept
    BY <1>1, <1>5, <1>12 DEF StopProcess, StopTargets, TypeOK
  <1>13. ASSUME StopAll PROVE Kept
    BY <1>5, <1>13 DEF StopAll
  <1> HIDE DEF Goal, Kept
  <1>14. Goal
    BY <1>2, <1>3, <1>4, <1>6, <1>7, <1>8, <1>9, <1>10, <1>11, <1>12, <1>13
       DEF Next, SupervisorNext
  <1> QED BY <1>14 DEF Goal

(* A child that is stopped on purpose is never replaced.                   *)
THEOREM StopIsFinal == Spec => OrderedStopIsFinal
  <1>1. IInv /\ [Next]_vars =>
          [\A n \in Names : Ordered(n) =>
              \/ Ordered(n)' /\ processes'[n].pid = processes[n].pid
              \/ processes'[n].pid = NoPid /\ processes'[n].state = "Stopped"]_vars
    BY OrderedStep
  <1> QED BY <1>1, Invariance, PTL DEF Spec, OrderedStopIsFinal


-----------------------------------------------------------------------------
(* A process that is down has a reason to be                               *)

HasReason(e) ==
    \/ e.state = "Stopped"
    \/ e.state = "Exited" /\ ~ShouldRestart(e, TRUE)
    \/ e.state = "Failed" /\ (e.fork_failed \/ ~ShouldRestart(e, FALSE))

(* A fork that fails is a reason, and a fork that succeeds needs none.     *)
LEMMA ForkedHasReason ==
    ASSUME IInv, NEW n \in Names, NEW e \in ManagedProcess, e.pid = NoPid,
           NEW R \in SUBSET Pids, NEW p \in ForkResults(R),
           processes' = [processes EXCEPT ![n] = StartedOne(e, p)]
    PROVE  Live(n)' \/ HasReason(processes'[n])
  <1>1. processes'[n] = StartedOne(e, p) /\ p \in Pids \cup {NoPid}
    BY PidAssumption DEF IInv, TypeOK, ForkResults, FreePids
  <1>2. StartedOne(e, p).pid = p
        /\ StartedOne(e, p).state = IF p = NoPid THEN "Failed" ELSE "Running"
    BY <1>1, StartedOneFacts
  <1>3. CASE p = NoPid
    <2>1. processes'[n].state = "Failed" /\ processes'[n].fork_failed = TRUE
      BY <1>1, <1>2, <1>3, ForkFailedFact
    <2> QED BY <2>1 DEF HasReason
  <1>4. CASE p # NoPid
    BY <1>1, <1>2, <1>4 DEF Live
  <1> QED BY <1>3, <1>4

(* What an exit leaves behind without a restart is a reason.               *)
LEMMA ExitedHasReason ==
    ASSUME TypeOK, NEW n \in Names, NEW ok \in BOOLEAN,
           stopping \/ processes[n].intentional_stop
              \/ ~ShouldRestart(processes[n], ok)
    PROVE  HasReason(Exited(n, ok))
  <1> DEFINE e == Exited(n, ok)
  <1>1. /\ e.spec = processes[n].spec
        /\ e.restart_count = processes[n].restart_count
        /\ e.state = IF stopping \/ processes[n].intentional_stop THEN "Stopped"
                     ELSE IF ok THEN "Exited" ELSE "Failed"
    BY ExitedFacts
  <1> HIDE DEF e
  <1>2. ShouldRestart(e, ok) <=> ShouldRestart(processes[n], ok)
    BY <1>1 DEF ShouldRestart, Exhausted
  <1>3. HasReason(e)
    BY <1>1, <1>2 DEF HasReason
  <1> QED BY <1>3 DEF e

(* What a step does to an entry, as far as its being down is concerned.    *)
LEMMA DownStep ==
    ASSUME IInv, [Next]_vars, NEW n \in Names
    PROVE  \/ Live(n)'
           \/ HasReason(processes'[n])
           \/ /\ ~Live(n)
              /\ n \in (listed \ unstarted)' => n \in listed \ unstarted
              /\ processes'[n].state = processes[n].state
              /\ processes'[n].spec = processes[n].spec
              /\ processes'[n].restart_count = processes[n].restart_count
              /\ processes'[n].fork_failed = processes[n].fork_failed
  <1> DEFINE Same ==
                /\ n \in (listed \ unstarted)' => n \in listed \ unstarted
                /\ processes'[n].pid = processes[n].pid
                /\ processes'[n].state = processes[n].state
                /\ processes'[n].spec = processes[n].spec
                /\ processes'[n].restart_count = processes[n].restart_count
                /\ processes'[n].fork_failed = processes[n].fork_failed
             Good == Live(n)' \/ HasReason(processes'[n])
             LiveStays == Live(n) /\ Live(n)'
  <1>1. TypeOK /\ TableMatchesChildren /\ processes[n] \in ManagedProcess
    BY DEF IInv, TypeOK
  <1> HIDE DEF Good
  <1>3. ASSUME NEW m \in Names, StartAll(m) PROVE Good \/ Same
    <2>1. CASE m = n
      <3>1. PICK p \in ForkResults({}) :
               processes' = [processes EXCEPT ![n] = StartedOne(processes[n], p)]
        BY <1>1, <1>3, <2>1 DEF StartAll, TypeOK
      <3>2. processes[n].pid = NoPid
        BY <1>3, <2>1 DEF StartAll, IInv, EntryStates, Live
      <3> QED BY <1>1, <3>1, <3>2, ForkedHasReason DEF Good
    <2>2. CASE m # n
      BY <1>1, <1>3, <2>2 DEF StartAll, TypeOK
    <2> QED BY <2>1, <2>2
  <1>4. ASSUME NEW m \in Names, NEW s \in ApiSpecs, StartProcess(m, s)
        PROVE  Good \/ Same
    <2>1. CASE Live(m)
      BY <1>1, <1>4, <2>1 DEF StartProcess
    <2>2. CASE ~Live(m) /\ m = n
      <3> DEFINE e == [processes[n] EXCEPT !.spec = s]
      <3>1. e \in ManagedProcess /\ e.pid = NoPid
        BY <1>1, <2>2, ConfigAssumption DEF ManagedProcess, Live
      <3>2. PICK p \in ForkResults({}) :
               processes' = [processes EXCEPT ![n] = StartedOne(e, p)]
        BY <1>1, <1>4, <2>2 DEF StartProcess, TypeOK
      <3> HIDE DEF e
      <3> QED BY <3>1, <3>2, ForkedHasReason DEF Good
    <2>3. CASE ~Live(m) /\ m # n
      BY <1>1, <1>4, <2>3 DEF StartProcess, TypeOK
    <2> QED BY <2>1, <2>2, <2>3
  <1>5. ASSUME NEW S \in SUBSET Names, NEW i \in BOOLEAN, StopEach(S, i),
               UNCHANGED <<listed, unstarted>>
        PROVE  Same \/ LiveStays
    BY <1>1, <1>5, StopEachFacts DEF Live
  <1>6. ASSUME NEW m \in Names, NEW p \in Pids \cup {NoPid}, StopProcess(m, p)
        PROVE  Same \/ LiveStays
    BY <1>1, <1>5, <1>6 DEF StopProcess, StopTargets, TypeOK
  <1>7. ASSUME CheckHeartbeatTimeouts PROVE Same \/ LiveStays
    BY <1>5, <1>7 DEF CheckHeartbeatTimeouts
  <1>8. ASSUME StopAll PROVE Same \/ LiveStays
    BY <1>5, <1>8 DEF StopAll
  <1>9. ASSUME NEW p \in Pids, HandleExit(p) PROVE Good \/ Same
    <2>1. PICK m \in Names :
             /\ processes[m].pid = p
             /\ \/ /\ ~stopping /\ ~processes[m].intentional_stop
                   /\ ShouldRestart(processes[m], child[p].ok)
                   /\ \E q \in ForkResults({p}) :
                        /\ processes' = [processes EXCEPT ![m] =
                               StartedOne(Recounted(m, child[p].ok), q)]
                        /\ child' = Forked([child EXCEPT ![p] = NoChild], q)
                \/ /\ stopping \/ processes[m].intentional_stop
                      \/ ~ShouldRestart(processes[m], child[p].ok)
                   /\ processes' = [processes EXCEPT ![m] = Exited(m, child[p].ok)]
                   /\ child' = [child EXCEPT ![p] = NoChild]
      BY <1>1, <1>9, HandleExitCases
    <2>2. child[p].ok \in BOOLEAN /\ UNCHANGED <<listed, unstarted>>
      BY <1>1, <1>9 DEF TypeOK, Child, HandleExit
    <2>3. CASE m # n
      <3>1. processes'[n] = processes[n]
        BY <1>1, <2>1, <2>3 DEF TypeOK
      <3> QED BY <2>2, <3>1
    <2>4. CASE m = n /\ \E q \in ForkResults({p}) :
               processes' = [processes EXCEPT ![m] =
                               StartedOne(Recounted(m, child[p].ok), q)]
      <3>1. Recounted(n, child[p].ok) \in ManagedProcess /\ Recounted(n, child[p].ok).pid = NoPid
        BY <1>1, <2>2, ExitedFacts
      <3>2. PICK q \in ForkResults({p}) :
               processes' = [processes EXCEPT ![n] = StartedOne(Recounted(n, child[p].ok), q)]
        BY <2>4
      <3>3. {p} \in SUBSET Pids
        OBVIOUS
      <3> QED BY <3>1, <3>2, <3>3, ForkedHasReason DEF Good
    <2>5. CASE /\ m = n
               /\ stopping \/ processes[m].intentional_stop
                     \/ ~ShouldRestart(processes[m], child[p].ok)
               /\ processes' = [processes EXCEPT ![m] = Exited(m, child[p].ok)]
      <3>1. processes'[n] = Exited(n, child[p].ok)
        BY <1>1, <2>5 DEF TypeOK
      <3> QED BY <1>1, <2>2, <2>5, <3>1, ExitedHasReason DEF Good
    <2> QED BY <2>1, <2>3, <2>4, <2>5
  <1>10. ASSUME NEW S \in SUBSET Names, MarkHeartbeat(S) PROVE Same
    BY <1>1, <1>10 DEF MarkHeartbeat, MarkedHeartbeats, ManagedProcess
  <1>11. ASSUME KillOverdue PROVE Same
    BY <1>1, <1>11 DEF KillOverdue, ManagedProcess
  <1>12. ASSUME EnvironmentNext PROVE Same
    <2>1. /\ UNCHANGED <<listed, unstarted>>
          /\ \/ UNCHANGED processes
             \/ \E m \in Names : Silence(m) \/ Expire(m)
      BY <1>12 DEF EnvironmentNext, Exec, ExecFails, SwallowTerm, Exit, Hang,
                   Crash, ChildStep, Silence, Expire
    <2>2. \/ processes'[n] = processes[n]
          \/ processes'[n] = [processes[n] EXCEPT !.silent = TRUE]
          \/ processes'[n] = [processes[n] EXCEPT !.expired = TRUE]
      BY <1>1, <2>1 DEF TypeOK, Silence, Expire
    <2> QED BY <1>1, <2>1, <2>2 DEF ManagedProcess
  <1>13. ASSUME UNCHANGED vars PROVE Same
    BY <1>13 DEF vars
  <1> HIDE DEF Same, LiveStays
  <1>14. Good \/ Same \/ LiveStays
    BY <1>3, <1>4, <1>6, <1>7, <1>8, <1>9, <1>10, <1>11, <1>12, <1>13
       DEF Next, SupervisorNext
  <1> QED BY <1>14 DEF Good, Same, LiveStays, Live

(* An entry without a child has a reason to be down, in every behaviour.   *)
THEOREM DownHasReason == Spec => []DownForAReason
  <1>1. Init => DownForAReason
    BY DEF Init, DownForAReason
  <1>2. IInv /\ DownForAReason /\ [Next]_vars => DownForAReason'
    <2> SUFFICES ASSUME IInv, DownForAReason, [Next]_vars,
                        NEW n \in (listed \ unstarted)', ~Live(n)'
                 PROVE  HasReason(processes'[n])
      BY DEF DownForAReason, HasReason
    <2>1. IInv'
      BY NextIInv
    <2>2. n \in Names
      BY <2>1 DEF IInv, TypeOK
    <2>3. CASE HasReason(processes'[n])
      BY <2>3
    <2>4. CASE /\ ~Live(n)
               /\ n \in listed \ unstarted
               /\ processes'[n].state = processes[n].state
               /\ processes'[n].spec = processes[n].spec
               /\ processes'[n].restart_count = processes[n].restart_count
               /\ processes'[n].fork_failed = processes[n].fork_failed
      <3>1. HasReason(processes[n])
        BY <2>4 DEF DownForAReason, HasReason
      <3> QED BY <2>4, <3>1 DEF HasReason, ShouldRestart, Exhausted
    <2> QED BY <2>2, <2>3, <2>4, DownStep
  <1> QED BY <1>1, <1>2, Invariance, PTL DEF Spec

=============================================================================
