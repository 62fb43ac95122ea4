------------------------ MODULE SystemServicesProofs ------------------------
(***************************************************************************)
(* Proofs about the hardware_interface process among the services that     *)
(* watch it: wherever its start, its loop or its stop is when it is told   *)
(* to end, and whichever endpoint fails, nothing of it goes on running.    *)
(***************************************************************************)
EXTENDS SystemServices, SequenceTheorems, TLAPS

Mains == {"down", "configure", "start", "started", "spin", "heartbeat", "diagnostics",
          "devices", "device state", "stop", "stop sensor", "join", "ended"}

EndpointRecords ==
    [state : {"created", "configured", "running", "stopped", "error"},
     errors : BOOLEAN, running : BOOLEAN, sensor : BOOLEAN,
     thread : {"none", "checking", "sampling", "done"}]

(* The main thread is at an endpoint when it works on one.                 *)
AtEndpoint == {"configure", "start", "started", "stop sensor", "join"}

ProcessTypes ==
    /\ config \in Configs
    /\ main \in Mains
    /\ endpoint \in [Ids -> EndpointRecords]
    /\ main \in {"stop"} \cup AtEndpoint => at \in 0 .. Len(Endpoints)
    /\ main \in AtEndpoint => at # 0

(* Neither thread nor sensor of it runs, and it does not say so.           *)
Down(e) ==
    /\ endpoint[e].thread \in {"none", "done"}
    /\ ~endpoint[e].sensor
    /\ endpoint[e].state \in {"stopped", "error"}

(***************************************************************************)
(* EndedIsStopped is not inductive: the loop of Stop() goes down through   *)
(* the endpoints, and has taken down all it has passed; the one it is at   *)
(* has no sensor any more when its thread is joined.                       *)
(***************************************************************************)
Stopping == {"stop", "stop sensor", "join"}

PassedIsDown ==
    main \in Stopping =>
        \A i \in 1 .. Len(Endpoints) : i > at => Down(Endpoints[i].id)

SensorBeforeThread == main = "join" => ~endpoint[Current].sensor

IInv == ProcessTypes /\ PassedIsDown /\ SensorBeforeThread /\ EndedIsStopped

-----------------------------------------------------------------------------
LEMMA InRange == ASSUME NEW n \in Nat, NEW i \in 1 .. n PROVE i \in 0 .. n /\ i # 0
  OBVIOUS

(* The endpoints of a configuration are a sequence, of known ids.          *)
LEMMA EndpointFacts ==
    ASSUME config \in Configs
    PROVE  /\ Len(Endpoints) \in Nat
           /\ DOMAIN Endpoints = 1 .. Len(Endpoints)
           /\ \A i \in 1 .. Len(Endpoints) : Endpoints[i].id \in Ids
           /\ Endpoints = <<>> => Len(Endpoints) = 0
           /\ Endpoints # <<>> => Len(Endpoints) # 0
  <1>1. Endpoints \in Seq(EndpointConfig)
    BY ConfigAssumption DEF Endpoints
  <1>2. /\ Len(Endpoints) \in Nat
        /\ DOMAIN Endpoints = 1 .. Len(Endpoints)
        /\ Endpoints = <<>> <=> Len(Endpoints) = 0
    BY <1>1, LenProperties, EmptySeq
  <1>3. \A i \in 1 .. Len(Endpoints) : Endpoints[i].id \in Ids
    <2>1. \A i \in 1 .. Len(Endpoints) : Endpoints[i] \in EndpointConfig
      BY <1>1, ElementOfSeq
    <2> QED BY <2>1 DEF EndpointConfig
  <1> QED BY <1>2, <1>3

LEMMA SameEndpoints == ASSUME config' = config PROVE Endpoints' = Endpoints
  BY DEF Endpoints

LEMMA CurrentIsKnown ==
    ASSUME ProcessTypes, main \in AtEndpoint
    PROVE  /\ at \in 1 .. Len(Endpoints)
           /\ Current \in Ids
           /\ Current = Endpoints[at].id
  <1>1. at \in 1 .. Len(Endpoints)
    BY EndpointFacts DEF ProcessTypes
  <1> QED BY <1>1, EndpointFacts DEF ProcessTypes, Current

LEMMA CreatedType == Created \in EndpointRecords
  BY DEF Created, EndpointRecords

(* What a step writes to one endpoint, and what of a record may be written.*)
LEMMA SetFacts ==
    ASSUME ProcessTypes, NEW e \in Ids, NEW r \in EndpointRecords, Set(e, r)
    PROVE  /\ endpoint' \in [Ids -> EndpointRecords]
           /\ \A d \in Ids : endpoint'[d] = IF d = e THEN r ELSE endpoint[d]
  BY DEF ProcessTypes, Set

LEMMA RecordFacts ==
    ASSUME NEW r \in EndpointRecords
    PROVE  /\ [r EXCEPT !.state = "configured"] \in EndpointRecords
           /\ [r EXCEPT !.state = "running"] \in EndpointRecords
           /\ [r EXCEPT !.state = "error", !.errors = TRUE] \in EndpointRecords
           /\ [r EXCEPT !.state = IF @ = "error" THEN @ ELSE "stopped"] \in EndpointRecords
           /\ [r EXCEPT !.sensor = TRUE] \in EndpointRecords
           /\ [r EXCEPT !.sensor = FALSE] \in EndpointRecords
           /\ [r EXCEPT !.running = FALSE] \in EndpointRecords
           /\ [r EXCEPT !.sensor = TRUE, !.running = TRUE, !.thread = "checking"]
                 \in EndpointRecords
           /\ \A t \in {"checking", "sampling", "done"} :
                 /\ [r EXCEPT !.thread = t] \in EndpointRecords
                 /\ [r EXCEPT !.thread = t, !.errors = TRUE] \in EndpointRecords
  BY DEF EndpointRecords

LEMMA InitIInv == Init => IInv
  <1> SUFFICES ASSUME Init PROVE IInv
    OBVIOUS
  <1> QED BY CreatedType DEF Init, ProcessInit, IInv, ProcessTypes, PassedIsDown,
      SensorBeforeThread, EndedIsStopped, Mains, AtEndpoint, Stopping

-----------------------------------------------------------------------------
(* Only the main thread, a signal, a crash and a start move the process    *)
(* otherwise than by a turn of an endpoint's thread.                       *)

(* Where the loop of Start() and the beginning of Stop() may lead.         *)
LEMMA StartLoop ==
    ASSUME ProcessTypes, main \in {"configure", "start", "started"},
           NextToStart \/ StopAll
    PROVE  \/ main' = "spin"
           \/ main' = "configure" /\ at' \in 1 .. Len(Endpoints)
           \/ main' = "stop" /\ at' = Len(Endpoints)
  <1>1. Len(Endpoints) \in Nat /\ at \in 1 .. Len(Endpoints)
    BY EndpointFacts, CurrentIsKnown DEF ProcessTypes, AtEndpoint
  <1> QED BY <1>1 DEF NextToStart, StopAll, Goto

(* What the invariant needs of a step that begins to stop, or is elsewhere.*)
LEMMA BeginsOrElsewhere ==
    ASSUME IInv, UNCHANGED config, endpoint' \in [Ids -> EndpointRecords],
           \/ main' \in {"down", "spin", "heartbeat", "diagnostics", "devices",
                         "device state"}
           \/ main' \in {"configure", "start", "started"} /\ at' \in 1 .. Len(Endpoints)
           \/ main' = "stop" /\ at' = Len(Endpoints)
    PROVE  IInv'
  <1>1. Endpoints' = Endpoints /\ Len(Endpoints) \in Nat
    BY SameEndpoints, EndpointFacts DEF IInv, ProcessTypes
  <1>2. ProcessTypes'
    <2>1. main' \in Mains
      BY DEF Mains
    <2>2. CASE main' \in {"down", "spin", "heartbeat", "diagnostics", "devices",
                         "device state"}
      BY <2>1, <2>2 DEF IInv, ProcessTypes, AtEndpoint
    <2>3. CASE at' \in 1 .. Len(Endpoints)
      <3>1. at' \in 0 .. Len(Endpoints) /\ at' # 0
        BY <1>1, <2>3, InRange
      <3> QED BY <1>1, <2>1, <3>1 DEF IInv, ProcessTypes
    <2>4. CASE main' = "stop" /\ at' = Len(Endpoints)
      <3>1. at' \in 0 .. Len(Endpoints) /\ main' \notin AtEndpoint
        BY <1>1, <2>4 DEF AtEndpoint
      <3> QED BY <1>1, <2>1, <3>1 DEF IInv, ProcessTypes
    <2> QED BY <2>2, <2>3, <2>4
  <1>3. main' = "stop" => \A i \in 1 .. Len(Endpoints) : ~(i > at')
    BY <1>1
  <1>4. PassedIsDown'
    BY <1>1, <1>3 DEF PassedIsDown, Stopping
  <1>5. SensorBeforeThread' /\ EndedIsStopped'
    BY DEF SensorBeforeThread, EndedIsStopped
  <1> QED BY <1>2, <1>4, <1>5 DEF IInv

LEMMA StartStep ==
    ASSUME IInv, Configure \/ StartEndpoint \/ MarkRunning
    PROVE  IInv'
  <1>1. /\ main \in {"configure", "start", "started"} /\ UNCHANGED config
        /\ at \in 1 .. Len(Endpoints) /\ Current \in Ids
    BY CurrentIsKnown DEF Configure, StartEndpoint, MarkRunning, IInv, AtEndpoint
  <1>2. endpoint' \in [Ids -> EndpointRecords]
    <2>1. endpoint[Current] \in EndpointRecords
      BY <1>1 DEF IInv, ProcessTypes
    <2>2. \E r \in EndpointRecords : Set(Current, r)
      BY <2>1, RecordFacts DEF Configure, StartEndpoint, MarkRunning, Fail
    <2> QED BY <1>1, <2>2, SetFacts DEF IInv
  <1>3. \/ NextToStart \/ StopAll
        \/ main' \in {"start", "started"} /\ at' = at
    BY DEF Configure, StartEndpoint, MarkRunning, Fail, Goto
  <1>4. \/ main' = "spin"
        \/ main' \in {"configure", "start", "started"} /\ at' \in 1 .. Len(Endpoints)
        \/ main' = "stop" /\ at' = Len(Endpoints)
    BY <1>1, <1>3, StartLoop DEF IInv
  <1> QED BY <1>1, <1>2, <1>4, BeginsOrElsewhere

LEMMA SpinStep ==
    ASSUME IInv, SpinTurn \/ PublishHeartbeat \/ PublishDiagnostics
                 \/ PublishDeviceInfo \/ PublishDeviceState
    PROVE  IInv'
  <1>1. UNCHANGED <<config, endpoint>>
    BY DEF SpinTurn, PublishHeartbeat, PublishDiagnostics, PublishDeviceInfo,
      PublishDeviceState
  <1>2. \/ main' \in {"spin", "heartbeat", "diagnostics", "devices", "device state"}
        \/ main' = "stop" /\ at' = Len(Endpoints)
    BY DEF SpinTurn, PublishHeartbeat, PublishDiagnostics, PublishDeviceInfo,
      PublishDeviceState, StopAll, Goto
  <1> QED BY <1>1, <1>2, BeginsOrElsewhere DEF IInv, ProcessTypes

(* An endpoint's own thread takes nothing up that is down.                 *)
LEMMA RunKeepsDown ==
    ASSUME ProcessTypes, NEW e \in Ids, Run(e), NEW d \in Ids
    PROVE  /\ endpoint' \in [Ids -> EndpointRecords]
           /\ Down(d) => Down(d)'
           /\ endpoint'[d].sensor = endpoint[d].sensor
  <1>1. PICK r \in EndpointRecords :
            /\ Set(e, r)
            /\ endpoint[e].thread \notin {"none", "done"}
            /\ r.sensor = endpoint[e].sensor
    <2>1. endpoint[e] \in EndpointRecords
      BY DEF ProcessTypes
    <2>2. CASE Check(e)
      <3> DEFINE t == IF endpoint[e].running THEN "sampling" ELSE "done"
                 r == [endpoint[e] EXCEPT !.thread = t]
      <3>1. r \in EndpointRecords
        BY <2>1, RecordFacts
      <3> QED BY <2>1, <2>2, <3>1 DEF Check, EndpointRecords
    <2>3. CASE Sample(e)
      <3>1. \E r \in {[endpoint[e] EXCEPT !.thread = "checking"],
                      [endpoint[e] EXCEPT !.thread = "checking", !.errors = TRUE]} :
                Set(e, r) /\ endpoint[e].thread = "sampling"
        BY <2>3 DEF Sample
      <3>2. \A r \in {[endpoint[e] EXCEPT !.thread = "checking"],
                      [endpoint[e] EXCEPT !.thread = "checking", !.errors = TRUE]} :
                r \in EndpointRecords /\ r.sensor = endpoint[e].sensor
        <4>1. /\ [endpoint[e] EXCEPT !.thread = "checking"] \in EndpointRecords
              /\ [endpoint[e] EXCEPT !.thread = "checking", !.errors = TRUE]
                    \in EndpointRecords
          BY <2>1, RecordFacts
        <4>2. /\ [endpoint[e] EXCEPT !.thread = "checking"].sensor = endpoint[e].sensor
              /\ [endpoint[e] EXCEPT !.thread = "checking", !.errors = TRUE].sensor
                    = endpoint[e].sensor
          BY <2>1 DEF EndpointRecords
        <4> QED BY <4>1, <4>2
      <3> QED BY <3>1, <3>2
    <2> QED BY <2>2, <2>3 DEF Run
  <1> QED BY <1>1, SetFacts DEF Down

LEMMA RunStep == ASSUME IInv, NEW e \in Ids, Run(e) PROVE IInv'
  <1>1. Endpoints' = Endpoints /\ UNCHANGED <<config, main, at>>
    BY SameEndpoints DEF Run
  <1>2. ProcessTypes'
    BY <1>1, RunKeepsDown DEF IInv, ProcessTypes
  <1>3. PassedIsDown'
    BY <1>1, RunKeepsDown, EndpointFacts DEF IInv, ProcessTypes, PassedIsDown
  <1>4. SensorBeforeThread'
    <2> SUFFICES ASSUME main = "join" PROVE ~endpoint'[Current].sensor
      BY <1>1 DEF SensorBeforeThread, Current
    <2>1. Current \in Ids
      BY CurrentIsKnown DEF IInv, AtEndpoint
    <2> QED BY <2>1, RunKeepsDown DEF IInv, SensorBeforeThread
  <1>5. EndedIsStopped'
    <2>1. EndpointIds' = EndpointIds /\ EndpointIds \subseteq Ids
      BY <1>1, EndpointFacts DEF EndpointIds, IInv, ProcessTypes
    <2> QED BY <1>1, <2>1, RunKeepsDown DEF IInv, EndedIsStopped, Down
  <1> QED BY <1>2, <1>3, <1>4, <1>5 DEF IInv

(* Stop() takes down one endpoint after the other.                         *)
LEMMA StopStep == ASSUME IInv, StopRunning \/ StopSensor \/ Join PROVE IInv'
  <1> DEFINE n == Len(Endpoints)
  <1>1. /\ Endpoints' = Endpoints /\ UNCHANGED config /\ n \in Nat /\ at \in 0 .. n
        /\ \A i \in 1 .. n : Endpoints[i].id \in Ids
    BY SameEndpoints, EndpointFacts DEF StopRunning, StopSensor, Join, IInv,
      ProcessTypes, AtEndpoint
  <1>2. CASE main = "stop" /\ at = 0
    <2>1. main' = "ended" /\ UNCHANGED endpoint
      BY <1>2 DEF StopRunning, StopSensor, Join, Goto
    <2>2. \A i \in 1 .. n : Down(Endpoints[i].id)
      BY <1>1, <1>2 DEF IInv, PassedIsDown, Stopping
    <2>3. EndedIsStopped'
      BY <1>1, <2>1, <2>2, EndpointFacts
        DEF EndedIsStopped, EndpointIds, Down, IInv, ProcessTypes
    <2> QED BY <1>1, <2>1, <2>3 DEF IInv, ProcessTypes, PassedIsDown,
      SensorBeforeThread, Mains, AtEndpoint, Stopping
  <1>3. CASE main # "stop" \/ at # 0
    <2>1. at \in 1 .. n /\ Current = Endpoints[at].id /\ Current \in Ids
      <3>1. at # 0
        BY <1>3 DEF StopRunning, StopSensor, Join, IInv, ProcessTypes, AtEndpoint
      <3>2. at \in 1 .. n
        BY <1>1, <3>1
      <3> QED BY <1>1, <3>2 DEF Current
    <2>c. PICK c \in Ids : c = Current
      BY <2>1
    <2>r. PICK r \in EndpointRecords :
              /\ Set(c, r)
              /\ StopRunning => r = [endpoint[c] EXCEPT !.running = FALSE]
              /\ StopSensor => r = [endpoint[c] EXCEPT !.sensor = FALSE]
              /\ Join => r = [endpoint[c] EXCEPT !.state = IF @ = "error" THEN @ ELSE "stopped"]
      <3>1. endpoint[c] \in EndpointRecords
        BY DEF IInv, ProcessTypes
      <3>2. at # 0
        BY <2>1
      <3>3. StopRunning => main = "stop"
        BY DEF StopRunning
      <3>4. StopSensor => main = "stop sensor"
        BY DEF StopSensor
      <3>5. Join => main = "join"
        BY DEF Join
      <3> QED BY <2>c, <3>1, <3>2, <3>3, <3>4, <3>5, RecordFacts DEF StopRunning, StopSensor, Join
    <2>2. endpoint' \in [Ids -> EndpointRecords]
      BY <2>1, <2>r, SetFacts DEF IInv
    <2>3. ASSUME NEW d \in Ids, Down(d) PROVE Down(d)'
      <3>1. endpoint[c] \in EndpointRecords
        BY <2>1 DEF IInv, ProcessTypes
      <3>2. Down(c) => /\ r.thread \in {"none", "done"} /\ ~r.sensor
                       /\ r.state \in {"stopped", "error"}
        BY <2>r, <3>1 DEF Down, EndpointRecords
      <3> QED BY <2>1, <2>3, <2>r, <3>2, SetFacts DEF Down, IInv
    <2>4. CASE StopRunning
      <3>1. main = "stop" /\ main' = "stop sensor" /\ at' = at
        BY <1>3, <2>4 DEF StopRunning, Goto
      <3>2. ProcessTypes'
        <4>1. main' \in Mains /\ at' \in 0 .. Len(Endpoints)' /\ at' # 0
          <5>1. at' \in 0 .. n /\ at' # 0
            BY <1>1, <2>1, <3>1, InRange
          <5> QED BY <1>1, <3>1, <5>1 DEF Mains
        <4> QED BY <1>1, <2>2, <4>1 DEF IInv, ProcessTypes
      <3>3. PassedIsDown'
        BY <1>1, <2>3, <3>1 DEF IInv, PassedIsDown, Stopping
      <3> QED BY <3>1, <3>2, <3>3 DEF IInv, SensorBeforeThread, EndedIsStopped
    <2>5. CASE StopSensor
      <3>1. main = "stop sensor" /\ main' = "join" /\ at' = at
        BY <2>5 DEF StopSensor, Goto
      <3>2. ~endpoint'[c].sensor
        <4>1. endpoint[c] \in EndpointRecords
          BY <2>1 DEF IInv, ProcessTypes
        <4>2. ~r.sensor
          BY <2>5, <2>r, <4>1 DEF EndpointRecords
        <4> QED BY <2>1, <2>r, <4>2, SetFacts DEF IInv
      <3>3. Current' = Current
        BY <1>1, <3>1 DEF Current
      <3>4. ProcessTypes'
        BY <1>1, <2>1, <2>2, <3>1 DEF IInv, ProcessTypes, Mains, AtEndpoint
      <3>5. PassedIsDown'
        BY <1>1, <2>3, <3>1 DEF IInv, PassedIsDown, Stopping
      <3> QED BY <2>c, <3>1, <3>2, <3>3, <3>4, <3>5
        DEF IInv, SensorBeforeThread, EndedIsStopped
    <2>6. CASE Join
      <3>1. main = "join" /\ main' = "stop" /\ at' = at - 1
        BY <2>6 DEF Join, Goto
      <3>2. Down(c)'
        <4>1. /\ endpoint[c] \in EndpointRecords
              /\ ~endpoint[c].sensor /\ endpoint[c].thread \in {"none", "done"}
          BY <2>c, <2>6, <3>1 DEF Join, IInv, ProcessTypes, SensorBeforeThread
        <4>2. /\ r.thread \in {"none", "done"} /\ ~r.sensor
              /\ r.state \in {"stopped", "error"}
          BY <2>6, <2>r, <4>1 DEF EndpointRecords
        <4>3. endpoint'[c] = r
          BY <2>1, <2>r, SetFacts DEF IInv
        <4> QED BY <4>2, <4>3 DEF Down
      <3>3. PassedIsDown'
        <4> SUFFICES ASSUME NEW i \in 1 .. n, i > at - 1 PROVE Down(Endpoints[i].id)'
          BY <1>1, <3>1 DEF PassedIsDown
        <4>1. CASE i = at
          BY <1>1, <2>1, <2>c, <3>2, <4>1
        <4>2. CASE i > at
          BY <1>1, <2>3, <3>1, <4>2 DEF IInv, PassedIsDown, Stopping
        <4> QED BY <1>1, <4>1, <4>2
      <3> QED BY <1>1, <2>1, <2>2, <3>1, <3>3 DEF IInv, ProcessTypes,
        SensorBeforeThread, EndedIsStopped, Mains, AtEndpoint
    <2> QED BY <2>4, <2>5, <2>6
  <1> QED BY <1>2, <1>3

(* The process is started, gets a signal, is killed.                       *)
LEMMA EnvironmentStep ==
    ASSUME IInv, Launch \/ HandleStopSignal \/ Crash
    PROVE  IInv'
  <1>1. CASE HandleStopSignal
    BY <1>1, SameEndpoints DEF HandleStopSignal, IInv, ProcessTypes, PassedIsDown,
      SensorBeforeThread, EndedIsStopped, EndpointIds, Current, Down
  <1>2. CASE Launch \/ Crash
    <2>1. UNCHANGED config /\ endpoint' \in [Ids -> EndpointRecords]
      BY <1>2, CreatedType DEF Launch, Crash
    <2>2. \/ main' \in {"down", "spin"}
          \/ main' = "configure" /\ at' \in 1 .. Len(Endpoints)
          \/ main' = "stop" /\ at' = Len(Endpoints)
      BY <1>2, EndpointFacts DEF Launch, Crash, StopAll, Goto, IInv, ProcessTypes
    <2> QED BY <2>1, <2>2, BeginsOrElsewhere
  <1> QED BY <1>1, <1>2

LEMMA NextIInv == IInv /\ [Next]_allVars => IInv'
  <1> SUFFICES ASSUME IInv, [Next]_allVars PROVE IInv'
    OBVIOUS
  <1>1. ASSUME UNCHANGED processVars PROVE IInv'
    BY <1>1, SameEndpoints DEF processVars, IInv, ProcessTypes, PassedIsDown,
      SensorBeforeThread, EndedIsStopped, EndpointIds, Current, Down
  <1>2. ASSUME MainStep PROVE IInv'
    BY <1>2, StartStep, SpinStep, StopStep DEF MainStep
  <1>3. ASSUME ProcessNext PROVE IInv'
    BY <1>2, <1>3, EnvironmentStep, RunStep DEF ProcessNext
  <1>4. Process(ProcessNext) \/ UNCHANGED processVars
    BY DEF Next, Deliver, Turn, allVars
  <1> QED BY <1>1, <1>3, <1>4 DEF Process

-----------------------------------------------------------------------------
(* The theorems                                                            *)

(***************************************************************************)
(* When the program has ended by itself, no endpoint's thread and no       *)
(* sensor runs, whatever its configuration and wherever it was when it     *)
(* failed or was told to stop.                                             *)
(***************************************************************************)
THEOREM EndStopsAll == Spec => []EndedIsStopped
  <1>1. Spec => []IInv
    BY InitIInv, NextIInv, PTL DEF Spec
  <1> QED BY <1>1, PTL DEF IInv

=============================================================================
