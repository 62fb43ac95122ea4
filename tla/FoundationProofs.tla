--------------------------- MODULE FoundationProofs ---------------------------
(***************************************************************************)
(* Proofs about what the services stand on: the contexts of a process, the *)
(* events, descriptors and streams of the OSAL, the MQTT client, the       *)
(* logger, config_service's parameters and the files that are read, for any*)
(* number of contexts, threads, descriptors, messages, loggers, clients,   *)
(* parameters and entries of a file.                                       *)
(***************************************************************************)
EXTENDS MCFoundation, FiniteSetTheorems, SequenceTheorems, WellFoundedInduction, TLAPS

-----------------------------------------------------------------------------
(* Contexts: the flag and the session of a context go together.            *)
ContextInv ==
    /\ ok_ = opened_
    /\ opened_ \subseteq {g_context}

LEMMA ContextInvStep == ContextInv /\ [ContextNext]_contextVars => ContextInv'
  <1> SUFFICES ASSUME ContextInv, [ContextNext]_contextVars PROVE ContextInv'
    OBVIOUS
  <1> USE DEF ContextInv
  <1>1. CASE Init
    BY <1>1 DEF Init, Ok, Held
  <1>2. CASE Shutdown
    BY <1>2 DEF Shutdown
  <1>3. CASE CreateNode
    BY <1>3 DEF CreateNode
  <1>4. ASSUME NEW c \in nodes, DestroyNodes(c) PROVE ContextInv'
    BY <1>4 DEF DestroyNodes
  <1>5. ASSUME NEW c \in nodes,
               CreatePublisher(c) \/ CreateSubscriber(c) \/ CreateService(c) \/ CreateClient(c)
        PROVE  ContextInv'
    BY <1>5 DEF CreatePublisher, CreateSubscriber, CreateService, CreateClient, Create
  <1>6. ASSUME NEW e \in endpoints, Publishes(e) \/ Calling(e) PROVE ContextInv'
    BY <1>6 DEF Publishes, Calling
  <1>7. CASE UNCHANGED contextVars
    BY <1>7 DEF contextVars
  <1> QED BY <1>1, <1>2, <1>3, <1>4, <1>5, <1>6, <1>7 DEF ContextNext

(***************************************************************************)
(* However often a program initialises, fails, shuts down and starts again,*)
(* with nodes of any number of earlier contexts about: it has one open     *)
(* session at most, that of the global context, and Ok() tells of it.      *)
(***************************************************************************)
THEOREM SessionIsOne == ContextSpec => []OneSession
  <1>1. ContextInit => ContextInv
    BY DEF ContextInit, ContextInv
  <1>2. ContextInv => OneSession
    BY DEF ContextInv, OneSession, Ok
  <1> QED BY <1>1, <1>2, ContextInvStep, PTL DEF ContextSpec

-----------------------------------------------------------------------------
EventsType == at \in [Waiters -> {"out", "blocked", "woken"}]

EventsInv == EventsType /\ NoSleeperMisses

LEMMA EventsInvStep == EventsInv /\ [EventsNext]_eventVars => EventsInv'
  <1> SUFFICES ASSUME EventsInv, [EventsNext]_eventVars PROVE EventsInv'
    OBVIOUS
  <1> USE DEF EventsInv
  <1>1. CASE set
    <2>1. CASE Blocked = {} /\ UNCHANGED at
      BY <1>1, <2>1 DEF EventsType, NoSleeperMisses, Blocked
    <2>2. ASSUME NEW t \in Blocked, at' = [at EXCEPT ![t] = "woken"] PROVE EventsInv'
      <3>1. t \in Waiters /\ EventsType'
        BY <2>2 DEF EventsType, Blocked
      <3>2. at'[t] = "woken"
        BY <2>2, <3>1 DEF EventsType
      <3> QED BY <3>1, <3>2 DEF NoSleeperMisses
    <2> QED BY <1>1, <2>1, <2>2 DEF set
  <1>2. CASE reset
    BY <1>2 DEF reset, EventsType, NoSleeperMisses
  <1>3. ASSUME NEW t \in Waiters, wait(t) \/ wait_timeout_ms(t) \/ Wakes(t) PROVE EventsInv'
    BY <1>3 DEF wait, wait_timeout_ms, Wakes, Look, EventsType, NoSleeperMisses
  <1>4. ASSUME NEW t \in Waiters, TimesOut(t) PROVE EventsInv'
    <2>1. EventsType'
      BY <1>4 DEF TimesOut, EventsType
    <2>2. Blocked' \subseteq Blocked
      BY <1>4 DEF TimesOut, EventsType, Blocked
    <2>3. \A u \in Waiters : at[u] = "woken" => at'[u] = "woken"
      BY <1>4 DEF TimesOut, EventsType
    <2>4. signaled' = signaled
      BY <1>4 DEF TimesOut
    <2> QED BY <2>1, <2>2, <2>3, <2>4 DEF NoSleeperMisses
  <1>5. CASE UNCHANGED eventVars
    BY <1>5 DEF eventVars, EventsType, NoSleeperMisses, Blocked
  <1> QED BY <1>1, <1>2, <1>3, <1>4, <1>5 DEF EventsNext

(***************************************************************************)
(* No thread of any number sleeps on while the event is set: one that was  *)
(* woken is still about to look at the flag.                               *)
(***************************************************************************)
THEOREM SleepersAreWoken == EventsSpec => []NoSleeperMisses
  <1>1. EventsInit => EventsInv
    BY DEF EventsInit, EventsInv, EventsType, NoSleeperMisses
  <1> QED BY <1>1, EventsInvStep, PTL DEF EventsSpec, EventsInv

-----------------------------------------------------------------------------
MqttInv ==
    /\ client \in BOOLEAN /\ connected \in BOOLEAN
    /\ ClientAccounted

LEMMA MqttInvStep == MqttInv /\ [MqttNext]_mqttVars => MqttInv'
  <1> SUFFICES ASSUME MqttInv, [MqttNext]_mqttVars PROVE MqttInv'
    OBVIOUS
  <1> USE DEF MqttInv, ClientAccounted
  <1>1. ASSUME NEW on \in BOOLEAN, connect(on) PROVE MqttInv'
    <2>1. CASE Busy
      BY <1>1, <2>1 DEF connect, Busy
    <2>2. CASE ~client /\ NoHandle(Copying(on))
      BY <1>1, <2>2 DEF connect, NoHandle
    <2>3. CASE ~client /\ NotConnected
      BY <1>1, <2>3 DEF connect, NotConnected
    <2>4. CASE Connected(Copying(on))
      BY <1>1, <2>4 DEF connect, Connected
    <2> QED BY <1>1, <2>1, <2>2, <2>3, <2>4 DEF connect
  <1>2. CASE shutdown
    BY <1>2 DEF shutdown
  <1>3. CASE publish_raw \/ subscribe \/ unsubscribe
    BY <1>3 DEF publish_raw, subscribe, unsubscribe, Asks
  <1>4. CASE on_connection_lost
    BY <1>4 DEF on_connection_lost
  <1>5. CASE MessageArrives
    BY <1>5 DEF MessageArrives
  <1>6. CASE CallbackReturns
    BY <1>6 DEF CallbackReturns
  <1>7. CASE UNCHANGED mqttVars
    BY <1>7 DEF mqttVars
  <1> QED BY <1>1, <1>2, <1>3, <1>4, <1>5, <1>6, <1>7 DEF MqttNext

(***************************************************************************)
(* However many connections are made, refused and lost: one copy of a      *)
(* callback exists at most, the library calls that one, and every message  *)
(* it hands over is freed once.                                            *)
(***************************************************************************)
THEOREM ClientKeepsAccount == MqttSpec => []ClientAccounted
  <1>1. MqttInit => MqttInv
    BY DEF MqttInit, MqttInv, ClientAccounted
  <1> QED BY <1>1, MqttInvStep, PTL DEF MqttSpec, MqttInv

-----------------------------------------------------------------------------
LoggingType ==
    /\ loggers \in Nat
    /\ g_default \in [id : 0..loggers, name : LoggerNames \cup {DefaultName}, spd : BOOLEAN]
    /\ holds \in [Writers -> Nat]
    /\ sink \in [publisher : BOOLEAN, tried : 0..Retry, window : 0..Second, count : Nat]
    /\ \E now, before \in Nat : published = <<now, before>>
    /\ replaced \in [id : 0..loggers, name : LoggerNames \cup {DefaultName}, spd : BOOLEAN]

(* spdlog knows the default logger and no other; the null pointer has no   *)
(* sink.                                                                   *)
OneRegistered ==
    /\ registry = IF g_default.spd THEN {[name |-> g_default.name, id |-> g_default.id]} ELSE {}
    /\ g_default = NoLogger => ~sink.publisher

(* A logger is mute for one reason only.                                   *)
MuteForAReason ==
    /\ g_default # NoLogger => g_default.id # 0
    /\ Mute <=> (replaced.spd /\ replaced.name = g_default.name)

OneSink == sessions = IF sink.publisher THEN {g_default.id} ELSE {}

(* The lines of this half second and of the one before, by how far the     *)
(* window is: it began with a line, and what was published before it came  *)
(* after the first half second of another.                                 *)
WithinLimit ==
    RateLimit > 0 =>
        /\ sink.count <= RateLimit
        /\ sink.window = 0 => /\ 1 <= sink.count
                              /\ published[1] <= sink.count
                              /\ published[2] <= RateLimit - 1
        /\ sink.window = 1 => /\ published[1] <= sink.count - 1
                              /\ published[1] + published[2] <= sink.count
        /\ sink.window = 2 => /\ published[1] = 0
                              /\ published[2] <= RateLimit - 1

LoggingInv == LoggingType /\ OneRegistered /\ MuteForAReason /\ OneSink /\ WithinLimit

LEMMA LoggingInvInit == LoggingInit => LoggingInv
  BY RateLimitAssumption DEF LoggingInit, LoggingInv, LoggingType, OneRegistered, OneSink,
     MuteForAReason, Mute, WithinLimit, NoLogger, NewSink, Retry, Second

(* A line on the topic: what ensure_publisher() and the rate limit leave.  *)
LEMMA LineIsWithin ==
  ASSUME LoggingInv, g_default.id # 0, NEW level, sink_it_(level),
         UNCHANGED <<g_default, registry, loggers, replaced>>,
         holds' \in [Writers -> Nat]
  PROVE  LoggingInv'
  <1> USE RateLimitAssumption DEF LoggingInv
  <1>1. g_default # NoLogger /\ MuteForAReason'
    BY DEF NoLogger, MuteForAReason, Mute
  <1>2. CASE UNCHANGED <<sink, sessions, published>>
    BY <1>1, <1>2 DEF LoggingType, OneRegistered, OneSink, WithinLimit
  <1> DEFINE counted == IF RateLimit > 0 THEN [Window EXCEPT !.count = @ + 1] ELSE sink
  <1>3. /\ Window \in [publisher : BOOLEAN, tried : 0..Retry, window : 0..Second, count : Nat]
        /\ Window.publisher = sink.publisher
        /\ sink.window = 2 => Window.window = 0 /\ Window.count = 0
        /\ sink.window # 2 => Window = sink
    <2>1. sink \in [publisher : BOOLEAN, tried : 0..Retry, window : 0..2, count : Nat]
      BY DEF LoggingType, Second
    <2>2. CASE sink.window = 2
      <3>1. Window = [sink EXCEPT !.window = 0, !.count = 0]
        BY <2>2 DEF Window, Second
      <3>2. Window = [publisher |-> sink.publisher, tried |-> sink.tried, window |-> 0, count |-> 0]
        BY <2>1, <3>1
      <3>3. sink.publisher \in BOOLEAN /\ sink.tried \in 0..Retry
        BY <2>1
      <3>4. /\ Window.publisher = sink.publisher
            /\ Window.window = 0 /\ Window.count = 0
        BY <3>2
      <3>5. Window \in [publisher : BOOLEAN, tried : 0..Retry, window : 0..2, count : Nat]
        BY <3>2, <3>3
      <3> QED BY <2>2, <3>4, <3>5 DEF Second
    <2>3. CASE sink.window # 2
      <3>1. Window = sink
        BY <2>1, <2>3 DEF Window, Second
      <3> QED BY <2>1, <2>3, <3>1 DEF Second
    <2> QED BY <2>2, <2>3
  <1>4. CASE /\ RateLimit > 0 /\ Window.count >= RateLimit
             /\ sink' = Window /\ UNCHANGED <<sessions, published>>
    BY <1>1, <1>3, <1>4 DEF LoggingType, OneRegistered, OneSink, WithinLimit
  <1>5. CASE /\ ~(RateLimit > 0 /\ Window.count >= RateLimit)
             /\ sink' \in ensure_publisher(counted)
             /\ sessions' = IF sink'.publisher THEN sessions \cup {g_default.id} ELSE sessions
             /\ published' = IF sink'.publisher THEN [published EXCEPT ![1] = @ + 1] ELSE published
    <2>1. /\ counted \in [publisher : BOOLEAN, tried : 0..Retry, window : 0..Second, count : Nat]
          /\ counted.publisher = sink.publisher
          /\ RateLimit > 0 => counted.window = Window.window /\ counted.count = Window.count + 1
      BY <1>3 DEF LoggingType
    <2> HIDE DEF counted
    <2>2. /\ sink' \in [publisher : BOOLEAN, tried : 0..Retry, window : 0..Second, count : Nat]
          /\ sink'.window = counted.window /\ sink'.count = counted.count
          /\ counted.publisher => sink'.publisher
      <3>1. sink' = counted \/ \E opens \in BOOLEAN : /\ ~counted.publisher
                                                     /\ sink' = [counted EXCEPT !.tried = 0, !.publisher = opens]
        BY <1>5, <2>1 DEF ensure_publisher
      <3>2. 0 \in 0..Retry
        BY DEF Retry
      <3> QED BY <2>1, <3>1, <3>2
    <2>3. PICK now \in Nat, before \in Nat : published = <<now, before>>
      BY DEF LoggingType
    <2>4. published' = <<now, before>> \/ published' = <<now + 1, before>>
      BY <1>5, <2>3
    <2>5. LoggingType'
      BY <2>2, <2>4 DEF LoggingType
    <2>6. OneRegistered'
      BY <1>1 DEF OneRegistered
    <2>7. OneSink'
      BY <1>5, <2>1, <2>2 DEF OneSink
    <2>8. WithinLimit'
      <3> SUFFICES ASSUME RateLimit > 0 PROVE WithinLimit'
        BY DEF WithinLimit
      <3>1. /\ sink'.window = Window.window /\ sink'.count = Window.count + 1
            /\ Window.count < RateLimit
            /\ published'[1] \in {now, now + 1} /\ published'[2] = before
            /\ published[1] = now /\ published[2] = before
        BY <1>3, <1>5, <2>1, <2>2, <2>3, <2>4
      <3>2. CASE sink.window = 2
        BY <3>1, <3>2, <1>3 DEF WithinLimit
      <3>3. CASE sink.window # 2
        BY <3>1, <3>3, <1>3 DEF WithinLimit, Second
      <3> QED BY <3>2, <3>3
    <2> QED BY <1>1, <2>5, <2>6, <2>7, <2>8
  <1> QED BY <1>2, <1>4, <1>5 DEF sink_it_

LEMMA LoggingInvStep == LoggingInv /\ [LoggingNext]_loggingVars => LoggingInv'
  <1> SUFFICES ASSUME LoggingInv, [LoggingNext]_loggingVars PROVE LoggingInv'
    OBVIOUS
  <1> USE RateLimitAssumption DEF LoggingInv
  <1>1. ASSUME NEW n \in LoggerNames, init(n) PROVE LoggingInv'
    <2> USE <1>1 DEF init
    <2>1. /\ loggers' = loggers + 1 /\ g_default' = Logger(n) /\ sink' = NewSink
          /\ published' = <<0, 0>> /\ holds' = holds /\ replaced' = g_default
      OBVIOUS
    <2>2. Logger(n) = [id |-> loggers + 1, name |-> n,
                          spd |-> ~(g_default.spd /\ g_default.name = n)]
      <3>1. (\A e \in registry : e.name # n) <=> ~(g_default.spd /\ g_default.name = n)
        <4>1. CASE g_default.spd
          <5>1. registry = {[name |-> g_default.name, id |-> g_default.id]}
            BY <4>1 DEF OneRegistered
          <5> QED BY <4>1, <5>1
        <4>2. CASE ~g_default.spd
          BY <4>2 DEF OneRegistered
        <4> QED BY <4>1, <4>2
      <3>2. (\A e \in registry : e.name # n) = ~(g_default.spd /\ g_default.name = n)
        BY <3>1, Zenon
      <3> QED BY <3>2, Zenon DEF Logger
    <2>3. LoggingType'
      BY <2>1, <2>2 DEF LoggingType, NewSink, Retry, Second
    <2>4. OneRegistered'
      <3> DEFINE entry == [name |-> n, id |-> loggers + 1]
      <3>1. registry' = Dropped(Registered(Logger(n)))
        OBVIOUS
      <3>2. ~sink'.publisher
        BY <2>1 DEF NewSink
      <3>3. CASE g_default.spd /\ g_default.name = n
        <4>1. registry = {[name |-> n, id |-> g_default.id]} /\ ~g_default'.spd
          <5>1. g_default' = [id |-> loggers + 1, name |-> n, spd |-> FALSE]
            BY <3>3, <2>1, <2>2, Zenon
          <5> QED BY <3>3, <5>1 DEF OneRegistered
        <4>2. registry' = {}
          BY <4>1, <3>1, <3>3, <2>1 DEF Registered, Dropped
        <4> QED BY <4>1, <4>2, <3>2 DEF OneRegistered
      <3>4. CASE ~(g_default.spd /\ g_default.name = n)
        <4>1. g_default'.spd /\ g_default'.name = n /\ g_default'.id = loggers + 1
          <5>1. g_default' = [id |-> loggers + 1, name |-> n, spd |-> TRUE]
            BY <3>4, <2>1, <2>2, Zenon
          <5> QED BY <5>1
        <4>2. Registered(Logger(n)) = registry \cup {entry}
          BY <4>1, <2>1 DEF Registered
        <4>3. registry' = {entry}
          <5>1. CASE g_default.spd
            BY <5>1, <4>2, <3>1, <3>4 DEF Dropped, OneRegistered
          <5>2. CASE ~g_default.spd
            BY <5>2, <4>2, <3>1 DEF Dropped, OneRegistered
          <5> QED BY <5>1, <5>2
        <4> QED BY <4>1, <4>3, <3>2 DEF OneRegistered
      <3> QED BY <3>3, <3>4
    <2>5. \A e \in registry' : e.id = loggers + 1
      BY <2>1, <2>2, <2>4 DEF OneRegistered
    <2>6. sessions \subseteq {g_default.id} /\ g_default.id # loggers + 1
      BY DEF OneSink, LoggingType
    <2>7. OneSink'
      BY <2>1, <2>5, <2>6 DEF OneSink, StillOpen, NewSink
    <2>8. WithinLimit'
      BY <2>1 DEF WithinLimit, NewSink, Second
    <2>9. MuteForAReason'
      <3>1. g_default'.id = loggers + 1 /\ g_default'.id # 0 /\ g_default' # NoLogger
        BY <2>1, <2>2 DEF LoggingType, NoLogger
      <3>2. CASE g_default.spd /\ g_default.name = n
        <4>1. g_default' = [id |-> loggers + 1, name |-> n, spd |-> FALSE]
          BY <3>2, <2>1, <2>2, Zenon
        <4> QED BY <2>1, <3>1, <3>2, <4>1 DEF MuteForAReason, Mute
      <3>3. CASE ~(g_default.spd /\ g_default.name = n)
        <4>1. g_default' = [id |-> loggers + 1, name |-> n, spd |-> TRUE]
          BY <3>3, <2>1, <2>2, Zenon
        <4> QED BY <2>1, <3>1, <3>3, <4>1 DEF MuteForAReason, Mute
      <3> QED BY <3>2, <3>3
    <2> QED BY <2>3, <2>4, <2>7, <2>8, <2>9
  <1>2. CASE deinit
    BY <1>2 DEF deinit, MuteForAReason, Mute, LoggingType, OneRegistered, OneSink, WithinLimit, NewSink, NoLogger, Retry, Second
  <1>3. ASSUME NEW t \in Writers, default_logger(t) PROVE LoggingInv'
    <2>1. UNCHANGED <<sink, sessions, published>>
      BY <1>3 DEF default_logger
    <2>2. CASE UNCHANGED <<g_default, loggers, registry, replaced>>
      BY <1>3, <2>1, <2>2 DEF default_logger, MuteForAReason, Mute, LoggingType, OneRegistered, OneSink, WithinLimit
    <2>3. CASE g_default = NoLogger /\ loggers' = loggers + 1
      <3>1. registry = {} /\ ~sink.publisher
        BY <2>3 DEF OneRegistered, NoLogger
      <3>2. /\ g_default' = [id |-> loggers + 1, name |-> DefaultName, spd |-> TRUE]
            /\ registry' = {[name |-> DefaultName, id |-> loggers + 1]}
            /\ holds' = [holds EXCEPT ![t] = loggers']
            /\ replaced' = NoLogger
        BY <1>3, <2>3, <3>1 DEF default_logger, Logger, Registered, LoggingType
      <3>3. LoggingType'
        BY <2>1, <2>3, <3>2 DEF LoggingType, NoLogger
      <3>5. MuteForAReason'
        BY <3>2, <2>3 DEF MuteForAReason, Mute, NoLogger, LoggingType
      <3>4. OneRegistered' /\ OneSink' /\ WithinLimit'
        BY <2>1, <3>1, <3>2 DEF OneRegistered, OneSink, WithinLimit
      <3> QED BY <3>3, <3>4, <3>5
    <2> QED BY <1>3, <2>2, <2>3 DEF default_logger
  <1>4. ASSUME NEW t \in Writers, NEW level \in 1..3, write(t, level) PROVE LoggingInv'
    <2>1. /\ UNCHANGED <<g_default, registry, loggers, replaced>>
          /\ holds' \in [Writers -> Nat]
      BY <1>4 DEF write, LoggingType
    <2>2. CASE UNCHANGED <<sink, sessions, published>>
      BY <2>1, <2>2 DEF MuteForAReason, Mute, LoggingType, OneRegistered, OneSink, WithinLimit
    <2>3. CASE g_default.id # 0 /\ sink_it_(level)
      BY <2>1, <2>3, LineIsWithin
    <2> QED BY <1>4, <2>2, <2>3 DEF write
  <1>5. CASE HalfSecond
    <2> USE <1>5 DEF HalfSecond
    <2>1. PICK now \in Nat, before \in Nat : published = <<now, before>>
      BY DEF LoggingType
    <2>2. published' = <<0, now>>
      BY <2>1
    <2>3. /\ sink' \in [publisher : BOOLEAN, tried : 0..Retry, window : 0..Second, count : Nat]
          /\ sink'.publisher = sink.publisher /\ sink'.count = sink.count
          /\ sink'.window = IF sink.window < 2 THEN sink.window + 1 ELSE sink.window
      <3> DEFINE w == IF sink.window < 2 THEN sink.window + 1 ELSE sink.window
                 a == IF sink.tried < 4 THEN sink.tried + 1 ELSE sink.tried
      <3>1. sink \in [publisher : BOOLEAN, tried : 0..4, window : 0..2, count : Nat]
        BY DEF LoggingType, Second, Retry
      <3>2. sink' = [sink EXCEPT !.window = w, !.tried = a]
        BY DEF Second, Retry
      <3>3. w \in 0..2 /\ a \in 0..4
        BY <3>1
      <3> HIDE DEF w, a
      <3>4. /\ sink' \in [publisher : BOOLEAN, tried : 0..4, window : 0..2, count : Nat]
            /\ sink'.publisher = sink.publisher /\ sink'.count = sink.count /\ sink'.window = w
        BY <3>1, <3>2, <3>3
      <3> QED BY <3>4 DEF w, Second, Retry
    <2>4. LoggingType' /\ OneRegistered' /\ OneSink'
      BY <2>2, <2>3 DEF LoggingType, OneRegistered, OneSink
    <2>6. MuteForAReason'
      BY DEF MuteForAReason, Mute
    <2>5. WithinLimit'
      <3>1. /\ published[1] = now /\ published[2] = before /\ published'[1] = 0 /\ published'[2] = now
            /\ sink.window \in 0..2 /\ sink.count \in Nat
        BY <2>1, <2>2 DEF LoggingType, Second
      <3> QED BY <2>3, <3>1 DEF WithinLimit
    <2> QED BY <2>4, <2>5, <2>6
  <1>6. CASE UNCHANGED loggingVars
    BY <1>6 DEF loggingVars, MuteForAReason, Mute, LoggingType, OneRegistered, OneSink, WithinLimit
  <1> QED BY <1>1, <1>2, <1>3, <1>4, <1>5, <1>6 DEF LoggingNext

(***************************************************************************)
(* For any number of threads and loggers, names, levels and limit: the     *)
(* default logger is mute only if it replaced one that had its name and    *)
(* was not, spdlog knows the default logger and no other, the only session *)
(* open is that of its sink, and a sink never reaches twice its limit of   *)
(* lines in a second.                                                      *)
(***************************************************************************)
THEOREM LoggingKeepsItsWord == LoggingSpec => []LogsAreKept
  <1>1. LoggingInv => LogsAreKept
    <2> SUFFICES ASSUME LoggingInv PROVE RateLimit > 0 => published[1] + published[2] < 2 * RateLimit
      BY DEF LoggingInv, MuteForAReason, OneRegistered, OneSink, LogsAreKept
    <2>1. PICK now \in Nat, before \in Nat : published[1] = now /\ published[2] = before
      BY DEF LoggingInv, LoggingType
    <2> QED BY <2>1, RateLimitAssumption DEF LoggingInv, LoggingType, WithinLimit, Second
  <1> QED BY <1>1, LoggingInvInit, LoggingInvStep, PTL DEF LoggingSpec

-----------------------------------------------------------------------------
(* The descriptors                                                         *)

LEMMA LeastNatural ==
    ASSUME NEW T \in SUBSET Nat, T # {}
    PROVE  Min(T) \in T
  <1>1. \E x \in T : \A y \in T : ~(<<y, x>> \in OpToRel(<, Nat))
    BY WFMin, NatLessThanWellFounded, Zenon
  <1>2. PICK x \in T : \A y \in T : ~(<<y, x>> \in OpToRel(<, Nat))
    BY <1>1
  <1>3. \A y \in T : ~(y < x)
    BY <1>2, Zenon DEF OpToRel
  <1>4. \A y \in T : x =< y
    BY <1>3
  <1> QED BY <1>4 DEF Min

(***************************************************************************)
(* As long as nothing was closed astray: a socket that is open has its     *)
(* descriptor, what an object has opened it knows, unless it was opened    *)
(* while it was open, and the signals are blocked only by an open waiter,  *)
(* that has the mask from before.                                          *)
(***************************************************************************)
SocketRecords == [fd : Descriptors \cup {-1}, inited : BOOLEAN, named : BOOLEAN]

DescriptorTypes ==
    /\ table \in [Descriptors -> Sockets \cup {Other, Process, Free}]
    /\ socket \in [Sockets -> SocketRecords]
    /\ mask \in [old : BOOLEAN, saved : BOOLEAN, blocked : BOOLEAN]

OpenHasFd ==
    \A s \in Sockets :
        /\ socket[s].inited => socket[s].fd \in Descriptors /\ table[socket[s].fd] = s
        /\ socket[s].named => socket[s].inited

SocketsKnow ==
    \A s \in Sockets \ reopened : \A d \in Descriptors : table[d] = s => d = socket[s].fd

OtherKnows ==
    /\ held \subseteq Owns(Other)
    /\ Other \notin reopened => Owns(Other) \subseteq held

ServerIsNamed == endpoint \in Sockets \ reopened => socket[endpoint].named

MaskIsKept ==
    Other \notin reopened => ~mask.old /\ (mask.blocked => mask.saved /\ held # {})

Accounted ==
    /\ DescriptorTypes
    /\ OpenHasFd
    /\ SocketsKnow
    /\ OtherKnows
    /\ ServerIsNamed
    /\ MaskIsKept

(* The path and the name, whoever closes what.                             *)
NamesAreKnown ==
    /\ bound => endpoint \in Sockets \/ unheard
    /\ name /\ kind # "fifo" => created

LEMMA AccountedIsEnough == ~astray /\ Accounted /\ NamesAreKnown => DescriptorsAccounted
  <1> SUFFICES ASSUME Accounted, NamesAreKnown PROVE DescriptorsAccounted
    BY DEF DescriptorsAccounted
  <1>1. \A s \in Sockets \ reopened : Owns(s) \subseteq Knows(s)
    BY DEF Accounted, SocketsKnow, Owns, Knows
  <1>2. Other \notin reopened => Owns(Other) \subseteq Knows(Other)
    BY DescriptorsAssumption DEF Accounted, OtherKnows, Knows
  <1> QED BY <1>1, <1>2
      DEF DescriptorsAccounted, Accounted, OpenHasFd, OtherKnows, ServerIsNamed, MaskIsKept,
          NamesAreKnown

LEMMA AccountedInit == DescriptorsInit => Accounted
  <1> SUFFICES ASSUME DescriptorsInit PROVE Accounted
    OBVIOUS
  <1>1. New \in SocketRecords /\ ~New.inited /\ ~New.named
    BY DEF New, SocketRecords
  <1>2. DescriptorTypes
    BY <1>1 DEF DescriptorsInit, DescriptorTypes
  <1>3. \A o \in Sockets \cup {Other} : Owns(o) = {}
    BY DescriptorsAssumption DEF DescriptorsInit, Owns
  <1> QED BY <1>1, <1>2, <1>3, DescriptorsAssumption
      DEF Accounted, DescriptorsInit, OpenHasFd, SocketsKnow, OtherKnows, ServerIsNamed,
          MaskIsKept, Owns

(***************************************************************************)
(* A socket takes the members r: it opens a free descriptor or frees its   *)
(* own, and touches no other object's.                                     *)
(***************************************************************************)
OnlyOf(o) ==
    \A d \in Descriptors :
        table'[d] # table[d] => table[d] \in {Free, o} /\ table'[d] \in {Free, o}

SocketTakes(s, r) ==
    /\ socket' = [socket EXCEPT ![s] = r] /\ r \in SocketRecords
    /\ table' \in [Descriptors -> Sockets \cup {Other, Process, Free}]
    /\ OnlyOf(s)
    /\ reopened \subseteq reopened' /\ UNCHANGED <<held, mask>>
    /\ s \notin reopened' => \A d \in Descriptors : table'[d] = s => d = r.fd
    /\ r.inited => r.fd \in Descriptors /\ table'[r.fd] = s
    /\ r.named => r.inited
    /\ endpoint' \in Sockets \ reopened' =>
          (endpoint' = s /\ r.named) \/ (endpoint' = endpoint /\ endpoint # s)

LEMMA SocketTaking ==
    ASSUME Accounted, NEW s \in Sockets, NEW r, SocketTakes(s, r)
    PROVE  Accounted'
  <1>1. socket \in [Sockets -> SocketRecords]
    BY DEF Accounted, DescriptorTypes
  <1>2. socket'[s] = r /\ \A t \in Sockets \ {s} : socket'[t] = socket[t]
    BY <1>1 DEF SocketTakes
  <1>3. DescriptorTypes'
    BY <1>1 DEF Accounted, DescriptorTypes, SocketTakes
  <1>4. \A o \in (Sockets \cup {Other}) \ {s} : \A d \in Descriptors :
            table'[d] = o <=> table[d] = o
    BY DescriptorsAssumption DEF SocketTakes, OnlyOf
  <1>5. OpenHasFd'
    BY <1>2, <1>4 DEF Accounted, OpenHasFd, SocketTakes
  <1>6. SocketsKnow'
    BY <1>2, <1>4 DEF Accounted, SocketsKnow, SocketTakes
  <1>7. Owns(Other)' = Owns(Other)
    BY <1>4, DescriptorsAssumption DEF Owns
  <1>8. OtherKnows' /\ MaskIsKept'
    BY <1>7 DEF Accounted, OtherKnows, MaskIsKept, SocketTakes
  <1>9. ServerIsNamed'
    BY <1>2 DEF Accounted, ServerIsNamed, SocketTakes
  <1> QED BY <1>3, <1>5, <1>6, <1>8, <1>9 DEF Accounted

LEMMA LowestIsFree ==
    FreeOnes # {} => Lowest \in Descriptors /\ table[Lowest] = Free
  <1>1. FreeOnes \in SUBSET Nat
    BY DescriptorsAssumption DEF FreeOnes
  <1>2. FreeOnes # {} => Lowest \in FreeOnes
    BY <1>1, LeastNatural DEF Lowest
  <1> QED BY <1>2 DEF FreeOnes

(* A socket that has no descriptor is not the server.                      *)
LEMMA AgainMeans ==
    ASSUME Accounted, NEW o \in Sockets \cup {Other}, Again(o)
    PROVE  /\ reopened \subseteq reopened' /\ reopened' \subseteq reopened \cup {o}
           /\ o \notin reopened' => Owns(o) = {} /\ o \notin reopened
           /\ o \notin reopened' /\ o \in Sockets => ~socket[o].named
  BY DEF Again, Accounted, OpenHasFd, Owns

LEMMA GetsKeepsAccount ==
    ASSUME Accounted, NEW s \in Sockets, NEW named \in BOOLEAN,
           Again(s), OthersRest,
           \/ /\ FreeOnes # {}
              /\ table' = [table EXCEPT ![Lowest] = s]
              /\ socket' = [socket EXCEPT ![s] =
                                [fd |-> Lowest, inited |-> TRUE, named |-> named]]
              /\ endpoint' = IF named THEN s ELSE endpoint
           \/ /\ socket' = [socket EXCEPT ![s] = New]
              /\ endpoint' \in {endpoint, Free}
              /\ UNCHANGED table
    PROVE  Accounted'
  <1>1. /\ reopened \subseteq reopened' /\ UNCHANGED <<held, mask>>
        /\ s \notin reopened' => Owns(s) = {} /\ ~socket[s].named /\ s \notin reopened
    BY AgainMeans DEF OthersRest
  <1>2. table \in [Descriptors -> Sockets \cup {Other, Process, Free}]
    BY DEF Accounted, DescriptorTypes
  <1>3. endpoint \in Sockets \ reopened' /\ s \notin reopened' => endpoint # s
    BY <1>1 DEF Accounted, ServerIsNamed
  <1>4. ASSUME FreeOnes # {}, table' = [table EXCEPT ![Lowest] = s],
               socket' = [socket EXCEPT ![s] =
                              [fd |-> Lowest, inited |-> TRUE, named |-> named]],
               endpoint' = IF named THEN s ELSE endpoint
        PROVE  Accounted'
    <2>1. PICK f \in Descriptors : f = Lowest /\ table[f] = Free
      BY <1>4, LowestIsFree
    <2>2. PICK r : r = [fd |-> f, inited |-> TRUE, named |-> named]
      OBVIOUS
    <2>3. r \in SocketRecords /\ r.fd = f /\ r.inited /\ r.named = named
      BY <2>2 DEF SocketRecords
    <2>4. /\ table' \in [Descriptors -> Sockets \cup {Other, Process, Free}]
          /\ table'[f] = s /\ \A d \in Descriptors \ {f} : table'[d] = table[d]
      BY <1>2, <1>4, <2>1
    <2>5. OnlyOf(s)
      BY <2>1, <2>4 DEF OnlyOf
    <2>6. s \notin reopened' => \A d \in Descriptors : table'[d] = s => d = f
      BY <1>1, <2>4 DEF Owns
    <2>7. socket' = [socket EXCEPT ![s] = r]
      BY <1>4, <2>1, <2>2
    <2>8. endpoint' \in Sockets \ reopened' =>
              (endpoint' = s /\ r.named) \/ (endpoint' = endpoint /\ endpoint # s)
      BY <1>3, <1>4, <2>3
    <2>9. SocketTakes(s, r)
      BY <1>1, <2>1, <2>3, <2>4, <2>5, <2>6, <2>7, <2>8 DEF SocketTakes
    <2> QED BY <2>9, SocketTaking
  <1>5. ASSUME socket' = [socket EXCEPT ![s] = New], endpoint' \in {endpoint, Free},
               UNCHANGED table
        PROVE  Accounted'
    <2>1. New \in SocketRecords /\ ~New.inited /\ ~New.named
      BY DEF New, SocketRecords
    <2>2. s \notin reopened' => \A d \in Descriptors : table'[d] = s => d = New.fd
      BY <1>1, <1>5 DEF Owns
    <2>3. endpoint' \in Sockets \ reopened' => endpoint' = endpoint /\ endpoint # s
      BY <1>3, <1>5, DescriptorsAssumption
    <2>4. SocketTakes(s, New)
      BY <1>1, <1>2, <1>5, <2>1, <2>2, <2>3 DEF SocketTakes, OnlyOf
    <2> QED BY <2>4, SocketTaking
  <1> QED BY <1>4, <1>5

LEMMA ClosesKeepsAccount ==
    ASSUME Accounted, NEW s \in Sockets, NEW after \in {Zeroed, New},
           Closes(s, after), ~astray'
    PROVE  Accounted'
  <1>1. after \in SocketRecords /\ ~after.inited /\ ~after.named
    <2>1. New \in SocketRecords /\ ~New.inited /\ ~New.named
      BY DEF New, SocketRecords
    <2>2. Zeroed \in SocketRecords /\ ~Zeroed.inited /\ ~Zeroed.named
      BY DescriptorsAssumption DEF Zeroed, SocketRecords
    <2> QED BY <2>1, <2>2
  <1>2. table \in [Descriptors -> Sockets \cup {Other, Process, Free}]
    BY DEF Accounted, DescriptorTypes
  <1>3. PICK f \in Descriptors \cup {-1} : f = socket[s].fd
    BY DEF Accounted, DescriptorTypes, SocketRecords
  <1>4. /\ socket' = [socket EXCEPT ![s] = after]
        /\ table' = IF f >= 0 THEN [table EXCEPT ![f] = Free] ELSE table
        /\ f >= 0 => table[f] = s
        /\ endpoint' = IF socket[s].named THEN Free ELSE endpoint
        /\ UNCHANGED <<reopened, held, mask>>
    BY <1>3 DEF Closes, OthersRest, AtPath, pathVars
  <1>5. /\ table' \in [Descriptors -> Sockets \cup {Other, Process, Free}]
        /\ OnlyOf(s)
        /\ \A d \in Descriptors : table'[d] = s => table[d] = s /\ d # f
    <2>1. CASE f >= 0
      <3>1. f \in Descriptors /\ table' = [table EXCEPT ![f] = Free]
        BY <1>4, <2>1
      <3> QED BY <1>2, <1>4, <2>1, <3>1, DescriptorsAssumption DEF OnlyOf
    <2>2. CASE ~(f >= 0)
      <3>1. f \notin Descriptors
        BY <2>2, DescriptorsAssumption
      <3> QED BY <1>2, <1>4, <2>2, <3>1 DEF OnlyOf
    <2> QED BY <2>1, <2>2
  <1>6. s \notin reopened' => \A d \in Descriptors : table'[d] # s
    BY <1>3, <1>4, <1>5 DEF Accounted, SocketsKnow
  <1>7. endpoint' \in Sockets \ reopened' => endpoint' = endpoint /\ endpoint # s
    BY <1>4, DescriptorsAssumption DEF Accounted, ServerIsNamed
  <1>8. SocketTakes(s, after)
    BY <1>1, <1>4, <1>5, <1>6, <1>7 DEF SocketTakes
  <1> QED BY <1>8, SocketTaking

(***************************************************************************)
(* The object of another class has the descriptors h from now on.          *)
(***************************************************************************)
OtherTakes(h) ==
    /\ held' = h /\ UNCHANGED <<socket, endpoint>>
    /\ table' \in [Descriptors -> Sockets \cup {Other, Process, Free}]
    /\ OnlyOf(Other)
    /\ reopened \subseteq reopened' /\ reopened' \subseteq reopened \cup {Other}
    /\ \A d \in h : d \in Descriptors /\ table'[d] = Other
    /\ Other \notin reopened' => \A d \in Descriptors : table'[d] = Other => d \in h
    /\ mask' \in [old : BOOLEAN, saved : BOOLEAN, blocked : BOOLEAN]
    /\ MaskIsKept'

LEMMA OtherTaking ==
    ASSUME Accounted, NEW h, OtherTakes(h)
    PROVE  Accounted'
  <1>1. DescriptorTypes'
    BY DEF Accounted, DescriptorTypes, OtherTakes
  <1>2. \A s \in Sockets : \A d \in Descriptors : table'[d] = s <=> table[d] = s
    BY DescriptorsAssumption DEF OtherTakes, OnlyOf
  <1>3. OpenHasFd'
    BY <1>2 DEF Accounted, OpenHasFd, OtherTakes
  <1>4. SocketsKnow' /\ ServerIsNamed'
    BY <1>2, DescriptorsAssumption DEF Accounted, SocketsKnow, ServerIsNamed, OtherTakes
  <1>5. OtherKnows'
    BY DEF OtherTakes, OtherKnows, Owns
  <1> QED BY <1>1, <1>3, <1>4, <1>5 DEF Accounted, OtherTakes

(* An open that fails, and an open that succeeds.                          *)
LEMMA ForgettingKeepsAccount ==
    ASSUME Accounted, Again(Other), UNCHANGED <<socket, endpoint>>, Forget,
           mask' \in [old : BOOLEAN, saved : BOOLEAN, blocked : BOOLEAN],
           mask'.blocked = mask.blocked,
           Other \notin reopened' /\ ~mask.old /\ ~mask.blocked => ~mask'.old
    PROVE  Accounted'
  <1>1. /\ reopened \subseteq reopened' /\ reopened' \subseteq reopened \cup {Other}
        /\ Other \notin reopened' => Owns(Other) = {} /\ Other \notin reopened
    BY AgainMeans
  <1>2. MaskIsKept'
    BY <1>1 DEF Accounted, OtherKnows, MaskIsKept
  <1>3. OtherTakes({})
    BY <1>1, <1>2 DEF OtherTakes, OnlyOf, Forget, Owns, Accounted, DescriptorTypes
  <1> QED BY <1>3, OtherTaking

LEMMA TakingKeepsAccount ==
    ASSUME Accounted, Again(Other), UNCHANGED <<socket, endpoint>>,
           NEW fds, fds # {}, fds \subseteq FreeOnes, Take(fds),
           mask' \in [old : BOOLEAN, saved : BOOLEAN, blocked : BOOLEAN],
           Other \notin reopened' /\ ~mask.old /\ ~mask.blocked =>
               ~mask'.old /\ (mask'.blocked => mask'.saved)
    PROVE  Accounted'
  <1>1. /\ reopened \subseteq reopened' /\ reopened' \subseteq reopened \cup {Other}
        /\ Other \notin reopened' => Owns(Other) = {} /\ Other \notin reopened
    BY AgainMeans
  <1>2. /\ table' = [d \in Descriptors |-> IF d \in fds THEN Other ELSE table[d]]
        /\ held' = fds
        /\ table \in [Descriptors -> Sockets \cup {Other, Process, Free}]
        /\ fds \subseteq Descriptors /\ \A d \in fds : table[d] = Free
    BY DEF Take, FreeOnes, Accounted, DescriptorTypes
  <1>3. MaskIsKept'
    BY <1>1, <1>2 DEF Accounted, OtherKnows, MaskIsKept
  <1>4. table' \in [Descriptors -> Sockets \cup {Other, Process, Free}]
    BY <1>2
  <1>5. OnlyOf(Other)
    BY <1>2 DEF OnlyOf
  <1>6. Other \notin reopened' => \A d \in Descriptors : table'[d] = Other => d \in fds
    BY <1>1, <1>2 DEF Owns
  <1>7. OtherTakes(fds)
    BY <1>1, <1>2, <1>3, <1>4, <1>5, <1>6 DEF OtherTakes
  <1> QED BY <1>7, OtherTaking

LEMMA CloseKeepsAccount == Accounted /\ Close => Accounted'
  <1> SUFFICES ASSUME Accounted, Close PROVE Accounted'
    OBVIOUS
  <1>1. /\ table' = [d \in Descriptors |-> IF d \in held THEN Free ELSE table[d]]
        /\ table \in [Descriptors -> Sockets \cup {Other, Process, Free}]
        /\ \A d \in held : d \in Descriptors /\ table[d] = Other
        /\ Other \notin reopened => \A d \in Descriptors : table[d] = Other => d \in held
    BY DEF Close, Accounted, DescriptorTypes, OtherKnows, Owns
  <1>2. /\ held' = {} /\ UNCHANGED <<socket, endpoint, reopened>>
        /\ mask' = [old |-> FALSE, saved |-> FALSE,
                    blocked |-> IF mask.saved THEN mask.old ELSE mask.blocked]
    BY DEF Close, SocketsRest, pathVars
  <1>3. /\ mask' \in [old : BOOLEAN, saved : BOOLEAN, blocked : BOOLEAN]
        /\ ~mask'.old
        /\ mask'.blocked <=> IF mask.saved THEN mask.old ELSE mask.blocked
    BY <1>2 DEF Accounted, DescriptorTypes
  <1>4. MaskIsKept'
    BY <1>2, <1>3 DEF Accounted, MaskIsKept
  <1>5. table' \in [Descriptors -> Sockets \cup {Other, Process, Free}]
    BY <1>1
  <1>6. OnlyOf(Other)
    BY <1>1 DEF OnlyOf
  <1>7. Other \notin reopened' => \A d \in Descriptors : table'[d] # Other
    BY <1>1, <1>2, DescriptorsAssumption
  <1>8. OtherTakes({})
    BY <1>2, <1>3, <1>4, <1>5, <1>6, <1>7 DEF OtherTakes
  <1> QED BY <1>8, OtherTaking

LEMMA PipeKeepsAccount == Accounted /\ PipeCreate => Accounted'
  <1> SUFFICES ASSUME Accounted, PipeCreate PROVE Accounted'
    OBVIOUS
  <1>1. UNCHANGED <<mask, socket, endpoint>>
    BY DEF PipeCreate, SocketsRest, pathVars
  <1>2. CASE UNCHANGED <<table, held, reopened>>
    BY <1>1, <1>2 DEF Accounted, DescriptorTypes, OpenHasFd, SocketsKnow, OtherKnows,
        ServerIsNamed, MaskIsKept, Owns
  <1>3. CASE /\ Cardinality(FreeOnes) > 1 /\ Again(Other)
             /\ Take({Lowest, Min(FreeOnes \ {Lowest})})
    <2>1. FreeOnes # {}
      BY <1>3, FS_EmptySet
    <2>2. PICK f \in FreeOnes : f = Lowest
      BY <2>1, LowestIsFree DEF FreeOnes
    <2>3. FreeOnes \ {f} # {}
      <3>1. FreeOnes = {f} => Cardinality(FreeOnes) = 1
        BY FS_Singleton
      <3> QED BY <1>3, <3>1
    <2>4. FreeOnes \ {f} \in SUBSET Nat
      BY DescriptorsAssumption DEF FreeOnes
    <2>5. Min(FreeOnes \ {f}) \in FreeOnes \ {f}
      BY <2>3, <2>4, LeastNatural
    <2>6. PICK fds : fds = {Lowest, Min(FreeOnes \ {Lowest})}
      OBVIOUS
    <2>7. fds # {} /\ fds \subseteq FreeOnes /\ Take(fds) /\ Again(Other)
      BY <1>3, <2>2, <2>5, <2>6
    <2>8. mask' \in [old : BOOLEAN, saved : BOOLEAN, blocked : BOOLEAN]
      BY <1>1 DEF Accounted, DescriptorTypes
    <2> QED BY <1>1, <2>7, <2>8, TakingKeepsAccount
  <1> QED BY <1>2, <1>3 DEF PipeCreate

LEMMA OthersKeepAccount ==
    ASSUME Accounted,
           FifoOpen \/ CreateNamed \/ OpenNamed \/ Unlink \/ SignalsOpen
    PROVE  Accounted'
  <1>1. UNCHANGED <<socket, endpoint>>
    BY DEF FifoOpen, CreateNamed, OpenNamed, Unlink, SignalsOpen, SocketsRest, pathVars
  <1>2. mask \in [old : BOOLEAN, saved : BOOLEAN, blocked : BOOLEAN]
    BY DEF Accounted, DescriptorTypes
  <1>3. FreeOnes # {} => {Lowest} # {} /\ {Lowest} \subseteq FreeOnes
    BY LowestIsFree DEF FreeOnes
  <1>4. ASSUME Again(Other), UNCHANGED mask,
               (FreeOnes # {} /\ Take({Lowest})) \/ Forget
        PROVE  Accounted'
    <2>1. CASE Forget
      BY <1>1, <1>2, <1>4, <2>1, ForgettingKeepsAccount
    <2>2. CASE FreeOnes # {} /\ Take({Lowest})
      BY <1>1, <1>2, <1>3, <1>4, <2>2, TakingKeepsAccount
    <2> QED BY <1>4, <2>1, <2>2
  <1>5. CASE FifoOpen \/ CreateNamed \/ OpenNamed
    <2>1. Again(Other) /\ UNCHANGED mask /\ ((FreeOnes # {} /\ Take({Lowest})) \/ Forget)
      BY <1>5 DEF FifoOpen, CreateNamed, OpenNamed
    <2> QED BY <1>4, <2>1
  <1>6. CASE Unlink
    BY <1>6 DEF Unlink, SocketsRest, pathVars, Accounted, DescriptorTypes, OpenHasFd, SocketsKnow,
        OtherKnows, ServerIsNamed, MaskIsKept, Owns
  <1>7. CASE SignalsOpen
    <2>1. Again(Other)
      BY <1>7 DEF SignalsOpen
    <2>2. CASE Forget /\ mask' = [mask EXCEPT !.old = FALSE, !.saved = FALSE]
      <3>1. /\ mask' \in [old : BOOLEAN, saved : BOOLEAN, blocked : BOOLEAN]
            /\ mask'.blocked = mask.blocked /\ ~mask'.old
        BY <1>2, <2>2
      <3> QED BY <1>1, <2>1, <2>2, <3>1, ForgettingKeepsAccount
    <2>3. CASE Forget /\ mask' = [mask EXCEPT !.old = mask.blocked, !.saved = TRUE]
      <3>1. /\ mask' \in [old : BOOLEAN, saved : BOOLEAN, blocked : BOOLEAN]
            /\ mask'.blocked = mask.blocked /\ mask'.old = mask.blocked
        BY <1>2, <2>3
      <3> QED BY <1>1, <2>1, <2>3, <3>1, ForgettingKeepsAccount
    <2>4. CASE /\ FreeOnes # {} /\ Take({Lowest})
               /\ mask' = [old |-> mask.blocked, saved |-> TRUE, blocked |-> TRUE]
      <3>1. /\ mask' \in [old : BOOLEAN, saved : BOOLEAN, blocked : BOOLEAN]
            /\ mask'.saved /\ mask'.old = mask.blocked
        BY <1>2, <2>4
      <3> QED BY <1>1, <1>3, <2>1, <2>4, <3>1, TakingKeepsAccount
    <2> QED BY <1>7, <2>2, <2>3, <2>4 DEF SignalsOpen
  <1> QED BY <1>5, <1>6, <1>7

LEMMA SocketOpensKeepAccount ==
    ASSUME Accounted, NEW s \in Sockets,
           \/ open_unix_server(s) \/ open_unix_client(s) \/ open_tcp_server(s)
           \/ open_tcp_client(s) \/ open_udp(s) \/ \E c \in Sockets : accept(c, s)
    PROVE  Accounted'
  <1>1. CASE open_unix_server(s)
    BY <1>1, GetsKeepsAccount DEF open_unix_server, AtPath, pathVars
  <1>2. CASE Gets(s) /\ UNCHANGED pathVars
    BY <1>2, GetsKeepsAccount DEF Gets, Opened, pathVars
  <1> QED BY <1>1, <1>2
      DEF open_unix_client, open_tcp_server, open_tcp_client, open_udp, accept

(***************************************************************************)
(* Nothing is said once a descriptor was closed by another object.         *)
(***************************************************************************)
DescriptorsInv == ~astray => Accounted

LEMMA DescriptorsStep == DescriptorsInv /\ [DescriptorsNext]_descriptorVars => DescriptorsInv'
  <1> SUFFICES ASSUME DescriptorsInv, [DescriptorsNext]_descriptorVars, ~astray'
               PROVE  Accounted'
    BY DEF DescriptorsInv
  <1>1. CASE UNCHANGED descriptorVars
    BY <1>1 DEF descriptorVars, pathVars, DescriptorsInv, Accounted, DescriptorTypes, OpenHasFd,
        SocketsKnow, OtherKnows, ServerIsNamed, MaskIsKept, Owns
  <1>2. ASSUME DescriptorsNext PROVE ~astray
    BY <1>2 DEF DescriptorsNext, open_unix_server, open_unix_client, open_tcp_server,
        open_tcp_client, open_udp, accept, Gets, close, destroy, Closes, PipeCreate, FifoOpen,
        CreateNamed, OpenNamed, Unlink, SignalsOpen, Close, SocketsRest
  <1>3. ASSUME DescriptorsNext PROVE Accounted'
    <2>1. Accounted
      BY <1>2, <1>3 DEF DescriptorsInv
    <2>2. ASSUME NEW s \in Sockets, close(s) \/ destroy(s) PROVE Accounted'
      BY <2>1, <2>2, ClosesKeepsAccount DEF close, destroy
    <2>3. ASSUME NEW s \in Sockets,
                 \/ open_unix_server(s) \/ open_unix_client(s) \/ open_tcp_server(s)
                 \/ open_tcp_client(s) \/ open_udp(s) \/ \E c \in Sockets : accept(c, s)
          PROVE  Accounted'
      BY <2>1, <2>3, SocketOpensKeepAccount
    <2>4. CASE PipeCreate
      BY <2>1, <2>4, PipeKeepsAccount
    <2>5. CASE FifoOpen \/ CreateNamed \/ OpenNamed \/ Unlink \/ SignalsOpen
      BY <2>1, <2>5, OthersKeepAccount
    <2>6. CASE Close
      BY <2>1, <2>6, CloseKeepsAccount
    <2> QED BY <1>3, <2>2, <2>3, <2>4, <2>5, <2>6 DEF DescriptorsNext
  <1> QED BY <1>1, <1>3

LEMMA NamesStep == NamesAreKnown /\ [DescriptorsNext]_descriptorVars => NamesAreKnown'
  <1> SUFFICES ASSUME NamesAreKnown, [DescriptorsNext]_descriptorVars PROVE NamesAreKnown'
    OBVIOUS
  <1>1. CASE UNCHANGED <<pathVars, name, created, kind>>
    BY <1>1 DEF pathVars, NamesAreKnown
  <1>2. ASSUME NEW s \in Sockets, open_unix_server(s) PROVE NamesAreKnown'
    BY <1>2 DEF open_unix_server, AtPath, OthersRest, pathVars, NamesAreKnown
  <1>3. ASSUME NEW s \in Sockets,
               \/ open_unix_client(s) \/ open_tcp_server(s) \/ open_tcp_client(s)
               \/ open_udp(s) \/ \E t \in Sockets : accept(t, s)
        PROVE  NamesAreKnown'
    BY <1>1, <1>3 DEF open_unix_client, open_tcp_server, open_tcp_client, open_udp, accept,
        Gets, OthersRest
  <1>4. ASSUME NEW s \in Sockets, close(s) \/ destroy(s) PROVE NamesAreKnown'
    <2>1. PICK after : Closes(s, after)
      BY <1>4 DEF close, destroy
    <2> QED BY <2>1 DEF Closes, AtPath, OthersRest, pathVars, NamesAreKnown
  <1>5. CASE CreateNamed
    BY <1>5 DEF CreateNamed, SocketsRest, pathVars, NamesAreKnown
  <1>6. CASE Unlink
    BY <1>6 DEF Unlink, SocketsRest, pathVars, NamesAreKnown
  <1>7. CASE FifoOpen
    BY <1>7 DEF FifoOpen, SocketsRest, pathVars, NamesAreKnown
  <1>8. CASE PipeCreate \/ OpenNamed \/ SignalsOpen \/ Close
    BY <1>1, <1>8 DEF PipeCreate, OpenNamed, SignalsOpen, Close, SocketsRest
  <1>9. CASE UNCHANGED descriptorVars
    BY <1>1, <1>9 DEF descriptorVars
  <1> QED BY <1>2, <1>3, <1>4, <1>5, <1>6, <1>7, <1>8, <1>9 DEF DescriptorsNext

-----------------------------------------------------------------------------
(***************************************************************************)
(* Whatever is opened, accepted, closed and refused, by any number of      *)
(* sockets and for any number of descriptors, as long as none was closed   *)
(* astray: what is open is known to the object that opened it, the path of *)
(* a server is one a socket listens at, unless listen() failed there, the  *)
(* name of a queue or a memory is one that was created; and a client of    *)
(* MQTT has its handle and the one copy of its callbacks.                  *)
(***************************************************************************)
THEOREM AcquiredIsKnown == FoundationSpec => []NothingLeaks
  <1>1. FoundationInit => DescriptorsInv /\ NamesAreKnown /\ MqttInv
    <2>1. FoundationInit => DescriptorsInit /\ MqttInit
      BY DEF FoundationInit
    <2> QED BY <2>1, AccountedInit
        DEF DescriptorsInv, DescriptorsInit, NamesAreKnown, MqttInit, MqttInv, ClientAccounted
  <1> DEFINE everything == <<subject, lockVars, contextVars, vars, descriptorVars,
                             streamVars, eventVars, loggingVars, mqttVars, fileVars>>
  <1>2. [FoundationNext]_everything =>
            [DescriptorsNext]_descriptorVars /\ [MqttNext]_mqttVars
    <2>1. FoundationNext => [DescriptorsNext]_descriptorVars /\ [MqttNext]_mqttVars
      BY DEF FoundationNext
    <2>2. UNCHANGED everything => UNCHANGED <<descriptorVars, mqttVars>>
      OBVIOUS
    <2> QED BY <2>1, <2>2
  <1>3. DescriptorsInv /\ NamesAreKnown /\ MqttInv /\ [FoundationNext]_everything =>
            DescriptorsInv' /\ NamesAreKnown' /\ MqttInv'
    BY <1>2, DescriptorsStep, NamesStep, MqttInvStep
  <1>4. DescriptorsInv /\ NamesAreKnown /\ MqttInv => NothingLeaks
    BY AccountedIsEnough DEF DescriptorsInv, MqttInv, NothingLeaks, DescriptorsAccounted
  <1> QED BY <1>1, <1>3, <1>4, PTL DEF FoundationSpec

-----------------------------------------------------------------------------
(* Streams: what was written and not yet returned, u, is the tail of whole *)
(* messages, the last of them cut where the writer w is in it; what was    *)
(* returned, r, are whole messages, all of them older.                     *)
Bytes == [of : Nat, at : 1..Length]
Underway == reader.bytes \o stream
Between(w) == ~w.runs \/ w.total = 0
Older(m, w) == IF w.runs /\ w.total = 0 THEN m < w.message ELSE m <= w.message

InOrder(u) ==
    /\ \A k, l \in 1..Len(u) : k <= l =>
          IF u[k].at + (l - k) <= Length
          THEN u[l] = [of |-> u[k].of, at |-> u[k].at + (l - k)]
          ELSE u[l].of > u[k].of
    /\ \A k, l \in 1..Len(u) : l = k + 1 /\ u[k].at = Length => u[l].at = 1
    /\ Len(u) > 0 => u[1].at = 1

CutAtWriter(u, w) ==
    /\ Between(w) /\ Len(u) > 0 => u[Len(u)].at = Length
    /\ ~Between(w) => Len(u) > 0 /\ u[Len(u)] = [of |-> w.message, at |-> w.total]
    /\ \A k \in 1..Len(u) : Older(u[k].of, w)

Whole(r) == \A i \in 1..Len(r) : \A b \in 1..Length : r[i][b] = [of |-> r[i][1].of, at |-> b]
Increasing(r) == \A i, j \in 1..Len(r) : i < j => r[i][1].of < r[j][1].of

Returned(u, w, r) ==
    /\ Whole(r) /\ Increasing(r)
    /\ \A i \in 1..Len(r) : r[i][1].of \in Nat /\ Older(r[i][1].of, w)
    /\ \A i \in 1..Len(r), k \in 1..Len(u) : r[i][1].of < u[k].of

Straight(u, w, r) == InOrder(u) /\ CutAtWriter(u, w) /\ Returned(u, w, r)

WriterTypes(w) ==
    /\ w \in [runs : BOOLEAN, message : Nat, total : Nat]
    /\ w.total <= Length
    /\ w.runs => w.total < Length

StreamTypes ==
    /\ WriterTypes(writer)
    /\ reader \in [runs : BOOLEAN, bytes : Seq(Bytes)]
    /\ Len(reader.bytes) < Length
    /\ ~reader.runs => reader.bytes = <<>>
    /\ stream \in Seq(Bytes)
    /\ received \in Seq(Seq(Bytes))
    /\ torn \in BOOLEAN

StreamsInv == StreamTypes /\ (~torn => Straight(Underway, writer, received))

LEMMA WholeIsEnough == StreamsInv => WholeMessages
  <1> SUFFICES ASSUME StreamsInv, ~torn PROVE WholeMessages
    BY DEF WholeMessages
  <1>1. DOMAIN received = 1..Len(received)
    BY DEF StreamsInv, StreamTypes
  <1>2. Whole(received) /\ Increasing(received)
    BY DEF StreamsInv, Straight, Returned
  <1> QED BY <1>1, <1>2 DEF Whole, Increasing, WholeMessages

(* A byte that the writer w has begun is of a message up to w's.           *)
LEMMA OlderMeans ==
  ASSUME NEW m \in Nat, NEW w, WriterTypes(w), Older(m, w)
  PROVE  m <= w.message
  BY DEF Older, WriterTypes

After(w, n) == [w EXCEPT !.total = @ + n, !.runs = w.total + n < Length]

(* What the call that writes has become n bytes later.                     *)
LEMMA WriterAfter ==
  ASSUME NEW w, WriterTypes(w), NEW n \in 1..Length, w.total + n <= Length,
         NEW v, v = After(w, n)
  PROVE  /\ w.runs \in BOOLEAN /\ w.message \in Nat /\ w.total \in Nat
         /\ v.total = w.total + n /\ v.message = w.message
         /\ v.runs <=> (w.total + n < Length)
         /\ ~v.runs => w.total + n = Length
  <1>1. /\ w.runs \in BOOLEAN /\ w.message \in Nat /\ w.total \in Nat
        /\ v.total = w.total + n /\ v.message = w.message
        /\ v.runs <=> (w.total + n < Length)
    BY DEF WriterTypes, After
  <1>2. w.total + n < Length \/ w.total + n = Length
    BY <1>1, StreamsAssumption
  <1> QED BY <1>1, <1>2

(* The writer puts n bytes more at the end.                                *)
LEMMA PiecePutsOn ==
  ASSUME NEW u \in Seq(Bytes), NEW w, WriterTypes(w), NEW r \in Seq(Seq(Bytes)),
         Straight(u, w, r), w.runs, NEW n \in 1..Length, w.total + n <= Length,
         NEW p \in Seq(Bytes), Len(p) = n,
         \A i \in 1..n : p[i] = [of |-> w.message, at |-> w.total + i],
         NEW v, v = After(w, n)
  PROVE  Straight(u \o p, v, r)
  <1> DEFINE t == u \o p
  <1>1. /\ w.runs \in BOOLEAN /\ w.message \in Nat /\ w.total \in Nat
        /\ v.total = w.total + n /\ v.message = w.message
        /\ v.runs <=> (w.total + n < Length)
        /\ ~v.runs => w.total + n = Length
    BY WriterAfter
  <1>2. /\ t \in Seq(Bytes) /\ Len(t) = Len(u) + n /\ Len(u) \in Nat
        /\ \A k \in 1..Len(u) : t[k] = u[k] /\ u[k].of \in Nat /\ u[k].at \in 1..Length
        /\ \A k \in 1..Len(t) : k > Len(u) =>
              t[k].of = w.message /\ t[k].at = w.total + (k - Len(u))
                /\ t[k] = [of |-> w.message, at |-> w.total + (k - Len(u))]
    <2>1. t \in Seq(Bytes) /\ Len(t) = Len(u) + n /\ Len(u) \in Nat
      OBVIOUS
    <2>2. \A k \in 1..Len(u) : t[k] = u[k]
      OBVIOUS
    <2>3. \A k \in 1..Len(u) : u[k] \in Bytes
      OBVIOUS
    <2>4. \A k \in 1..Len(u) : u[k].of \in Nat /\ u[k].at \in 1..Length
      BY <2>3 DEF Bytes
    <2>5. ASSUME NEW k \in 1..Len(t), k > Len(u)
          PROVE  t[k] = [of |-> w.message, at |-> w.total + (k - Len(u))]
      <3>1. t[k] = p[k - Len(u)] /\ k - Len(u) \in 1..n
        BY <2>1, <2>5
      <3> QED BY <3>1
    <2> QED BY <2>1, <2>2, <2>4, <2>5
  <1> HIDE DEF t
  <1>3. \A k \in 1..Len(u) : u[k].at + (Len(u) - k) <= Length =>
            IF w.total = 0 THEN u[k].at + (Len(u) - k) = Length
            ELSE u[k].of = w.message /\ u[k].at + (Len(u) - k) = w.total
    <2> TAKE k \in 1..Len(u)
    <2> HAVE u[k].at + (Len(u) - k) <= Length
    <2>0. Len(u) \in 1..Len(u) /\ k <= Len(u) /\ Len(u) > 0
      BY <1>2
    <2>1. u[Len(u)] = [of |-> u[k].of, at |-> u[k].at + (Len(u) - k)] /\ Len(u) > 0
      BY <2>0 DEF Straight, InOrder
    <2>2. CASE w.total = 0
      BY <2>1, <2>2 DEF Straight, CutAtWriter, Between
    <2>3. CASE w.total # 0
      <3>1. u[Len(u)] = [of |-> w.message, at |-> w.total]
        BY <2>3, w.runs DEF Straight, CutAtWriter, Between
      <3> QED BY <2>1, <2>3, <3>1
    <2> QED BY <2>2, <2>3
  <1>4. \A k \in 1..Len(u) : u[k].at + (Len(u) - k) > Length => u[k].of < w.message
    <2> TAKE k \in 1..Len(u)
    <2> HAVE u[k].at + (Len(u) - k) > Length
    <2>0. Len(u) \in 1..Len(u) /\ k <= Len(u) /\ ~(u[k].at + (Len(u) - k) <= Length)
      BY <1>2, StreamsAssumption
    <2>1. u[Len(u)].of > u[k].of /\ Len(u) \in 1..Len(u)
      BY <2>0 DEF Straight, InOrder
    <2>2. u[Len(u)].of <= w.message
      <3>1. u[Len(u)].of \in Nat /\ Older(u[Len(u)].of, w)
        BY <2>0, <1>2 DEF Straight, CutAtWriter
      <3> QED BY <3>1, OlderMeans
    <2>3. u[Len(u)].of \in Nat /\ u[k].of \in Nat
      BY <2>0, <1>2
    <2> QED BY <1>1, <2>1, <2>2, <2>3
  <1>5. InOrder(t)
    <2>1. ASSUME NEW k \in 1..Len(t), NEW l \in 1..Len(t), k <= l
          PROVE  IF t[k].at + (l - k) <= Length
                 THEN t[l] = [of |-> t[k].of, at |-> t[k].at + (l - k)]
                 ELSE t[l].of > t[k].of
      <3>1. CASE l <= Len(u)
        <4>1. k \in 1..Len(u) /\ l \in 1..Len(u) /\ t[k] = u[k] /\ t[l] = u[l]
          BY <1>2, <2>1, <3>1
        <4> QED BY <2>1, <4>1 DEF Straight, InOrder
      <3>2. CASE k > Len(u)
        <4>1. t[k].at + (l - k) = w.total + (l - Len(u)) /\ t[k].of = w.message
          BY <1>1, <1>2, <2>1, <3>2
        <4>2. t[l] = [of |-> w.message, at |-> w.total + (l - Len(u))]
          BY <1>1, <1>2, <2>1, <3>2
        <4>3. w.total + (l - Len(u)) <= Length
          BY <1>1, <1>2, StreamsAssumption
        <4> QED BY <4>1, <4>2, <4>3
      <3>3. CASE k <= Len(u) /\ l > Len(u)
        <4>1. /\ t[k] = u[k] /\ k \in 1..Len(u)
              /\ t[l] = [of |-> w.message, at |-> w.total + (l - Len(u))]
          BY <1>2, <2>1, <3>3
        <4>0. /\ u[k].at \in Int /\ Len(u) \in Int /\ k \in Int /\ l \in Int /\ Length \in Int
              /\ w.total \in Int
          <5>1. u[k].at \in Int /\ Len(u) \in Int
            BY <1>2, <4>1, StreamsAssumption
          <5>2. k \in Int /\ l \in Int
            BY <1>2, <2>1
          <5> QED BY <1>1, <5>1, <5>2, StreamsAssumption
        <4>9. u[k].of \in Nat /\ w.message \in Nat /\ t[k].of = u[k].of /\ t[l].of = w.message
          BY <1>1, <1>2, <4>1
        <4>6. u[k].at + (l - k) = (u[k].at + (Len(u) - k)) + (l - Len(u))
          <5>1. PICK a \in Int : a = u[k].at
            BY <4>0
          <5>2. PICK m \in Int : m = Len(u)
            BY <4>0
          <5>3. a + (l - k) = (a + (m - k)) + (l - m)
            BY <4>0
          <5> QED BY <5>1, <5>2, <5>3
        <4>2. CASE u[k].at + (Len(u) - k) > Length
          <5>1. u[k].of < w.message
            BY <1>4, <4>1, <4>2
          <5>2. l - k > Len(u) - k
            BY <3>3, <4>0
          <5>3. u[k].at + (l - k) > Length
            BY <4>0, <4>2, <5>2
          <5>4. ~(t[k].at + (l - k) <= Length)
            BY <4>0, <4>1, <5>3
          <5>5. t[l].of > t[k].of
            BY <4>9, <5>1
          <5> QED BY <5>4, <5>5
        <4>3. CASE u[k].at + (Len(u) - k) <= Length /\ w.total = 0
          <5>1. u[k].at + (Len(u) - k) = Length
            BY <1>3, <4>1, <4>3
          <5>2. u[k].at + (l - k) = Length + (l - Len(u))
            BY <4>6, <5>1
          <5>6. u[k].at + (l - k) > Length
            BY <3>3, <4>0, <5>2
          <5>3. u[k].of < w.message
            BY <4>1, <4>3, w.runs DEF Straight, CutAtWriter, Older
          <5>4. t[l].of > t[k].of
            BY <4>9, <5>3
          <5>5. ~(t[k].at + (l - k) <= Length)
            BY <4>0, <4>1, <5>6
          <5> QED BY <5>4, <5>5
        <4>4. CASE u[k].at + (Len(u) - k) <= Length /\ w.total # 0
          <5>1. u[k].of = w.message /\ u[k].at + (Len(u) - k) = w.total
            BY <1>3, <4>1, <4>4
          <5>2. u[k].at + (l - k) = w.total + (l - Len(u))
            BY <4>6, <5>1
          <5>3. w.total + (l - Len(u)) <= Length
            BY <1>1, <1>2, StreamsAssumption
          <5> QED BY <4>1, <5>1, <5>2, <5>3
        <4>5. u[k].at + (Len(u) - k) > Length \/ u[k].at + (Len(u) - k) <= Length
          BY <4>0
        <4> QED BY <4>2, <4>3, <4>4, <4>5
      <3> QED BY <1>2, <2>1, <3>1, <3>2, <3>3
    <2>2. ASSUME NEW k \in 1..Len(t), NEW l \in 1..Len(t), l = k + 1, t[k].at = Length
          PROVE  t[l].at = 1
      <3>1. CASE l <= Len(u)
        <4>1. k \in 1..Len(u) /\ l \in 1..Len(u) /\ t[k] = u[k] /\ t[l] = u[l]
          BY <1>2, <2>2, <3>1
        <4> QED BY <2>2, <4>1 DEF Straight, InOrder
      <3>2. CASE k > Len(u)
        BY <1>1, <1>2, <2>2, <3>2, StreamsAssumption
      <3>3. CASE k = Len(u)
        <4>0. k \in 1..Len(u) /\ l > Len(u) /\ l - Len(u) = 1 /\ t[k] = u[k]
          BY <1>2, <2>2, <3>3
        <4>1. t[l].at = w.total + 1 /\ k \in 1..Len(u) /\ u[Len(u)].at = Length /\ Len(u) > 0
          <5>1. t[l].at = w.total + (l - Len(u))
            BY <1>2, <4>0
          <5>2. u[Len(u)].at = Length /\ Len(u) > 0
            BY <1>2, <2>2, <3>3, <4>0
          <5> QED BY <4>0, <5>1, <5>2
        <4>2. w.total < Length
          BY w.runs DEF WriterTypes
        <4>3. w.total = 0
          BY <4>1, <4>2, <1>1, <1>2, w.runs, StreamsAssumption
             DEF Straight, CutAtWriter, Between
        <4> QED BY <4>1, <4>3
      <3> QED BY <1>2, <2>2, <3>1, <3>2, <3>3
    <2>3. t[1].at = 1
      <3>1. CASE Len(u) > 0
        BY <1>2, <3>1 DEF Straight, InOrder
      <3>2. CASE Len(u) = 0
        <4>1. w.total = 0
          BY <3>2, <1>1, w.runs DEF Straight, CutAtWriter, Between
        <4> QED BY <4>1, <3>2, <1>2
      <3> QED BY <3>1, <3>2, <1>2
    <2> QED BY <2>1, <2>2, <2>3 DEF InOrder
  <1>6. CutAtWriter(t, v)
    <2>1. Len(t) > 0 /\ Len(t) \in 1..Len(t) /\ Len(t) > Len(u) /\ Len(t) - Len(u) = n
      BY <1>2
    <2>2. t[Len(t)].at = w.total + n /\ t[Len(t)] = [of |-> w.message, at |-> w.total + n]
      BY <1>2, <2>1
    <2>3. ASSUME NEW k \in 1..Len(t) PROVE t[k].of <= w.message
      <3>1. CASE k \in 1..Len(u)
        <4>1. Older(u[k].of, w) /\ u[k].of \in Nat /\ t[k] = u[k]
          BY <1>2, <3>1 DEF Straight, CutAtWriter
        <4> QED BY <4>1, OlderMeans
      <3>2. CASE k > Len(u)
        BY <1>1, <1>2, <3>2
      <3> QED BY <1>2, <3>1, <3>2
    <2>4. v.total # 0
      BY <1>1
    <2>5. Between(v) => t[Len(t)].at = Length
      BY <1>1, <2>2, <2>4, StreamsAssumption DEF Between
    <2>6. \A k \in 1..Len(t) : Older(t[k].of, v)
      BY <1>1, <2>3, <2>4 DEF Older
    <2> QED BY <1>1, <2>1, <2>2, <2>5, <2>6 DEF CutAtWriter
  <1>7. Returned(t, v, r)
    <2>1. Whole(r) /\ Increasing(r)
      BY DEF Straight, Returned
    <2>2. \A i \in 1..Len(r) : r[i][1].of \in Nat /\ Older(r[i][1].of, v)
      <3> TAKE i \in 1..Len(r)
      <3>1. r[i][1].of \in Nat /\ Older(r[i][1].of, w)
        BY DEF Straight, Returned
      <3>2. r[i][1].of <= w.message
        BY <3>1, OlderMeans
      <3>3. v.total # 0 /\ v.message = w.message
        BY <1>1
      <3> QED BY <3>1, <3>2, <3>3 DEF Older
    <2>3. \A i \in 1..Len(r) : r[i][1].of < w.message
      <3> TAKE i \in 1..Len(r)
      <3>1. CASE w.total = 0
        BY <3>1, w.runs DEF Straight, Returned, Older
      <3>2. CASE w.total # 0
        <4>1. Len(u) > 0 /\ u[Len(u)].of = w.message
          BY <3>2, w.runs DEF Straight, CutAtWriter, Between
        <4>2. Len(u) \in 1..Len(u)
          BY <4>1, <1>2
        <4> QED BY <4>1, <4>2 DEF Straight, Returned
      <3> QED BY <3>1, <3>2
    <2>4. ASSUME NEW i \in 1..Len(r), NEW k \in 1..Len(t) PROVE r[i][1].of < t[k].of
      <3>1. CASE k \in 1..Len(u)
        BY <3>1, <1>2 DEF Straight, Returned
      <3>2. CASE k > Len(u)
        BY <3>2, <1>2, <2>3
      <3> QED BY <1>2, <3>1, <3>2
    <2> QED BY <2>1, <2>2, <2>4 DEF Returned
  <1> QED BY <1>5, <1>6, <1>7 DEF Straight, t

LEMMA Appended ==
  ASSUME NEW S, NEW r \in Seq(S), NEW m \in S
  PROVE  /\ Len(Append(r, m)) = Len(r) + 1 /\ Len(r) \in Nat
         /\ \A i \in 1..Len(r) : Append(r, m)[i] = r[i]
         /\ \A i \in 1..Len(Append(r, m)) : i \notin 1..Len(r) =>
               Append(r, m)[i] = m /\ i = Len(r) + 1
  OBVIOUS

(* A call returns the first Length bytes.                                  *)
LEMMA MessageIsTaken ==
  ASSUME NEW u \in Seq(Bytes), NEW w, WriterTypes(w), NEW r \in Seq(Seq(Bytes)),
         Straight(u, w, r), Len(u) >= Length,
         NEW m \in Seq(Bytes), Len(m) = Length, \A k \in 1..Length : m[k] = u[k],
         NEW t \in Seq(Bytes), Len(t) = Len(u) - Length,
         \A k \in 1..Len(t) : t[k] = u[Length + k]
  PROVE  Straight(t, w, Append(r, m))
  <1> DEFINE a == Append(r, m)
  <1>1. /\ Len(u) \in Nat /\ Len(t) \in Nat /\ Length \in Nat \ {0}
        /\ \A k \in 1..Len(u) : u[k] \in Bytes
        /\ \A k \in 1..Len(t) : Length + k \in 1..Len(u) /\ t[k] = u[Length + k]
    BY StreamsAssumption
  <1>2. \A k \in 1..Len(u) : u[k].of \in Nat /\ u[k].at \in 1..Length
    BY <1>1 DEF Bytes
  <1>3. 1 \in 1..Len(u) /\ u[1].at = 1
    BY <1>1 DEF Straight, InOrder
  <1>4. \A k \in 1..Length : m[k] = [of |-> m[1].of, at |-> k]
    <2> TAKE k \in 1..Length
    <2>1. k \in 1..Len(u) /\ 1 <= k /\ u[1].at + (k - 1) <= Length /\ u[1].at + (k - 1) = k
      BY <1>1, <1>3
    <2>2. u[k] = [of |-> u[1].of, at |-> u[1].at + (k - 1)]
      BY <1>3, <2>1 DEF Straight, InOrder
    <2>3. m[1] = u[1] /\ m[k] = u[k]
      BY <1>1
    <2> QED BY <2>1, <2>2, <2>3
  <1>5. \A k \in 1..Len(t) : u[1].of < t[k].of
    <2> TAKE k \in 1..Len(t)
    <2>1. Length + k \in 1..Len(u) /\ 1 <= Length + k /\ ~(u[1].at + ((Length + k) - 1) <= Length)
      BY <1>1, <1>3
    <2>2. u[Length + k].of > u[1].of
      BY <1>3, <2>1 DEF Straight, InOrder
    <2> QED BY <1>1, <1>2, <1>3, <2>1, <2>2
  <1>6. InOrder(t)
    <2>1. ASSUME NEW k \in 1..Len(t), NEW l \in 1..Len(t), k <= l
          PROVE  IF t[k].at + (l - k) <= Length
                 THEN t[l] = [of |-> t[k].of, at |-> t[k].at + (l - k)]
                 ELSE t[l].of > t[k].of
      <3>1. k \in Int /\ l \in Int /\ Length \in Int
        BY <1>1
      <3>2. Length + k <= Length + l /\ (Length + l) - (Length + k) = l - k
        BY <2>1, <3>1
      <3>3. Length + k \in 1..Len(u) /\ t[k] = u[Length + k]
        BY <1>1
      <3>4. Length + l \in 1..Len(u) /\ t[l] = u[Length + l]
        BY <1>1
      <3> QED BY <3>2, <3>3, <3>4 DEF Straight, InOrder
    <2>2. ASSUME NEW k \in 1..Len(t), NEW l \in 1..Len(t), l = k + 1, t[k].at = Length
          PROVE  t[l].at = 1
      <3>1. /\ Length + k \in 1..Len(u) /\ Length + l \in 1..Len(u)
            /\ Length + l = (Length + k) + 1
            /\ t[k] = u[Length + k] /\ t[l] = u[Length + l]
        BY <1>1, <2>2
      <3> QED BY <2>2, <3>1 DEF Straight, InOrder
    <2>3. ASSUME Len(t) > 0 PROVE t[1].at = 1
      <3>1. /\ Length \in 1..Len(u) /\ Length + 1 \in 1..Len(u) /\ t[1] = u[Length + 1]
            /\ m[Length] = u[Length]
        BY <1>1, <2>3
      <3>2. u[Length].at = Length
        BY <1>1, <1>4, <3>1
      <3> QED BY <3>1, <3>2 DEF Straight, InOrder
    <2> QED BY <2>1, <2>2, <2>3 DEF InOrder
  <1>7. CutAtWriter(t, w)
    <2>1. \A k \in 1..Len(t) : Older(t[k].of, w)
      BY <1>1 DEF Straight, CutAtWriter
    <2>2. Len(t) > 0 => t[Len(t)] = u[Len(u)]
      BY <1>1
    <2>3. Len(t) = 0 => Len(u) = Length /\ u[Len(u)].at = Length
      BY <1>1, <1>4
    <2>4. CASE Between(w)
      BY <2>1, <2>2, <2>4, <1>1 DEF Straight, CutAtWriter
    <2>5. CASE ~Between(w)
      <3>1. u[Len(u)] = [of |-> w.message, at |-> w.total] /\ Len(u) > 0
        BY <2>5 DEF Straight, CutAtWriter
      <3>2. w.total < Length /\ w.total \in Nat
        BY <2>5 DEF Between, WriterTypes
      <3>3. Len(t) > 0
        BY <3>1, <3>2, <2>3, <1>1
      <3> QED BY <2>1, <2>2, <2>5, <3>1, <3>3 DEF CutAtWriter
    <2> QED BY <2>4, <2>5
  <1>8. Returned(t, w, a)
    <2>1. /\ Len(a) = Len(r) + 1 /\ Len(r) \in Nat
          /\ \A i \in 1..Len(r) : a[i] = r[i]
          /\ \A i \in 1..Len(a) : i \notin 1..Len(r) => a[i] = m /\ i = Len(r) + 1
      BY Appended
    <2>2. m[1].of = u[1].of /\ m[1].of \in Nat /\ Older(m[1].of, w)
      BY <1>1, <1>2, <1>3 DEF Straight, CutAtWriter
    <2>3. \A i \in 1..Len(r) : r[i][1].of < m[1].of
      BY <2>2, <1>3 DEF Straight, Returned
    <2> HIDE DEF a
    <2>4. Whole(a)
      <3> SUFFICES ASSUME NEW i \in 1..Len(a), NEW b \in 1..Length
                   PROVE  a[i][b] = [of |-> a[i][1].of, at |-> b]
        BY DEF Whole
      <3>1. CASE i \in 1..Len(r)
        <4>1. a[i] = r[i] /\ \A x \in 1..Length : r[i][x] = [of |-> r[i][1].of, at |-> x]
          BY <2>1, <3>1 DEF Straight, Returned, Whole
        <4> QED BY <4>1
      <3>2. CASE i \notin 1..Len(r)
        BY <2>1, <3>2, <1>4
      <3> QED BY <3>1, <3>2
    <2>5. Increasing(a)
      <3> SUFFICES ASSUME NEW i \in 1..Len(a), NEW j \in 1..Len(a), i < j
                   PROVE  a[i][1].of < a[j][1].of
        BY DEF Increasing
      <3>1. CASE j \in 1..Len(r)
        <4>1. i \in 1..Len(r)
          BY <2>1, <3>1
        <4> QED BY <4>1, <3>1, <2>1 DEF Straight, Returned, Increasing
      <3>2. CASE j \notin 1..Len(r)
        <4>1. i \in 1..Len(r)
          BY <2>1, <3>2
        <4> QED BY <4>1, <3>2, <2>1, <2>3
      <3> QED BY <3>1, <3>2
    <2>6. \A i \in 1..Len(a) : a[i][1].of \in Nat /\ Older(a[i][1].of, w)
      BY <2>1, <2>2 DEF Straight, Returned
    <2>7. ASSUME NEW i \in 1..Len(a), NEW k \in 1..Len(t) PROVE a[i][1].of < t[k].of
      <3>1. CASE i \in 1..Len(r)
        BY <1>1, <2>1, <3>1 DEF Straight, Returned
      <3>2. CASE i \notin 1..Len(r)
        BY <2>1, <2>2, <3>2, <1>5
      <3> QED BY <3>1, <3>2
    <2> QED BY <2>4, <2>5, <2>6, <2>7 DEF Returned
  <1> QED BY <1>6, <1>7, <1>8 DEF Straight, a

-----------------------------------------------------------------------------
LEMMA Joined ==
  ASSUME NEW S, NEW s \in Seq(S), NEW t \in Seq(S)
  PROVE  /\ s \o t \in Seq(S) /\ Len(s \o t) = Len(s) + Len(t)
         /\ Len(s) \in Nat /\ Len(t) \in Nat
         /\ \A k \in 1..Len(s) : (s \o t)[k] = s[k]
         /\ \A k \in 1..Len(t) : (s \o t)[Len(s) + k] = t[k]
  OBVIOUS

LEMMA SameSequence ==
  ASSUME NEW S, NEW s \in Seq(S), NEW t \in Seq(S),
         Len(s) = Len(t), \A k \in 1..Len(s) : s[k] = t[k]
  PROVE  s = t
  <1>1. DOMAIN s = 1..Len(s) /\ DOMAIN t = 1..Len(t)
    OBVIOUS
  <1>2. s = [k \in DOMAIN s |-> s[k]] /\ t = [k \in DOMAIN t |-> t[k]]
    OBVIOUS
  <1> QED BY <1>1, <1>2

LEMMA SplitBytes ==
  ASSUME NEW S, NEW s \in Seq(S), NEW t \in Seq(S), NEW n \in 0..Len(t)
  PROVE  (s \o SubSeq(t, 1, n)) \o SubSeq(t, n + 1, Len(t)) = s \o t
  <1> DEFINE a == s \o SubSeq(t, 1, n)
             c == SubSeq(t, n + 1, Len(t))
             b == s \o t
  <1>1. /\ a \in Seq(S) /\ Len(a) = Len(s) + n
        /\ \A k \in 1..Len(a) : a[k] = b[k]
    OBVIOUS
  <1>2. /\ c \in Seq(S) /\ Len(c) = Len(t) - n
        /\ \A k \in 1..Len(c) : c[k] = b[Len(s) + n + k]
    OBVIOUS
  <1>3. b \in Seq(S) /\ Len(b) = Len(s) + Len(t) /\ Len(s) \in Nat /\ Len(t) \in Nat
    OBVIOUS
  <1> HIDE DEF a, b, c
  <1>4. /\ Len(a \o c) = Len(b) /\ a \o c \in Seq(S)
        /\ \A k \in 1..Len(a) : (a \o c)[k] = a[k]
        /\ \A k \in 1..Len(c) : (a \o c)[Len(a) + k] = c[k]
    <2>1. /\ a \o c \in Seq(S) /\ Len(a \o c) = Len(a) + Len(c)
          /\ \A k \in 1..Len(a) : (a \o c)[k] = a[k]
          /\ \A k \in 1..Len(c) : (a \o c)[Len(a) + k] = c[k]
      <3>1. a \in Seq(S) /\ c \in Seq(S)
        BY <1>1, <1>2
      <3>2. a \o c \in Seq(S) /\ Len(a \o c) = Len(a) + Len(c)
        BY <3>1, Joined
      <3>3. \A k \in 1..Len(a) : (a \o c)[k] = a[k]
        BY <3>1, Joined
      <3>4. \A k \in 1..Len(c) : (a \o c)[Len(a) + k] = c[k]
        BY <3>1, Joined
      <3> QED BY <3>2, <3>3, <3>4
    <2>2. Len(a) = Len(s) + n /\ Len(c) = Len(t) - n
      BY <1>1, <1>2
    <2>3. Len(a) + Len(c) = Len(b)
      BY <1>3, <2>2
    <2> QED BY <2>1, <2>3
  <1>5. \A k \in 1..Len(b) : (a \o c)[k] = b[k]
    <2> TAKE k \in 1..Len(b)
    <2>1. CASE k \in 1..Len(a)
      BY <1>1, <1>4, <2>1
    <2>2. CASE k \notin 1..Len(a)
      <3>1. k - Len(a) \in 1..Len(c) /\ Len(a) + (k - Len(a)) = k
        BY <1>1, <1>2, <1>3, <2>2
      <3>2. (a \o c)[k] = c[k - Len(a)]
        BY <1>4, <3>1
      <3>3. Len(s) + n + (k - Len(a)) = k
        BY <1>1, <1>3, <3>1
      <3> QED BY <1>2, <3>1, <3>2, <3>3
    <2> QED BY <2>1, <2>2
  <1>6. a \o c = b
    BY <1>3, <1>4, <1>5, SameSequence
  <1> QED BY <1>6 DEF a, b, c

(* The bytes under way, one by one.                                        *)
LEMMA UnderwayTypes ==
  ASSUME StreamTypes
  PROVE  Underway \in Seq(Bytes) /\ \A k \in 1..Len(Underway) : Underway[k].of \in Nat
  <1>1. Underway \in Seq(Bytes)
    BY DEF Underway, StreamTypes
  <1>2. \A k \in 1..Len(Underway) : Underway[k] \in Bytes
    BY <1>1
  <1> QED BY <1>1, <1>2 DEF Bytes

LEMMA StreamsStart == StreamsInit => StreamsInv
  <1> SUFFICES ASSUME StreamsInit PROVE StreamsInv
    OBVIOUS
  <1>1. StreamTypes
    <2>1. WriterTypes(writer)
      BY StreamsAssumption DEF StreamsInit, WriterTypes
    <2>2. reader \in [runs : BOOLEAN, bytes : Seq(Bytes)] /\ reader.bytes = <<>>
      BY DEF StreamsInit
    <2>3. Len(reader.bytes) < Length
      BY <2>2, StreamsAssumption
    <2>4. stream \in Seq(Bytes) /\ received \in Seq(Seq(Bytes)) /\ torn \in BOOLEAN
      <3>1. stream = <<>> /\ received = <<>> /\ torn = FALSE
        BY DEF StreamsInit
      <3>2. <<>> \in Seq(Bytes) /\ <<>> \in Seq(Seq(Bytes))
        OBVIOUS
      <3> QED BY <3>1, <3>2
    <2> QED BY <2>1, <2>2, <2>3, <2>4 DEF StreamTypes
  <1>2. Underway = <<>> /\ Len(Underway) = 0
    BY DEF StreamsInit, Underway
  <1>3. Straight(Underway, writer, received)
    BY <1>2 DEF StreamsInit, Straight, InOrder, CutAtWriter, Returned, Whole, Increasing, Between
  <1> QED BY <1>1, <1>3 DEF StreamsInv

(* A call that writes begins, or ends with an error.                       *)
LEMMA WriterStep ==
  ASSUME StreamsInv, BeginWrite \/ WriteEnds
  PROVE  StreamsInv'
  <1> USE DEF StreamsInv
  <1>1. CASE BeginWrite
    <2>1. /\ writer' = [runs |-> TRUE, message |-> writer.message + 1, total |-> 0]
          /\ ~writer.runs /\ writer.message \in Nat
          /\ UNCHANGED <<stream, reader, received, torn>>
      BY <1>1 DEF BeginWrite, StreamTypes, WriterTypes
    <2>2. StreamTypes'
      BY <2>1, StreamsAssumption DEF StreamTypes, WriterTypes
    <2>3. ASSUME ~torn PROVE Straight(Underway, writer', received)
      <3>1. Straight(Underway, writer, received) /\ WriterTypes(writer)
        BY <2>3 DEF StreamTypes
      <3>2. \A m \in Nat : Older(m, writer) => Older(m, writer')
        BY <2>1 DEF Older
      <3>3. \A k \in 1..Len(Underway) : Underway[k].of \in Nat
        BY UnderwayTypes
      <3>4. CutAtWriter(Underway, writer')
        BY <2>1, <3>1, <3>2, <3>3 DEF Straight, CutAtWriter, Between
      <3>5. Returned(Underway, writer', received)
        BY <3>1, <3>2 DEF Straight, Returned
      <3> QED BY <3>1, <3>4, <3>5 DEF Straight
    <2> QED BY <2>1, <2>2, <2>3 DEF Underway
  <1>2. CASE WriteEnds
    <2>1. /\ writer' = [writer EXCEPT !.runs = FALSE] /\ writer.runs
          /\ torn' = (torn \/ writer.total > 0)
          /\ UNCHANGED <<stream, reader, received>>
      BY <1>2 DEF WriteEnds, WriteFails
    <2>2. writer'.runs = FALSE /\ writer'.message = writer.message
      BY <2>1 DEF StreamTypes, WriterTypes
    <2>3. StreamTypes'
      BY <2>1, StreamsAssumption DEF StreamTypes, WriterTypes
    <2>4. ASSUME ~torn' PROVE Straight(Underway, writer', received)
      <3>0. ~torn /\ writer.total = 0 /\ writer.message \in Nat
        BY <2>1, <2>4 DEF StreamTypes, WriterTypes
      <3>1. Straight(Underway, writer, received)
        BY <3>0
      <3>2. \A m \in Nat : Older(m, writer) => Older(m, writer')
        BY <2>1, <2>2, <3>0 DEF Older
      <3>3. \A k \in 1..Len(Underway) : Underway[k].of \in Nat
        BY UnderwayTypes
      <3>4. CutAtWriter(Underway, writer')
        BY <2>2, <3>0, <3>1, <3>2, <3>3 DEF Straight, CutAtWriter, Between
      <3>5. Returned(Underway, writer', received)
        BY <3>1, <3>2 DEF Straight, Returned
      <3> QED BY <3>1, <3>4, <3>5 DEF Straight
    <2> QED BY <2>1, <2>3, <2>4 DEF Underway
  <1> QED BY <1>1, <1>2

LEMMA PieceStep ==
  ASSUME StreamsInv, NEW n \in Pieces, WritePiece(n)
  PROVE  StreamsInv'
  <1> USE DEF StreamsInv
  <1>1. /\ writer' = After(writer, n) /\ writer.runs /\ writer.total + n <= Length
        /\ stream' = stream \o Piece(n) /\ n \in 1..Length
        /\ UNCHANGED <<reader, received, torn>>
    BY DEF WritePiece, After, Pieces
  <1>2. /\ Piece(n) \in Seq(Bytes) /\ Len(Piece(n)) = n
        /\ \A i \in 1..n : Piece(n)[i] = [of |-> writer.message, at |-> writer.total + i]
    <2>0. /\ writer.message \in Nat /\ writer.total \in Nat /\ n \in Nat /\ Length \in Nat
          /\ writer.total + n <= Length
      BY <1>1, StreamsAssumption DEF StreamTypes, WriterTypes
    <2>1. ASSUME NEW i \in 1..n
          PROVE  [of |-> writer.message, at |-> writer.total + i] \in Bytes
      <3>1. writer.total + i \in 1..Length
        BY <2>0
      <3> QED BY <2>0, <3>1 DEF Bytes
    <2> QED BY <1>1, <2>1 DEF Piece
  <1>3. StreamTypes'
    <2>1. WriterTypes(writer')
      <3>1. writer' \in [runs : BOOLEAN, message : Nat, total : Nat]
        <4>1. writer \in [runs : BOOLEAN, message : Nat, total : Nat] /\ n \in Nat
          BY <1>1, StreamsAssumption DEF StreamTypes, WriterTypes
        <4>2. writer.total + n \in Nat /\ (writer.total + n < Length) \in BOOLEAN
          BY <4>1
        <4> QED BY <1>1, <4>1, <4>2 DEF After
      <3>2. writer'.total = writer.total + n /\ (writer'.runs => writer.total + n < Length)
        BY <1>1, WriterAfter DEF StreamTypes
      <3> QED BY <1>1, <3>1, <3>2 DEF WriterTypes
    <2>2. stream' \in Seq(Bytes)
      BY <1>1, <1>2 DEF StreamTypes
    <2> QED BY <1>1, <2>1, <2>2 DEF StreamTypes
  <1>4. Underway \in Seq(Bytes) /\ Underway' = Underway \o Piece(n)
    <2>1. reader.bytes \in Seq(Bytes) /\ stream \in Seq(Bytes) /\ Piece(n) \in Seq(Bytes)
      BY <1>2 DEF StreamTypes
    <2>2. (reader.bytes \o stream) \o Piece(n) = reader.bytes \o (stream \o Piece(n))
      <3>1. PICK b \in Seq(Bytes) : b = reader.bytes
        BY <2>1
      <3>2. PICK s \in Seq(Bytes) : s = stream
        BY <2>1
      <3>3. PICK p \in Seq(Bytes) : p = Piece(n)
        BY <2>1
      <3>4. (b \o s) \o p = b \o (s \o p)
        BY ConcatAssociative
      <3> QED BY <3>1, <3>2, <3>3, <3>4
    <2>3. reader.bytes \o stream \in Seq(Bytes)
      BY <2>1
    <2> QED BY <1>1, <2>2, <2>3 DEF Underway
  <1>5. ASSUME ~torn PROVE Straight(Underway \o Piece(n), writer', received)
    <2>1. WriterTypes(writer) /\ received \in Seq(Seq(Bytes)) /\ Straight(Underway, writer, received)
      BY <1>5 DEF StreamTypes
    <2> QED BY <1>1, <1>2, <1>4, <2>1, PiecePutsOn
  <1> QED BY <1>1, <1>3, <1>4, <1>5

LEMMA ReaderStep ==
  ASSUME StreamsInv, BeginRead \/ ReadEnds \/ \E n \in Pieces : ReadPiece(n)
  PROVE  StreamsInv'
  <1> USE DEF StreamsInv
  <1>1. CASE BeginRead
    <2>1. reader.bytes = <<>> /\ reader'.bytes = <<>> /\ UNCHANGED <<stream, writer, received, torn>>
      BY <1>1 DEF BeginRead, StreamTypes
    <2>2. StreamTypes'
      BY <1>1, <2>1, StreamsAssumption DEF BeginRead, StreamTypes
    <2> QED BY <2>1, <2>2 DEF Underway
  <1>2. CASE ReadEnds
    <2>1. /\ reader'.bytes = <<>> /\ UNCHANGED <<stream, writer, received>>
          /\ torn' = (torn \/ reader.bytes # <<>>)
      BY <1>2 DEF ReadEnds
    <2>2. StreamTypes'
      BY <1>2, <2>1, StreamsAssumption DEF ReadEnds, StreamTypes
    <2>3. ~torn' => ~torn /\ Underway' = Underway
      BY <2>1 DEF Underway, StreamTypes
    <2> QED BY <2>1, <2>2, <2>3
  <1>3. ASSUME NEW n \in Pieces, ReadPiece(n) PROVE StreamsInv'
    <2> DEFINE bytes == reader.bytes \o SubSeq(stream, 1, n)
               rest == SubSeq(stream, n + 1, Len(stream))
    <2>1. /\ n \in 0..Len(stream) /\ Len(bytes) <= Length /\ stream' = rest
          /\ UNCHANGED <<writer, torn>>
          /\ Len(bytes) = Length => reader' = [runs |-> FALSE, bytes |-> <<>>] /\ received' = Append(received, bytes)
          /\ Len(bytes) # Length => reader' = [runs |-> TRUE, bytes |-> bytes] /\ received' = received
      BY <1>3, StreamsAssumption DEF ReadPiece, Pieces, StreamTypes
    <2>2. /\ bytes \in Seq(Bytes) /\ rest \in Seq(Bytes) /\ Underway \in Seq(Bytes)
          /\ received \in Seq(Seq(Bytes))
          /\ reader.bytes \in Seq(Bytes) /\ stream \in Seq(Bytes)
      BY <2>1 DEF StreamTypes, Underway
    <2>3. bytes \o rest = Underway
      BY <2>1, <2>2, SplitBytes DEF Underway
    <2> HIDE DEF bytes, rest
    <2>4. CASE Len(bytes) # Length
      <3>1. Underway' = Underway
        <4>1. reader'.bytes = bytes /\ stream' = rest
          BY <2>1, <2>4
        <4> QED BY <2>3, <4>1 DEF Underway
      <3>2. Len(bytes) < Length
        BY <2>1, <2>2, <2>4, StreamsAssumption
      <3>3. StreamTypes'
        <4>1. reader' = [runs |-> TRUE, bytes |-> bytes] /\ stream' \in Seq(Bytes)
          BY <2>1, <2>2, <2>4
        <4>2. reader' \in [runs : BOOLEAN, bytes : Seq(Bytes)] /\ reader'.runs /\ Len(reader'.bytes) < Length
          BY <2>2, <3>2, <4>1
        <4> QED BY <2>1, <2>4, <4>1, <4>2 DEF StreamTypes
      <3> QED BY <2>1, <2>4, <3>1, <3>3
    <2>5. CASE Len(bytes) = Length
      <3>1. Append(received, bytes) \in Seq(Seq(Bytes))
        BY <2>2
      <3>2. StreamTypes'
        <4>1. reader' = [runs |-> FALSE, bytes |-> <<>>] /\ stream' \in Seq(Bytes)
          BY <2>1, <2>2, <2>5
        <4>2. /\ reader' \in [runs : BOOLEAN, bytes : Seq(Bytes)] /\ reader'.bytes = <<>>
              /\ Len(reader'.bytes) < Length
          BY <4>1, StreamsAssumption
        <4> QED BY <2>1, <2>5, <3>1, <4>1, <4>2 DEF StreamTypes
      <3>3. /\ Len(Underway) >= Length /\ Len(rest) = Len(Underway) - Length
            /\ \A k \in 1..Length : bytes[k] = Underway[k]
            /\ \A k \in 1..Len(rest) : rest[k] = Underway[Length + k]
        <4>1. Len(bytes) = Length /\ Length \in Nat /\ Len(rest) \in Nat
          BY <2>2, <2>5, StreamsAssumption
        <4>2. /\ Len(bytes \o rest) = Length + Len(rest)
              /\ \A k \in 1..Length : (bytes \o rest)[k] = bytes[k]
              /\ \A k \in 1..Len(rest) : (bytes \o rest)[Length + k] = rest[k]
          <5>1. bytes \in Seq(Bytes) /\ rest \in Seq(Bytes)
            BY <2>2
          <5>2. /\ Len(bytes \o rest) = Len(bytes) + Len(rest)
                /\ \A k \in 1..Len(bytes) : (bytes \o rest)[k] = bytes[k]
                /\ \A k \in 1..Len(rest) : (bytes \o rest)[Len(bytes) + k] = rest[k]
            <6>1. Len(bytes \o rest) = Len(bytes) + Len(rest)
              BY <5>1, Joined
            <6>2. \A k \in 1..Len(bytes) : (bytes \o rest)[k] = bytes[k]
              BY <5>1, Joined
            <6>3. \A k \in 1..Len(rest) : (bytes \o rest)[Len(bytes) + k] = rest[k]
              BY <5>1, Joined
            <6> QED BY <6>1, <6>2, <6>3
          <5> QED BY <4>1, <5>2
        <4>3. Length + Len(rest) >= Length /\ Len(rest) = (Length + Len(rest)) - Length
          BY <4>1
        <4> QED BY <2>3, <4>2, <4>3
      <3>4. Underway' = rest
        BY <2>1, <2>2, <2>5 DEF Underway
      <3>5. ASSUME ~torn PROVE Straight(rest, writer, Append(received, bytes))
        <4>1. Straight(Underway, writer, received) /\ WriterTypes(writer)
          BY <3>5 DEF StreamTypes
        <4> QED BY <4>1, <2>2, <2>5, <3>3, MessageIsTaken
      <3> QED BY <2>1, <2>5, <3>2, <3>4, <3>5
    <2> QED BY <2>4, <2>5
  <1> QED BY <1>1, <1>2, <1>3

LEMMA StreamsStep == StreamsInv /\ [StreamsNext]_streamVars => StreamsInv'
  <1> SUFFICES ASSUME StreamsInv, [StreamsNext]_streamVars PROVE StreamsInv'
    OBVIOUS
  <1>1. CASE UNCHANGED streamVars
    BY <1>1 DEF streamVars, StreamsInv, StreamTypes, Underway
  <1>2. CASE PeerCloses
    BY <1>2 DEF PeerCloses, StreamsInv, StreamTypes, Underway
  <1>3. CASE Write
    BY <1>3, WriterStep, PieceStep DEF Write
  <1>4. CASE Read
    BY <1>4, ReaderStep DEF Read
  <1> QED BY <1>1, <1>2, <1>3, <1>4
      DEF StreamsNext, send, recv, pipe_write, pipe_read, fifo_write, fifo_read,
          writeAll, readExact, WriteFull, ReadFull

-----------------------------------------------------------------------------
(***************************************************************************)
(* For messages of any length, any number of them, and any capacity: in    *)
(* whatever pieces the system takes and gives the bytes of a socket, a     *)
(* pipe, a fifo, a device or a Modbus line, while no call failed halfway a *)
(* read returns whole messages, in the order they were written.            *)
(***************************************************************************)
THEOREM MessagesComeWhole == FoundationSpec => []WholeMessages
  <1>1. FoundationInit => StreamsInv
    <2>1. FoundationInit => StreamsInit
      BY DEF FoundationInit
    <2> QED BY <2>1, StreamsStart
  <1> DEFINE everything == <<subject, lockVars, contextVars, vars, descriptorVars,
                             streamVars, eventVars, loggingVars, mqttVars, fileVars>>
  <1>2. StreamsInv /\ [FoundationNext]_everything => StreamsInv'
    <2>1. FoundationNext => [StreamsNext]_streamVars
      BY DEF FoundationNext
    <2>2. UNCHANGED everything => UNCHANGED streamVars
      OBVIOUS
    <2> QED BY <2>1, <2>2, StreamsStep
  <1> QED BY <1>1, <1>2, WholeIsEnough, PTL DEF FoundationSpec

-----------------------------------------------------------------------------
(* config_service: what is under way for a client that was always answered *)
(* belongs to the call it waits in; one change at most is under way while  *)
(* no two set calls met; and what a client knows is in the store.          *)
IsCall(r) ==
    /\ r = [n |-> r.n, waiting |-> r.waiting, request |-> r.request, promise |-> r.promise]
    /\ r.n \in Nat /\ r.waiting \in BOOLEAN

IsHandler(h) ==
    h.client \in Clients
      /\ h = [client |-> h.client, n |-> h.n, changed |-> h.changed, response |-> h.response]
      /\ h.response.kind \in {"get", "set", "text"}

IsQuery(q) ==
    q.client \in Clients /\ q = [client |-> q.client, n |-> q.n, request |-> q.request]

ParameterTypes ==
    /\ starts \in Nat /\ sets \in Nat /\ up \in BOOLEAN /\ overlapped \in BOOLEAN
    /\ call = [c \in Clients |-> call[c]] /\ \A c \in Clients : IsCall(call[c])
    /\ disturbed \subseteq Clients
    /\ \A q \in queries : IsQuery(q)
    /\ \A h \in handlers : IsHandler(h)
    /\ known = [c \in Clients |-> known[c]]
    /\ ~up => handlers = {}

Expects(c, n) == call[c].n = n /\ call[c].waiting /\ call[c].promise = Empty

Orderly ==
    /\ \A q \in queries : q.client \notin disturbed =>
          Expects(q.client, q.n) /\ q.request = call[q.client].request
    /\ \A h \in handlers : h.client \notin disturbed =>
          Expects(h.client, h.n) /\ (h.changed # Nothing => call[h.client].request.op = "set")
    /\ \A h, k \in handlers : h.client \notin disturbed /\ k.client = h.client => h = k
    /\ \A q \in queries, h \in handlers : q.client \notin disturbed => h.client # q.client

OneChange ==
    ~overlapped =>
      /\ ~Contended(call, disturbed)
      /\ \A p, q \in queries : p.request.op = "set" /\ q.request.op = "set" => p = q
      /\ \A h, k \in handlers : h.changed # Nothing /\ k.changed # Nothing => h = k
      /\ \A q \in queries, h \in handlers : q.request.op = "set" => h.changed = Nothing

Announced ==
    up /\ ~overlapped =>
      /\ (\A h \in handlers : h.changed = Nothing) => announced = Values(DOMAIN parameters_)
      /\ \A h \in handlers : h.changed # Nothing =>
            Updated(announced, h.changed) = Values(DOMAIN parameters_)

Stored(values) ==
    \A n \in DOMAIN values :
       /\ values[n] \in Nat
       /\ n \in DOMAIN parameters_ /\ values[n] <= parameters_[n].value

StoreIsNumbered ==
    \A n \in DOMAIN parameters_ :
       parameters_[n].value \in Nat /\ parameters_[n].value <= sets

(* A set that was answered with ok since the start is in the store, or     *)
(* something later is.                                                     *)
Promises(r) ==
    r.kind = "set" /\ r.ok =>
       r.since \in Nat /\ r.since <= starts /\ (r.since = starts => Stored(r.values))

Recent(c, r) ==
    r.kind = "get" => \A n \in DOMAIN known[c] \cap DOMAIN r.values :
                         r.values[n] >= known[c][n]

KnownIsStored ==
    /\ \A c \in Clients : Stored(known[c]) /\ Promises(call[c].promise)
    /\ \A h \in handlers : Promises(h.response)
    /\ \A c \in Clients \ disturbed : Recent(c, call[c].promise)
    /\ \A h \in handlers : h.client \notin disturbed => Recent(h.client, h.response)

ParametersInv ==
    /\ ParameterTypes /\ Orderly /\ OneChange
    /\ Announced /\ StoreIsNumbered /\ KnownIsStored

LEMMA UpdatedMeans ==
  ASSUME NEW f, NEW g
  PROVE  /\ DOMAIN Updated(f, g) = DOMAIN f \cup DOMAIN g
         /\ \A x \in DOMAIN g : Updated(f, g)[x] = g[x]
         /\ \A x \in DOMAIN f : x \notin DOMAIN g => Updated(f, g)[x] = f[x]
  BY DEF Updated

LEMMA ParametersStart == ParametersInit => ParametersInv
  <1> SUFFICES ASSUME ParametersInit PROVE ParametersInv
    OBVIOUS
  <1> USE DEF ParametersInit, CallsInit, ServiceInit
  <1>1. ParameterTypes
    BY DEF ParameterTypes, IsCall, Over
  <1>2. Orderly /\ Announced
    BY DEF Orderly, Announced
  <1>3. OneChange
    BY DEF OneChange, Contended, Setting, Over
  <1>4. StoreIsNumbered
    BY DefaultsAssumption DEF StoreIsNumbered
  <1>5. KnownIsStored
    <2>1. \A c \in Clients : call[c].promise.kind = "empty" /\ known[c] = <<>>
      BY DEF Over, Empty, Nothing
    <2>2. DOMAIN <<>> = {}
      OBVIOUS
    <2> QED BY <2>1, <2>2 DEF KnownIsStored, Stored, Promises, Recent
  <1> QED BY <1>1, <1>2, <1>3, <1>4, <1>5 DEF ParametersInv

(* The values only grow while the process runs.                            *)
LEMMA StoredStays ==
  ASSUME NEW values, Stored(values), StoreIsNumbered,
         \A n \in DOMAIN parameters_ :
            n \in DOMAIN parameters_' /\ parameters_'[n].value \in Nat
              /\ parameters_'[n].value >= parameters_[n].value
  PROVE  \A n \in DOMAIN values :
            values[n] \in Nat /\ n \in DOMAIN parameters_' /\ values[n] <= parameters_'[n].value
  BY DEF Stored, StoreIsNumbered

LEMMA UpdatedIsStored ==
  ASSUME NEW f, NEW g, Stored(f), Stored(g)
  PROVE  Stored(Updated(f, g))
  <1> DEFINE u == Updated(f, g)
  <1>1. \A n \in DOMAIN u : u[n] = (IF n \in DOMAIN g THEN g[n] ELSE f[n])
                             /\ (n \in DOMAIN g \/ n \in DOMAIN f)
    BY DEF Updated
  <1> HIDE DEF u
  <1>2. Stored(u)
    BY <1>1 DEF Stored
  <1> QED BY <1>2 DEF u

(* A step of a client changes its own call only.                           *)
LEMMA CallAfter ==
  ASSUME ParameterTypes, NEW c \in Clients, NEW r, IsCall(r), call' = [call EXCEPT ![c] = r]
  PROVE  /\ call'[c] = r
         /\ \A d \in Clients : d # c => call'[d] = call[d]
         /\ call' = [d \in Clients |-> call'[d]] /\ \A d \in Clients : IsCall(call'[d])
  BY DEF ParameterTypes

LEMMA KnownStays ==
  ASSUME ParameterTypes, ClientStep, \A c \in Clients : ~Returns(c, "set")
  PROVE  known' = known
  <1>1. known' = [c \in Clients |-> known[c]]
    BY DEF ClientStep
  <1> QED BY <1>1 DEF ParameterTypes

LEMMA ClientTypes ==
  ASSUME ParametersInv, ClientStep,
         call' = [d \in Clients |-> call'[d]], \A d \in Clients : IsCall(call'[d]),
         disturbed' \subseteq Clients, \A q \in queries' : IsQuery(q)
  PROVE  ParameterTypes'
  <1>1. ParameterTypes
    BY DEF ParametersInv
  <1>2. overlapped' \in BOOLEAN
    BY DEF ClientStep
  <1>3. known' = [c \in Clients |-> known'[c]]
    <2>1. known' = [c \in Clients |->
             IF Returns(c, "set") /\ call[c].promise.ok /\ call[c].promise.since = starts
             THEN Updated(known[c], call[c].promise.values) ELSE known[c]]
      BY DEF ClientStep
    <2> QED BY <2>1
  <1>4. UNCHANGED <<starts, up, parameters_, sets, handlers, announced>>
    BY DEF ClientStep
  <1> QED BY <1>1, <1>2, <1>3, <1>4 DEF ParameterTypes, IsHandler, IsQuery

LEMMA ClientKeepsStore ==
  ASSUME ParametersInv, ClientStep
  PROVE  Announced' /\ StoreIsNumbered'
  <1>1. UNCHANGED <<starts, up, parameters_, sets, handlers, announced>> /\ (overlapped => overlapped')
    BY DEF ClientStep
  <1> QED BY <1>1 DEF ParametersInv, Announced, StoreIsNumbered, Values

(* A client that was always answered and does not wait has nothing under   *)
(* way.                                                                    *)
LEMMA NoneUnderWay ==
  ASSUME Orderly, NEW c \in Clients, c \notin disturbed,
         ~call[c].waiting \/ call[c].promise # Empty
  PROVE  (\A q \in queries : q.client # c) /\ (\A h \in handlers : h.client # c)
  BY DEF Orderly, Expects

LEMMA BeginKeeps ==
  ASSUME ParametersInv, ClientStep, NEW c \in Clients, NEW r \in Requests, Begin(c, r)
  PROVE  ParametersInv'
  <1> DEFINE n == call[c].n + 1
             asked == [client |-> c, n |-> n, request |-> r]
             begun == [n |-> n, waiting |-> TRUE, request |-> r, promise |-> Empty]
  <1>1. /\ ~call[c].waiting /\ call' = [call EXCEPT ![c] = begun]
        /\ queries' = queries \cup {asked} /\ UNCHANGED disturbed
    BY DEF Begin
  <1>2. ParameterTypes /\ Orderly /\ OneChange /\ KnownIsStored
    BY DEF ParametersInv
  <1>3. UNCHANGED <<starts, up, parameters_, sets, handlers, announced>>
    BY DEF ClientStep
  <1>4. IsCall(begun)
    BY <1>2 DEF IsCall, ParameterTypes
  <1>5. /\ call'[c] = begun
        /\ \A d \in Clients : d # c => call'[d] = call[d]
        /\ call' = [d \in Clients |-> call'[d]] /\ \A d \in Clients : IsCall(call'[d])
    BY <1>1, <1>2, <1>4, CallAfter
  <1>6. asked.client = c /\ asked.n = n /\ asked.request = r /\ IsQuery(asked)
    BY DEF IsQuery
  <1>7. /\ call'[c].n = n /\ call'[c].waiting /\ call'[c].request = r /\ call'[c].promise = Empty
    BY <1>5
  <1> HIDE DEF asked, begun, n
  <1>8. known' = known
    <2>1. \A d \in Clients : ~Returns(d, "set")
      BY <1>1, <1>5, <1>7 DEF Returns
    <2> QED BY <1>2, <2>1, KnownStays
  <1>9. ParameterTypes'
    BY <1>1, <1>2, <1>5, <1>6, ClientTypes DEF ParameterTypes
  <1>10. Orderly'
    <2>1. c \notin disturbed => (\A q \in queries : q.client # c) /\ (\A h \in handlers : h.client # c)
      BY <1>1, <1>2, NoneUnderWay
    <2>2. (\A q \in queries : q.client \in Clients) /\ \A h \in handlers : h.client \in Clients
      BY <1>2 DEF ParameterTypes, IsQuery, IsHandler
    <2>3. \A q \in queries' : q.client \notin disturbed' =>
             Expects(q.client, q.n)' /\ q.request = call'[q.client].request
      BY <1>1, <1>2, <1>5, <1>6, <1>7, <2>1, <2>2 DEF Orderly, Expects
    <2>4. \A h \in handlers' : h.client \notin disturbed' =>
             Expects(h.client, h.n)' /\ (h.changed # Nothing => call'[h.client].request.op = "set")
      BY <1>1, <1>2, <1>3, <1>5, <2>1, <2>2 DEF Orderly, Expects
    <2>5. \A h, k \in handlers' : h.client \notin disturbed' /\ k.client = h.client => h = k
      BY <1>1, <1>2, <1>3 DEF Orderly
    <2>6. \A q \in queries', h \in handlers' : q.client \notin disturbed' => h.client # q.client
      BY <1>1, <1>2, <1>3, <1>6, <2>1 DEF Orderly
    <2> QED BY <2>3, <2>4, <2>5, <2>6 DEF Orderly
  <1>11. OneChange'
    <2> SUFFICES ASSUME ~overlapped'
                 PROVE  /\ ~Contended(call', disturbed')
                        /\ \A p, q \in queries' : p.request.op = "set" /\ q.request.op = "set" => p = q
                        /\ \A h, k \in handlers' : h.changed # Nothing /\ k.changed # Nothing => h = k
                        /\ \A q \in queries', h \in handlers' :
                              q.request.op = "set" => h.changed = Nothing
      BY DEF OneChange, Contended, Setting
    <2>1. ~overlapped /\ ~Contended(call', disturbed')
      BY DEF ClientStep
    <2>2. CASE r.op # "set"
      BY <1>1, <1>2, <1>3, <1>6, <2>1, <2>2 DEF OneChange
    <2>3. CASE r.op = "set"
      <3>1. Setting(call', c)
        BY <1>7, <2>3 DEF Setting
      <3>2. disturbed = {} /\ \A d \in Clients : d # c => ~Setting(call, d)
        BY <1>1, <1>2, <1>5, <2>1, <3>1 DEF Contended, Setting, ParameterTypes
      <3>3. ~Setting(call, c)
        BY <1>1 DEF Setting
      <3>4. \A q \in queries : q.request.op # "set"
        BY <1>2, <3>2, <3>3 DEF Orderly, Expects, Setting, ParameterTypes, IsQuery
      <3>5. \A h \in handlers : h.changed = Nothing
        BY <1>2, <3>2, <3>3 DEF Orderly, Expects, Setting, ParameterTypes, IsHandler
      <3> QED BY <1>1, <1>3, <2>1, <3>4, <3>5
    <2> QED BY <2>2, <2>3
  <1>12. KnownIsStored'
    <2>1. call'[c].promise.kind = "empty"
      BY <1>7 DEF Empty
    <2>2. \A d \in Clients : Stored(known[d])' /\ Promises(call[d].promise)'
      BY <1>2, <1>3, <1>5, <1>8, <2>1 DEF KnownIsStored, Stored, Promises
    <2>3. \A h \in handlers' : Promises(h.response)'
      BY <1>2, <1>3 DEF KnownIsStored, Stored, Promises
    <2>4. \A d \in Clients \ disturbed' : Recent(d, call[d].promise)'
      BY <1>1, <1>2, <1>5, <1>8, <2>1 DEF KnownIsStored, Recent
    <2>5. \A h \in handlers' : h.client \notin disturbed' => Recent(h.client, h.response)'
      BY <1>1, <1>2, <1>3, <1>8 DEF KnownIsStored, Recent
    <2> QED BY <2>2, <2>3, <2>4, <2>5 DEF KnownIsStored
  <1> QED BY <1>9, <1>10, <1>11, <1>12, ClientKeepsStore DEF ParametersInv

(* A call that ends, or gets an answer, sets nothing anew.                 *)
LEMMA EndingIsOneChange ==
  ASSUME ParametersInv, ClientStep, UNCHANGED queries
  PROVE  OneChange'
  <1>1. UNCHANGED <<queries, handlers>> /\ (~overlapped' => ~overlapped /\ ~Contended(call', disturbed'))
    BY DEF ClientStep
  <1> QED BY <1>1 DEF ParametersInv, OneChange, Contended, Setting

LEMMA FinishKeeps ==
  ASSUME ParametersInv, ClientStep, NEW c \in Clients, Finish(c)
  PROVE  ParametersInv'
  <1> DEFINE done == Over(call[c].n)
  <1>1. /\ call[c].waiting /\ call[c].promise # Empty /\ call' = [call EXCEPT ![c] = done]
        /\ UNCHANGED <<queries, disturbed>>
    BY DEF Finish
  <1>2. ParameterTypes /\ Orderly /\ OneChange /\ KnownIsStored
    BY DEF ParametersInv
  <1>3. UNCHANGED <<starts, up, parameters_, sets, handlers, announced>>
    BY DEF ClientStep
  <1>4. IsCall(done)
    BY <1>2 DEF IsCall, ParameterTypes, Over
  <1>5. /\ call'[c] = done
        /\ \A d \in Clients : d # c => call'[d] = call[d]
        /\ call' = [d \in Clients |-> call'[d]] /\ \A d \in Clients : IsCall(call'[d])
    BY <1>1, <1>2, <1>4, CallAfter
  <1>6. ~call'[c].waiting /\ call'[c].promise = Empty
    BY <1>5 DEF Over
  <1> HIDE DEF done
  <1>7. c \notin disturbed => (\A q \in queries : q.client # c) /\ (\A h \in handlers : h.client # c)
    BY <1>1, <1>2, NoneUnderWay
  <1>8. ParameterTypes'
    BY <1>1, <1>2, <1>5, ClientTypes DEF ParameterTypes, IsQuery
  <1>9. (\A q \in queries : q.client \in Clients) /\ \A h \in handlers : h.client \in Clients
    BY <1>2 DEF ParameterTypes, IsQuery, IsHandler
  <1>10. Orderly'
    BY <1>1, <1>2, <1>3, <1>5, <1>7, <1>9 DEF Orderly, Expects
  <1>11. \A d \in Clients : d # c => known'[d] = known[d]
    <2>1. \A d \in Clients : d # c => ~Returns(d, "set")
      BY <1>5 DEF Returns
    <2>2. known' = [d \in Clients |->
             IF Returns(d, "set") /\ call[d].promise.ok /\ call[d].promise.since = starts
             THEN Updated(known[d], call[d].promise.values) ELSE known[d]]
      BY DEF ClientStep
    <2> QED BY <2>1, <2>2
  <1>12. Stored(known'[c])
    <2>1. known'[c] = IF Returns(c, "set") /\ call[c].promise.ok /\ call[c].promise.since = starts
                      THEN Updated(known[c], call[c].promise.values) ELSE known[c]
      BY DEF ClientStep
    <2>2. Stored(known[c]) /\ Promises(call[c].promise)
      BY <1>2 DEF KnownIsStored
    <2>3. CASE Returns(c, "set") /\ call[c].promise.ok /\ call[c].promise.since = starts
      <3>1. Stored(call[c].promise.values)
        BY <2>2, <2>3 DEF Promises, Returns
      <3>2. Stored(Updated(known[c], call[c].promise.values))
        BY <2>2, <3>1, UpdatedIsStored
      <3> QED BY <2>1, <2>3, <3>2
    <2>4. CASE ~(Returns(c, "set") /\ call[c].promise.ok /\ call[c].promise.since = starts)
      BY <2>1, <2>2, <2>4
    <2> QED BY <2>3, <2>4
  <1>13. KnownIsStored'
    <2>1. call'[c].promise.kind = "empty"
      BY <1>6 DEF Empty
    <2>2. \A d \in Clients : Stored(known[d])' /\ Promises(call[d].promise)'
      BY <1>2, <1>3, <1>5, <1>11, <1>12, <2>1 DEF KnownIsStored, Stored, Promises
    <2>3. \A h \in handlers' : Promises(h.response)'
      BY <1>2, <1>3 DEF KnownIsStored, Stored, Promises
    <2>4. \A d \in Clients \ disturbed' : Recent(d, call[d].promise)'
      BY <1>1, <1>2, <1>5, <1>11, <2>1 DEF KnownIsStored, Recent
    <2>5. \A h \in handlers' : h.client \notin disturbed' => Recent(h.client, h.response)'
      BY <1>1, <1>2, <1>3, <1>7, <1>9, <1>11 DEF KnownIsStored, Recent
    <2> QED BY <2>2, <2>3, <2>4, <2>5 DEF KnownIsStored
  <1> QED BY <1>1, <1>8, <1>10, <1>13, EndingIsOneChange, ClientKeepsStore DEF ParametersInv

(* A call that goes without an answer: what was true of the others still   *)
(* is.                                                                     *)
LEMMA DisturbingKeeps ==
  ASSUME ParametersInv, ClientStep, NEW c \in Clients, UNCHANGED queries,
         disturbed' = disturbed \cup {c},
         NEW r, IsCall(r), call' = [call EXCEPT ![c] = r],
         r.promise.kind \in {"empty", "error"} \/ r.promise = call[c].promise,
         ~Returns(c, "set")
  PROVE  ParametersInv'
  <1>2. ParameterTypes /\ Orderly /\ OneChange /\ KnownIsStored
    BY DEF ParametersInv
  <1>3. UNCHANGED <<starts, up, parameters_, sets, handlers, announced>>
    BY DEF ClientStep
  <1>5. /\ call'[c] = r
        /\ \A d \in Clients : d # c => call'[d] = call[d]
        /\ call' = [d \in Clients |-> call'[d]] /\ \A d \in Clients : IsCall(call'[d])
    BY <1>2, CallAfter
  <1>6. known' = known
    <2>1. \A d \in Clients : ~Returns(d, "set")
      BY <1>5 DEF Returns
    <2> QED BY <1>2, <2>1, KnownStays
  <1>8. ParameterTypes'
    BY <1>2, <1>5, ClientTypes DEF ParameterTypes, IsQuery
  <1>9. (\A q \in queries : q.client \in Clients) /\ \A h \in handlers : h.client \in Clients
    BY <1>2 DEF ParameterTypes, IsQuery, IsHandler
  <1>10. Orderly'
    BY <1>2, <1>3, <1>5, <1>9 DEF Orderly, Expects
  <1>13. KnownIsStored'
    <2>2. \A d \in Clients : Stored(known[d])' /\ Promises(call[d].promise)'
      BY <1>2, <1>3, <1>5, <1>6 DEF KnownIsStored, Stored, Promises
    <2>3. \A h \in handlers' : Promises(h.response)'
      BY <1>2, <1>3 DEF KnownIsStored, Stored, Promises
    <2>4. \A d \in Clients \ disturbed' : Recent(d, call[d].promise)'
      BY <1>2, <1>5, <1>6 DEF KnownIsStored, Recent
    <2>5. \A h \in handlers' : h.client \notin disturbed' => Recent(h.client, h.response)'
      BY <1>2, <1>3, <1>6 DEF KnownIsStored, Recent
    <2> QED BY <2>2, <2>3, <2>4, <2>5 DEF KnownIsStored
  <1> QED BY <1>8, <1>10, <1>13, EndingIsOneChange, ClientKeepsStore DEF ParametersInv

LEMMA GiveUpKeeps ==
  ASSUME ParametersInv, ClientStep, NEW c \in Clients, GiveUp(c)
  PROVE  ParametersInv'
  <1>1. /\ call[c].promise = Empty /\ call' = [call EXCEPT ![c] = Over(call[c].n)]
        /\ disturbed' = disturbed \cup {c} /\ UNCHANGED queries
    BY DEF GiveUp
  <1>2. IsCall(Over(call[c].n)) /\ Over(call[c].n).promise.kind = "empty"
    BY DEF ParametersInv, ParameterTypes, IsCall, Over, Empty
  <1>3. ~Returns(c, "set")
    BY <1>1 DEF Returns, Empty
  <1> QED BY <1>1, <1>2, <1>3, DisturbingKeeps

LEMMA ExpireKeeps ==
  ASSUME ParametersInv, ClientStep, NEW c \in Clients, NEW n \in 1..MaxCalls, Expire(c, n)
  PROVE  ParametersInv'
  <1>1. disturbed' = disturbed \cup {c} /\ UNCHANGED queries
    BY DEF Expire, OnReply
  <1>2. PICK r : /\ IsCall(r) /\ call' = [call EXCEPT ![c] = r] /\ r.waiting = call[c].waiting
                 /\ r.promise.kind \in {"empty", "error"} \/ r.promise = call[c].promise
    <2>1. IsCall(call[c]) /\ call = [d \in Clients |-> call[d]]
      BY DEF ParametersInv, ParameterTypes
    <2>2. CASE call' = [call EXCEPT ![c].promise = Failed]
      <3> DEFINE r == [n |-> call[c].n, waiting |-> call[c].waiting,
                       request |-> call[c].request, promise |-> Failed]
      <3>1. IsCall(r) /\ r.waiting = call[c].waiting /\ r.promise.kind = "error"
        BY <2>1 DEF IsCall, Failed
      <3>2. call' = [call EXCEPT ![c] = r]
        <4>1. [call[c] EXCEPT !.promise = Failed] = r
          BY <2>1 DEF IsCall
        <4> QED BY <2>2, <4>1
      <3> QED BY <3>1, <3>2
    <2>3. CASE call' = call
      <3>1. call' = [call EXCEPT ![c] = call[c]]
        BY <2>1, <2>3
      <3> QED BY <2>1, <3>1
    <2> QED BY <2>2, <2>3 DEF Expire, OnReply
  <1>3. ~Returns(c, "set")
    <2>1. call'[c] = r
      BY <1>2, CallAfter DEF ParametersInv
    <2> QED BY <1>2, <2>1 DEF Returns
  <1> QED BY <1>1, <1>2, <1>3, DisturbingKeeps

-----------------------------------------------------------------------------
LEMMA StartKeeps == ParametersInv /\ Start => ParametersInv'
  <1> SUFFICES ASSUME ParametersInv, Start PROVE ParametersInv'
    OBVIOUS
  <1>1. /\ ~up /\ starts' = starts + 1 /\ up' = TRUE /\ parameters_' = Defaults
        /\ announced' = DefaultValues /\ known' = [c \in Clients |-> Nothing]
        /\ UNCHANGED <<call, queries, open, disturbed, sets, handlers, overlapped>>
    BY DEF Start, callVars
  <1>2. ParameterTypes /\ Orderly /\ OneChange /\ StoreIsNumbered /\ KnownIsStored /\ handlers = {}
    BY <1>1 DEF ParametersInv, ParameterTypes
  <1>3. ParameterTypes'
    BY <1>1, <1>2 DEF ParameterTypes, IsHandler, IsQuery
  <1>4. Orderly'
    BY <1>1, <1>2 DEF Orderly, Expects
  <1>5. OneChange'
    BY <1>1, <1>2 DEF OneChange, Contended, Setting
  <1>6. Announced'
    BY <1>1, <1>2 DEF Announced, Values, DefaultValues
  <1>7. StoreIsNumbered'
    BY <1>1, <1>2, DefaultsAssumption DEF StoreIsNumbered, ParameterTypes
  <1>8. KnownIsStored'
    <2>1. \A c \in Clients : known'[c] = <<>> /\ DOMAIN <<>> = {}
      BY <1>1 DEF Nothing
    <2>2. \A c \in Clients : Stored(known[c])'
      BY <2>1 DEF Stored
    <2>3. \A c \in Clients : Promises(call[c].promise)'
      <3>1. starts \in Nat
        BY <1>2 DEF ParameterTypes
      <3> QED BY <1>1, <1>2, <3>1 DEF KnownIsStored, Promises
    <2>4. \A c \in Clients \ disturbed' : Recent(c, call[c].promise)'
      BY <2>1 DEF Recent
    <2> QED BY <1>1, <1>2, <2>2, <2>3, <2>4 DEF KnownIsStored
  <1> QED BY <1>3, <1>4, <1>5, <1>6, <1>7, <1>8 DEF ParametersInv

LEMMA KillKeeps == ParametersInv /\ Kill => ParametersInv'
  <1> SUFFICES ASSUME ParametersInv, Kill PROVE ParametersInv'
    OBVIOUS
  <1>1. /\ up' = FALSE /\ handlers' = {}
        /\ UNCHANGED <<call, queries, open, disturbed, starts, parameters_, sets, announced,
                       overlapped, known>>
    BY DEF Kill, callVars
  <1> USE DEF ParametersInv
  <1>2. ParameterTypes'
    BY <1>1 DEF ParameterTypes, IsQuery
  <1>3. Orderly'
    BY <1>1 DEF Orderly, Expects
  <1>4. OneChange'
    BY <1>1 DEF OneChange, Contended, Setting
  <1>5. Announced' /\ StoreIsNumbered'
    BY <1>1 DEF Announced, StoreIsNumbered
  <1>6. KnownIsStored'
    BY <1>1 DEF KnownIsStored, Stored, Promises, Recent
  <1> QED BY <1>2, <1>3, <1>4, <1>5, <1>6

LEMMA RefusedKeeps ==
  ASSUME ParametersInv, NEW q \in queries, Refused(q)
  PROVE  ParametersInv'
  <1>1. /\ queries' \subseteq queries
        /\ UNCHANGED <<call, disturbed, starts, up, parameters_, sets, handlers, announced,
                       overlapped, known>>
    BY DEF Refused, Unanswered, serviceVars
  <1> USE DEF ParametersInv
  <1>2. ParameterTypes'
    BY <1>1 DEF ParameterTypes, IsQuery, IsHandler
  <1>3. Orderly'
    BY <1>1 DEF Orderly, Expects
  <1>4. OneChange'
    BY <1>1 DEF OneChange, Contended, Setting
  <1>5. Announced' /\ StoreIsNumbered'
    BY <1>1 DEF Announced, StoreIsNumbered, Values
  <1>6. KnownIsStored'
    BY <1>1 DEF KnownIsStored, Stored, Promises, Recent
  <1> QED BY <1>2, <1>3, <1>4, <1>5, <1>6

(* A query leaves for a callback of its own: who asks it asks nothing else.*)
LEMMA CallbackKeeps ==
  ASSUME ParametersInv, NEW q \in queries, Taken(q), NEW changed, NEW response,
         handlers' = handlers \cup {Handler(q, changed, response)},
         response.kind \in {"get", "set", "text"}, sets' \in Nat,
         changed # Nothing => q.request.op = "set"
  PROVE  ParameterTypes' /\ Orderly' /\ OneChange'
  <1> DEFINE h == Handler(q, changed, response)
  <1>1. /\ up /\ queries' = queries \ {q}
        /\ UNCHANGED <<call, open, disturbed, starts, up, announced, overlapped, known>>
    BY DEF Taken
  <1>2. ParameterTypes /\ Orderly /\ OneChange
    BY DEF ParametersInv
  <1>3. h.client = q.client /\ h.n = q.n /\ h.changed = changed /\ h.response = response
    BY DEF Handler
  <1>4. IsHandler(h)
    BY <1>2, <1>3 DEF IsHandler, Handler, ParameterTypes, IsQuery
  <1> HIDE DEF h
  <1>5. handlers' = handlers \cup {h}
    BY DEF h
  <1>6. ParameterTypes'
    BY <1>1, <1>2, <1>4, <1>5 DEF ParameterTypes, IsHandler, IsQuery
  <1>7. q.client \notin disturbed =>
           /\ \A k \in handlers : k.client # q.client
           /\ \A p \in queries' : p.client # q.client
    <2> HAVE q.client \notin disturbed
    <2>1. \A k \in handlers : k.client # q.client
      BY <1>2 DEF Orderly
    <2>2. ASSUME NEW p \in queries, p.client = q.client PROVE p = q
      <3>1. p.n = q.n /\ p.request = q.request
        BY <1>2, <2>2 DEF Orderly, Expects
      <3> QED BY <1>2, <2>2, <3>1 DEF ParameterTypes, IsQuery
    <2> QED BY <1>1, <2>1, <2>2
  <1>8. Orderly'
    <2>1. \A p \in queries' : p.client \notin disturbed' =>
             Expects(p.client, p.n)' /\ p.request = call'[p.client].request
      BY <1>1, <1>2 DEF Orderly, Expects
    <2>2. \A k \in handlers' : k.client \notin disturbed' =>
             Expects(k.client, k.n)' /\ (k.changed # Nothing => call'[k.client].request.op = "set")
      BY <1>1, <1>2, <1>3, <1>5 DEF Orderly, Expects
    <2>3. \A j, k \in handlers' : j.client \notin disturbed' /\ k.client = j.client => j = k
      BY <1>1, <1>2, <1>3, <1>5, <1>7 DEF Orderly
    <2>4. \A p \in queries', k \in handlers' : p.client \notin disturbed' => k.client # p.client
      BY <1>1, <1>2, <1>3, <1>5, <1>7 DEF Orderly
    <2> QED BY <2>1, <2>2, <2>3, <2>4 DEF Orderly
  <1>9. OneChange'
    <2> SUFFICES ASSUME ~overlapped'
                 PROVE  /\ ~Contended(call', disturbed')
                        /\ \A p, r \in queries' : p.request.op = "set" /\ r.request.op = "set" => p = r
                        /\ \A j, k \in handlers' : j.changed # Nothing /\ k.changed # Nothing => j = k
                        /\ \A p \in queries', k \in handlers' :
                              p.request.op = "set" => k.changed = Nothing
      BY DEF OneChange, Contended, Setting
    <2>1. ~Contended(call', disturbed')
      BY <1>1, <1>2 DEF OneChange, Contended, Setting
    <2>2. \A p, r \in queries' : p.request.op = "set" /\ r.request.op = "set" => p = r
      BY <1>1, <1>2 DEF OneChange
    <2>3. \A j, k \in handlers' : j.changed # Nothing /\ k.changed # Nothing => j = k
      BY <1>1, <1>2, <1>3, <1>5 DEF OneChange
    <2>4. \A p \in queries', k \in handlers' : p.request.op = "set" => k.changed = Nothing
      BY <1>1, <1>2, <1>3, <1>5 DEF OneChange
    <2> QED BY <2>1, <2>2, <2>3, <2>4
  <1> QED BY <1>6, <1>8, <1>9

(* A callback that changes nothing.                                        *)
LEMMA AnswerKeeps ==
  ASSUME ParametersInv, NEW q \in queries, Taken(q), NEW response,
         handlers' = handlers \cup {Handler(q, Nothing, response)},
         response.kind \in {"get", "set", "text"}, UNCHANGED <<parameters_, sets>>,
         Promises(response), Recent(q.client, response)
  PROVE  ParametersInv'
  <1> DEFINE h == Handler(q, Nothing, response)
  <1>1. /\ up /\ UNCHANGED <<call, open, disturbed, starts, up, announced, overlapped, known>>
    BY DEF Taken
  <1>2. h.client = q.client /\ h.changed = Nothing /\ h.response = response
    BY DEF Handler
  <1>3. ParameterTypes' /\ Orderly' /\ OneChange'
    <2>1. sets' \in Nat
      BY DEF ParametersInv, ParameterTypes
    <2> QED BY <2>1, CallbackKeeps
  <1> HIDE DEF h
  <1>4. handlers' = handlers \cup {h}
    BY DEF h
  <1>5. Announced'
    BY <1>1, <1>2, <1>4 DEF ParametersInv, Announced, Values
  <1>6. StoreIsNumbered'
    BY DEF ParametersInv, StoreIsNumbered
  <1>7. KnownIsStored'
    BY <1>1, <1>2, <1>4 DEF ParametersInv, KnownIsStored, Stored, Promises, Recent
  <1> QED BY <1>3, <1>5, <1>6, <1>7 DEF ParametersInv

LEMMA GetKeeps ==
  ASSUME ParametersInv, NEW q \in queries, HandleGet(q) \/ HandleUnreadable(q)
  PROVE  ParametersInv'
  <1>1. CASE HandleGet(q)
    <2> DEFINE response == [kind |-> "get", values |-> Get(q.request.names)]
    <2>1. /\ Taken(q) /\ handlers' = handlers \cup {Handler(q, Nothing, response)}
          /\ UNCHANGED <<parameters_, sets>>
      BY <1>1 DEF HandleGet
    <2>2. response.kind = "get" /\ Promises(response)
      BY DEF Promises
    <2>3. Recent(q.client, response)
      <3>1. \A n \in DOMAIN response.values :
               n \in DOMAIN parameters_ /\ response.values[n] = parameters_[n].value
        BY DEF Get, Values
      <3>2. Stored(known[q.client])
        BY DEF ParametersInv, KnownIsStored, ParameterTypes, IsQuery
      <3>3. StoreIsNumbered
        BY DEF ParametersInv
      <3> HIDE DEF response
      <3> QED BY <3>1, <3>2, <3>3 DEF Recent, Stored, StoreIsNumbered
    <2> HIDE DEF response
    <2> QED BY <2>1, <2>2, <2>3, AnswerKeeps
  <1>2. CASE HandleUnreadable(q)
    <2> DEFINE response == [kind |-> "text"]
    <2>1. /\ Taken(q) /\ handlers' = handlers \cup {Handler(q, Nothing, response)}
          /\ UNCHANGED <<parameters_, sets>>
      BY <1>2 DEF HandleUnreadable
    <2>2. response.kind = "text"
      OBVIOUS
    <2> HIDE DEF response
    <2>3. Promises(response) /\ Recent(q.client, response)
      BY <2>2 DEF Promises, Recent
    <2> QED BY <2>1, <2>2, <2>3, AnswerKeeps
  <1> QED BY <1>1, <1>2

(* A set that is accepted: its number is above all that is in the store.   *)
LEMMA AcceptedKeeps ==
  ASSUME ParametersInv, NEW q \in queries, Taken(q), q.request.op = "set",
         sets' = sets + 1, NEW names, NEW fixed, parameters_' = Put(names, fixed, sets'),
         NEW changed, changed = [n \in names |-> sets + 1],
         NEW response, response = [kind |-> "set", ok |-> TRUE, values |-> changed, since |-> starts],
         handlers' = handlers \cup {Handler(q, changed, response)}
  PROVE  ParametersInv'
  <1> DEFINE h == Handler(q, changed, response)
  <1>1. /\ up /\ UNCHANGED <<call, open, disturbed, starts, up, announced, overlapped, known>>
    BY DEF Taken
  <1>2. h.client = q.client /\ h.changed = changed /\ h.response = response
    BY DEF Handler
  <1>3. sets \in Nat /\ starts \in Nat /\ sets' \in Nat
    BY DEF ParametersInv, ParameterTypes
  <1>4. ParameterTypes' /\ Orderly' /\ OneChange'
    <2>1. response.kind = "set"
      OBVIOUS
    <2> QED BY <1>3, <2>1, CallbackKeeps
  <1>5. /\ response.kind = "set" /\ response.ok = TRUE /\ response.values = changed
        /\ response.since = starts
    OBVIOUS
  <1> HIDE DEF h
  <1>6. handlers' = handlers \cup {h}
    BY DEF h
  <1>7. /\ DOMAIN parameters_' = DOMAIN parameters_ \cup names
        /\ \A n \in DOMAIN parameters_' :
              parameters_'[n].value = IF n \in names THEN sets + 1 ELSE parameters_[n].value
    BY DEF Put, Updated
  <1>8. DOMAIN changed = names /\ \A n \in names : changed[n] = sets + 1
    OBVIOUS
  <1>9. StoreIsNumbered'
    <2>1. StoreIsNumbered
      BY DEF ParametersInv
    <2> QED BY <1>3, <1>7, <2>1 DEF StoreIsNumbered
  <1>10. ASSUME NEW values, Stored(values) PROVE Stored(values)'
    <2>1. StoreIsNumbered
      BY DEF ParametersInv
    <2> QED BY <1>3, <1>7, <1>10, <2>1 DEF Stored, StoreIsNumbered
  <1>11. Stored(changed)'
    BY <1>3, <1>7, <1>8 DEF Stored
  <1>12. Announced'
    <2> SUFFICES ASSUME up', ~overlapped'
                 PROVE  /\ (\A k \in handlers' : k.changed = Nothing) => announced' = Values(DOMAIN parameters_)'
                        /\ \A k \in handlers' : k.changed # Nothing =>
                              Updated(announced', k.changed) = Values(DOMAIN parameters_)'
      BY DEF Announced
    <2>1. \A k \in handlers : k.changed = Nothing
      BY <1>1 DEF ParametersInv, OneChange
    <2>2. announced = Values(DOMAIN parameters_)
      BY <1>1, <2>1 DEF ParametersInv, Announced
    <2>3. Updated(announced, changed) = Values(DOMAIN parameters_)'
      <3>1. /\ DOMAIN announced = DOMAIN parameters_
            /\ \A n \in DOMAIN parameters_ : announced[n] = parameters_[n].value
        BY <2>2 DEF Values
      <3>2. Updated(announced, changed) =
               [n \in DOMAIN parameters_ \cup names |->
                  IF n \in names THEN sets + 1 ELSE parameters_[n].value]
        BY <1>8, <3>1 DEF Updated
      <3>3. Values(DOMAIN parameters_)' =
               [n \in DOMAIN parameters_ \cup names |->
                  IF n \in names THEN sets + 1 ELSE parameters_[n].value]
        BY <1>7 DEF Values
      <3> QED BY <3>2, <3>3
    <2>4. ASSUME changed = Nothing PROVE announced = Values(DOMAIN parameters_)'
      <3>1. DOMAIN changed = {} /\ names = {}
        BY <1>8, <2>4 DEF Nothing
      <3>2. Values(DOMAIN parameters_)' = Values(DOMAIN parameters_)
        BY <1>7, <3>1 DEF Values
      <3> QED BY <2>2, <3>2
    <2> QED BY <1>1, <1>2, <1>6, <2>1, <2>3, <2>4
  <1>13. KnownIsStored'
    <2>1. KnownIsStored
      BY DEF ParametersInv
    <2>2. Promises(response)'
      BY <1>1, <1>3, <1>5, <1>11 DEF Promises
    <2>3. \A r : Promises(r) => Promises(r)'
      BY <1>1, <1>10 DEF Promises
    <2>4. \A c \in Clients : Stored(known[c])' /\ Promises(call[c].promise)'
      BY <1>1, <1>10, <2>1, <2>3 DEF KnownIsStored
    <2>5. \A k \in handlers' : Promises(k.response)'
      BY <1>2, <1>6, <2>1, <2>2, <2>3 DEF KnownIsStored
    <2>6. \A c \in Clients \ disturbed' : Recent(c, call[c].promise)'
      BY <1>1, <2>1 DEF KnownIsStored, Recent
    <2>7. \A k \in handlers' : k.client \notin disturbed' => Recent(k.client, k.response)'
      BY <1>1, <1>2, <1>5, <1>6, <2>1 DEF KnownIsStored, Recent
    <2> QED BY <2>4, <2>5, <2>6, <2>7 DEF KnownIsStored
  <1> QED BY <1>4, <1>9, <1>12, <1>13 DEF ParametersInv

LEMMA SetKeeps ==
  ASSUME ParametersInv, NEW q \in queries, HandleSet(q)
  PROVE  ParametersInv'
  <1> DEFINE names == q.request.names
             changed == [n \in names |-> sets + 1]
             accepted == [kind |-> "set", ok |-> TRUE, values |-> changed, since |-> starts]
             refused == [kind |-> "set", ok |-> FALSE, values |-> Nothing, since |-> starts]
  <1>1. q.request.op = "set" /\ Taken(q)
    BY DEF HandleSet
  <1>2. CASE Writable(names)
    <2>1. /\ sets' = sets + 1 /\ parameters_' = Put(names, q.request.fixed, sets')
          /\ handlers' = handlers \cup {Handler(q, changed, accepted)}
      BY <1>2 DEF HandleSet
    <2> QED BY <1>1, <2>1, AcceptedKeeps
  <1>3. CASE ~Writable(names)
    <2>1. /\ handlers' = handlers \cup {Handler(q, Nothing, refused)}
          /\ UNCHANGED <<sets, parameters_>>
      BY <1>3 DEF HandleSet
    <2>2. refused.kind = "set" /\ refused.ok = FALSE
      OBVIOUS
    <2> HIDE DEF refused
    <2>3. Promises(refused) /\ Recent(q.client, refused)
      BY <2>2 DEF Promises, Recent
    <2> QED BY <1>1, <2>1, <2>2, <2>3, AnswerKeeps
  <1> QED BY <1>2, <1>3

LEMMA PublishKeeps ==
  ASSUME ParametersInv, NEW h \in handlers, Publish(h)
  PROVE  ParametersInv'
  <1> DEFINE g == [h EXCEPT !.changed = Nothing]
  <1>1. /\ h.changed # Nothing /\ announced' = Updated(announced, h.changed)
        /\ handlers' = (handlers \ {h}) \cup {g}
        /\ UNCHANGED <<call, queries, open, disturbed, starts, up, parameters_, sets, overlapped, known>>
    BY DEF Publish, callVars
  <1>2. ParameterTypes /\ Orderly /\ OneChange /\ KnownIsStored /\ Announced
    BY DEF ParametersInv
  <1>3. /\ g.client = h.client /\ g.n = h.n /\ g.changed = Nothing /\ g.response = h.response
        /\ IsHandler(g)
    BY <1>2 DEF ParameterTypes, IsHandler
  <1> HIDE DEF g
  <1>4. ParameterTypes'
    BY <1>1, <1>2, <1>3 DEF ParameterTypes, IsHandler, IsQuery
  <1>5. Orderly'
    <2>1. \A q \in queries' : q.client \notin disturbed' =>
             Expects(q.client, q.n)' /\ q.request = call'[q.client].request
      BY <1>1, <1>2 DEF Orderly, Expects
    <2>2. \A k \in handlers' : k.client \notin disturbed' =>
             Expects(k.client, k.n)' /\ (k.changed # Nothing => call'[k.client].request.op = "set")
      BY <1>1, <1>2, <1>3 DEF Orderly, Expects
    <2>3. \A j, k \in handlers' : j.client \notin disturbed' /\ k.client = j.client => j = k
      BY <1>1, <1>2, <1>3 DEF Orderly
    <2>4. \A q \in queries', k \in handlers' : q.client \notin disturbed' => k.client # q.client
      BY <1>1, <1>2, <1>3 DEF Orderly
    <2> QED BY <2>1, <2>2, <2>3, <2>4 DEF Orderly
  <1>6. OneChange'
    BY <1>1, <1>2, <1>3 DEF OneChange, Contended, Setting
  <1>7. Announced'
    BY <1>1, <1>2, <1>3 DEF Announced, OneChange, Values
  <1>8. StoreIsNumbered'
    BY <1>1 DEF ParametersInv, StoreIsNumbered
  <1>9. KnownIsStored'
    BY <1>1, <1>2, <1>3 DEF KnownIsStored, Stored, Promises, Recent
  <1> QED BY <1>4, <1>5, <1>6, <1>7, <1>8, <1>9 DEF ParametersInv

LEMMA ReplyKeeps ==
  ASSUME ParametersInv, NEW h \in handlers, Reply(h)
  PROVE  ParametersInv'
  <1> DEFINE c == h.client
             r == [n |-> call[c].n, waiting |-> call[c].waiting,
                   request |-> call[c].request, promise |-> h.response]
  <1>1. /\ h.changed = Nothing /\ handlers' = handlers \ {h}
        /\ UNCHANGED <<queries, starts, up, parameters_, sets, announced, overlapped, known>>
    BY DEF Reply
  <1>2. ParameterTypes /\ Orderly /\ OneChange /\ KnownIsStored /\ Announced
    BY DEF ParametersInv
  <1>3. c \in Clients /\ h.response.kind \in {"get", "set", "text"} /\ IsCall(call[c])
    BY <1>2 DEF ParameterTypes, IsHandler
  <1>4. disturbed' = disturbed
    BY <1>3 DEF Reply, OnReply, Failed
  <1>5. /\ \A d \in Clients : d # c => call'[d] = call[d]
        /\ call'[c] = call[c] \/ call'[c] = r
        /\ call' = [d \in Clients |-> call'[d]] /\ \A d \in Clients : IsCall(call'[d])
    <2>1. IsCall(r)
      BY <1>3 DEF IsCall
    <2>2. CASE call' = [call EXCEPT ![c].promise = h.response]
      <3>1. [call[c] EXCEPT !.promise = h.response] = r
        BY <1>3 DEF IsCall
      <3>2. call' = [call EXCEPT ![c] = r]
        BY <2>2, <3>1
      <3> HIDE DEF r
      <3> QED BY <1>2, <1>3, <2>1, <3>2, CallAfter
    <2>3. CASE call' = call
      BY <1>2, <2>3 DEF ParameterTypes
    <2> QED BY <2>2, <2>3 DEF Reply, OnReply
  <1>6. r.n = call[c].n /\ r.waiting = call[c].waiting /\ r.request = call[c].request /\ r.promise = h.response
    OBVIOUS
  <1> HIDE DEF r
  <1>7. c \notin disturbed =>
           (\A q \in queries : q.client # c) /\ (\A k \in handlers' : k.client # c)
    BY <1>1, <1>2 DEF Orderly
  <1>8. (\A q \in queries : q.client \in Clients) /\ \A k \in handlers : k.client \in Clients
    BY <1>2 DEF ParameterTypes, IsQuery, IsHandler
  <1> HIDE DEF c
  <1>9. ParameterTypes'
    BY <1>1, <1>2, <1>4, <1>5 DEF ParameterTypes, IsHandler, IsQuery
  <1>10. Orderly'
    <2>1. \A q \in queries' : q.client \notin disturbed' =>
             Expects(q.client, q.n)' /\ q.request = call'[q.client].request
      BY <1>1, <1>2, <1>4, <1>5, <1>7, <1>8 DEF Orderly, Expects
    <2>2. \A k \in handlers' : k.client \notin disturbed' =>
             Expects(k.client, k.n)' /\ (k.changed # Nothing => call'[k.client].request.op = "set")
      BY <1>1, <1>2, <1>4, <1>5, <1>7, <1>8 DEF Orderly, Expects
    <2>3. /\ \A j, k \in handlers' : j.client \notin disturbed' /\ k.client = j.client => j = k
          /\ \A q \in queries', k \in handlers' : q.client \notin disturbed' => k.client # q.client
      BY <1>1, <1>2, <1>4 DEF Orderly
    <2> QED BY <2>1, <2>2, <2>3 DEF Orderly
  <1>11. OneChange'
    <2>1. \A d \in Clients : Setting(call', d) <=> Setting(call, d)
      BY <1>5, <1>6 DEF Setting
    <2>2. Contended(call, disturbed)' => Contended(call, disturbed)
      BY <1>4, <2>1 DEF Contended, Setting
    <2> QED BY <1>1, <1>2, <2>2 DEF OneChange
  <1>12. Announced'
    BY <1>1, <1>2 DEF Announced, Values
  <1>13. StoreIsNumbered'
    BY <1>1 DEF ParametersInv, StoreIsNumbered
  <1>14. KnownIsStored'
    <2>1. Promises(h.response) /\ (c \notin disturbed => Recent(c, h.response))
      BY <1>2 DEF KnownIsStored, c
    <2>2. \A d \in Clients : Stored(known[d])' /\ Promises(call[d].promise)'
      BY <1>1, <1>2, <1>5, <1>6, <2>1 DEF KnownIsStored, Stored, Promises
    <2>3. \A k \in handlers' : Promises(k.response)'
      BY <1>1, <1>2 DEF KnownIsStored, Stored, Promises
    <2>4. \A d \in Clients \ disturbed' : Recent(d, call[d].promise)'
      BY <1>1, <1>2, <1>4, <1>5, <1>6, <2>1 DEF KnownIsStored, Recent
    <2>5. \A k \in handlers' : k.client \notin disturbed' => Recent(k.client, k.response)'
      BY <1>1, <1>2, <1>4 DEF KnownIsStored, Recent
    <2> QED BY <2>2, <2>3, <2>4, <2>5 DEF KnownIsStored
  <1> QED BY <1>9, <1>10, <1>11, <1>12, <1>13, <1>14 DEF ParametersInv

LEMMA ParametersStep == ParametersInv /\ [ParametersNext]_vars => ParametersInv'
  <1> SUFFICES ASSUME ParametersInv, [ParametersNext]_vars PROVE ParametersInv'
    OBVIOUS
  <1>1. CASE UNCHANGED vars
    <2>1. UNCHANGED <<call, queries, open, disturbed, starts, up, parameters_, sets, handlers,
                      announced, overlapped, known>>
      BY <1>1 DEF vars, callVars, serviceVars
    <2>2. ParameterTypes' /\ Orderly' /\ OneChange'
      BY <2>1 DEF ParametersInv, ParameterTypes, IsHandler, IsQuery, Orderly, Expects, OneChange,
          Contended, Setting
    <2>3. Announced' /\ StoreIsNumbered' /\ KnownIsStored'
      BY <2>1 DEF ParametersInv, Announced, Values, StoreIsNumbered, KnownIsStored, Stored,
          Promises, Recent
    <2> QED BY <2>2, <2>3 DEF ParametersInv
  <1>2. CASE ClientStep
    <2>1. CallsNext
      BY <1>2 DEF ClientStep
    <2> QED BY <1>2, <2>1, BeginKeeps, FinishKeeps, GiveUpKeeps, ExpireKeeps DEF CallsNext
  <1>3. CASE Start \/ Kill
    BY <1>3, StartKeeps, KillKeeps
  <1>4. ASSUME NEW q \in queries, Refused(q) \/ HandleGet(q) \/ HandleSet(q) \/ HandleUnreadable(q)
        PROVE  ParametersInv'
    BY <1>4, RefusedKeeps, GetKeeps, SetKeeps
  <1>5. ASSUME NEW h \in handlers, Publish(h) \/ Reply(h)
        PROVE  ParametersInv'
    BY <1>5, PublishKeeps, ReplyKeeps
  <1> QED BY <1>1, <1>2, <1>3, <1>4, <1>5 DEF ParametersNext

-----------------------------------------------------------------------------
(***************************************************************************)
(* For any number of clients, calls, parameters and starts of              *)
(* config_service, and whatever calls are given up or answered late: when  *)
(* no two set calls met, the events tell what the store holds; and a       *)
(* client that was always answered sees its own sets in what it gets.      *)
(***************************************************************************)
THEOREM ParametersAreToldTruly == FoundationSpec => ParametersAreTold
  <1>1. FoundationInit => ParametersInv
    <2>1. FoundationInit => ParametersInit
      BY DEF FoundationInit
    <2> QED BY <2>1, ParametersStart
  <1> DEFINE everything == <<subject, lockVars, contextVars, vars, descriptorVars,
                             streamVars, eventVars, loggingVars, mqttVars, fileVars>>
  <1>2. ParametersInv /\ [FoundationNext]_everything => ParametersInv'
    <2>1. FoundationNext => [ParametersNext]_vars
      BY DEF FoundationNext
    <2>2. UNCHANGED everything => UNCHANGED vars
      OBVIOUS
    <2> QED BY <2>1, <2>2, ParametersStep
  <1>3. ParametersInv => EventsTellTheTruth
    BY DEF ParametersInv, Announced, EventsTellTheTruth
  <1>4. ParametersInv /\ [FoundationNext]_everything => [OwnSetsAreSeen]_vars
    <2> SUFFICES ASSUME ParametersInv, NEW c \in Clients \ disturbed, Returns(c, "get")
                 PROVE  \A n \in DOMAIN known[c] \cap DOMAIN call[c].promise.values :
                           call[c].promise.values[n] >= known[c][n]
      BY DEF OwnSetsAreSeen
    <2>1. call[c].promise.kind = "get" /\ Recent(c, call[c].promise)
      BY DEF ParametersInv, KnownIsStored, Returns
    <2> QED BY <2>1 DEF Recent
  <1> QED BY <1>1, <1>2, <1>3, <1>4, PTL
      DEF FoundationSpec, ParametersAreTold, AnsweredSetsAreSeen

-----------------------------------------------------------------------------
(* The files: an endpoint's default topic has its id at a place of its own.*)
FilesInv ==
    /\ given.for = "hardware" => given.file \in HardwareFiles
    /\ TakenFilesAreSound

LEMMA ThreeParts ==
  ASSUME NEW a, NEW b, NEW c
  PROVE  (<<a>> \o <<b>>) \o <<c>> = <<a, b, c>>
  <1> DEFINE S == {a, b, c}
             t == (<<a>> \o <<b>>) \o <<c>>
  <1>1. <<a>> \in Seq(S) /\ <<b>> \in Seq(S) /\ <<c>> \in Seq(S) /\ <<a, b, c>> \in Seq(S)
    OBVIOUS
  <1>2. t \in Seq(S) /\ Len(t) = 3 /\ Len(<<a, b, c>>) = 3
    BY <1>1
  <1>3. t[1] = a /\ t[2] = b /\ t[3] = c
    BY <1>1
  <1> HIDE DEF t
  <1>4. \A k \in 1..Len(t) : t[k] = <<a, b, c>>[k]
    BY <1>2, <1>3
  <1> HIDE DEF S
  <1>5. t = <<a, b, c>>
    BY <1>1, <1>2, <1>4, SameSequence
  <1> QED BY <1>5 DEF t

IsText(v) == Len(v) \in Nat /\ v = [k \in 1..Len(v) |-> v[k]]
Parts(v) == {v[k] : k \in 1..Len(v)}

LEMMA TextIsSequence ==
  ASSUME NEW v, IsText(v), NEW S, Parts(v) \subseteq S
  PROVE  v \in Seq(S)
  BY DEF IsText, Parts

(* A text between two others is told from another one in its place.        *)
LEMMA TextsBetweenDiffer ==
  ASSUME NEW S, NEW a \in Seq(S), NEW b \in Seq(S), NEW x \in Seq(S), NEW y \in Seq(S),
         NEW z \in Seq(S), Len(x) = Len(y), (x \o a) \o z = (y \o b) \o z
  PROVE  a = b
  <1> DEFINE p == (x \o a) \o z
             q == (y \o b) \o z
  <1>1. /\ x \o a \in Seq(S) /\ Len(x \o a) = Len(x) + Len(a)
        /\ \A k \in 1..Len(a) : (x \o a)[Len(x) + k] = a[k]
        /\ Len(x) \in Nat /\ Len(a) \in Nat
    <2>1. x \o a \in Seq(S) /\ Len(x \o a) = Len(x) + Len(a) /\ Len(x) \in Nat /\ Len(a) \in Nat
      BY Joined
    <2>2. \A k \in 1..Len(a) : (x \o a)[Len(x) + k] = a[k]
      BY Joined
    <2> QED BY <2>1, <2>2
  <1>2. /\ y \o b \in Seq(S) /\ Len(y \o b) = Len(y) + Len(b)
        /\ \A k \in 1..Len(b) : (y \o b)[Len(y) + k] = b[k]
        /\ Len(b) \in Nat
    BY Joined
  <1>3. /\ Len(p) = Len(x) + Len(a) + Len(z) /\ Len(z) \in Nat
        /\ \A k \in 1..Len(x \o a) : p[k] = (x \o a)[k]
    BY <1>1, Joined
  <1>4. /\ Len(q) = Len(y) + Len(b) + Len(z)
        /\ \A k \in 1..Len(y \o b) : q[k] = (y \o b)[k]
    BY <1>2, Joined
  <1> HIDE DEF p, q
  <1>5. Len(a) = Len(b)
    <2>1. p = q
      BY DEF p, q
    <2> QED BY <2>1, <1>1, <1>2, <1>3, <1>4
  <1>6. \A k \in 1..Len(a) : a[k] = b[k]
    <2> TAKE k \in 1..Len(a)
    <2>1. p = q
      BY DEF p, q
    <2>2. Len(x) + k \in 1..Len(x \o a) /\ Len(y) + k \in 1..Len(y \o b) /\ k \in 1..Len(b)
      BY <1>1, <1>2, <1>5
    <2>3. p[Len(x) + k] = a[k]
      BY <1>1, <1>3, <2>2
    <2>4. q[Len(y) + k] = b[k]
      BY <1>2, <1>4, <2>2
    <2> QED BY <2>1, <2>3, <2>4
  <1> QED BY <1>5, <1>6, SameSequence

LEMMA DefaultTopicsDiffer ==
  ASSUME NEW type1, NEW type2, NEW id1, NEW id2,
         type1 = <<type1[1]>>, type2 = <<type2[1]>>, IsText(id1), IsText(id2),
         id1 # id2
  PROVE  DefaultTopicFor(type1, id1) # DefaultTopicFor(type2, id2)
  <1> DEFINE S == Parts(id1) \cup Parts(id2)
                     \cup {type1[1], type2[1], "sensors", "hardware", "joints", "state"}
             head(t) == (IF t \in Sensors THEN <<"sensors">> ELSE <<"hardware">>) \o t
             j == <<"joints">>
             z == <<"state">>
  <1>1. /\ id1 \in Seq(S) /\ id2 \in Seq(S)
    BY TextIsSequence
  <1>2. /\ j \in Seq(S) /\ z \in Seq(S) /\ <<"sensors">> \in Seq(S) /\ <<"hardware">> \in Seq(S)
        /\ <<type1[1]>> \in Seq(S) /\ <<type2[1]>> \in Seq(S) /\ <<>> \in Seq(S)
    OBVIOUS
  <1>3. \A t \in {type1, type2} :
           /\ head(t) \in Seq(S) /\ Len(head(t)) = 2 /\ head(t)[1] \in {"sensors", "hardware"}
    <2> HIDE DEF S
    <2> TAKE t \in {type1, type2}
    <2> DEFINE h == IF t \in Sensors THEN <<"sensors">> ELSE <<"hardware">>
    <2>1. /\ h \in Seq(S) /\ Len(h) = 1 /\ h[1] \in {"sensors", "hardware"}
          /\ t \in Seq(S) /\ Len(t) = 1
      <3>1. t = <<type1[1]>> \/ t = <<type2[1]>>
        OBVIOUS
      <3>2. t \in Seq(S) /\ Len(t) = 1
        BY <1>2, <3>1
      <3>3. h \in Seq(S) /\ Len(h) = 1 /\ h[1] \in {"sensors", "hardware"}
        BY <1>2
      <3> QED BY <3>2, <3>3
    <2> HIDE DEF h
    <2>2. h \o t \in Seq(S) /\ Len(h \o t) = Len(h) + Len(t)
      BY <2>1, Joined
    <2>3. \A k \in 1..Len(h) : (h \o t)[k] = h[k]
      BY <2>1, Joined
    <2>4. head(t) = h \o t
      BY DEF h
    <2> HIDE DEF head
    <2> QED BY <2>1, <2>2, <2>3, <2>4
  <1>4. \A t, d : DefaultTopicFor(t, d) = IF t = Joint THEN (j \o d) \o z ELSE head(t) \o d
    BY DEF DefaultTopicFor
  <1> HIDE DEF S, head, j, z
  <1>5. j[1] = "joints" /\ Len(j) = 1
    BY DEF j
  <1>6. CASE type1 = Joint /\ type2 = Joint
    <2>1. (j \o id1) \o z # (j \o id2) \o z
      BY <1>1, <1>2, TextsBetweenDiffer
    <2> QED BY <1>4, <1>6, <2>1
  <1>7. CASE type1 # Joint /\ type2 # Joint
    <2>1. ASSUME head(type1) \o id1 = head(type2) \o id2 PROVE FALSE
      <3>1. /\ (head(type1) \o id1) \o <<>> = (head(type2) \o id2) \o <<>>
            /\ Len(head(type1)) = Len(head(type2))
        BY <1>3, <2>1
      <3>2. head(type1) \in Seq(S) /\ head(type2) \in Seq(S) /\ <<>> \in Seq(S)
        BY <1>2, <1>3
      <3> QED BY <1>1, <3>1, <3>2, TextsBetweenDiffer
    <2> QED BY <1>4, <1>7, <2>1
  <1>8. \A d \in {id1, id2} : ((j \o d) \o z)[1] = "joints"
    <2> TAKE d \in {id1, id2}
    <2>1. d \in Seq(S)
      BY <1>1
    <2>2. j \o d \in Seq(S) /\ Len(j \o d) = Len(j) + Len(d) /\ Len(d) \in Nat
          /\ \A k \in 1..Len(j) : (j \o d)[k] = j[k]
      BY <1>2, <2>1, Joined
    <2>3. \A k \in 1..Len(j \o d) : ((j \o d) \o z)[k] = (j \o d)[k]
      BY <1>2, <2>2, Joined
    <2> QED BY <1>5, <2>2, <2>3
  <1>9. \A t \in {type1, type2}, d \in {id1, id2} : (head(t) \o d)[1] # "joints"
    <2> TAKE t \in {type1, type2}, d \in {id1, id2}
    <2>1. d \in Seq(S) /\ head(t) \in Seq(S)
      BY <1>1, <1>3
    <2>2. \A k \in 1..Len(head(t)) : (head(t) \o d)[k] = head(t)[k]
      BY <2>1, Joined
    <2> QED BY <1>3, <2>2
  <1> QED BY <1>4, <1>6, <1>7, <1>8, <1>9

(* Where a joint controller is heard by default it does not speak.         *)
LEMMA CommandsAreApart ==
  ASSUME NEW d, IsText(d)
  PROVE  (<<"joints">> \o d) \o <<"command">> # (<<"joints">> \o d) \o <<"state">>
  <1> DEFINE S == Parts(d) \cup {"joints", "command", "state"}
             s == <<"joints">> \o d
             p == s \o <<"command">>
             q == s \o <<"state">>
  <1>1. s \in Seq(S) /\ <<"command">> \in Seq(S) /\ <<"state">> \in Seq(S)
    <2>1. d \in Seq(S) /\ <<"joints">> \in Seq(S)
      BY TextIsSequence
    <2> QED BY <2>1
  <1> HIDE DEF S, s
  <1>2. p[Len(s) + 1] = "command" /\ q[Len(s) + 1] = "state"
    <2>1. \A k \in 1..Len(<<"command">>) : p[Len(s) + k] = <<"command">>[k]
      BY <1>1, Joined
    <2>2. \A k \in 1..Len(<<"state">>) : q[Len(s) + k] = <<"state">>[k]
      BY <1>1, Joined
    <2> QED BY <2>1, <2>2
  <1> HIDE DEF p, q
  <1>3. p # q
    BY <1>2
  <1> QED BY <1>3 DEF p, q, s

LEMMA MockFields ==
  ASSUME NEW id, NEW type, NEW topic, NEW command, NEW frame, NEW rate
  PROVE  /\ Mock(id, type, topic, command, frame, rate).endpoint_id = id
         /\ Mock(id, type, topic, command, frame, rate).type = type
  BY DEF Mock

LEMMA HardwareTaken ==
  ASSUME given.file \in HardwareFiles, given.for = "hardware",
         taken' = LoadConfigFromFile(given.file), UNCHANGED given, taken' \notin {Unread, Rejected}
  PROVE  /\ HardwareIsSound'
         /\ NamesTheBuiltIn' => AsBuiltIn'
  <1> DEFINE listed == EndpointNodes(given.file)
             e(i) == Endpoint(listed[i])
  <1>1. /\ listed \notin {Absent, Malformed}
        /\ \A i \in DOMAIN listed : Readable(listed[i]) /\ Usable(e(i))
        /\ DistinctIds(listed)
        /\ taken' = [i \in DOMAIN listed |-> e(i)]
    BY DEF LoadConfigFromFile
  <1>2. \A i \in DOMAIN listed :
           /\ DOMAIN listed[i] = EndpointKeys
           /\ Text(listed[i].id) /\ Text(listed[i].endpoint_id) /\ Word(listed[i].type)
    BY <1>1, FilesAssumption DEF EndpointNodes
  <1>3. EndpointNodes(given.file)' = listed
    BY DEF EndpointNodes
  <1> HIDE DEF listed
  <1>4. \A i \in DOMAIN listed :
           /\ listed[i].type = <<listed[i].type[1]>>
           /\ IsText(EndpointId(listed[i]))
    <2> TAKE i \in DOMAIN listed
    <2>1. /\ "id" \in DOMAIN listed[i] /\ "endpoint_id" \in DOMAIN listed[i] /\ "type" \in DOMAIN listed[i]
      BY <1>2 DEF EndpointKeys
    <2>2. /\ listed[i].id # Malformed /\ listed[i].endpoint_id # Malformed /\ listed[i].type # Malformed
          /\ listed[i].type \notin {Absent, <<>>}
      BY <1>1, <2>1 DEF Readable
    <2>3. EndpointId(listed[i]) # <<>>
      BY <1>1 DEF Usable, Endpoint
    <2>4. listed[i].type = <<listed[i].type[1]>>
      BY <1>2, <2>2 DEF Word
    <2>5. IsText(EndpointId(listed[i]))
      BY <1>2, <2>2, <2>3 DEF Text, IsText, EndpointId, Given
    <2> QED BY <2>4, <2>5
  <1>5. \A i, j \in DOMAIN listed : i # j => EndpointId(listed[i]) # EndpointId(listed[j])
    BY <1>1 DEF DistinctIds, Distinct
  <1>6. \A i \in DOMAIN listed :
           /\ taken'[i] = e(i)
           /\ e(i).endpoint_id = EndpointId(listed[i]) /\ e(i).type = listed[i].type
           /\ <<>> \notin {e(i).endpoint_id, e(i).driver, e(i).said_topic}
           /\ e(i).type = Joint => <<>> \notin {e(i).state_topic, e(i).command_topic}
           /\ e(i).topic = IF e(i).type = Joint THEN e(i).state_topic ELSE e(i).said_topic
    <2> TAKE i \in DOMAIN listed
    <2>1. taken'[i] = e(i) /\ Usable(e(i))
      BY <1>1
    <2>2. e(i).endpoint_id = EndpointId(listed[i]) /\ e(i).type = listed[i].type
      BY DEF Endpoint
    <2>3. e(i).topic = IF e(i).type = Joint THEN e(i).state_topic ELSE e(i).said_topic
      BY DEF Endpoint
    <2> HIDE DEF e
    <2>4. /\ <<>> \notin {e(i).endpoint_id, e(i).driver, e(i).said_topic}
          /\ e(i).type = Joint => <<>> \notin {e(i).state_topic, e(i).command_topic}
      BY <2>1 DEF Usable
    <2> QED BY <2>1, <2>2, <2>3, <2>4
  <1>7. \A i \in DOMAIN listed :
           listed[i].topic = Absent /\ listed[i].state_topic = Absent =>
              e(i).topic = DefaultTopicFor(listed[i].type, EndpointId(listed[i]))
    BY DEF Endpoint, Given
  <1>8. \A i \in DOMAIN listed :
           e(i).type = Joint /\ listed[i].command_topic = Absent =>
              e(i).command_topic = (<<"joints">> \o EndpointId(listed[i])) \o <<"command">>
    BY DEF Endpoint, Given, DefaultCommandTopicFor
  <1>9. HardwareIsSound'
    <2>1. DOMAIN taken' = DOMAIN listed
      BY <1>1
    <2>2. \A i \in DOMAIN listed :
             TopicsOf(i)' = IF listed[i].topic # Absent \/ listed[i].state_topic # Absent
                            THEN {} ELSE {DefaultTopicFor(listed[i].type, EndpointId(listed[i]))}
      <3> TAKE i \in DOMAIN listed
      <3>1. TopicsOf(i)' = IF listed[i].topic # Absent \/ listed[i].state_topic # Absent
                           THEN {} ELSE {taken'[i].topic}
        BY <1>3 DEF TopicsOf
      <3>2. CASE listed[i].topic # Absent \/ listed[i].state_topic # Absent
        BY <3>1, <3>2
      <3>3. CASE listed[i].topic = Absent /\ listed[i].state_topic = Absent
        <4>1. taken'[i].topic = DefaultTopicFor(listed[i].type, EndpointId(listed[i]))
          <5>1. taken'[i] = e(i)
            BY <1>6
          <5> QED BY <1>7, <3>3, <5>1
        <4> QED BY <3>1, <3>3, <4>1
      <3> QED BY <3>2, <3>3
    <2>3. ASSUME NEW i \in DOMAIN listed, NEW j \in DOMAIN listed, i # j
          PROVE  taken'[i].endpoint_id # taken'[j].endpoint_id /\ TopicsOf(i)' \cap TopicsOf(j)' = {}
      <3>1. EndpointId(listed[i]) # EndpointId(listed[j])
        BY <1>5, <2>3
      <3>2. DefaultTopicFor(listed[i].type, EndpointId(listed[i]))
               # DefaultTopicFor(listed[j].type, EndpointId(listed[j]))
        BY <1>4, <3>1, DefaultTopicsDiffer
      <3> QED BY <1>6, <2>2, <3>1, <3>2
    <2>4. ASSUME NEW i \in DOMAIN listed
          PROVE  /\ <<>> \notin {taken'[i].endpoint_id, taken'[i].driver, taken'[i].topic}
                 /\ taken'[i].type = Joint => taken'[i].topic = taken'[i].state_topic
      BY <1>6
    <2>5. ASSUME NEW i \in DOMAIN listed, taken'[i].type = Joint, listed[i].command_topic = Absent
          PROVE  taken'[i].command_topic \notin TopicsOf(i)'
      <3> DEFINE d == EndpointId(listed[i])
      <3>1. taken'[i].command_topic = (<<"joints">> \o d) \o <<"command">> /\ listed[i].type = Joint
        BY <1>6, <1>8, <2>5
      <3>2. IsText(d)
        BY <1>4
      <3> HIDE DEF d
      <3>3. DefaultTopicFor(Joint, d) = (<<"joints">> \o d) \o <<"state">>
        BY DEF DefaultTopicFor
      <3> QED BY <2>2, <3>1, <3>2, <3>3, CommandsAreApart DEF d
    <2> QED BY <1>3, <2>1, <2>3, <2>4, <2>5 DEF HardwareIsSound
  <1>10. NamesTheBuiltIn' => AsBuiltIn'
    <2> SUFFICES ASSUME NamesTheBuiltIn' PROVE AsBuiltIn'
      OBVIOUS
    <2> DEFINE D == DefaultMockConfig
               frames == [i \in DOMAIN D |-> D[i].endpoint_id \o <<"link">>]
               F == MockEndpoints(frames)
    <2>1. DOMAIN listed = DOMAIN D /\ DOMAIN D = 1..4
      BY <1>3 DEF NamesTheBuiltIn, DefaultMockConfig, MockEndpoints
    <2>2. \A i \in 1..4 :
             /\ listed[i].id = D[i].endpoint_id /\ listed[i].type = D[i].type
             /\ listed[i].endpoint_id = Absent /\ listed[i].mode = Absent /\ listed[i].driver = Absent
             /\ listed[i].topic = Absent /\ listed[i].state_topic = Absent
             /\ listed[i].command_topic = Absent /\ listed[i].publish_rate_hz = Absent
             /\ listed[i].frame_id = Absent /\ listed[i].enabled = Absent
             /\ listed[i].critical = Absent /\ listed[i].disabled_on_start = Absent
             /\ listed[i].command_timeout_ms = Absent
      <3> TAKE i \in 1..4
      <3>1. DOMAIN listed[i] = EndpointKeys
        BY <1>2, <2>1
      <3>2. /\ listed[i].id = D[i].endpoint_id /\ listed[i].type = D[i].type
            /\ \A key \in DOMAIN listed[i] \ {"id", "type"} : listed[i][key] = Absent
        BY <1>3, <2>1 DEF NamesTheBuiltIn
      <3> QED BY <3>1, <3>2 DEF EndpointKeys
    <2>3. \A i \in 1..4 : EndpointId(listed[i]) = D[i].endpoint_id
      BY <2>1, <2>2, FilesAssumption DEF EndpointId, Given
    <2>4. ASSUME NEW i \in 1..4
          PROVE  e(i) = Mock(D[i].endpoint_id, D[i].type,
                         DefaultTopicFor(D[i].type, D[i].endpoint_id),
                         DefaultCommandTopicFor(D[i].type, D[i].endpoint_id),
                         D[i].endpoint_id \o <<"link">>, DefaultRateFor(D[i].type))
      <3> DEFINE n == listed[i]
                 id == D[i].endpoint_id
                 type == D[i].type
      <3>1. EndpointId(n) = id /\ n.type = type
        BY <2>2, <2>3
      <3>2. \A v : /\ Given(n.mode, v) = v /\ Given(n.driver, v) = v /\ Given(n.topic, v) = v
                   /\ Given(n.state_topic, v) = v /\ Given(n.command_topic, v) = v
                   /\ Given(n.frame_id, v) = v /\ Given(n.publish_rate_hz, v) = v
                   /\ Given(n.enabled, v) = v /\ Given(n.critical, v) = v
                   /\ Given(n.disabled_on_start, v) = v /\ Given(n.command_timeout_ms, v) = v
        BY <2>2 DEF Given
      <3>3. DefaultDriverFor(type, <<"mock">>) = <<"mock">> \o type
        BY DEF DefaultDriverFor
      <3> DEFINE topic == DefaultTopicFor(type, id)
                 command == DefaultCommandTopicFor(type, id)
                 rate == DefaultRateFor(type)
                 frame == id \o <<"link">>
      <3>4. Endpoint(n) =
              [endpoint_id |-> id, type |-> type, mode |-> Given(n.mode, <<"mock">>),
               driver |-> Given(n.driver, DefaultDriverFor(type, Given(n.mode, <<"mock">>))),
               said_topic |-> Given(n.topic, topic),
               state_topic |-> Given(n.state_topic, Given(n.topic, topic)),
               command_topic |-> Given(n.command_topic, command),
               topic |-> IF type = Joint THEN Given(n.state_topic, Given(n.topic, topic))
                         ELSE Given(n.topic, topic),
               frame_id |-> Given(n.frame_id, frame), publish_rate_hz |-> Given(n.publish_rate_hz, rate),
               enabled |-> Given(n.enabled, TRUE), critical |-> Given(n.critical, FALSE),
               disabled_on_start |-> Given(n.disabled_on_start, TRUE),
               command_timeout_ms |-> Given(n.command_timeout_ms, 100)]
        <4> HIDE DEF n, id, type
        <4> QED BY <3>1, Zenon DEF Endpoint
      <3> HIDE DEF n, id, type, topic, command, rate, frame
      <3>5. /\ Given(n.mode, <<"mock">>) = <<"mock">>
            /\ Given(n.driver, DefaultDriverFor(type, <<"mock">>)) = <<"mock">> \o type
            /\ Given(n.topic, topic) = topic /\ Given(n.state_topic, topic) = topic
            /\ Given(n.command_topic, command) = command
            /\ Given(n.frame_id, frame) = frame /\ Given(n.publish_rate_hz, rate) = rate
            /\ Given(n.enabled, TRUE) = TRUE /\ Given(n.critical, FALSE) = FALSE
            /\ Given(n.disabled_on_start, TRUE) = TRUE /\ Given(n.command_timeout_ms, 100) = 100
        BY <3>2, <3>3
      <3>6. /\ Given(n.driver, DefaultDriverFor(type, Given(n.mode, <<"mock">>))) = <<"mock">> \o type
            /\ (IF type = Joint THEN Given(n.state_topic, Given(n.topic, topic))
                ELSE Given(n.topic, topic)) = topic
            /\ Given(n.state_topic, Given(n.topic, topic)) = topic
        BY <3>5
      <3>7. Endpoint(n) = Mock(id, type, topic, command, frame, rate)
        BY <3>4, <3>5, <3>6, Zenon DEF Mock
      <3> QED BY <3>7 DEF n, id, type, topic, command, rate, frame
    <2>11. e(1) = F[1]
      <3>1. /\ D[1] = Mock(<<"imu0">>, <<"imu">>, <<"sensors", "imu", "imu0">>,
                           <<>>, <<"imu", "link">>, 100)
            /\ F[1] = Mock(<<"imu0">>, <<"imu">>, <<"sensors", "imu", "imu0">>,
                           <<>>, frames[1], 100)
        <4> HIDE DEF frames
        <4> QED BY DEF DefaultMockConfig, MockEndpoints, Joint
      <3>2. D[1].type = <<"imu">> /\ D[1].endpoint_id = <<"imu0">>
        BY <3>1, MockFields
      <3>3. (<<"sensors">> \o <<"imu">>) \o <<"imu0">> = <<"sensors", "imu", "imu0">>
        BY ThreeParts
      <3>4. /\ DefaultTopicFor(<<"imu">>, <<"imu0">>) = <<"sensors", "imu", "imu0">>
            /\ DefaultCommandTopicFor(<<"imu">>, <<"imu0">>) = <<>>
            /\ DefaultRateFor(<<"imu">>) = 100
        BY <3>3 DEF DefaultTopicFor, DefaultCommandTopicFor, DefaultRateFor, Joint, Sensors
      <3>5. 1 \in 1..4 /\ frames[1] = D[1].endpoint_id \o <<"link">>
        BY <2>1
      <3> HIDE DEF D, e, F, frames
      <3>6. e(1) = Mock(D[1].endpoint_id, D[1].type, DefaultTopicFor(D[1].type, D[1].endpoint_id),
                      DefaultCommandTopicFor(D[1].type, D[1].endpoint_id),
                      D[1].endpoint_id \o <<"link">>, DefaultRateFor(D[1].type))
        BY <2>4, <3>5, Zenon
      <3>7. e(1) = Mock(<<"imu0">>, <<"imu">>, <<"sensors", "imu", "imu0">>,
                      <<>>, frames[1], 100)
        BY <3>2, <3>4, <3>5, <3>6, Zenon
      <3> QED BY <3>1, <3>7, Zenon
    <2>12. e(2) = F[2]
      <3>1. /\ D[2] = Mock(<<"temp0">>, <<"temperature">>, <<"sensors", "temperature", "temp0">>,
                           <<>>, <<"temperature", "link">>, 2)
            /\ F[2] = Mock(<<"temp0">>, <<"temperature">>, <<"sensors", "temperature", "temp0">>,
                           <<>>, frames[2], 2)
        <4> HIDE DEF frames
        <4> QED BY DEF DefaultMockConfig, MockEndpoints, Joint
      <3>2. D[2].type = <<"temperature">> /\ D[2].endpoint_id = <<"temp0">>
        BY <3>1, MockFields
      <3>3. (<<"sensors">> \o <<"temperature">>) \o <<"temp0">> = <<"sensors", "temperature", "temp0">>
        BY ThreeParts
      <3>4. /\ DefaultTopicFor(<<"temperature">>, <<"temp0">>) = <<"sensors", "temperature", "temp0">>
            /\ DefaultCommandTopicFor(<<"temperature">>, <<"temp0">>) = <<>>
            /\ DefaultRateFor(<<"temperature">>) = 2
        BY <3>3 DEF DefaultTopicFor, DefaultCommandTopicFor, DefaultRateFor, Joint, Sensors
      <3>5. 2 \in 1..4 /\ frames[2] = D[2].endpoint_id \o <<"link">>
        BY <2>1
      <3> HIDE DEF D, e, F, frames
      <3>6. e(2) = Mock(D[2].endpoint_id, D[2].type, DefaultTopicFor(D[2].type, D[2].endpoint_id),
                      DefaultCommandTopicFor(D[2].type, D[2].endpoint_id),
                      D[2].endpoint_id \o <<"link">>, DefaultRateFor(D[2].type))
        BY <2>4, <3>5, Zenon
      <3>7. e(2) = Mock(<<"temp0">>, <<"temperature">>, <<"sensors", "temperature", "temp0">>,
                      <<>>, frames[2], 2)
        BY <3>2, <3>4, <3>5, <3>6, Zenon
      <3> QED BY <3>1, <3>7, Zenon
    <2>13. e(3) = F[3]
      <3>1. /\ D[3] = Mock(<<"gnss0">>, <<"gnss">>, <<"sensors", "gnss", "gnss0">>,
                           <<>>, <<"gnss", "link">>, 1)
            /\ F[3] = Mock(<<"gnss0">>, <<"gnss">>, <<"sensors", "gnss", "gnss0">>,
                           <<>>, frames[3], 1)
        <4> HIDE DEF frames
        <4> QED BY DEF DefaultMockConfig, MockEndpoints, Joint
      <3>2. D[3].type = <<"gnss">> /\ D[3].endpoint_id = <<"gnss0">>
        BY <3>1, MockFields
      <3>3. (<<"sensors">> \o <<"gnss">>) \o <<"gnss0">> = <<"sensors", "gnss", "gnss0">>
        BY ThreeParts
      <3>4. /\ DefaultTopicFor(<<"gnss">>, <<"gnss0">>) = <<"sensors", "gnss", "gnss0">>
            /\ DefaultCommandTopicFor(<<"gnss">>, <<"gnss0">>) = <<>>
            /\ DefaultRateFor(<<"gnss">>) = 1
        BY <3>3 DEF DefaultTopicFor, DefaultCommandTopicFor, DefaultRateFor, Joint, Sensors
      <3>5. 3 \in 1..4 /\ frames[3] = D[3].endpoint_id \o <<"link">>
        BY <2>1
      <3> HIDE DEF D, e, F, frames
      <3>6. e(3) = Mock(D[3].endpoint_id, D[3].type, DefaultTopicFor(D[3].type, D[3].endpoint_id),
                      DefaultCommandTopicFor(D[3].type, D[3].endpoint_id),
                      D[3].endpoint_id \o <<"link">>, DefaultRateFor(D[3].type))
        BY <2>4, <3>5, Zenon
      <3>7. e(3) = Mock(<<"gnss0">>, <<"gnss">>, <<"sensors", "gnss", "gnss0">>,
                      <<>>, frames[3], 1)
        BY <3>2, <3>4, <3>5, <3>6, Zenon
      <3> QED BY <3>1, <3>7, Zenon
    <2>14. e(4) = F[4]
      <3>1. /\ D[4] = Mock(<<"joint_controller0">>, <<"joint_controller">>, <<"joints", "joint_controller0", "state">>,
                           <<"joints", "joint_controller0", "command">>, <<"base", "link">>, 100)
            /\ F[4] = Mock(<<"joint_controller0">>, <<"joint_controller">>, <<"joints", "joint_controller0", "state">>,
                           <<"joints", "joint_controller0", "command">>, frames[4], 100)
        <4> HIDE DEF frames
        <4> QED BY DEF DefaultMockConfig, MockEndpoints, Joint
      <3>2. D[4].type = <<"joint_controller">> /\ D[4].endpoint_id = <<"joint_controller0">>
        BY <3>1, MockFields
      <3>3. /\ (<<"joints">> \o <<"joint_controller0">>) \o <<"state">> = <<"joints", "joint_controller0", "state">>
            /\ (<<"joints">> \o <<"joint_controller0">>) \o <<"command">> = <<"joints", "joint_controller0", "command">>
        BY ThreeParts
      <3>4. /\ DefaultTopicFor(<<"joint_controller">>, <<"joint_controller0">>) = <<"joints", "joint_controller0", "state">>
            /\ DefaultCommandTopicFor(<<"joint_controller">>, <<"joint_controller0">>) = <<"joints", "joint_controller0", "command">>
            /\ DefaultRateFor(<<"joint_controller">>) = 100
        BY <3>3 DEF DefaultTopicFor, DefaultCommandTopicFor, DefaultRateFor, Joint, Sensors
      <3>5. 4 \in 1..4 /\ frames[4] = D[4].endpoint_id \o <<"link">>
        BY <2>1
      <3> HIDE DEF D, e, F, frames
      <3>6. e(4) = Mock(D[4].endpoint_id, D[4].type, DefaultTopicFor(D[4].type, D[4].endpoint_id),
                      DefaultCommandTopicFor(D[4].type, D[4].endpoint_id),
                      D[4].endpoint_id \o <<"link">>, DefaultRateFor(D[4].type))
        BY <2>4, <3>5, Zenon
      <3>7. e(4) = Mock(<<"joint_controller0">>, <<"joint_controller">>, <<"joints", "joint_controller0", "state">>,
                      <<"joints", "joint_controller0", "command">>, frames[4], 100)
        BY <3>2, <3>4, <3>5, <3>6, Zenon
      <3> QED BY <3>1, <3>7, Zenon
    <2>6. taken' = F
      <3>1. /\ \A i \in 1..4 : taken'[i] = F[i]
            /\ taken' = [i \in 1..4 |-> taken'[i]]
        <4>1. taken' = [i \in 1..4 |-> e(i)]
          BY <1>1, <2>1
        <4> HIDE DEF D, e, F, frames
        <4> QED BY <4>1, <2>11, <2>12, <2>13, <2>14
      <3>2. F = [i \in 1..4 |-> F[i]]
        BY DEF MockEndpoints
      <3> HIDE DEF D, e, F, frames
      <3> QED BY <3>1, <3>2
    <2>7. (DefaultMockConfig' = DefaultMockConfig) /\ AsBuiltIn' = (taken' = F)
      BY DEF DefaultMockConfig, MockEndpoints, Mock, Joint, AsBuiltIn
    <2> QED BY <2>6, <2>7
  <1> QED BY <1>9, <1>10

LEMMA LaunchTaken ==
  ASSUME taken' = LoadLaunchConfig(given.file), UNCHANGED given, taken' \notin {Unread, Rejected}
  PROVE  LaunchIsSound'
  <1> DEFINE listed == given.file.nodes
  <1>1. /\ \A i \in DOMAIN listed : Launchable(listed[i])
        /\ taken' = [i \in DOMAIN listed |-> ProcessSpecOf(listed[i])]
    BY DEF LoadLaunchConfig
  <1> HIDE DEF listed
  <1>2. ASSUME NEW i \in DOMAIN listed
        PROVE  LET p == ProcessSpecOf(listed[i])
               IN  /\ <<>> \notin {p.name, p.command}
                   /\ p.restart \in {"never", "on-failure", "always"}
                   /\ p.heartbeat_timeout > 0 => listed[i].heartbeat_timeout # Absent
    <2>1. ProcessSpecOf(listed[i]).restart \in {"never", "on-failure", "always", Rejected}
      BY DEF ProcessSpecOf, RestartPolicy
    <2>2. ProcessSpecOf(listed[i]).heartbeat_timeout = Given(listed[i].heartbeat_timeout, 0)
      BY DEF ProcessSpecOf
    <2> QED BY <1>1, <2>1, <2>2 DEF Launchable, Given
  <1>3. given.file.nodes' = listed
    BY DEF listed
  <1> QED BY <1>1, <1>2, <1>3 DEF LaunchIsSound

LEMMA FilesStep == FilesInv /\ [FilesNext]_fileVars => FilesInv'
  <1> SUFFICES ASSUME FilesInv, [FilesNext]_fileVars PROVE FilesInv'
    OBVIOUS
  <1>1. CASE UNCHANGED fileVars
    <2>1. given' = given /\ taken' = taken
      BY <1>1 DEF fileVars
    <2>2. (HardwareIsSound' <=> HardwareIsSound) /\ (LaunchIsSound' <=> LaunchIsSound)
      BY <2>1 DEF HardwareIsSound, LaunchIsSound, TopicsOf
    <2>3. (NamesTheBuiltIn' <=> NamesTheBuiltIn) /\ (AsBuiltIn' <=> AsBuiltIn)
      BY <2>1 DEF NamesTheBuiltIn, AsBuiltIn
    <2> QED BY <2>1, <2>2, <2>3 DEF FilesInv, TakenFilesAreSound
  <1>2. CASE LoadHardware
    <2>1. given.for = "hardware" /\ taken' = LoadConfigFromFile(given.file) /\ UNCHANGED given
      BY <1>2 DEF LoadHardware
    <2> QED BY <2>1, HardwareTaken DEF FilesInv, TakenFilesAreSound
  <1>3. CASE LoadLaunch
    <2>1. given.for # "hardware" /\ taken' = LoadLaunchConfig(given.file) /\ UNCHANGED given
      BY <1>3 DEF LoadLaunch
    <2> QED BY <2>1, LaunchTaken DEF FilesInv, TakenFilesAreSound
  <1> QED BY <1>1, <1>2, <1>3 DEF FilesNext

LEMMA FilesStart == FilesInit => FilesInv
  BY DEF FilesInit, FilesInv, TakenFilesAreSound

-----------------------------------------------------------------------------
(***************************************************************************)
(* For any files, whatever keys are left out, empty or of the wrong shape, *)
(* any texts as ids and single words as types: what is taken from a file   *)
(* is sound.                                                               *)
(***************************************************************************)
THEOREM SoundFilesAreTaken == FoundationSpec => []TakenFilesAreSound
  <1> DEFINE Inv == IF subject = "files" THEN FilesInv ELSE taken = Unread
             everything == <<subject, lockVars, contextVars, vars, descriptorVars,
                             streamVars, eventVars, loggingVars, mqttVars, fileVars>>
  <1>1. FoundationInit => Inv
    BY FilesStart DEF FoundationInit
  <1>2. Inv /\ [FoundationNext]_everything => Inv'
    <2>1. FoundationNext => [FilesNext]_fileVars /\ (subject # "files" => UNCHANGED fileVars)
                              /\ UNCHANGED subject
      BY DEF FoundationNext
    <2>2. UNCHANGED everything => UNCHANGED fileVars /\ UNCHANGED subject
      OBVIOUS
    <2>3. UNCHANGED fileVars => UNCHANGED taken
      BY DEF fileVars
    <2> QED BY <2>1, <2>2, <2>3, FilesStep
  <1>3. Inv => TakenFilesAreSound
    BY DEF FilesInv, TakenFilesAreSound
  <1> QED BY <1>1, <1>2, <1>3, PTL DEF FoundationSpec

=============================================================================
