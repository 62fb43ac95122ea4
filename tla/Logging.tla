------------------------------- MODULE Logging -------------------------------
(***************************************************************************)
(* The logger of a process (components/logging/src/logger.cpp): the        *)
(* default logger, replaced by init(), taken away by deinit() and made on  *)
(* demand; spdlog's registry of loggers by name; the sink that publishes   *)
(* lines on a topic, with its rate limit and its session, opened late and  *)
(* tried again.  Time is counted in half seconds.                          *)
(***************************************************************************)
EXTENDS Integers

CONSTANTS
    Writers,       \* the threads that log
    LoggerNames,   \* the names init() is called with
    DefaultName,   \* the name of a logger made on demand, "openember"
    MaxLoggers,    \* loggers made (bound of TLC's runs)
    LogLevel,      \* log_level: what the logger lets pass
    TopicLevel,    \* topic_level: what the topic's sink lets pass
    RateLimit      \* topic_rate_limit; 0 is none

ASSUME RateLimitAssumption == RateLimit \in Nat

VARIABLES
    g_default,     \* the default logger
    loggers,       \* how many were made: they are numbered
    registry,      \* spdlog's registry: which logger has which name
    holds,         \* the logger each thread has a reference to; 0: none
    sink,          \* the TopicSink of the default logger
    sessions,      \* the loggers whose sink has a session open
    published,     \* its lines on the topic: in this half second, in the one before
    told,          \* what became of the last line
    replaced       \* history: the logger init() made the default logger in place of

loggingVars == <<g_default, loggers, registry, holds, sink, sessions, published, told, replaced>>

Second == 2     \* the window of the rate limit
Retry == 4      \* two seconds between attempts to open the session

(* The null pointer: nothing has the number 0.                             *)
NoLogger == [id |-> 0, name |-> DefaultName, spd |-> FALSE]

NewSink == [publisher |-> FALSE, tried |-> Retry, window |-> Second, count |-> 0]

LoggingInit ==
    /\ g_default = NoLogger /\ loggers = 0 /\ registry = {}
    /\ holds = [t \in Writers |-> 0]
    /\ sink = NewSink /\ sessions = {}
    /\ published = <<0, 0>> /\ told = "nothing"
    /\ replaced = NoLogger

(* Logger(): a name the registry has already makes it throw, and leaves a  *)
(* logger without spdlog's.                                                *)
Logger(name) ==
    [id |-> loggers + 1, name |-> name, spd |-> \A e \in registry : e.name # name]

Registered(logger) ==
    IF logger.spd THEN registry \cup {[name |-> logger.name, id |-> logger.id]} ELSE registry

(* Mutant: a logger goes, and stays in the registry.                       *)
NotDropped(entries) == entries

(* ~Logger(): drops whatever the registry has under its name.              *)
Dropped(entries) ==
    IF ~g_default.spd THEN entries
    ELSE {e \in entries : e.name # g_default.name}

(* A sink lives as long as the registry has its logger.                    *)
StillOpen(entries) == {id \in sessions : \E e \in entries : e.id = id}

(* init(): the new logger is made before the old one is destroyed.         *)
init(name) ==
    /\ loggers < MaxLoggers
    /\ g_default' = Logger(name) /\ loggers' = loggers + 1
    /\ registry' = Dropped(Registered(Logger(name)))
    /\ replaced' = g_default
    /\ sink' = NewSink
    /\ sessions' = StillOpen(registry') /\ published' = <<0, 0>>
    /\ UNCHANGED <<holds, told>>

(* deinit(): and all spdlog has with it.                                   *)
deinit ==
    /\ g_default' = NoLogger /\ registry' = {} /\ sessions' = {} /\ sink' = NewSink
    /\ published' = <<0, 0>> /\ replaced' = NoLogger
    /\ UNCHANGED <<loggers, holds, told>>

(* default_logger(): a reference, used after the lock is given back.       *)
default_logger(t) ==
    /\ holds[t] = 0
    /\ IF g_default # NoLogger
       THEN holds' = [holds EXCEPT ![t] = g_default.id]
            /\ UNCHANGED <<g_default, loggers, registry, replaced>>
       ELSE /\ loggers < MaxLoggers
            /\ g_default' = Logger(DefaultName) /\ loggers' = loggers + 1
            /\ registry' = Registered(Logger(DefaultName))
            /\ holds' = [holds EXCEPT ![t] = loggers']
            /\ replaced' = NoLogger
    /\ UNCHANGED <<sink, sessions, published, told>>

(* ensure_publisher(): has one, or may try, and succeeds or not.           *)
ensure_publisher(s) ==
    IF s.publisher THEN {s}
    ELSE IF s.tried < Retry THEN {s}
    ELSE {[s EXCEPT !.tried = 0, !.publisher = opens] : opens \in BOOLEAN}

(* sink_it_(): the level, the window, the limit, the publisher.            *)
Window == IF sink.window >= Second THEN [sink EXCEPT !.window = 0, !.count = 0] ELSE sink

sink_it_(level) ==
    IF level < TopicLevel THEN UNCHANGED <<sink, sessions, published>>
    ELSE IF RateLimit > 0 /\ Window.count >= RateLimit
    THEN sink' = Window /\ UNCHANGED <<sessions, published>>
    ELSE /\ sink' \in ensure_publisher(
                IF RateLimit > 0 THEN [Window EXCEPT !.count = @ + 1] ELSE sink)
         /\ sessions' = IF sink'.publisher THEN sessions \cup {g_default.id} ELSE sessions
         /\ published' = IF sink'.publisher THEN [published EXCEPT ![1] = @ + 1] ELSE published

(* write(): a logger destroyed since the reference was taken is undefined. *)
write(t, level) ==
    /\ holds[t] # 0
    /\ holds' = [holds EXCEPT ![t] = 0]
    /\ \/ /\ g_default.id # holds[t]
          /\ told' = "undefined"
          /\ UNCHANGED <<sink, sessions, published>>
       \/ /\ g_default.id = holds[t]
          /\ IF g_default.spd /\ level >= LogLevel
             THEN told' = "written" /\ sink_it_(level)
             ELSE told' = "dropped" /\ UNCHANGED <<sink, sessions, published>>
    /\ UNCHANGED <<g_default, loggers, registry, replaced>>

HalfSecond ==
    /\ sink' = [sink EXCEPT !.window = IF @ < Second THEN @ + 1 ELSE @,
                            !.tried = IF @ < Retry THEN @ + 1 ELSE @]
    /\ published' = <<0, published[1]>>
    /\ UNCHANGED <<g_default, loggers, registry, holds, sessions, told, replaced>>

LoggingNext ==
    \/ \E name \in LoggerNames : init(name)
    \/ deinit
    \/ \E t \in Writers :
          \/ default_logger(t)
          \/ \E level \in 1..3 : write(t, level)
    \/ HalfSecond

LoggingSpec == LoggingInit /\ [][LoggingNext]_loggingVars

(***************************************************************************)
(* However init(), deinit() and first lines of several threads follow each *)
(* other: the default logger is without spdlog's, and drops every line, if *)
(* and only if it replaced one that had the same name and spdlog's logger; *)
(* spdlog knows the default logger that has it and no other; the only      *)
(* session open is that of its sink; and since a window begins with a line *)
(* and not with the clock, a sink may pass the limit of lines in a second, *)
(* but not reach twice it.                                                 *)
(***************************************************************************)
Mute == g_default # NoLogger /\ ~g_default.spd

LogsAreKept ==
    /\ Mute <=> (replaced.spd /\ replaced.name = g_default.name)
    /\ registry = IF g_default.spd THEN {[name |-> g_default.name, id |-> g_default.id]} ELSE {}
    /\ sessions = IF sink.publisher THEN {g_default.id} ELSE {}
    /\ RateLimit > 0 => published[1] + published[2] < 2 * RateLimit

(***************************************************************************)
(* What the header says of init(): "Initialize (or replace) the            *)
(* process-wide default logger."  The logger it makes can write.           *)
(***************************************************************************)
InitReplaces == ~Mute

=============================================================================
