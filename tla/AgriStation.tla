----------------------------- MODULE AgriStation -----------------------------
(***************************************************************************)
(* The station of apps/agri_station_demo and the processes that feed it:   *)
(* the mock sensors, one per role or one for all, or a field master, which *)
(* feeds it as the latter does.  Each quantity is a topic of its own; the  *)
(* station keeps the last reading of each and tells its state from their   *)
(* ages.  Sources and station may end and be started again at any time.    *)
(***************************************************************************)
EXTENDS Naturals, FiniteSets

CONSTANT Climate   \* the quantities of the climate

VARIABLES
    feeds,      \* the quantities of each source
    feeding,      \* the sources that run
    underway,   \* samples that were published and not yet received
    reading,    \* of each quantity: its age, and whether the soil is dry
    station     \* whether the station runs, and what it published last

stationVars == <<feeds, feeding, underway, reading, station>>

Quantities == Climate \cup {"soil"}
Ages == {"none", "fresh", "stale"}

(* --role climate and --role soil, or --role all.                          *)
Roles ==
    {[s \in {"climate", "soil"} |-> IF s = "climate" THEN Climate ELSE {"soil"}],
     [s \in {"all"} |-> Quantities]}

NoReading == [age |-> "none", dry |-> FALSE]
NoStatus == [state |-> "none", health |-> "none", alert |-> FALSE]

StationInit ==
    /\ feeds \in Roles
    /\ feeding \in SUBSET DOMAIN feeds
    /\ underway = {}
    /\ reading = [q \in Quantities |-> NoReading]
    /\ station \in [runs : BOOLEAN, status : {NoStatus}]

(* One round of a source's loop: a sample of each of its quantities.       *)
SourcePublishes(s) ==
    /\ s \in feeding
    /\ \E dry \in BOOLEAN :
          underway' = IF station.runs
                      THEN {m \in underway : m.quantity \notin feeds[s]}
                           \cup {[quantity |-> q, dry |-> dry /\ q = "soil"] : q \in feeds[s]}
                      ELSE underway
    /\ UNCHANGED <<feeds, feeding, reading, station>>

SourceDown(s) ==
    /\ feeding' = feeding \ {s}
    /\ UNCHANGED <<feeds, underway, reading, station>>

SourceUp(s) ==
    /\ feeding' = feeding \cup {s}
    /\ UNCHANGED <<feeds, underway, reading, station>>

(* The subscriber's callback of a quantity.                                *)
Receives(m) ==
    /\ station.runs /\ m \in underway
    /\ underway' = underway \ {m}
    /\ reading' = [reading EXCEPT ![m.quantity] = [age |-> "fresh", dry |-> m.dry]]
    /\ UNCHANGED <<feeds, feeding, station>>

(* kSensorStaleSec have passed since the last sample of a quantity.        *)
Ageing(q) ==
    /\ reading[q].age = "fresh"
    /\ reading' = [reading EXCEPT ![q].age = "stale"]
    /\ UNCHANGED <<feeds, feeding, underway, station>>

Fresh(q) == reading[q].age = "fresh"

EvaluateStation ==
    LET climate_ok == \A q \in Climate : Fresh(q)
        soil_ok    == Fresh("soil")
    IN  CASE ~climate_ok /\ ~soil_ok -> "fault"
          [] climate_ok # soil_ok -> "degraded"
          [] climate_ok /\ soil_ok /\ reading["soil"].dry -> "alert"
          [] OTHER -> "running"

(* Status, alert and heartbeat of one round.                               *)
TickOnce ==
    LET state == EvaluateStation IN
    /\ station.runs
    /\ station' = [station EXCEPT !.status =
          [state |-> state,
           health |-> CASE state = "fault" -> "ERROR"
                        [] state \in {"degraded", "alert"} -> "WARNING"
                        [] OTHER -> "OK",
           alert |-> Fresh("soil") /\ reading["soil"].dry]]
    /\ UNCHANGED <<feeds, feeding, underway, reading>>

StationDown ==
    /\ station.runs
    /\ station' = [runs |-> FALSE, status |-> NoStatus]
    /\ underway' = {}
    /\ reading' = [q \in Quantities |-> NoReading]
    /\ UNCHANGED <<feeds, feeding>>

StationUp ==
    /\ ~station.runs
    /\ station' = [station EXCEPT !.runs = TRUE]
    /\ UNCHANGED <<feeds, feeding, underway, reading>>

StationNext ==
    \/ \E s \in DOMAIN feeds : SourcePublishes(s) \/ SourceDown(s) \/ SourceUp(s)
    \/ \E m \in underway : Receives(m)
    \/ \E q \in Quantities : Ageing(q)
    \/ TickOnce \/ StationDown \/ StationUp

-----------------------------------------------------------------------------
(* While a source runs its samples may be late or not; once it has ended   *)
(* they age.  Nothing makes a source or the station end, or start.         *)
RoundOf(s) == s \in DOMAIN feeds /\ SourcePublishes(s)
ReceivesOf(q) == \E m \in underway : m.quantity = q /\ Receives(m)
AgesAlone(q) == (\A s \in feeding : q \notin feeds[s]) /\ Ageing(q)

StationFairness ==
    /\ WF_stationVars(TickOnce)
    /\ \A s \in {"climate", "soil", "all"} : WF_stationVars(RoundOf(s))
    /\ \A q \in Quantities :
          WF_stationVars(ReceivesOf(q)) /\ WF_stationVars(AgesAlone(q))

(***************************************************************************)
(* A station that runs notices the loss of a source, and of all of them;   *)
(* when all sources are there again, and their samples in time, it is      *)
(* running again, or alerted.                                              *)
(***************************************************************************)
Lost(s) == station.runs /\ s \in DOMAIN feeds \ feeding
AllLost == station.runs /\ feeding = {}
Fed == station.runs /\ feeding = DOMAIN feeds

StationFollows ==
    /\ \A s \in {"climate", "soil", "all"} :
          Lost(s) ~> (~Lost(s) \/ station.status.state \in {"degraded", "fault"})
    /\ AllLost ~> (~AllLost \/ station.status.health = "ERROR")
    /\ <>[]Fed /\ ~[]<><<\E q \in Quantities : Ageing(q)>>_stationVars
          => <>[](station.status.state \in {"running", "alert"})

=============================================================================
