----------------------------- MODULE SmartDevice -----------------------------
(***************************************************************************)
(* apps/smart_device_demo: a product application that asks config_service  *)
(* for its mode and device_manager for its devices until each has answered *)
(* once, and tells its product state in its heartbeats.                    *)
(***************************************************************************)
EXTENDS Naturals

VARIABLES
    answers,    \* whether each service has what is asked for, as it would answer
    app,        \* where the loop is, how long it runs, what was answered
    told        \* the state in the last heartbeat

smartVars == <<answers, app, told>>

Services == {"parameter", "device"}
Uptimes == {"below 1 s", "below 5 s", "5 s and more"}

Down == [at |-> "down", uptime |-> "below 1 s", ready |-> {}]
Booted == [Down EXCEPT !.at = "parameter"]

SmartInit ==
    /\ answers \in [Services -> BOOLEAN]
    /\ app = Down
    /\ told = "none"

(* A service comes, goes, or gets what is asked for.                       *)
AnswersChange(s) ==
    /\ answers' = [answers EXCEPT ![s] = ~@]
    /\ UNCHANGED <<app, told>>

TimePasses ==
    /\ app # Down /\ app.uptime # "5 s and more"
    /\ app' = [app EXCEPT !.uptime = IF @ = "below 1 s" THEN "below 5 s" ELSE "5 s and more"]
    /\ UNCHANGED <<answers, told>>

(* A call that is answered in time, one that is late or has no answer of  *)
(* use, and the round of a service that has answered already.              *)
Following(s) == IF s = "parameter" THEN "device" ELSE "heartbeat"

Answered(s) ==
    /\ app.at = s /\ s \notin app.ready /\ answers[s]
    /\ app' = [app EXCEPT !.at = Following(s), !.ready = @ \cup {s}]
    /\ UNCHANGED <<answers, told>>

InVain(s) ==
    /\ app.at = s /\ s \notin app.ready
    /\ app' = [app EXCEPT !.at = Following(s)]
    /\ UNCHANGED <<answers, told>>

Skips(s) ==
    /\ app.at = s /\ s \in app.ready
    /\ app' = [app EXCEPT !.at = Following(s)]
    /\ UNCHANGED <<answers, told>>

TryLoadProductMode == Answered("parameter") \/ InVain("parameter") \/ Skips("parameter")
TryQueryDevices == Answered("device") \/ InVain("device") \/ Skips("device")

UpdateProductState ==
    CASE app.uptime = "below 1 s" -> "Booting"
      [] app.uptime # "below 1 s" /\ app.ready # Services -> "Initializing"
      [] app.uptime = "below 5 s" /\ app.ready = Services -> "Ready"
      [] OTHER -> "Running"

Heartbeat ==
    /\ app.at = "heartbeat"
    /\ told' = UpdateProductState
    /\ app' = [app EXCEPT !.at = "parameter"]
    /\ UNCHANGED answers

AppStarts == app = Down /\ app' = Booted /\ UNCHANGED <<answers, told>>
AppEnds == app' = Down /\ told' = "none" /\ UNCHANGED answers

SmartNext ==
    \/ \E s \in Services : AnswersChange(s)
    \/ TimePasses \/ TryLoadProductMode \/ TryQueryDevices \/ Heartbeat
    \/ AppStarts \/ AppEnds

-----------------------------------------------------------------------------
SmartFairness ==
    /\ WF_smartVars((TryLoadProductMode \/ TryQueryDevices \/ Heartbeat))
    /\ WF_smartVars(TimePasses)

(***************************************************************************)
(* Once both services have what is asked for, and answer in time, the      *)
(* application gets to Running, and stays there whatever becomes of them.  *)
(***************************************************************************)
Late == \E s \in Services : answers[s] /\ InVain(s)

SmartFollows ==
    <>[](answers = [s \in Services |-> TRUE])
        /\ <>[](app.at # "down") /\ ~[]<><<Late>>_smartVars
    => <>[](told = "Running")

=============================================================================
