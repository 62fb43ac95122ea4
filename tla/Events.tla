-------------------------------- MODULE Events -------------------------------
(***************************************************************************)
(* The auto-reset event of the OSAL: a flag, a mutex and a condition.  The *)
(* mutex is held throughout set(), reset() and a wait, except while the    *)
(* waiting thread is blocked on the condition.                             *)
(***************************************************************************)
EXTENDS Naturals

CONSTANT Waiters   \* the threads that wait

VARIABLES
    signaled,   \* the flag
    at,         \* "out", "blocked" on the condition, or "woken" and not yet running
    timed       \* whether a thread waits with a timeout

eventVars == <<signaled, at, timed>>

EventsInit ==
    /\ signaled = FALSE
    /\ at = [t \in Waiters |-> "out"]
    /\ timed = [t \in Waiters |-> FALSE]

Blocked == {t \in Waiters : at[t] = "blocked"}

(* set(): wakes one thread that is blocked, if any.                        *)
set ==
    /\ signaled' = TRUE
    /\ \/ Blocked = {} /\ UNCHANGED at
       \/ \E t \in Blocked : at' = [at EXCEPT ![t] = "woken"]
    /\ UNCHANGED timed

reset ==
    /\ signaled' = FALSE
    /\ UNCHANGED <<at, timed>>

(* The flag is taken, or the thread blocks, for the first time or again.   *)
Look(t) ==
    /\ signaled' = FALSE
    /\ at' = [at EXCEPT ![t] = IF signaled THEN "out" ELSE "blocked"]

wait(t) ==
    /\ at[t] = "out" /\ Look(t)
    /\ timed' = [timed EXCEPT ![t] = FALSE]

wait_timeout_ms(t) ==
    /\ at[t] = "out" /\ Look(t)
    /\ timed' = [timed EXCEPT ![t] = TRUE]

Wakes(t) ==
    /\ at[t] = "woken" /\ Look(t)
    /\ UNCHANGED timed

(* Mutant: the deadline is looked at before the flag.                      *)
TimesOutAnyway(t) ==
    /\ timed[t] /\ at[t] \in {"blocked", "woken"}
    /\ at' = [at EXCEPT ![t] = "out"]
    /\ UNCHANGED <<signaled, timed>>

(* The deadline, which may be past from the start: it is read from another *)
(* clock than the condition's.                                             *)
TimesOut(t) ==
    /\ timed[t] /\ at[t] = "blocked"
    /\ at' = [at EXCEPT ![t] = "out"]
    /\ UNCHANGED <<signaled, timed>>

EventsNext ==
    \/ set \/ reset
    \/ \E t \in Waiters : wait(t) \/ wait_timeout_ms(t) \/ Wakes(t) \/ TimesOut(t)

EventsSpec == EventsInit /\ [][EventsNext]_eventVars

(***************************************************************************)
(* No thread sleeps on while the event is set, whoever else comes, times   *)
(* out or takes an earlier set away: one that was woken is still about to  *)
(* look at the flag.                                                       *)
(***************************************************************************)
NoSleeperMisses ==
    signaled /\ Blocked # {} => \E t \in Waiters : at[t] = "woken"

=============================================================================
