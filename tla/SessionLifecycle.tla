-------------------------- MODULE SessionLifecycle --------------------------
(***************************************************************************)
(* What the controller promises the cloud and the operator about sessions, *)
(* with no threads, no arm and no generations (README.md "SO101 auto-queue"*)
(* and "Local SO101 run deadline", cloud.CloudBridge): a session starts    *)
(* only when the controller said it was ready; a run ends in a cleanup or  *)
(* in a halt; only a cleanup with auto-queue on makes it ready again by    *)
(* itself; and only the operator turns auto-queue on.                      *)
(***************************************************************************)
CONSTANTS Sessions, NoSession

VARIABLES
    stage,      \* idle, ready, running or cleaning
    holder,     \* the session that runs
    auto        \* auto-queue is on

vars == <<stage, holder, auto>>

Init == stage = "idle" /\ holder = NoSession /\ auto = FALSE

\* The operator admits one session, or switches auto-queue on at Home.
Admit ==
    /\ stage = "idle" /\ stage' = "ready"
    /\ auto' \in BOOLEAN
    /\ UNCHANGED holder

\* The operator switches auto-queue on at Zero.
AutoFromRest ==
    /\ stage = "idle" /\ stage' = "cleaning" /\ auto' = TRUE
    /\ UNCHANGED holder

Grant(s) ==
    /\ stage = "ready" /\ stage' = "running" /\ holder' = s
    /\ UNCHANGED auto

Finish ==
    /\ stage = "running" /\ stage' = "cleaning" /\ holder' = NoSession
    /\ UNCHANGED auto

Readmit ==
    /\ stage = "cleaning" /\ auto /\ stage' = "ready"
    /\ UNCHANGED <<holder, auto>>

Rest ==
    /\ stage = "cleaning" /\ ~auto /\ stage' = "idle"
    /\ UNCHANGED <<holder, auto>>

\* Pause, Hold, disconnect, fault, error, or a new process.
Halt == stage' = "idle" /\ holder' = NoSession /\ auto' = FALSE

Next ==
    \/ Admit \/ AutoFromRest \/ Finish \/ Readmit \/ Rest \/ Halt
    \/ \E s \in Sessions : Grant(s)

Spec == Init /\ [][Next]_vars
=============================================================================
