---------------------------- MODULE I2RTAdapter ----------------------------
(***************************************************************************)
(* The bimanual motor adapter, i2rt_bimanual_adapter.I2RTBimanualAdapter:  *)
(* two arms that are initialised, held, driven along a trajectory and      *)
(* released together.  Its methods run on the threads of the process that  *)
(* owns it (MotorWorker): one action per stretch of code between two       *)
(* acquisitions of _lock, or two reads of the stop and cancel events.      *)
(*                                                                         *)
(* A call in flight is c \in Calls and pc[c] is where its thread is.  A    *)
(* pair of drivers is a function from an arm to the launch that created    *)
(* its driver, 0 for none: a thread that still holds the drivers of an     *)
(* earlier launch can be told from one that holds the live ones.           *)
(*                                                                         *)
(* Abstracted: poses and targets (a pose that has moved too far, a goal    *)
(* that is not reached, a waypoint the guard refuses are choices), and     *)
(* what a fault says, to whether there is one.                             *)
(***************************************************************************)
EXTENDS Integers, FiniteSets

CONSTANTS Arms,           \* the two arms
          Calls,          \* identifiers of the calls in flight
          MaxLaunches,    \* bound: driver pairs ever created
          MaxBreakdowns   \* bound: failures of a motor chain

ASSUME SomeArm        == Arms # {}
ASSUME LaunchBound    == MaxLaunches \in Nat \ {0}
ASSUME BreakdownBound == MaxBreakdowns \in Nat

Nobody   == "nobody"
Reporter == "reporter"   \* the thread that publishes feedback
ASSUME ThreadsDiffer == {Nobody, Reporter} \cap Calls = {}

Pairs     == [Arms -> 0 .. MaxLaunches]
NoDrivers == [a \in Arms |-> 0]
Owned(d)  == {a \in Arms : d[a] # 0}
Keep(d, S) == [a \in Arms |-> IF a \in S THEN d[a] ELSE 0]
Merge(d, e) == [a \in Arms |-> IF e[a] # 0 THEN e[a] ELSE d[a]]

States == {"DISABLED", "INITIALIZING", "STOPPED", "EXECUTING", "STOPPING", "FAULT"}
Ready  == {"STOPPED", "EXECUTING"}

VARIABLES
    state, fault,          \* _state; whether _fault is set
    robots,                \* _robots
    torqueOffVerified,     \* torque_off_verified
    stopRequested,         \* _stop_requested
    recoveryAllowed,       \* recovery_allowed
    linkPaused,            \* the link guard has a pause to wait for
    lock, recoveryLock,    \* who holds _lock and _recovery_lock across steps
    reporter, seen,        \* where the feedback thread is; the drivers it read
    pc, at,                \* where a call is; where its recovery returns to
    cancel,                \* the call's cancel_event
    drivers,               \* the drivers in the call's local variables
    chain, torque,         \* the motors: health of a chain, whether it is powered
    abandoned,             \* arms that a factory powered without returning a driver
    launches, breakdowns   \* bounded counters

control == <<state, fault, torqueOffVerified>>
signals == <<stopRequested, recoveryAllowed, linkPaused>>
locks   == <<lock, recoveryLock>>
report  == <<reporter, seen>>
locals  == <<at, cancel, drivers>>
motors  == <<chain, torque, abandoned, launches, breakdowns>>
adapterVars == <<control, robots, signals, locks, report, pc, locals, motors>>

AdapterInit ==
    /\ state = "DISABLED" /\ fault = FALSE /\ torqueOffVerified = FALSE
    /\ robots = NoDrivers
    /\ stopRequested = FALSE /\ recoveryAllowed = FALSE /\ linkPaused = FALSE
    /\ lock = Nobody /\ recoveryLock = Nobody
    /\ reporter = "idle" /\ seen = NoDrivers
    /\ pc = [c \in Calls |-> "idle"] /\ at = [c \in Calls |-> "looping"]
    /\ cancel = [c \in Calls |-> FALSE] /\ drivers = [c \in Calls |-> NoDrivers]
    /\ chain = [a \in Arms |-> "ok"] /\ torque = [a \in Arms |-> FALSE]
    /\ abandoned = {}
    /\ launches = 0 /\ breakdowns = 0

----------------------------------------------------------------------------
(* Helpers.                                                                *)

Free == lock = Nobody
Cancelled(c) == stopRequested \/ cancel[c]
At(c, l)   == pc[c] = l
Goto(c, l) == pc' = [pc EXCEPT ![c] = l]

\* A thread that had to wait goes on where it was.
Resume(c) == Goto(c, at[c]) /\ at' = [at EXCEPT ![c] = "looping"]

\* The thread of a call returns and forgets its locals.
Return(c) ==
    /\ Goto(c, "idle")
    /\ at'      = [at EXCEPT ![c] = "looping"]
    /\ cancel'  = [cancel EXCEPT ![c] = FALSE]
    /\ drivers' = [drivers EXCEPT ![c] = NoDrivers]

\* It leaves _recover_before_motion, if it is inside.
LeaveRecovery(c) == recoveryLock' = IF recoveryLock = c THEN Nobody ELSE recoveryLock

\* What the health checks find out about drivers d: chains with a servo fault,
\* and chains that have stopped, a released or replaced driver's among them.
Faulty(d)  == {a \in Owned(d) : chain[a] = "servo"}
Dead(d)    == {a \in Owned(d) : \/ chain[a] = "dead" \/ ~torque[a]
                                \/ robots[a] \notin {0, d[a]}}
Healthy(d) == Owned(d) = Arms /\ Faulty(d) = {} /\ Dead(d) = {}

SetFault == state' = "FAULT" /\ fault' = TRUE /\ UNCHANGED torqueOffVerified

\* _retain_servo_fault_hold
RetainServoFaultHold ==
    /\ stopRequested' = TRUE
    /\ IF state \in {"DISABLED", "STOPPING"} THEN UNCHANGED control ELSE SetFault
    /\ UNCHANGED <<recoveryAllowed, linkPaused>>

----------------------------------------------------------------------------
(* launch(), which holds _lock throughout.                                 *)

\* Idempotent when both arms are already held.
LaunchHeld(c) ==
    /\ At(c, "launch") /\ Free /\ ~cancel[c] /\ state = "STOPPED"
    /\ IF Healthy(robots)
         THEN Goto(c, "launched") /\ UNCHANGED <<control, locals>>
         ELSE SetFault /\ Return(c)
    /\ UNCHANGED <<robots, signals, locks, report, motors>>

LaunchRefused(c) ==
    /\ At(c, "launch") /\ Free
    /\ \/ cancel[c]
       \/ state \in {"EXECUTING", "STOPPING", "INITIALIZING"}
       \/ state = "FAULT" /\ Owned(robots) # {}
    /\ Return(c)
    /\ UNCHANGED <<control, robots, signals, locks, report, motors>>

LaunchBegin(c) ==
    /\ At(c, "launch") /\ Free /\ ~cancel[c]
    /\ state \in {"DISABLED", "FAULT"} /\ (state = "FAULT" => Owned(robots) = {})
    /\ launches < MaxLaunches
    /\ torqueOffVerified' = FALSE /\ state' = "INITIALIZING" /\ fault' = FALSE
    /\ stopRequested' = FALSE
    /\ lock' = c /\ launches' = launches + 1
    /\ Goto(c, "initializing")
    /\ UNCHANGED <<robots, recoveryAllowed, linkPaused, recoveryLock, report, locals,
                   chain, torque, abandoned, breakdowns>>

\* The factory powers an arm and returns its driver (the left one first: nothing
\* depends on it); a cancellation is seen before the next one.
LaunchArm(c, a) ==
    /\ At(c, "initializing") /\ drivers[c][a] = 0
    /\ Owned(drivers[c]) # {} => ~cancel[c]
    /\ drivers' = [drivers EXCEPT ![c][a] = launches]
    /\ torque' = [torque EXCEPT ![a] = TRUE]
    /\ chain' = [chain EXCEPT ![a] = "ok"]
    /\ abandoned' = abandoned \ {a}
    /\ UNCHANGED <<control, robots, signals, locks, report, pc, at, cancel, launches, breakdowns>>

LaunchDone(c) ==
    /\ At(c, "initializing") /\ Owned(drivers[c]) = Arms /\ ~cancel[c]
    /\ Healthy(drivers[c])
    /\ robots' = drivers[c]
    /\ state' = "STOPPED" /\ lock' = Nobody
    /\ Goto(c, "launched")
    /\ UNCHANGED <<fault, torqueOffVerified, signals, recoveryLock, report, locals, motors>>

\* The arm that the factory powers before it raises, if it does (startup of the CAN
\* thread, the wrist's gain): no driver is returned, so none is in `created`.
RaisedArms(c) ==
    {S \in SUBSET (Arms \ Owned(drivers[c])) :
        /\ \A a, b \in S : a = b
        /\ S # {} => Owned(drivers[c]) = {} \/ ~cancel[c]}

\* Mutant: the acknowledgements of the shutdown are not looked at.
LaunchFailedUnacknowledged(c) ==
    LET created == Owned(drivers[c]) IN
    /\ At(c, "initializing")
    /\ \E failed \in SUBSET created, raised \in RaisedArms(c) :
         /\ robots' = Keep(drivers[c], failed)
         /\ torque' = [a \in Arms |-> a \in raised \/ (torque[a] /\ a \notin created \ failed)]
         /\ abandoned' = abandoned \cup raised
    /\ torqueOffVerified' = (created # {})
    /\ state' = "FAULT" /\ fault' = TRUE /\ lock' = Nobody
    /\ Return(c)
    /\ UNCHANGED <<signals, recoveryLock, report, chain, launches, breakdowns>>

\* Any step of it fails or is cancelled: what was created is disabled again, and
\* nothing else is.
LaunchFailed(c) ==
    LET created == Owned(drivers[c]) IN
    /\ At(c, "initializing")
    /\ \E failed \in SUBSET created, raised \in RaisedArms(c) :
         /\ robots' = Keep(drivers[c], failed)
         /\ torqueOffVerified' = (created # {} /\ failed = {})
         /\ torque' = [a \in Arms |-> a \in raised \/ (torque[a] /\ a \notin created \ failed)]
         /\ abandoned' = abandoned \cup raised
    /\ state' = "FAULT" /\ fault' = TRUE /\ lock' = Nobody
    /\ Return(c)
    /\ UNCHANGED <<signals, recoveryLock, report, chain, launches, breakdowns>>

----------------------------------------------------------------------------
(* execute().                                                              *)

ExecuteRefused(c) ==
    /\ At(c, "execute") /\ Free /\ recoveryLock = Nobody
    /\ cancel[c] \/ state # "STOPPED" \/ Owned(robots) # Arms
    /\ Return(c)
    /\ UNCHANGED <<control, robots, signals, locks, report, motors>>

ExecuteBegin(c) ==
    /\ At(c, "execute") /\ Free /\ recoveryLock = Nobody
    /\ ~cancel[c] /\ state = "STOPPED" /\ Owned(robots) = Arms
    /\ drivers' = [drivers EXCEPT ![c] = robots]
    /\ state' = "EXECUTING" /\ stopRequested' = FALSE
    /\ Goto(c, "checking")
    /\ UNCHANGED <<fault, torqueOffVerified, robots, recoveryAllowed, linkPaused, locks,
                   report, at, cancel, motors>>

\* Where the two arms are, and whether the grippers may follow the trajectory.
Check(c) ==
    /\ At(c, "checking") /\ Faulty(drivers[c]) = {}
    /\ \/ Dead(drivers[c]) = {} /\ Goto(c, "looping")
       \/ Goto(c, "failed")
    /\ UNCHANGED <<control, robots, signals, locks, report, locals, motors>>

\* The top of the loop over the waypoints: the next one is validated, if the
\* caller validates, or refused; whatever a callback raises ends the motion.
NextWaypoint(c) ==
    /\ At(c, "looping") /\ ~Cancelled(c) /\ ~linkPaused
    /\ \E l \in {"prepared", "rejected", "failed", "interrupted"} : Goto(c, l)
    /\ UNCHANGED <<control, robots, signals, locks, report, locals, motors>>

\* The last one is out: wait until the arms have settled.
LastWaypoint(c) ==
    /\ At(c, "looping") /\ ~Cancelled(c)
    /\ Goto(c, "settling")
    /\ UNCHANGED <<control, robots, signals, locks, report, locals, motors>>

\* Mutant: only the stop event is watched, not the cancel event of the call.
InterruptByStop(c) ==
    /\ pc[c] \in {"looping", "settling", "paused", "recovering"}
    /\ stopRequested
    /\ LeaveRecovery(c)
    /\ Goto(c, "interrupted")
    /\ UNCHANGED <<control, robots, signals, lock, report, locals, motors>>

\* The loop, the callbacks, the settling and a recovery all watch for Stop.
Interrupt(c) ==
    /\ pc[c] \in {"looping", "settling", "paused", "recovering"}
    /\ Cancelled(c)
    /\ LeaveRecovery(c)
    /\ Goto(c, "interrupted")
    /\ UNCHANGED <<control, robots, signals, lock, report, locals, motors>>

\* _recover_before_motion with nothing to recover: the waypoint may go out.
Clear(c) ==
    /\ At(c, "prepared") /\ recoveryLock = Nobody
    /\ ~linkPaused /\ Healthy(robots)
    /\ Goto(c, "cleared")
    /\ UNCHANGED <<control, robots, signals, locks, report, locals, motors>>

\* A stopped chain, or drivers that another thread has popped.
HealthLost(c) ==
    /\ pc[c] \in {"prepared", "settling"} /\ recoveryLock = Nobody /\ ~linkPaused
    /\ \/ Owned(robots) # Arms
       \/ Faulty(robots) = {} /\ Dead(robots) # {}
    /\ Goto(c, "failed")
    /\ UNCHANGED <<control, robots, signals, locks, report, locals, motors>>

\* The link guard blocks the thread until MotorWorker's pause ends, inside
\* _recover_before_motion with _recovery_lock held.
PauseForLink(c) ==
    /\ linkPaused
    /\ \/ pc[c] \in {"looping", "prepared"} /\ ~(At(c, "looping") /\ Cancelled(c))
          /\ UNCHANGED recoveryLock
       \/ pc[c] \in {"prepared", "settling"} /\ recoveryLock = Nobody /\ recoveryLock' = c
       \/ At(c, "checking") /\ Faulty(drivers[c]) # {}
          /\ recoveryLock = Nobody /\ recoveryLock' = c
    /\ at' = [at EXCEPT ![c] = pc[c]]
    /\ Goto(c, "paused")
    /\ UNCHANGED <<control, robots, signals, lock, report, cancel, drivers, motors>>

\* A servo fault pauses both arms, if the driver can still recover from it.
RecoveryBegin(c) ==
    /\ pc[c] \in {"checking", "prepared", "settling"} /\ ~linkPaused
    /\ recoveryLock = Nobody
    /\ IF pc[c] = "checking" THEN Faulty(drivers[c]) # {} ELSE Faulty(robots) # {}
    /\ IF Owned(robots) # Arms THEN Goto(c, "failed") /\ UNCHANGED <<at, recoveryLock>>
       ELSE \/ Goto(c, "servo") /\ UNCHANGED <<at, recoveryLock>>
            \/ /\ Goto(c, "recovering") /\ recoveryLock' = c
               /\ at' = [at EXCEPT ![c] = pc[c]]
    /\ UNCHANGED <<control, robots, signals, lock, report, cancel, drivers, motors>>

\* The resume target goes out under _lock, if the thread still has the arms.
RecoveryResumes(c) ==
    /\ At(c, "recovering") /\ Free /\ recoveryLock' = Nobody
    /\ IF state # "EXECUTING" \/ Cancelled(c)
         THEN Goto(c, "interrupted") /\ UNCHANGED <<chain, at>>
         ELSE /\ \A a \in Arms : chain[a] # "dead"
              /\ chain' = [a \in Arms |-> "ok"] /\ Resume(c)
    /\ UNCHANGED <<control, robots, signals, lock, report, cancel, drivers, torque, abandoned,
                   launches, breakdowns>>

RecoveryFails(c) ==
    /\ At(c, "recovering") /\ recoveryLock' = Nobody
    /\ Goto(c, "servo")
    /\ UNCHANGED <<control, robots, signals, lock, report, locals, motors>>

\* Mutant: the check under the lock, just before the dispatch, is missing.
DispatchUnchecked(c) ==
    /\ At(c, "cleared") /\ Free
    /\ Goto(c, "looping")
    /\ UNCHANGED <<control, robots, signals, locks, report, locals, motors>>

\* Both arms are commanded, unless Stop came first.
Dispatch(c) ==
    /\ At(c, "cleared") /\ Free
    /\ Goto(c, IF Cancelled(c) THEN "interrupted" ELSE "looping")
    /\ UNCHANGED <<control, robots, signals, locks, report, locals, motors>>

\* The target is reached, or is not reached in time; or the feedback is invalid.
Settle(c) ==
    /\ At(c, "settling") /\ ~Cancelled(c) /\ ~linkPaused /\ recoveryLock = Nobody
    /\ Healthy(robots)
    /\ \E l \in {"settled", "failed"} : Goto(c, l)
    /\ UNCHANGED <<control, robots, signals, locks, report, locals, motors>>

\* Settled or not, the state becomes STOPPED whatever it has become meanwhile
\* (every caller in src/ passes disable_on_settle_timeout=False).
Settled(c) ==
    /\ At(c, "settled") /\ Free
    /\ state' = "STOPPED"
    /\ Return(c)
    /\ UNCHANGED <<fault, torqueOffVerified, robots, signals, locks, report, motors>>

----------------------------------------------------------------------------
(* execute(): its exception handlers.                                      *)

\* ServoFaultHolding: latch the fault, hold both arms.
HoldServoFault(c) ==
    /\ At(c, "servo") /\ Free
    /\ RetainServoFaultHold
    /\ Return(c)
    /\ UNCHANGED <<robots, locks, report, motors>>

\* TrajectoryInterrupted: the drivers keep their last target.
HoldInterrupted(c) ==
    /\ At(c, "interrupted") /\ Free
    /\ state' = IF state = "EXECUTING" THEN "STOPPED" ELSE state
    /\ Return(c)
    /\ UNCHANGED <<fault, torqueOffVerified, robots, signals, locks, report, motors>>

\* WaypointSafetyRejected.
HoldRejected(c) ==
    /\ At(c, "rejected") /\ Free
    /\ state' = IF state # "DISABLED" THEN "STOPPED" ELSE state
    /\ Return(c)
    /\ UNCHANGED <<fault, torqueOffVerified, robots, signals, locks, report, motors>>

\* Anything else: take the drivers and release them, outside _lock.
FailBegin(c) ==
    /\ At(c, "failed") /\ Free
    /\ drivers' = [drivers EXCEPT ![c] = robots]
    /\ robots' = NoDrivers
    /\ IF stopRequested /\ state \in {"DISABLED", "STOPPING"}
         THEN UNCHANGED control ELSE SetFault
    /\ Goto(c, "disabling")
    /\ UNCHANGED <<signals, locks, report, at, cancel, motors>>

\* _disable_pairs: every arm is tried, the ones not acknowledged are retained.
DisablePairs(c, next) ==
    \E failed \in SUBSET Owned(drivers[c]) :
        /\ torque' = [a \in Arms |-> torque[a] /\ a \notin Owned(drivers[c]) \ failed]
        /\ drivers' = [drivers EXCEPT ![c] = Keep(drivers[c], failed)]
        /\ Goto(c, next)
        /\ UNCHANGED <<control, robots, signals, locks, report, at, cancel, chain,
                       abandoned, launches, breakdowns>>

FailDisable(c) == At(c, "disabling") /\ DisablePairs(c, "disabled")

\* Mutant: drivers that did not acknowledge are forgotten.
FailEndForgets(c) ==
    /\ At(c, "disabled") /\ Free
    /\ IF Owned(drivers[c]) # {} THEN SetFault ELSE UNCHANGED control
    /\ Return(c)
    /\ UNCHANGED <<robots, signals, locks, report, motors>>

FailEnd(c) ==
    /\ At(c, "disabled") /\ Free
    /\ robots' = Merge(robots, drivers[c])
    /\ IF Owned(drivers[c]) # {} THEN SetFault ELSE UNCHANGED control
    /\ Return(c)
    /\ UNCHANGED <<signals, locks, report, motors>>

----------------------------------------------------------------------------
(* stop(), hold().                                                         *)

StopRequest(c) ==
    /\ At(c, "stop")
    /\ stopRequested' = TRUE
    /\ Goto(c, "stopping")
    /\ UNCHANGED <<control, robots, recoveryAllowed, linkPaused, locks, report, locals, motors>>

StopRefused(c) ==
    /\ At(c, "stopping") /\ Free
    /\ \/ state = "STOPPING"
       \/ Owned(robots) = {} /\ (~torqueOffVerified \/ state = "FAULT")
    /\ Return(c)
    /\ UNCHANGED <<control, robots, signals, locks, report, motors>>

\* Mutant: the drivers are released but not taken out of _robots.
StopBeginKeepsDrivers(c) ==
    /\ At(c, "stopping") /\ Free
    /\ state # "STOPPING" /\ (Owned(robots) = {} => torqueOffVerified /\ state # "FAULT")
    /\ drivers' = [drivers EXCEPT ![c] = robots]
    /\ torqueOffVerified' = FALSE /\ state' = "STOPPING" /\ fault' = FALSE
    /\ Goto(c, "releasing")
    /\ UNCHANGED <<robots, signals, locks, report, at, cancel, motors>>

StopBegin(c) ==
    /\ At(c, "stopping") /\ Free
    /\ state # "STOPPING"
    /\ Owned(robots) = {} => torqueOffVerified /\ state # "FAULT"
    /\ drivers' = [drivers EXCEPT ![c] = robots]
    /\ robots' = NoDrivers
    /\ torqueOffVerified' = FALSE /\ state' = "STOPPING" /\ fault' = FALSE
    /\ Goto(c, "releasing")
    /\ UNCHANGED <<signals, locks, report, at, cancel, motors>>

StopDisable(c) == At(c, "releasing") /\ DisablePairs(c, "released")

StopFailed(c) ==
    /\ At(c, "released") /\ Free /\ Owned(drivers[c]) # {}
    /\ robots' = Merge(robots, drivers[c])
    /\ SetFault
    /\ Return(c)
    /\ UNCHANGED <<signals, locks, report, motors>>

StopDone(c) ==
    /\ At(c, "released") /\ Free /\ Owned(drivers[c]) = {}
    /\ state' = "DISABLED" /\ torqueOffVerified' = TRUE
    /\ Goto(c, "stopped")
    /\ UNCHANGED <<fault, robots, signals, locks, report, locals, motors>>

Hold(c) ==
    /\ At(c, "hold") /\ Free
    /\ stopRequested' = TRUE
    /\ IF state \in Ready /\ ~Healthy(robots) THEN SetFault ELSE UNCHANGED control
    /\ Return(c)
    /\ UNCHANGED <<robots, recoveryAllowed, linkPaused, locks, report, motors>>

----------------------------------------------------------------------------
(* snapshot(), which the feedback thread calls, and its idle recovery.     *)

ReportBegin ==
    /\ reporter = "idle" /\ Free
    /\ state \in Ready /\ Owned(robots) = Arms
    /\ reporter' = "reading" /\ seen' = robots
    /\ UNCHANGED <<control, robots, signals, locks, pc, locals, motors>>

\* A servo fault is left to a running trajectory to recover from.
ReportEnd ==
    /\ reporter = "reading"
    /\ Dead(seen) = {} /\ (Faulty(seen) # {} => state = "EXECUTING")
    /\ reporter' = "idle" /\ seen' = NoDrivers
    /\ UNCHANGED <<control, robots, signals, locks, pc, locals, motors>>

ReportFault ==
    /\ reporter = "reading"
    /\ \/ Faulty(seen) # {} /\ state # "EXECUTING" /\ reporter' = "servo"
       \/ reporter' = "failed"   \* a stopped chain, or invalid feedback
    /\ UNCHANGED <<control, robots, signals, locks, seen, pc, locals, motors>>

ReportRecoveryBegin ==
    /\ reporter = "reading" /\ recoveryLock = Nobody
    /\ state = "STOPPED" /\ recoveryAllowed
    /\ Faulty(robots) # {}
    /\ IF Owned(robots) = Arms
         THEN reporter' = "recovering" /\ recoveryLock' = Reporter
         ELSE reporter' = "failed" /\ UNCHANGED recoveryLock
    /\ UNCHANGED <<control, robots, signals, lock, seen, pc, locals, motors>>

\* Resuming a hold is refused once Stop, a motion or a new owner came first;
\* a refusal that interrupts the reading counts as invalid feedback.
ReportRecoveryEnd ==
    /\ reporter = "recovering" /\ Free /\ recoveryLock' = Nobody
    /\ IF state = "STOPPED" /\ recoveryAllowed /\ ~stopRequested
         THEN /\ \A a \in Arms : chain[a] # "dead"
              /\ chain' = [a \in Arms |-> "ok"] /\ reporter' = "reading"
         ELSE reporter' = "failed" /\ UNCHANGED chain
    /\ UNCHANGED <<control, robots, signals, lock, seen, pc, locals, torque, abandoned,
                   launches, breakdowns>>

ReportRecoveryFails ==
    /\ reporter = "recovering" /\ recoveryLock' = Nobody
    /\ reporter' = "servo"
    /\ UNCHANGED <<control, robots, signals, lock, seen, pc, locals, motors>>

ReportHold ==
    /\ reporter = "servo" /\ Free
    /\ RetainServoFaultHold
    /\ reporter' = "idle" /\ seen' = NoDrivers
    /\ UNCHANGED <<robots, locks, pc, locals, motors>>

ReportFailed ==
    /\ reporter = "failed" /\ Free
    /\ IF state \in Ready
         THEN SetFault /\ stopRequested' = TRUE
         ELSE UNCHANGED <<control, stopRequested>>
    /\ reporter' = "idle" /\ seen' = NoDrivers
    /\ UNCHANGED <<robots, recoveryAllowed, linkPaused, locks, pc, locals, motors>>

----------------------------------------------------------------------------
(* The motors (external): a powered chain reports a servo fault, or stops. *)

Breakdown ==
    /\ breakdowns < MaxBreakdowns
    /\ \E a \in Arms, h \in {"servo", "dead"} :
         torque[a] /\ chain[a] = "ok" /\ chain' = [chain EXCEPT ![a] = h]
    /\ breakdowns' = breakdowns + 1
    /\ UNCHANGED <<control, robots, signals, locks, report, pc, locals, torque, abandoned, launches>>

----------------------------------------------------------------------------

LaunchStep(c) ==
    \/ LaunchHeld(c) \/ LaunchRefused(c) \/ LaunchBegin(c)
    \/ \E a \in Arms : LaunchArm(c, a)
    \/ LaunchDone(c) \/ LaunchFailed(c)

ExecuteStep(c) ==
    \/ ExecuteRefused(c) \/ ExecuteBegin(c) \/ Check(c) \/ NextWaypoint(c)
    \/ LastWaypoint(c) \/ Interrupt(c) \/ Clear(c) \/ HealthLost(c) \/ PauseForLink(c)
    \/ RecoveryBegin(c) \/ RecoveryResumes(c) \/ RecoveryFails(c)
    \/ Dispatch(c) \/ Settle(c) \/ Settled(c)
    \/ HoldServoFault(c) \/ HoldInterrupted(c) \/ HoldRejected(c)
    \/ FailBegin(c) \/ FailDisable(c) \/ FailEnd(c)

StopStep(c) ==
    \/ StopRequest(c) \/ StopRefused(c) \/ StopBegin(c) \/ StopDisable(c)
    \/ StopFailed(c) \/ StopDone(c) \/ Hold(c)

ReportStep ==
    \/ ReportBegin \/ ReportEnd \/ ReportFault \/ ReportRecoveryBegin
    \/ ReportRecoveryEnd \/ ReportRecoveryFails \/ ReportHold \/ ReportFailed

AdapterTypeOK ==
    /\ state \in States /\ fault \in BOOLEAN /\ torqueOffVerified \in BOOLEAN
    /\ robots \in Pairs /\ seen \in Pairs
    /\ stopRequested \in BOOLEAN /\ recoveryAllowed \in BOOLEAN /\ linkPaused \in BOOLEAN
    /\ lock \in Calls \cup {Nobody} /\ recoveryLock \in Calls \cup {Nobody, Reporter}
    /\ reporter \in {"idle", "reading", "recovering", "servo", "failed"}
    /\ at \in [Calls -> {"checking", "looping", "prepared", "settling"}]
    /\ cancel \in [Calls -> BOOLEAN] /\ drivers \in [Calls -> Pairs]
    /\ chain \in [Arms -> {"ok", "servo", "dead"}] /\ torque \in [Arms -> BOOLEAN]
    /\ abandoned \subseteq Arms
    /\ launches \in 0 .. MaxLaunches /\ breakdowns \in 0 .. MaxBreakdowns
=============================================================================
