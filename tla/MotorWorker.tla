---------------------------- MODULE MotorWorker ----------------------------
(***************************************************************************)
(* The motor process, motor_worker.Worker with operator_link_pause: it     *)
(* owns the adapter, takes the operator's calls off a pipe and runs each   *)
(* on a thread of its own, cancels them for Hold and Stop, watches the     *)
(* operator's heartbeats, pauses a motion while they are late and latches  *)
(* a link fault when they stay away.                                       *)
(*                                                                         *)
(* The operator (IsolatedAdapter and its callers) is the environment: any  *)
(* call may arrive whenever a slot is free, any call may be cancelled.     *)
(* link is how fresh the heartbeats are: "ready" (under 0.3 s and stable   *)
(* for 1 s), "expired" (over LINK_TIMEOUT), or "unsteady", in between.     *)
(* Once the transport has failed nobody looks at their age: "expired".     *)
(***************************************************************************)
EXTENDS I2RTAdapter

CONSTANTS MaxRecoveries,   \* OperatorLinkPause.MAX_RECOVERIES
          Overlap          \* TRUE: the operator may launch or move the arms
                           \* while the worker still runs such a call, or Stop

ASSUME RecoveryBound == MaxRecoveries \in Nat
ASSUME OverlapIsBoolean == Overlap \in BOOLEAN

VARIABLES link,         \* age and stability of the heartbeats
          transport,    \* "up", or "failed" for good
          linkFault,    \* link_fault is set
          pauses,       \* OperatorLinkPause.count
          monitor,      \* "watching"; inside latch_link_fault, "latching" before
                        \* and "faulting" after it has cancelled the calls
          slipped       \* the calls taken in while this fault was being latched
                        \* and their cancellations were over

linkVars   == <<link, transport, linkFault, pauses, monitor, slipped>>
workerVars == <<adapterVars, linkVars>>

LaunchPcs  == {"launch", "initializing", "launched"}
ExecutePcs == {"execute", "checking", "looping", "prepared", "cleared", "paused",
               "recovering", "settling", "settled", "servo", "interrupted", "rejected",
               "failed", "disabling", "disabled"}
StopPcs    == {"stop", "stopping", "releasing", "released", "stopped"}
Locations  == {"idle", "hold", "recover_link"}
              \cup LaunchPcs \cup ExecutePcs \cup StopPcs

Active  == {c \in Calls : pc[c] # "idle"}
Urgent  == {c \in Calls : pc[c] \in StopPcs \cup {"hold"}}
\* The calls that recover_operator_link(), and an orderly operator, wait for.
Motions == {c \in Calls : pc[c] \in LaunchPcs \cup ExecutePcs \cup StopPcs \cup {"recover_link"}}

TypeOK ==
    /\ AdapterTypeOK
    /\ pc \in [Calls -> Locations]
    /\ link \in {"ready", "unsteady", "expired"}
    /\ transport \in {"up", "failed"} /\ linkFault \in BOOLEAN
    /\ pauses \in 0 .. MaxRecoveries
    /\ monitor \in {"watching", "latching", "faulting"} /\ slipped \subseteq Calls

Init ==
    /\ AdapterInit
    /\ link = "unsteady" /\ transport = "up" /\ linkFault = FALSE
    /\ pauses = 0 /\ monitor = "watching" /\ slipped = {}

----------------------------------------------------------------------------
(* Receiving, on the main thread.                                          *)

\* A call that is accepted takes a slot (Calls are the slots).  run_call refuses
\* motion under a link fault, and link recovery without one or beside a motion.
\* A link fault that is being latched refuses nothing, and has cancelled before.
Receive(c, m) ==
    /\ At(c, "idle")
    /\ \/ m \in {"launch", "execute"} /\ ~linkFault /\ transport = "up"
          /\ (Overlap \/ Motions = {})
       \/ m = "recover_link" /\ linkFault /\ transport = "up" /\ link = "ready"
          /\ Motions = {}
    /\ Goto(c, m)
    /\ slipped' = IF monitor = "faulting" THEN slipped \cup {c} ELSE slipped \ {c}
    /\ UNCHANGED <<control, robots, signals, locks, report, locals, motors,
                   link, transport, linkFault, pauses, monitor>>

\* set_recovery_allowed: not while a link fault is latched.
SetRecoveryAllowed(b) ==
    /\ b => ~linkFault
    /\ recoveryAllowed # b /\ recoveryAllowed' = b
    /\ UNCHANGED <<control, robots, stopRequested, linkPaused, locks, report, pc, locals,
                   motors, linkVars>>

\* Hold and Stop cancel everything that can be cancelled before they get a
\* thread, and also if there is none left: two urgent slots, not all of Calls.
CancelActive == [c \in Calls |-> cancel[c] \/ c \in Active \ Urgent]

ReceiveUrgent(c, m) ==
    /\ At(c, "idle") /\ Goto(c, m)
    /\ stopRequested' = TRUE /\ cancel' = CancelActive /\ slipped' = slipped \ {c}
    /\ UNCHANGED <<control, robots, recoveryAllowed, linkPaused, locks, report, at, drivers,
                   motors, link, transport, linkFault, pauses, monitor>>

RefuseUrgent ==
    /\ Urgent # {}
    /\ stopRequested' = TRUE /\ cancel' = CancelActive
    /\ UNCHANGED <<control, robots, recoveryAllowed, linkPaused, locks, report, pc, at,
                   drivers, motors, linkVars>>

\* A cancel message of the operator.
CancelCall(c) ==
    /\ c \in Active \ Urgent
    /\ cancel' = [cancel EXCEPT ![c] = TRUE]
    /\ UNCHANGED <<control, robots, signals, locks, report, pc, at, drivers, motors, linkVars>>

----------------------------------------------------------------------------
(* run_call, around the adapter's methods.                                 *)

\* A launch starts a new pause budget; a verified Stop also ends the link fault.
AfterLaunchOrStop(c) ==
    /\ pc[c] \in {"launched", "stopped"}
    /\ IF pc[c] = "launched" \/ torqueOffVerified
         THEN linkPaused' = FALSE /\ pauses' = 0
         ELSE UNCHANGED <<linkPaused, pauses>>
    /\ linkFault' = (linkFault /\ ~(pc[c] = "stopped" /\ torqueOffVerified))
    /\ slipped' = IF linkFault /\ ~linkFault' THEN {} ELSE slipped
    /\ Return(c)
    /\ UNCHANGED <<control, robots, stopRequested, recoveryAllowed, locks, report, motors,
                   link, transport, monitor>>

\* recover_operator_link, under the adapter's lock: the measured hold of both
\* arms (hold_measured) ends the link fault and starts a new pause budget.
RecoverLink(c) ==
    LET granted == state = "STOPPED" /\ ~fault /\ Owned(robots) = Arms
                   /\ ~cancel[c] /\ transport = "up" /\ link = "ready" IN
    /\ At(c, "recover_link") /\ Free
    /\ IF granted
         THEN IF Healthy(robots)
                THEN /\ stopRequested' = FALSE /\ linkFault' = FALSE
                     /\ linkPaused' = FALSE /\ pauses' = 0 /\ recoveryAllowed' = FALSE
                     /\ slipped' = IF linkFault THEN {} ELSE slipped
                ELSE /\ stopRequested' = TRUE
                     /\ UNCHANGED <<linkFault, linkPaused, pauses, recoveryAllowed, slipped>>
         ELSE UNCHANGED <<signals, linkFault, pauses, slipped>>
    /\ Return(c)
    /\ UNCHANGED <<control, robots, locks, report, motors, link, transport, monitor>>

----------------------------------------------------------------------------
(* latch_link_fault and the link pause.                                    *)

Holding == Owned(robots) # {} \/ state = "INITIALIZING"

\* Three sections: the stop flag; the calls' cancel events, under the lock; the fault.
LatchBegin ==
    /\ ~linkFault
    /\ monitor' = "latching"
    /\ stopRequested' = TRUE /\ recoveryAllowed' = FALSE

LatchCancel ==
    /\ monitor = "latching" /\ monitor' = "faulting"
    /\ cancel' = CancelActive
    /\ UNCHANGED <<control, robots, signals, locks, report, pc, at, drivers, motors,
                   link, transport, linkFault, pauses, slipped>>

LatchEnd ==
    /\ monitor = "faulting" /\ monitor' = "watching"
    /\ linkFault' = (linkFault \/ Holding)
    /\ slipped' = IF linkFault' THEN slipped ELSE {}
    /\ UNCHANGED <<adapterVars, link, transport, pauses>>

\* Mutant: request() does not count its pauses against the budget.
MonitorExpiredUnlimited ==
    /\ monitor = "watching" /\ link = "expired" /\ transport = "up"
    /\ IF Owned(robots) # {} /\ state \in Ready
         THEN /\ ~linkPaused /\ linkPaused' = TRUE /\ pauses' = pauses + 1
              /\ UNCHANGED <<stopRequested, recoveryAllowed, monitor>>
         ELSE LatchBegin /\ UNCHANGED <<linkPaused, pauses>>
    /\ UNCHANGED <<control, robots, locks, report, pc, locals, motors, link, transport,
                   linkFault, slipped>>

\* OperatorLinkPause.request: pause, unless the budget is used up.  A link fault that
\* is latched already is not latched again, but pauses are still counted.
MonitorExpired ==
    /\ monitor = "watching" /\ link = "expired" /\ transport = "up"
    /\ IF Owned(robots) # {} /\ state \in Ready
         THEN /\ ~linkPaused
              /\ IF pauses >= MaxRecoveries
                   THEN LatchBegin /\ UNCHANGED <<linkPaused, pauses>>
                   ELSE /\ linkPaused' = TRUE /\ pauses' = pauses + 1
                        /\ UNCHANGED <<stopRequested, recoveryAllowed, monitor>>
         ELSE LatchBegin /\ UNCHANGED <<linkPaused, pauses>>
    /\ UNCHANGED <<control, robots, locks, report, pc, locals, motors, link, transport,
                   linkFault, slipped>>

MonitorTransport ==
    /\ monitor = "watching" /\ transport = "failed"
    /\ LatchBegin
    /\ UNCHANGED <<control, robots, linkPaused, locks, report, pc, locals, motors, link,
                   transport, linkFault, pauses, slipped>>

\* Mutant: poll() waits for the transport to fail.
MonitorPauseExpiredLate ==
    /\ monitor = "watching" /\ linkPaused
    /\ transport = "failed"
    /\ LatchBegin
    /\ UNCHANGED <<control, robots, linkPaused, locks, report, pc, locals, motors, link,
                   transport, linkFault, pauses, slipped>>

\* A pause that outlives MAX_PAUSE_S without the link becoming ready.
MonitorPauseExpired ==
    /\ monitor = "watching" /\ linkPaused
    /\ link # "ready"
    /\ LatchBegin
    /\ UNCHANGED <<control, robots, linkPaused, locks, report, pc, locals, motors, link,
                   transport, linkFault, pauses, slipped>>

\* A callback that gets no answer pauses the link, and in the end latches it; under a
\* link fault it ends the motion at once.
CallbackLate(c) ==
    /\ At(c, "looping") /\ ~Cancelled(c) /\ ~linkPaused
    /\ IF pauses < MaxRecoveries
         THEN /\ linkPaused' = TRUE /\ pauses' = pauses + 1
              /\ UNCHANGED <<stopRequested, recoveryAllowed, monitor>>
         ELSE /\ \/ monitor = "watching" /\ LatchBegin
                 \/ linkFault /\ UNCHANGED <<stopRequested, recoveryAllowed, monitor>>
              /\ UNCHANGED <<linkPaused, pauses>>
    /\ IF linkFault THEN Goto(c, "interrupted") ELSE UNCHANGED pc
    /\ UNCHANGED <<control, robots, locks, report, locals, motors, link, transport,
                   linkFault, slipped>>

\* The guard lets a paused motion go on: both arms verified near where they
\* were, the validator asked again, the link still ready afterwards.
LinkResumes(c) ==
    /\ At(c, "paused") /\ ~Cancelled(c) /\ ~linkFault
    /\ link = "ready" /\ transport = "up" /\ Healthy(robots)
    /\ linkPaused' = FALSE
    /\ Resume(c) /\ LeaveRecovery(c)
    /\ UNCHANGED <<control, robots, stopRequested, recoveryAllowed, lock, report, cancel,
                   drivers, motors, linkVars>>

\* Or it does not: the arms moved or faulted, the validator refuses, the
\* drivers are gone, or the link has failed meanwhile.
LinkRefuses(c) ==
    /\ At(c, "paused")
    /\ \/ link = "ready"
          /\ \E l \in {"servo", "rejected", "failed", "interrupted"} : Goto(c, l)
       \/ linkFault /\ Goto(c, "interrupted")
    /\ LeaveRecovery(c)
    /\ UNCHANGED <<control, robots, signals, lock, report, locals, motors, linkVars>>

----------------------------------------------------------------------------
(* The operator's process (external): heartbeats, silence, a broken pipe.  *)

Heartbeat ==
    /\ transport = "up" /\ link # "ready"
    /\ link' = IF link = "expired" THEN "unsteady" ELSE "ready"
    /\ UNCHANGED <<adapterVars, transport, linkFault, pauses, monitor, slipped>>

Silence ==
    /\ link # "expired"
    /\ link' = IF link = "ready" THEN "unsteady" ELSE "expired"
    /\ UNCHANGED <<adapterVars, transport, linkFault, pauses, monitor, slipped>>

TransportFails ==
    /\ transport = "up" /\ transport' = "failed" /\ link' = "expired"
    /\ UNCHANGED <<adapterVars, linkFault, pauses, monitor, slipped>>

----------------------------------------------------------------------------

AdapterStep(c) == (LaunchStep(c) \/ ExecuteStep(c) \/ StopStep(c)) /\ UNCHANGED linkVars

CallStep(c) ==
    \/ AdapterStep(c)
    \/ AfterLaunchOrStop(c) \/ RecoverLink(c)
    \/ CallbackLate(c) \/ LinkResumes(c) \/ LinkRefuses(c)

MonitorStep == LatchCancel \/ LatchEnd \/ MonitorExpired \/ MonitorTransport \/ MonitorPauseExpired

Environment ==
    \/ \E c \in Calls : \/ \E m \in {"launch", "execute", "recover_link"} : Receive(c, m)
                        \/ \E m \in {"hold", "stop"} : ReceiveUrgent(c, m)
    \/ RefuseUrgent \/ \E c \in Calls : CancelCall(c)
    \/ \E b \in BOOLEAN : SetRecoveryAllowed(b)
    \/ Heartbeat \/ Silence \/ TransportFails
    \/ Breakdown /\ UNCHANGED linkVars

Next ==
    \/ \E c \in Calls : CallStep(c)
    \/ ReportStep /\ UNCHANGED linkVars
    \/ MonitorStep
    \/ Environment

Spec == Init /\ [][Next]_workerVars

\* Every thread of the worker keeps running, and the lock is not held for ever.  A
\* trajectory is finite: a motion that slipped past a link fault, which nothing
\* pauses or cancels any more, comes to its last waypoint.
FairSpec ==
    /\ Spec
    /\ \A c \in Calls :
         SF_workerVars(LastWaypoint(c) /\ linkFault /\ c \in slipped /\ UNCHANGED linkVars)
    /\ \A c \in Calls : WF_workerVars(CallStep(c))
    /\ WF_workerVars(MonitorStep) /\ WF_workerVars(ReportStep /\ UNCHANGED linkVars)

----------------------------------------------------------------------------
(* Properties.                                                             *)

\* A waypoint reaches the motors only from the call that holds both live arms
\* in state EXECUTING, and under a link fault only from a call that was taken in
\* between its cancellations and the fault (motor_worker.py:60-62): whichever of
\* Stop, Hold, a fault report, a lost link or a cancellation came between the start
\* of the motion and this waypoint has been seen.
Dispatched(c) == pc[c] = "cleared" /\ pc'[c] = "looping"
MotionAuthorised ==
    [][\A c \in Calls : Dispatched(c) =>
          /\ state = "EXECUTING" /\ robots = drivers[c]
          /\ linkFault => c \in slipped]_workerVars

\* torque_off_verified is never claimed of an arm that is powered, but for one that a
\* raising factory has left without a driver (native_can_driver.py:108, :210), of
\* which launch and stop know nothing.
VerifiedOffIsOff == torqueOffVerified => \A a \in Arms : torque[a] => a \in abandoned

\* A powered arm has an owner from which a Stop, now or later, can release it:
\* the adapter, the launch creating it, or the call that is releasing it; with the
\* same exception.
Releasing == {"initializing", "disabling", "disabled", "releasing", "released"}
PoweredArmsAreOwned ==
    \A a \in Arms : torque[a] =>
        \/ a \in abandoned
        \/ robots[a] # 0
        \/ \E c \in Calls : pc[c] \in Releasing /\ drivers[c][a] # 0

\* What the three would say of a code without these two windows ("motion canceled;
\* existing motor holds retained", motor_worker.py:62; "torque_off_verified"); false of
\* this one: see Known deviations.
NoMotionUnderLinkFault == [][\A c \in Calls : Dispatched(c) => ~linkFault]_workerVars
TorqueOffMeansOff == torqueOffVerified => \A a \in Arms : ~torque[a]
NoArmIsAbandoned ==
    \A a \in Arms : torque[a] =>
        robots[a] # 0 \/ \E c \in Calls : pc[c] \in Releasing /\ drivers[c][a] # 0

\* Arms that are reported as held, by both their drivers, are powered.
HeldArmsArePowered ==
    state \in Ready /\ Owned(robots) = Arms => \A a \in Arms : torque[a]

\* Why the above holds when the operator is orderly (~Overlap).
Cancellable == LaunchPcs \cup ExecutePcs
Alone    == Cancellable \cup {"recover_link"}
Stopping == {"releasing", "released"}
InMotion == ExecutePcs \ {"execute", "disabling", "disabled"}
Has(c)   == pc[c] \in Releasing /\ Owned(drivers[c]) # {}

\* One call at a time launches, moves or recovers the link.
OneMotion ==
    \A c, d \in Calls :
        pc[c] \in Alone /\ pc[d] \in Alone => c = d

\* A Stop that came after it has cancelled it, and so has a link fault, unless the call
\* slipped in behind the cancellations.  (A latched fault is not latched again.)
MotionHeedsStop ==
    /\ monitor # "watching" => ~linkFault
    /\ \A c \in Calls : pc[c] \in Cancellable /\ ~cancel[c] =>
          /\ (linkFault \/ monitor = "faulting") => c \in slipped
          /\ \A d \in Calls : pc[d] \notin StopPcs

\* Unless it was told to stop, the arms it moves are the live ones.
MotionOwnsArms ==
    \A c \in Calls : pc[c] \in InMotion /\ ~Cancelled(c) =>
        state = "EXECUTING" /\ robots = drivers[c]

\* Drivers are in _robots or with one thread; a launch or a Stop that is under
\* way is the only owner there can be.
OneOwner ==
    \A c \in Calls :
        /\ Has(c) \/ pc[c] \in Stopping \cup {"initializing"} =>
              Owned(robots) = {} /\ \A d \in Calls : Has(d) => d = c
        /\ pc[c] = "initializing" => lock = c /\ launches # 0 /\ ~torqueOffVerified
CallsBeginEmptyHanded ==
    \A c \in Calls : pc[c] \in {"idle", "launch"} => Owned(drivers[c]) = {}
OwnersAreOfPoweredArms ==
    \A a \in Arms :
        /\ robots[a] # 0 => torque[a] /\ a \notin abandoned
        /\ \A c \in Calls : pc[c] \in Releasing /\ drivers[c][a] # 0 =>
              torque[a] /\ a \notin abandoned

\* Nor does a launch begin before a Stop has ended.
LaunchWaitsForStop ==
    \A c, d \in Calls : pc[c] \in LaunchPcs /\ pc[d] \in Stopping =>
        /\ state = "STOPPING" /\ pc[c] # "initializing"
        /\ \A e \in Calls : pc[e] \in Stopping => e = d
DisabledOwnsNone == state = "DISABLED" => Owned(robots) = {}

\* Together: inductive for an orderly operator, and enough for what is claimed
\* above of torque_off_verified, of powered and held arms and of waypoints.
WorkerInv ==
    /\ TypeOK
    /\ OneMotion /\ MotionHeedsStop /\ MotionOwnsArms
    /\ OneOwner /\ CallsBeginEmptyHanded /\ OwnersAreOfPoweredArms
    /\ PoweredArmsAreOwned /\ LaunchWaitsForStop /\ DisabledOwnsNone /\ VerifiedOffIsOff

\* "Driver recovery required: support both arms, use Independent Hard Torque
\* Off": a fault declared over arms that are still owned ends only with a Stop.
FaultIsLatched ==
    [][state = "FAULT" /\ Owned(robots) # {} => state' \in {"FAULT", "STOPPING"}]_workerVars

\* "Launch cannot replace drivers whose cleanup is unverified."
LaunchReplacesNoDrivers ==
    \A c, d \in Calls :
        pc[c] = "initializing" /\ pc[d] \in {"disabling", "releasing"} => Owned(drivers[d]) = {}

\* A motion or a launch that the operator has cancelled ends, wherever it is:
\* between waypoints, settling, paused for the link or recovering a fault.
CancelledCallsEnd ==
    \A c \in Calls : (pc[c] \in Cancellable /\ cancel[c]) ~> pc[c] = "idle"

\* If the operator falls silent for good, heartbeats and calls alike, every
\* call in flight ends: a motion of any length is paused, and then latched.
SilenceEndsMotion ==
    /\ <>[](link = "expired")
    /\ <>[][\A c \in Calls : pc[c] = "idle" => pc'[c] = "idle"]_workerVars
    => <>[](Active = {})
=============================================================================
