------------------------- MODULE MotorWorkerProofs -------------------------
(***************************************************************************)
(* Type correctness of the motor process, for any number of arms, calls,   *)
(* launches, breakdowns and link pauses, orderly operator or not.          *)
(***************************************************************************)
EXTENDS MotorWorker, TLAPS

USE DEF control, signals, locks, report, locals, motors, linkVars, adapterVars, workerVars

ResumePoints == {"checking", "looping", "prepared", "settling"}

\* The types of what the thread of a call has: where it is, its locals.
ThreadsTyped ==
    /\ pc \in [Calls -> Locations]
    /\ at \in [Calls -> ResumePoints]
    /\ cancel \in [Calls -> BOOLEAN] /\ drivers \in [Calls -> Pairs]

\* Sets of drivers stay sets of drivers, whatever is kept, added or dropped.
LEMMA PairsType ==
    /\ NoDrivers \in Pairs
    /\ \A d \in Pairs : \A S : Keep(d, S) \in Pairs
    /\ \A d, e \in Pairs : Merge(d, e) \in Pairs
    /\ \A d \in Pairs, a \in Arms, n \in 0 .. MaxLaunches : [d EXCEPT ![a] = n] \in Pairs
  BY LaunchBound DEF NoDrivers, Pairs, Keep, Merge

\* A thread that goes to a place of Locations, returns or resumes stays typed.
LEMMA ThreadMoves ==
    ASSUME ThreadsTyped, NEW c \in Calls
    PROVE  /\ \A l \in Locations : Goto(c, l) => pc' \in [Calls -> Locations]
           /\ Return(c) => ThreadsTyped'
           /\ Resume(c) => pc' \in [Calls -> Locations] /\ at' \in [Calls -> ResumePoints]
  BY PairsType DEF ThreadsTyped, Goto, Return, Resume, Locations, ExecutePcs, ResumePoints

\* Every place a step names is one.
LEMMA PlacesKnown ==
    Locations = {"idle", "hold", "recover_link", "launch", "initializing", "launched", "execute",
                 "checking", "looping", "prepared", "cleared", "paused", "recovering", "settling",
                 "settled", "servo", "interrupted", "rejected", "failed", "disabling", "disabled",
                 "stop", "stopping", "releasing", "released", "stopped"}
  BY DEF Locations, LaunchPcs, ExecutePcs, StopPcs

\* launch() keeps the types.
LEMMA LaunchTyped ==
    ASSUME TypeOK, NEW c \in Calls, LaunchStep(c), UNCHANGED linkVars
    PROVE  TypeOK'
<1> USE PairsType, PlacesKnown, LaunchBound
        DEF TypeOK, AdapterTypeOK, ThreadsTyped, ResumePoints, States, Ready,
            SetFault, RetainServoFaultHold, LeaveRecovery
<1>1. CASE LaunchHeld(c)
  <2>1. ThreadsTyped'
    BY <1>1, ThreadMoves DEF LaunchHeld
  <2>2. fault' \in BOOLEAN /\ torqueOffVerified' \in BOOLEAN /\ stopRequested' \in BOOLEAN
    BY <1>1, Zenon DEF LaunchHeld
  <2> QED BY <1>1, <2>1, <2>2 DEF LaunchHeld
<1>2. CASE LaunchRefused(c)
  <2>1. ThreadsTyped'
    BY <1>2, ThreadMoves DEF LaunchRefused
  <2> QED BY <1>2, <2>1 DEF LaunchRefused
<1>3. CASE LaunchBegin(c)
  <2>1. ThreadsTyped'
    BY <1>3, ThreadMoves DEF LaunchBegin
  <2>2. fault' \in BOOLEAN /\ torqueOffVerified' \in BOOLEAN /\ stopRequested' \in BOOLEAN
    BY <1>3, Zenon DEF LaunchBegin
  <2> QED BY <1>3, <2>1, <2>2 DEF LaunchBegin
<1>4. ASSUME NEW a \in Arms, LaunchArm(c, a) PROVE TypeOK'
  <2>1. ThreadsTyped'
    BY <1>4, ThreadMoves DEF LaunchArm
  <2> QED BY <1>4, <2>1 DEF LaunchArm
<1>5. CASE LaunchDone(c)
  <2>1. ThreadsTyped'
    BY <1>5, ThreadMoves DEF LaunchDone
  <2> QED BY <1>5, <2>1 DEF LaunchDone
<1>6. CASE LaunchFailed(c)
  <2>1. ThreadsTyped'
    BY <1>6, ThreadMoves DEF LaunchFailed
  <2>2. torque' \in [Arms -> BOOLEAN] /\ torqueOffVerified' \in BOOLEAN
    BY <1>6, Zenon DEF LaunchFailed
  <2>3. abandoned' \subseteq Arms /\ fault' \in BOOLEAN
    BY <1>6 DEF LaunchFailed, RaisedArms
  <2> QED BY <1>6, <2>1, <2>2, <2>3 DEF LaunchFailed
<1> QED BY <1>1, <1>2, <1>3, <1>4, <1>5, <1>6 DEF LaunchStep

\* execute() keeps the types.
LEMMA ExecuteTyped ==
    ASSUME TypeOK, NEW c \in Calls, ExecuteStep(c), UNCHANGED linkVars
    PROVE  TypeOK'
<1> USE PairsType, PlacesKnown, LaunchBound
        DEF TypeOK, AdapterTypeOK, ThreadsTyped, ResumePoints, States, Ready,
            SetFault, RetainServoFaultHold, LeaveRecovery
<1>1. CASE ExecuteRefused(c)
  <2>1. ThreadsTyped'
    BY <1>1, ThreadMoves DEF ExecuteRefused
  <2> QED BY <1>1, <2>1 DEF ExecuteRefused
<1>2. CASE ExecuteBegin(c)
  <2>1. ThreadsTyped'
    BY <1>2, ThreadMoves DEF ExecuteBegin
  <2>2. fault' \in BOOLEAN /\ torqueOffVerified' \in BOOLEAN /\ stopRequested' \in BOOLEAN
    BY <1>2, Zenon DEF ExecuteBegin
  <2> QED BY <1>2, <2>1, <2>2 DEF ExecuteBegin
<1>3. CASE Check(c)
  <2>1. ThreadsTyped'
    BY <1>3, ThreadMoves DEF Check
  <2> QED BY <1>3, <2>1 DEF Check
<1>4. CASE NextWaypoint(c)
  <2>1. ThreadsTyped'
    BY <1>4, ThreadMoves DEF NextWaypoint
  <2> QED BY <1>4, <2>1 DEF NextWaypoint
<1>5. CASE LastWaypoint(c)
  <2>1. ThreadsTyped'
    BY <1>5, ThreadMoves DEF LastWaypoint
  <2> QED BY <1>5, <2>1 DEF LastWaypoint
<1>6. CASE Interrupt(c)
  <2>1. ThreadsTyped'
    BY <1>6, ThreadMoves DEF Interrupt
  <2> QED BY <1>6, <2>1 DEF Interrupt
<1>7. CASE Clear(c)
  <2>1. ThreadsTyped'
    BY <1>7, ThreadMoves DEF Clear
  <2> QED BY <1>7, <2>1 DEF Clear
<1>8. CASE HealthLost(c)
  <2>1. ThreadsTyped'
    BY <1>8, ThreadMoves DEF HealthLost
  <2> QED BY <1>8, <2>1 DEF HealthLost
<1>9. CASE PauseForLink(c)
  <2>0. pc[c] \in ResumePoints
    BY <1>9 DEF PauseForLink, At
  <2>1. ThreadsTyped'
    BY <1>9, <2>0, ThreadMoves DEF PauseForLink
  <2> QED BY <1>9, <2>1 DEF PauseForLink
<1>10. CASE RecoveryBegin(c)
  <2>1. ThreadsTyped'
    BY <1>10, ThreadMoves DEF RecoveryBegin
  <2> QED BY <1>10, <2>1 DEF RecoveryBegin
<1>11. CASE RecoveryResumes(c)
  <2>1. ThreadsTyped'
    BY <1>11, ThreadMoves DEF RecoveryResumes
  <2> QED BY <1>11, <2>1 DEF RecoveryResumes
<1>12. CASE RecoveryFails(c)
  <2>1. ThreadsTyped'
    BY <1>12, ThreadMoves DEF RecoveryFails
  <2> QED BY <1>12, <2>1 DEF RecoveryFails
<1>13. CASE Dispatch(c)
  <2>1. ThreadsTyped'
    BY <1>13, ThreadMoves DEF Dispatch
  <2> QED BY <1>13, <2>1 DEF Dispatch
<1>14. CASE Settle(c)
  <2>1. ThreadsTyped'
    BY <1>14, ThreadMoves DEF Settle
  <2> QED BY <1>14, <2>1 DEF Settle
<1>15. CASE Settled(c)
  <2>1. ThreadsTyped'
    BY <1>15, ThreadMoves DEF Settled
  <2> QED BY <1>15, <2>1 DEF Settled
<1>16. CASE HoldServoFault(c)
  <2>1. ThreadsTyped'
    BY <1>16, ThreadMoves DEF HoldServoFault
  <2>2. fault' \in BOOLEAN /\ torqueOffVerified' \in BOOLEAN /\ stopRequested' \in BOOLEAN
    BY <1>16, Zenon DEF HoldServoFault
  <2> QED BY <1>16, <2>1, <2>2 DEF HoldServoFault
<1>17. CASE HoldInterrupted(c)
  <2>1. ThreadsTyped'
    BY <1>17, ThreadMoves DEF HoldInterrupted
  <2> QED BY <1>17, <2>1 DEF HoldInterrupted
<1>18. CASE HoldRejected(c)
  <2>1. ThreadsTyped'
    BY <1>18, ThreadMoves DEF HoldRejected
  <2> QED BY <1>18, <2>1 DEF HoldRejected
<1>19. CASE FailBegin(c)
  <2>1. ThreadsTyped'
    BY <1>19, ThreadMoves DEF FailBegin
  <2>2. fault' \in BOOLEAN /\ torqueOffVerified' \in BOOLEAN /\ stopRequested' \in BOOLEAN
    BY <1>19, Zenon DEF FailBegin
  <2> QED BY <1>19, <2>1, <2>2 DEF FailBegin
<1>20. CASE FailDisable(c)
  <2>1. ThreadsTyped'
    BY <1>20, ThreadMoves DEF FailDisable, DisablePairs
  <2> QED BY <1>20, <2>1 DEF FailDisable, DisablePairs
<1>21. CASE FailEnd(c)
  <2>1. ThreadsTyped'
    BY <1>21, ThreadMoves DEF FailEnd
  <2>2. fault' \in BOOLEAN /\ torqueOffVerified' \in BOOLEAN /\ stopRequested' \in BOOLEAN
    BY <1>21, Zenon DEF FailEnd
  <2> QED BY <1>21, <2>1, <2>2 DEF FailEnd
<1> QED BY <1>1, <1>2, <1>3, <1>4, <1>5, <1>6, <1>7, <1>8, <1>9, <1>10, <1>11, <1>12,
       <1>13, <1>14, <1>15, <1>16, <1>17, <1>18, <1>19, <1>20, <1>21 DEF ExecuteStep

\* stop() and hold() keep the types.
LEMMA StopTyped ==
    ASSUME TypeOK, NEW c \in Calls, StopStep(c), UNCHANGED linkVars
    PROVE  TypeOK'
<1> USE PairsType, PlacesKnown, LaunchBound
        DEF TypeOK, AdapterTypeOK, ThreadsTyped, ResumePoints, States, Ready,
            SetFault, RetainServoFaultHold, LeaveRecovery
<1>1. CASE StopRequest(c)
  <2>1. ThreadsTyped'
    BY <1>1, ThreadMoves DEF StopRequest
  <2> QED BY <1>1, <2>1 DEF StopRequest
<1>2. CASE StopRefused(c)
  <2>1. ThreadsTyped'
    BY <1>2, ThreadMoves DEF StopRefused
  <2> QED BY <1>2, <2>1 DEF StopRefused
<1>3. CASE StopBegin(c)
  <2>1. ThreadsTyped'
    BY <1>3, ThreadMoves DEF StopBegin
  <2>2. fault' \in BOOLEAN /\ torqueOffVerified' \in BOOLEAN /\ stopRequested' \in BOOLEAN
    BY <1>3, Zenon DEF StopBegin
  <2> QED BY <1>3, <2>1, <2>2 DEF StopBegin
<1>4. CASE StopDisable(c)
  <2>1. ThreadsTyped'
    BY <1>4, ThreadMoves DEF StopDisable, DisablePairs
  <2> QED BY <1>4, <2>1 DEF StopDisable, DisablePairs
<1>5. CASE StopFailed(c)
  <2>1. ThreadsTyped'
    BY <1>5, ThreadMoves DEF StopFailed
  <2> QED BY <1>5, <2>1 DEF StopFailed
<1>6. CASE StopDone(c)
  <2>1. ThreadsTyped'
    BY <1>6, ThreadMoves DEF StopDone
  <2> QED BY <1>6, <2>1 DEF StopDone
<1>7. CASE Hold(c)
  <2>1. ThreadsTyped'
    BY <1>7, ThreadMoves DEF Hold
  <2>2. fault' \in BOOLEAN /\ torqueOffVerified' \in BOOLEAN /\ stopRequested' \in BOOLEAN
    BY <1>7, Zenon DEF Hold
  <2> QED BY <1>7, <2>1, <2>2 DEF Hold
<1> QED BY <1>1, <1>2, <1>3, <1>4, <1>5, <1>6, <1>7 DEF StopStep

\* So does the thread that publishes feedback.
LEMMA ReportTyped ==
    ASSUME TypeOK, ReportStep, UNCHANGED linkVars
    PROVE  TypeOK'
<1> USE PairsType, PlacesKnown, LaunchBound
        DEF TypeOK, AdapterTypeOK, ThreadsTyped, ResumePoints, States, Ready,
            SetFault, RetainServoFaultHold, LeaveRecovery
<1>1. CASE ReportBegin
  <2>1. ThreadsTyped'
    BY <1>1, ThreadMoves DEF ReportBegin
  <2> QED BY <1>1, <2>1 DEF ReportBegin
<1>2. CASE ReportEnd
  <2>1. ThreadsTyped'
    BY <1>2, ThreadMoves DEF ReportEnd
  <2> QED BY <1>2, <2>1 DEF ReportEnd
<1>3. CASE ReportFault
  <2>1. ThreadsTyped'
    BY <1>3, ThreadMoves DEF ReportFault
  <2> QED BY <1>3, <2>1 DEF ReportFault
<1>4. CASE ReportRecoveryBegin
  <2>1. ThreadsTyped'
    BY <1>4, ThreadMoves DEF ReportRecoveryBegin
  <2> QED BY <1>4, <2>1 DEF ReportRecoveryBegin
<1>5. CASE ReportRecoveryEnd
  <2>1. ThreadsTyped'
    BY <1>5, ThreadMoves DEF ReportRecoveryEnd
  <2> QED BY <1>5, <2>1 DEF ReportRecoveryEnd
<1>6. CASE ReportRecoveryFails
  <2>1. ThreadsTyped'
    BY <1>6, ThreadMoves DEF ReportRecoveryFails
  <2> QED BY <1>6, <2>1 DEF ReportRecoveryFails
<1>7. CASE ReportHold
  <2>1. ThreadsTyped'
    BY <1>7, ThreadMoves DEF ReportHold
  <2>2. fault' \in BOOLEAN /\ torqueOffVerified' \in BOOLEAN /\ stopRequested' \in BOOLEAN
    BY <1>7, Zenon DEF ReportHold
  <2> QED BY <1>7, <2>1, <2>2 DEF ReportHold
<1>8. CASE ReportFailed
  <2>1. ThreadsTyped'
    BY <1>8, ThreadMoves DEF ReportFailed
  <2>2. fault' \in BOOLEAN /\ torqueOffVerified' \in BOOLEAN /\ stopRequested' \in BOOLEAN
    BY <1>8, Zenon DEF ReportFailed
  <2> QED BY <1>8, <2>1, <2>2 DEF ReportFailed
<1> QED BY <1>1, <1>2, <1>3, <1>4, <1>5, <1>6, <1>7, <1>8 DEF ReportStep

\* What MotorWorker adds to the methods of the adapter.
LEMMA WorkerTyped ==
    ASSUME TypeOK, NEW c \in Calls,
           \/ AfterLaunchOrStop(c) \/ RecoverLink(c)
           \/ CallbackLate(c) \/ LinkResumes(c) \/ LinkRefuses(c)
    PROVE  TypeOK'
<1> USE PairsType, PlacesKnown, RecoveryBound, BreakdownBound
        DEF TypeOK, AdapterTypeOK, ThreadsTyped, ResumePoints, LeaveRecovery, LatchBegin
<1>1. CASE AfterLaunchOrStop(c)
  <2>1. ThreadsTyped'
    BY <1>1, ThreadMoves DEF AfterLaunchOrStop
  <2>2. linkFault' \in BOOLEAN /\ linkPaused' \in BOOLEAN /\ stopRequested' \in BOOLEAN
        /\ recoveryAllowed' \in BOOLEAN
    BY <1>1, Zenon DEF AfterLaunchOrStop
  <2> QED BY <1>1, <2>1, <2>2 DEF AfterLaunchOrStop
<1>2. CASE RecoverLink(c)
  <2>1. ThreadsTyped'
    BY <1>2, ThreadMoves DEF RecoverLink
  <2>2. linkFault' \in BOOLEAN /\ linkPaused' \in BOOLEAN /\ stopRequested' \in BOOLEAN
        /\ recoveryAllowed' \in BOOLEAN
    BY <1>2, Zenon DEF RecoverLink
  <2> QED BY <1>2, <2>1, <2>2 DEF RecoverLink
<1>3. CASE CallbackLate(c)
  <2>1. ThreadsTyped'
    BY <1>3, ThreadMoves DEF CallbackLate
  <2>2. linkFault' \in BOOLEAN /\ linkPaused' \in BOOLEAN /\ stopRequested' \in BOOLEAN
        /\ recoveryAllowed' \in BOOLEAN
    BY <1>3, Zenon DEF CallbackLate
  <2> QED BY <1>3, <2>1, <2>2 DEF CallbackLate
<1>4. CASE LinkResumes(c)
  <2>1. ThreadsTyped'
    BY <1>4, ThreadMoves DEF LinkResumes
  <2>2. linkFault' \in BOOLEAN /\ linkPaused' \in BOOLEAN /\ stopRequested' \in BOOLEAN
        /\ recoveryAllowed' \in BOOLEAN
    BY <1>4, Zenon DEF LinkResumes
  <2> QED BY <1>4, <2>1, <2>2 DEF LinkResumes
<1>5. CASE LinkRefuses(c)
  <2>1. ThreadsTyped'
    BY <1>5, ThreadMoves DEF LinkRefuses
  <2>2. linkFault' \in BOOLEAN /\ linkPaused' \in BOOLEAN /\ stopRequested' \in BOOLEAN
        /\ recoveryAllowed' \in BOOLEAN
    BY <1>5, Zenon DEF LinkRefuses
  <2> QED BY <1>5, <2>1, <2>2 DEF LinkRefuses
<1> QED BY <1>1, <1>2, <1>3, <1>4, <1>5

\* The watch over the heartbeats.
LEMMA MonitorTyped ==
    ASSUME TypeOK, MonitorStep
    PROVE  TypeOK'
<1> USE PairsType, PlacesKnown, RecoveryBound, BreakdownBound
        DEF TypeOK, AdapterTypeOK, ThreadsTyped, ResumePoints, LeaveRecovery, LatchBegin
<1>1. CASE LatchCancel
  <2>1. ThreadsTyped'
    BY <1>1, ThreadMoves DEF LatchCancel, CancelActive
  <2> QED BY <1>1, <2>1 DEF LatchCancel
<1>5. CASE LatchEnd
  <2>1. linkFault' \in BOOLEAN
    BY <1>5, Zenon DEF LatchEnd
  <2> QED BY <1>5, <2>1 DEF LatchEnd
<1>2. CASE MonitorExpired
  <2>1. ThreadsTyped'
    BY <1>2, ThreadMoves DEF MonitorExpired
  <2>2. linkFault' \in BOOLEAN /\ linkPaused' \in BOOLEAN /\ stopRequested' \in BOOLEAN
        /\ recoveryAllowed' \in BOOLEAN
    BY <1>2, Zenon DEF MonitorExpired
  <2> QED BY <1>2, <2>1, <2>2 DEF MonitorExpired
<1>3. CASE MonitorTransport
  <2>1. ThreadsTyped'
    BY <1>3, ThreadMoves DEF MonitorTransport
  <2>2. linkFault' \in BOOLEAN /\ linkPaused' \in BOOLEAN /\ stopRequested' \in BOOLEAN
        /\ recoveryAllowed' \in BOOLEAN
    BY <1>3, Zenon DEF MonitorTransport
  <2> QED BY <1>3, <2>1, <2>2 DEF MonitorTransport
<1>4. CASE MonitorPauseExpired
  <2>1. ThreadsTyped'
    BY <1>4, ThreadMoves DEF MonitorPauseExpired
  <2>2. linkFault' \in BOOLEAN /\ linkPaused' \in BOOLEAN /\ stopRequested' \in BOOLEAN
        /\ recoveryAllowed' \in BOOLEAN
    BY <1>4, Zenon DEF MonitorPauseExpired
  <2> QED BY <1>4, <2>1, <2>2 DEF MonitorPauseExpired
<1> QED BY <1>1, <1>2, <1>3, <1>4, <1>5 DEF MonitorStep

\* What the operator, the pipe and the motors do.
LEMMA EnvironmentTyped ==
    ASSUME TypeOK, Environment
    PROVE  TypeOK'
<1> USE PairsType, PlacesKnown, RecoveryBound, BreakdownBound
        DEF TypeOK, AdapterTypeOK, ThreadsTyped, ResumePoints, LeaveRecovery, LatchBegin
<1>1. ASSUME NEW c \in Calls, NEW m \in {"launch", "execute", "recover_link"}, Receive(c, m)
      PROVE  TypeOK'
  <2>1. ThreadsTyped'
    BY <1>1, ThreadMoves DEF Receive
  <2> QED BY <1>1, <2>1 DEF Receive
<1>2. ASSUME NEW c \in Calls, NEW m \in {"hold", "stop"}, ReceiveUrgent(c, m)
      PROVE  TypeOK'
  <2>1. ThreadsTyped'
    BY <1>2, ThreadMoves DEF ReceiveUrgent, CancelActive
  <2>2. linkFault' \in BOOLEAN /\ linkPaused' \in BOOLEAN /\ stopRequested' \in BOOLEAN
        /\ recoveryAllowed' \in BOOLEAN
    BY <1>2, Zenon DEF ReceiveUrgent, CancelActive
  <2> QED BY <1>2, <2>1, <2>2 DEF ReceiveUrgent, CancelActive
<1>3. CASE RefuseUrgent
  <2>1. ThreadsTyped'
    BY <1>3, ThreadMoves DEF RefuseUrgent, CancelActive
  <2>2. linkFault' \in BOOLEAN /\ linkPaused' \in BOOLEAN /\ stopRequested' \in BOOLEAN
        /\ recoveryAllowed' \in BOOLEAN
    BY <1>3, Zenon DEF RefuseUrgent, CancelActive
  <2> QED BY <1>3, <2>1, <2>2 DEF RefuseUrgent, CancelActive
<1>4. ASSUME NEW c \in Calls, CancelCall(c)
      PROVE  TypeOK'
  <2>1. ThreadsTyped'
    BY <1>4, ThreadMoves DEF CancelCall
  <2> QED BY <1>4, <2>1 DEF CancelCall
<1>5. ASSUME NEW b \in BOOLEAN, SetRecoveryAllowed(b)
      PROVE  TypeOK'
  <2>2. linkFault' \in BOOLEAN /\ linkPaused' \in BOOLEAN /\ stopRequested' \in BOOLEAN
        /\ recoveryAllowed' \in BOOLEAN
    BY <1>5, Zenon DEF SetRecoveryAllowed
  <2> QED BY <1>5, <2>2 DEF SetRecoveryAllowed
<1>6. CASE Heartbeat
  BY <1>6 DEF Heartbeat
<1>7. CASE Silence
  BY <1>7 DEF Silence
<1>8. CASE TransportFails
  BY <1>8 DEF TransportFails
<1>9. CASE Breakdown /\ UNCHANGED linkVars
  BY <1>9 DEF Breakdown
<1> QED BY <1>1, <1>2, <1>3, <1>4, <1>5, <1>6, <1>7, <1>8, <1>9 DEF Environment

\* All types hold at the start.
LEMMA InitTyped == Init => TypeOK
<1> SUFFICES ASSUME Init PROVE TypeOK
  OBVIOUS
<1>1. ThreadsTyped
  BY PairsType, PlacesKnown DEF Init, AdapterInit, ThreadsTyped, ResumePoints
<1>2. /\ fault \in BOOLEAN /\ torqueOffVerified \in BOOLEAN /\ stopRequested \in BOOLEAN
      /\ recoveryAllowed \in BOOLEAN /\ linkPaused \in BOOLEAN /\ linkFault \in BOOLEAN
  BY Zenon DEF Init, AdapterInit
<1> QED BY <1>1, <1>2, PairsType, LaunchBound, BreakdownBound, RecoveryBound
        DEF Init, AdapterInit, TypeOK, AdapterTypeOK, ThreadsTyped, ResumePoints, States

\* And every step keeps them.
LEMMA StepTyped ==
    ASSUME TypeOK, [Next]_workerVars
    PROVE  TypeOK'
<1>1. ASSUME NEW c \in Calls, AdapterStep(c) PROVE TypeOK'
  BY <1>1, LaunchTyped, ExecuteTyped, StopTyped DEF AdapterStep
<1>2. ASSUME NEW c \in Calls, CallStep(c) PROVE TypeOK'
  BY <1>1, <1>2, WorkerTyped DEF CallStep
<1>3. CASE ReportStep /\ UNCHANGED linkVars
  BY <1>3, ReportTyped
<1>4. CASE UNCHANGED workerVars
  BY <1>4 DEF TypeOK, AdapterTypeOK
<1> QED BY <1>2, <1>3, <1>4, MonitorTyped, EnvironmentTyped DEF Next

\* Every variable of the motor process keeps its type.
THEOREM WorkerTypeCorrect == Spec => []TypeOK
<1> QED BY InitTyped, StepTyped, PTL DEF Spec
=============================================================================
