----------------------- MODULE CloudBridgeRefinement -----------------------
(***************************************************************************)
(* CloudBridge implements SessionLifecycle, for every value of its         *)
(* constants: each step of each handler and thread maps, under the         *)
(* substitution of CloudBridge!Lifecycle, to a step of the life cycle or   *)
(* to none.  Which steps those are depends on BridgeInv.                   *)
(***************************************************************************)
EXTENDS CloudBridgeProofs

\* pause() is the halt of the life cycle.
LEMMA PauseHalts ==
    ASSUME NEW g \in Gens, NEW h \in HoldAnswers, Pause(g, h)
    PROVE  Lifecycle!Halt
BY DEF Pause, Stage, Lifecycle!Halt

\* A step that leaves these four alone is none of its steps.
LEMMA LifecycleStutters ==
    ASSUME UNCHANGED <<lease, ready, autoQueue, returningHome>>
    PROVE  UNCHANGED Lifecycle!vars
BY DEF Stage, Lifecycle!vars

\* _stop_run() ends the run in a cleanup or in a halt, or leaves it (a fault),
LEMMA StopRefines ==
    ASSUME BridgeInv, lease # NoSession, NEW normal \in BOOLEAN, StopRun(normal)
    PROVE  [Lifecycle!Next]_(Lifecycle!vars)
<1>1. CASE \E g \in Gens : StartCleanup(g)
  <2>1. Lifecycle!Finish
    BY <1>1 DEF StartCleanup, Stage, Lifecycle!Finish
  <2>2. QED
    BY <2>1 DEF Lifecycle!Next
<1>2. CASE UNCHANGED <<gate, lease>>
  BY <1>2, LifecycleStutters DEF gate
<1>3. CASE \E g \in Gens, h \in HoldAnswers : Pause(g, h)
  BY <1>3, PauseHalts DEF Lifecycle!Next
<1>4. QED
  BY <1>1, <1>2, <1>3 DEF StopRun

\* and so does an expired deadline.
LEMMA ExpiryRefines ==
    ASSUME BridgeInv, ExpireRun
    PROVE  [Lifecycle!Next]_(Lifecycle!vars)
BY StopRefines DEF ExpireRun, Expired

\* The task thread rests, readmits, halts, or is busy with a cleanup.
LEMMA TaskRefines ==
    ASSUME BridgeInv, NEW g \in Gens, TaskStep(g)
    PROVE  [Lifecycle!Next]_(Lifecycle!vars)
<1>1. CASE UNCHANGED <<lease, ready, autoQueue, returningHome>>
  BY <1>1, LifecycleStutters
<1>2. CASE TaskFail(g)
  BY <1>2, <1>1, PauseHalts DEF TaskFail, gate, run, Lifecycle!Next
<1>3. CASE g = generation /\ TaskAt(g, "parked") /\ TaskParked(g)
  <2>1. /\ lease = NoSession /\ ~ready /\ (autoQueue \/ returningHome)
        /\ returningHome' = FALSE /\ UNCHANGED <<lease, ready, autoQueue>>
    BY <1>3 DEF TaskParked, TaskAt, BridgeInv, TaskHasReason, run
  <2>2. CASE autoQueue
    BY <2>1, <2>2 DEF Stage, Lifecycle!vars
  <2>3. CASE ~autoQueue
    <3>1. Lifecycle!Rest
      BY <2>1, <2>3 DEF Stage, Lifecycle!Rest
    <3>2. QED
      BY <3>1 DEF Lifecycle!Next
  <2>4. QED
    BY <2>2, <2>3
<1>4. CASE g = generation /\ (TaskWake(g) \/ TaskHome(g))
  <2>1. lease = NoSession /\ ~ready /\ (autoQueue \/ returningHome)
    BY <1>4 DEF TaskWake, TaskHome, TaskAt, BridgeInv, TaskHasReason
  <2>2. /\ returningHome' \in {TRUE, returningHome}
        /\ UNCHANGED <<lease, ready, autoQueue>>
    BY <1>4 DEF TaskWake, TaskHome, run
  <2>3. QED
    BY <2>1, <2>2 DEF Stage, Lifecycle!vars
<1>5. CASE g = generation /\ TaskFinish(g)
  <2>1. /\ lease = NoSession /\ ~ready /\ (autoQueue \/ returningHome)
        /\ returningHome' = FALSE /\ UNCHANGED <<lease, autoQueue>>
    BY <1>5 DEF TaskFinish, TaskAt, BridgeInv, TaskHasReason, run
  <2>2. CASE ~autoQueue
    <3>1. ready' = ready
      BY <1>5, <2>2 DEF TaskFinish
    <3>2. Lifecycle!Rest
      BY <2>1, <2>2, <3>1 DEF Stage, Lifecycle!Rest
    <3>3. QED
      BY <3>2 DEF Lifecycle!Next
  <2>3. CASE autoQueue /\ ready' = TRUE
    <3>1. Lifecycle!Readmit
      BY <2>1, <2>3 DEF Stage, Lifecycle!Readmit
    <3>2. QED
      BY <3>1 DEF Lifecycle!Next
  <2>4. CASE autoQueue /\ ready' = ready
    BY <2>1, <2>4 DEF Stage, Lifecycle!vars
  <2>5. QED
    BY <1>5, <2>2, <2>3, <2>4 DEF TaskFinish
<1>6. \/ UNCHANGED <<lease, ready, autoQueue, returningHome>>
      \/ TaskFail(g)
      \/ g = generation /\ (TaskParked(g) \/ TaskWake(g) \/ TaskHome(g) \/ TaskFinish(g))
  BY DEF TaskStep, TaskLookup, TaskPark, TaskZeroStart, TaskZeroWait, TaskParked, TaskSleep,
         TaskPollFindsWork, TaskPollFindsNone, TaskWake, TaskHome, TaskHomeStart, TaskHomeWait,
         TaskFinish, gate, run
<1>7. QED
  BY <1>1, <1>2, <1>3, <1>4, <1>5, <1>6 DEF TaskParked

\* A command thread ends its run or leaves the life cycle alone.
LEMMA ExecRefines ==
    ASSUME BridgeInv, NEW g \in Gens, ExecStep(g)
    PROVE  [Lifecycle!Next]_(Lifecycle!vars)
<1>1. ASSUME NEW p \in ExecPoints, ExecGate(g, p) PROVE [Lifecycle!Next]_(Lifecycle!vars)
  BY <1>1, ExpiryRefines, LifecycleStutters DEF ExecGate, gate, run
<1>2. CASE ExecFail(g) /\ ~ExecGate(g, "fail")
  BY <1>2, PauseHalts DEF ExecFail, Lifecycle!Next
<1>3. CASE UNCHANGED <<gate, lease>>
  BY <1>3, LifecycleStutters DEF gate
<1>4. \/ UNCHANGED <<gate, lease>>
      \/ \E p \in ExecPoints : ExecGate(g, p)
      \/ ExecFail(g) /\ ~ExecGate(g, "fail")
  BY DEF ExecStep, ExecDispatch, ExecSettle, ExecComplete, ExecPoints, gate, run
<1>5. QED
  BY <1>1, <1>2, <1>3, <1>4

\* The websocket handlers: only prepare_session grants.
LEMMA ApiRefines ==
    ASSUME BridgeInv, Api
    PROVE  [Lifecycle!Next]_(Lifecycle!vars)
<1>1. CASE ApiConnected
  BY <1>1, LifecycleStutters DEF ApiConnected, gate, run
<1>2. CASE ApiDisconnected \/ ApiErrorReceived
  BY <1>2, PauseHalts DEF ApiDisconnected, ApiErrorReceived, Lifecycle!Next
<1>3. ASSUME NEW s \in Sessions, ApiPrepareSession(s) PROVE Lifecycle!Next
  <2>1. Lifecycle!Grant(s)
    BY <1>3, ConstantsOK DEF ApiPrepareSession, Stage, Lifecycle!Grant
  <2>2. QED
    BY <2>1 DEF Lifecycle!Next
<1>4. ASSUME NEW s \in Sessions, ApiPrepareInvalid(s) PROVE Lifecycle!Next
  BY <1>4, PauseHalts DEF ApiPrepareInvalid, Lifecycle!Next
<1>5. ASSUME NEW s \in Sessions, ApiHandleCommand(s) PROVE [Lifecycle!Next]_(Lifecycle!vars)
  BY <1>5, ExpiryRefines, LifecycleStutters DEF ApiHandleCommand, gate
<1>6. ASSUME NEW s \in Sessions, ApiHandleStop(s) PROVE [Lifecycle!Next]_(Lifecycle!vars)
  BY <1>6, ExpiryRefines, StopRefines, ConstantsOK DEF ApiHandleStop
<1>7. QED
  BY <1>1, <1>2, <1>3, <1>4, <1>5, <1>6 DEF Api

\* The operator panel: only here is auto-queue switched on.
LEMMA PanelRefines ==
    ASSUME BridgeInv, OperatorPanel
    PROVE  [Lifecycle!Next]_(Lifecycle!vars)
<1>1. CASE OperatorHold \/ OperatorPause
  BY <1>1, PauseHalts, LifecycleStutters DEF OperatorHold, OperatorPause, Lifecycle!Next, gate, run
<1>2. CASE OperatorCloudReady
  <2>1. /\ lease = NoSession /\ ~ready /\ ~returningHome /\ ready' = TRUE
        /\ UNCHANGED <<lease, autoQueue>>
    BY <1>2 DEF OperatorCloudReady, MayAuthorize, run
  <2>2. CASE autoQueue
    <3>1. Lifecycle!Readmit
      BY <2>1, <2>2 DEF Stage, Lifecycle!Readmit
    <3>2. QED
      BY <3>1 DEF Lifecycle!Next
  <2>3. CASE ~autoQueue
    <3>1. Lifecycle!Admit
      BY <2>1, <2>3 DEF Stage, Lifecycle!Admit, BridgeInv, TypeOK
    <3>2. QED
      BY <3>1 DEF Lifecycle!Next
  <2>4. QED
    BY <2>2, <2>3
<1>3. CASE OperatorAutoQueueAtZero
  <2>1. Lifecycle!AutoFromRest
    BY <1>3 DEF OperatorAutoQueueAtZero, run, Stage, Lifecycle!AutoFromRest
  <2>2. QED
    BY <2>1 DEF Lifecycle!Next
<1>4. CASE OperatorAutoQueueAtHome
  <2>1. Lifecycle!Admit
    BY <1>4 DEF OperatorAutoQueueAtHome, MayAuthorize, run, Stage, Lifecycle!Admit
  <2>2. QED
    BY <2>1 DEF Lifecycle!Next
<1>5. CASE OperatorEnable \/ OperatorJog \/ \E p \in {"home", "zero"} : OperatorMovePose(p)
  BY <1>5, LifecycleStutters DEF OperatorEnable, OperatorJog, OperatorMovePose, gate, run
<1>6. QED
  BY <1>1, <1>2, <1>3, <1>4, <1>5 DEF OperatorPanel

\* Every behaviour of the bridge, its threads and its operator is a behaviour of
\* SessionLifecycle: a session runs only when the controller was ready for it, a
\* run ends in a cleanup or a halt, only a cleanup with auto-queue on re-admits,
\* and only the operator switches auto-queue on (cloud.py 133-185, 238-249, 476-504).
THEOREM BridgeImplementsLifecycle ==
    ASSUME OutpacesPoll = FALSE
    PROVE  Spec => ImplementsLifecycle
<1>1. Init => Lifecycle!Init
  BY DEF Init, Stage, Lifecycle!Init
<1>2. BridgeInv /\ [Next]_vars => [Lifecycle!Next]_(Lifecycle!vars)
  <2> SUFFICES ASSUME BridgeInv, [Next]_vars PROVE [Lifecycle!Next]_(Lifecycle!vars)
    OBVIOUS
  <2>1. CASE Api
    BY <2>1, ApiRefines
  <2>2. CASE OperatorPanel
    BY <2>2, PanelRefines
  <2>3. ASSUME NEW g \in Gens, WatchStep(g) PROVE [Lifecycle!Next]_(Lifecycle!vars)
    BY <2>3, ExpiryRefines, LifecycleStutters DEF WatchStep, gate, run
  <2>4. ASSUME NEW m \in movers, MoverStep(m) PROVE [Lifecycle!Next]_(Lifecycle!vars)
    BY <2>4, LifecycleStutters DEF MoverStep, MoverRun, MoverError, MoverEnd, gate, run
  <2>5. CASE Restart
    <3>1. Lifecycle!Halt
      BY <2>5 DEF Restart, Stage, Lifecycle!Halt
    <3>2. QED
      BY <3>1 DEF Lifecycle!Next
  <2>6. CASE DeadlinePasses \/ ReadFails \/ HandMoves
    BY <2>6, LifecycleStutters DEF DeadlinePasses, ReadFails, HandMoves, gate, run
  <2>7. CASE UNCHANGED vars
    BY <2>7, LifecycleStutters DEF vars, gate, run
  <2>8. QED
    BY <2>1, <2>2, <2>3, <2>4, <2>5, <2>6, <2>7, TaskRefines, ExecRefines DEF Next, Threads, Environment
<1>3. QED
  BY <1>1, <1>2, BridgeInvariant, PTL DEF Spec, ImplementsLifecycle, Lifecycle!Spec

=============================================================================
