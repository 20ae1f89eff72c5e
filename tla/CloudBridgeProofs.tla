------------------------- MODULE CloudBridgeProofs -------------------------
(***************************************************************************)
(* Theorems about CloudBridge, for every value of its constants.  The      *)
(* inductive invariant is BridgeInv; the action properties follow from it  *)
(* and from what each step does to the arm (ArmSteps) and to the command   *)
(* threads (OnlyCommandsLaunch); one terminal result per command needs     *)
(* Reported beside it.                                                     *)
(***************************************************************************)
EXTENDS CloudBridge, TLAPS

-----------------------------------------------------------------------------
(* The driver, the motions, and the helpers the handlers share.            *)

\* Every driver call takes an arm to an arm.
LEMMA ArmCalls ==
    ASSUME NEW a \in Arm
    PROVE  /\ Faulted(a) \in Arm /\ Held(a) \in Arm /\ Enabled(a) \in Arm /\ Disabled(a) \in Arm
           /\ EnableFaulted(a) \subseteq Arm /\ DisableFaulted(a) \subseteq Arm
           /\ \A p \in Poses : Moved(a, p) \in Arm
BY DEF Arm, Modes, Faulted, Held, Enabled, Disabled, EnableFaulted, DisableFaulted, Moved

\* A fault outlasts the calls that can meet one.
LEMMA FaultStays ==
    ASSUME NEW a \in Arm
    PROVE  /\ Faulted(a).mode = "fault" /\ Faulted(a).pose = a.pose
           /\ Held(a).pose = a.pose /\ (a.mode = "fault" => Held(a).mode = "fault")
           /\ \A p \in Poses : Moved(a, p).mode = a.mode
<1>1. Faulted(a).mode = "fault" /\ Faulted(a).pose = a.pose
  BY DEF Arm, Faulted
<1>2. Held(a).pose = a.pose /\ (a.mode = "fault" => Held(a).mode = "fault")
  BY DEF Arm, Held
<1>3. \A p \in Poses : Moved(a, p).mode = a.mode
  BY DEF Arm, Moved
<1>4. QED
  BY <1>1, <1>2, <1>3

\* The command thread that is not there is a command thread.
LEMMA IdleExecTyped == IdleExec \in Execs
BY ConstantsOK DEF IdleExec, Execs, ExecPoints

\* Setting the cancel event of self.motion leaves at most that one motion.
LEMMA StoppedMotions ==
    ASSUME TypeOK, MotionHasOwner
    PROVE  /\ StoppedMotion \subseteq Movers
           /\ \A m \in StoppedMotion : m.current /\ \A n \in StoppedMotion : n = m
<1>1. CASE movers = {}
  BY <1>1 DEF StoppedMotion
<1>2. CASE movers # {}
  <2>1. PICK m \in movers : movers = {m}
    BY <1>2 DEF MotionHasOwner
  <2>2. m \in Movers /\ m.current
    BY <2>1 DEF TypeOK, MotionHasOwner
  <2>3. StoppedMotion = {[m EXCEPT !.stop = TRUE]}
    BY <2>1, <2>2 DEF StoppedMotion
  <2>4. QED
    BY <2>2, <2>3 DEF Movers
<1>3. QED
  BY <1>1, <1>2

\* So does the waiting loop that cancels its own motion.
LEMMA StopsOwnMotion ==
    ASSUME TypeOK, MotionHasOwner, NEW g \in Gens, StopOwnMotion(g)
    PROVE  /\ movers' \subseteq Movers
           /\ \A m \in movers' : m.current /\ \A n \in movers' : n = m
           /\ \A m \in movers' : \E n \in movers : m.by = n.by
<1>1. CASE movers = {}
  BY <1>1 DEF StopOwnMotion
<1>2. CASE movers # {}
  <2>1. PICK m \in movers : movers = {m}
    BY <1>2 DEF MotionHasOwner
  <2>2. m \in Movers /\ m.current
    BY <2>1 DEF TypeOK, MotionHasOwner
  <2>3. movers' \in {{m}, {[m EXCEPT !.stop = TRUE]}}
    BY <2>1 DEF StopOwnMotion
  <2>4. QED
    BY <2>1, <2>2, <2>3 DEF Movers
<1>3. QED
  BY <1>1, <1>2

\* What pause() leaves behind, whoever calls it.
LEMMA PauseResets ==
    ASSUME BridgeInv, NEW g \in Gens, NEW h \in HoldAnswers, Pause(g, h)
    PROVE  /\ generation' = g /\ task[g] = "none" /\ exec[g].pc = "idle"
           /\ ready' = FALSE /\ autoQueue' = FALSE /\ parked' = FALSE /\ returningHome' = FALSE
           /\ cleanupPhase' = "NONE" /\ activeCommand' = FALSE
           /\ lease' = NoSession /\ pending' = FALSE /\ runDeadline' = "none"
           /\ arm' \in Arm
<1>1. arm' \in Arm
  BY ArmCalls DEF BridgeInv, TypeOK, Pause, HoldOutcome
<1>2. QED
  BY <1>1 DEF Pause, NewGeneration, Dormant

\* pause() re-establishes the invariant whatever else its caller ends: task
\* threads, command threads, watchdogs and pose motions.
LEMMA PausePreserves ==
    ASSUME BridgeInv, NEW g \in Gens, NEW h \in HoldAnswers, Pause(g, h),
           task' \in [Gens -> TaskPoints], exec' \in [Gens -> Execs], watch' \subseteq watch,
           \A x \in Gens : (task'[x] = task[x] \/ task'[x] = "none")
                            /\ (exec'[x] = exec[x] \/ exec'[x] = IdleExec),
           movers' \in {movers, StoppedMotion},
           connected' \in BOOLEAN, motionError' \in BOOLEAN,
           timedOutLease' \in Sessions \cup {NoSession}, reports' \in 0..2
    PROVE  BridgeInv'
<1>1. TypeOK /\ MotionHasOwner
  BY DEF BridgeInv
<1>2. movers' \subseteq Movers /\ \A m \in movers' : m.current /\ \A n \in movers' : n = m
  BY <1>1, StoppedMotions DEF TypeOK, MotionHasOwner
<1>3. task'[generation'] = "none" /\ exec'[generation'].pc = "idle"
  <2>1. generation' = g /\ task[g] = "none" /\ exec[g].pc = "idle"
    BY PauseResets
  <2>2. QED
    BY <2>1 DEF IdleExec
<1>4. TypeOK'
  BY <1>1, <1>2, PauseResets DEF TypeOK, CleanupPhases
<1>5. AdmissionExclusive' /\ ExecServesLease' /\ TaskHasReason'
  BY <1>3, PauseResets DEF AdmissionExclusive, ExecServesLease, TaskHasReason
<1>6. MotionHasOwner'
  BY <1>2, PauseResets DEF MotionHasOwner, CloudBusy
<1>7. QED
  BY <1>4, <1>5, <1>6 DEF BridgeInv

\* So does _stop_run(), on its three ways out: cleanup, pause, and the arm that
\* does not answer.
LEMMA StopPreserves ==
    ASSUME BridgeInv, lease # NoSession, NEW normal \in BOOLEAN, StopRun(normal),
           exec' \in [Gens -> Execs], watch' \subseteq watch,
           \A x \in Gens : exec'[x] = exec[x] \/ exec'[x] = IdleExec,
           UNCHANGED <<connected, motions>>,
           timedOutLease' \in Sessions \cup {NoSession}, reports' \in 0..2
    PROVE  BridgeInv'
<1>1. CASE \E g \in Gens : StartCleanup(g)
  <2>1. PICK g \in Gens : StartCleanup(g)
    BY <1>1
  <2>2. movers = {} /\ task[generation] = "none"
    BY DEF BridgeInv, AdmissionExclusive, MotionHasOwner, CloudBusy
  <2>3. /\ generation' = g /\ task'[g] = "lookup" /\ exec[g].pc = "idle"
        /\ task' \in [Gens -> TaskPoints]
    BY <2>1 DEF StartCleanup, NewGeneration, Dormant, BridgeInv, TypeOK, TaskPoints
  <2>4. TypeOK'
    BY <2>1, <2>3 DEF StartCleanup, BridgeInv, TypeOK, CleanupPhases, motions
  <2>5. AdmissionExclusive' /\ ExecServesLease' /\ TaskHasReason' /\ MotionHasOwner'
    BY <2>1, <2>2, <2>3 DEF StartCleanup, AdmissionExclusive, ExecServesLease, TaskHasReason,
                            MotionHasOwner, IdleExec, motions
  <2>6. QED
    BY <2>4, <2>5 DEF BridgeInv
<1>2. CASE UNCHANGED task /\ \E g \in Gens, h \in HoldAnswers : Pause(g, h)
  <2>1. task' \in [Gens -> TaskPoints] /\ motionError' \in BOOLEAN /\ connected' \in BOOLEAN
    BY <1>2 DEF BridgeInv, TypeOK, motions
  <2>2. QED
    BY <1>2, <2>1, PausePreserves DEF BridgeInv, TypeOK, motions
<1>3. CASE /\ arm' = Faulted(arm) /\ activeCommand' = FALSE /\ runDeadline' = "none"
           /\ UNCHANGED <<gate, generation, lease, pending, task>>
  <2>1. arm' \in Arm /\ arm'.mode = "fault"
    BY <1>3, ArmCalls DEF BridgeInv, TypeOK, Faulted, Arm
  <2>2. TypeOK'
    BY <1>3, <2>1 DEF BridgeInv, TypeOK, gate, motions
  <2>3. AdmissionExclusive' /\ ExecServesLease' /\ TaskHasReason' /\ MotionHasOwner'
    BY <1>3, <2>1 DEF BridgeInv, TypeOK, AdmissionExclusive, ExecServesLease, TaskHasReason, MotionHasOwner,
                      CloudBusy, IdleExec, gate, motions
  <2>4. QED
    BY <2>2, <2>3 DEF BridgeInv
<1>4. QED
  BY <1>1, <1>2, <1>3 DEF StopRun

\* start_pose() with no motion alive leaves exactly the one it started.
LEMMA StartedMotions ==
    ASSUME movers = {}, NEW g \in Gens \cup {NoGen}, NEW p \in {"home", "zero"}
    PROVE  /\ StartedMotion(g, p) \subseteq Movers
           /\ \A m \in StartedMotion(g, p) : m.by = g /\ m.current
                                             /\ \A n \in StartedMotion(g, p) : n = m
<1>1. StartedMotion(g, p) =
          {[by |-> g, to |-> p, stop |-> FALSE, current |-> TRUE, pc |-> "run"]}
  BY DEF StartedMotion
<1>2. QED
  BY <1>1 DEF Movers

\* A pose motion that moves on is still the only one, of the same owner.
LEMMA MoverAdvances ==
    ASSUME TypeOK, MotionHasOwner, NEW m \in movers, NEW p \in {"run", "err", "end"}, MoverGoes(m, p)
    PROVE  /\ movers' \subseteq Movers
           /\ \A n \in movers' : n.current /\ n.by = m.by /\ \A o \in movers' : o = n
<1>1. movers = {m} /\ m \in Movers /\ m.current
  BY DEF TypeOK, MotionHasOwner
<1>2. movers' = {[m EXCEPT !.pc = p]}
  BY <1>1 DEF MoverGoes
<1>3. QED
  BY <1>1, <1>2 DEF Movers

\* expire_run(), from any of its callers.
LEMMA ExpiryPreserves ==
    ASSUME BridgeInv, ExpireRun,
           exec' \in [Gens -> Execs], watch' \subseteq watch,
           \A x \in Gens : exec'[x] = exec[x] \/ exec'[x] = IdleExec,
           UNCHANGED <<connected, motions>>
    PROVE  BridgeInv'
<1>1. lease # NoSession /\ StopRun(TRUE)
  BY DEF ExpireRun, Expired
<1>2. timedOutLease' \in Sessions \cup {NoSession} /\ reports' \in 0..2
  BY DEF ExpireRun, BridgeInv, TypeOK
<1>3. QED
  BY <1>1, <1>2, StopPreserves

-----------------------------------------------------------------------------
(* Every actor preserves the invariant.                                    *)

\* One step of the queue task thread, _next_auto_task() and move_for_queue().
LEMMA TaskPreserves ==
    ASSUME BridgeInv, NEW g \in Gens, TaskStep(g)
    PROVE  BridgeInv'
<1>1. CASE TaskLookup(g)
  <2>1. TypeOK'
    BY <1>1 DEF TaskLookup, TaskAt, TaskGoes, gate, run, motions, BridgeInv, TypeOK, TaskPoints
  <2>2. AdmissionExclusive' /\ ExecServesLease' /\ TaskHasReason' /\ MotionHasOwner'
    BY <1>1
    DEF TaskLookup, TaskAt, TaskGoes, gate, run, motions, BridgeInv, AdmissionExclusive,
        ExecServesLease, TaskHasReason, MotionHasOwner, CloudBusy, TypeOK
  <2>3. QED
    BY <2>1, <2>2 DEF BridgeInv
<1>2. CASE TaskPark(g)
  <2>1. TypeOK'
    BY <1>2
    DEF TaskPark, TaskAt, TaskGoes, run, motions, BridgeInv, TypeOK, TaskPoints, CleanupPhases
  <2>2. AdmissionExclusive' /\ ExecServesLease' /\ TaskHasReason' /\ MotionHasOwner'
    BY <1>2
    DEF TaskPark, TaskAt, TaskGoes, run, motions, BridgeInv, AdmissionExclusive,
        ExecServesLease, TaskHasReason, MotionHasOwner, CloudBusy, TypeOK
  <2>3. QED
    BY <2>1, <2>2 DEF BridgeInv
<1>3. CASE TaskZeroStart(g)
  <2>1. ~Revoked(g) => movers = {}
    BY <1>3 DEF TaskZeroStart, TaskAt, Revoked, BridgeInv, MotionHasOwner, CloudBusy
  <2>2. movers' \subseteq Movers /\ \A m \in movers' : m.current /\ \A n \in movers' : n = m
    BY <1>3, <2>1, StartedMotions DEF TaskZeroStart, BridgeInv, TypeOK, MotionHasOwner, motions
  <2>3. arm' \in Arm
    BY <1>3, ArmCalls DEF TaskZeroStart, BridgeInv, TypeOK
  <2>4. TypeOK'
    BY <1>3, <2>2, <2>3 DEF TaskZeroStart, TaskGoes, BridgeInv, TypeOK, TaskPoints, gate, run, motions
  <2>5. AdmissionExclusive' /\ ExecServesLease' /\ TaskHasReason'
    BY <1>3 DEF TaskZeroStart, TaskAt, TaskGoes, Revoked, Faulted, BridgeInv, TypeOK, AdmissionExclusive,
             ExecServesLease, TaskHasReason, gate, run
  <2>6. CASE Revoked(g)
    BY <1>3, <2>4, <2>5, <2>6 DEF TaskZeroStart, TaskAt, TaskGoes, Revoked, BridgeInv, TypeOK,
                               MotionHasOwner, TaskHasReason, CloudBusy, gate, run, motions
  <2>7. CASE ~Revoked(g)
    <3>1. g = generation /\ task' \in [Gens -> TaskPoints]
      BY <2>4, <2>7 DEF Revoked, TypeOK
    <3>2. movers' # {} => movers' = StartedMotion(g, "zero") /\ task'[g] = "zeroWait"
      BY <1>3, <2>1, <2>7 DEF TaskZeroStart, TaskGoes, BridgeInv, TypeOK, motions
    <3>3. MotionHasOwner'
      BY <1>3, <2>1, <2>2, <2>7, <3>1, <3>2, StartedMotions DEF TaskZeroStart, MotionHasOwner
    <3>4. QED
      BY <2>4, <2>5, <3>3 DEF BridgeInv
  <2>8. QED
    BY <2>6, <2>7
<1>4. CASE TaskZeroWait(g)
  <2>1. TypeOK /\ MotionHasOwner
    BY DEF BridgeInv
  <2>2. /\ movers' \subseteq Movers /\ \A m \in movers' : m.current /\ \A n \in movers' : n = m
        /\ g # generation => \A m \in movers' : \E n \in movers : m.by = n.by
        /\ g = generation => movers' = {}
    <3>1. CASE Revoked(g)
      <4>1. StopOwnMotion(g) /\ g # generation
        BY <1>4, <3>1 DEF TaskZeroWait, TaskAt, Revoked, BridgeInv, TaskHasReason, Motion, MotionHasOwner
      <4>2. QED
        BY <2>1, <4>1, StopsOwnMotion
    <3>2. CASE ~Revoked(g)
      BY <1>4, <2>1, <3>2 DEF TaskZeroWait, Revoked, Motion, TypeOK, MotionHasOwner
    <3>3. QED
      BY <3>1, <3>2
  <2>3. arm' \in Arm
    BY <1>4, <2>1, ArmCalls DEF TaskZeroWait, TypeOK
  <2>4. TypeOK'
    BY <1>4, <2>1, <2>2, <2>3 DEF TaskZeroWait, TaskGoes, TypeOK, TaskPoints, gate, run
  <2>5. AdmissionExclusive' /\ ExecServesLease' /\ TaskHasReason'
    BY <1>4 DEF TaskZeroWait, TaskAt, TaskGoes, Revoked, BridgeInv, TypeOK, AdmissionExclusive,
             ExecServesLease, TaskHasReason, gate, run
  <2>6. MotionHasOwner'
    BY <1>4, <2>2 DEF TaskZeroWait, TaskGoes, BridgeInv, TypeOK, MotionHasOwner, CloudBusy, gate, run
  <2>7. QED
    BY <2>4, <2>5, <2>6 DEF BridgeInv
<1>5. CASE TaskParked(g)
  <2>1. TypeOK'
    BY <1>5
    DEF TaskParked, TaskAt, TaskGoes, run, motions, BridgeInv, TypeOK, TaskPoints, CleanupPhases
  <2>2. AdmissionExclusive' /\ ExecServesLease' /\ TaskHasReason' /\ MotionHasOwner'
    BY <1>5
    DEF TaskParked, TaskAt, TaskGoes, run, motions, BridgeInv, AdmissionExclusive,
        ExecServesLease, TaskHasReason, MotionHasOwner, CloudBusy, TypeOK
  <2>3. QED
    BY <2>1, <2>2 DEF BridgeInv
<1>6. CASE TaskSleep(g)
  <2>1. TypeOK'
    BY <1>6 DEF TaskSleep, TaskAt, TaskGoes, gate, run, motions, BridgeInv, TypeOK, TaskPoints
  <2>2. AdmissionExclusive' /\ ExecServesLease' /\ TaskHasReason' /\ MotionHasOwner'
    BY <1>6
    DEF TaskSleep, TaskAt, TaskGoes, gate, run, motions, BridgeInv, AdmissionExclusive,
        ExecServesLease, TaskHasReason, MotionHasOwner, CloudBusy, TypeOK
  <2>3. QED
    BY <2>1, <2>2 DEF BridgeInv
<1>7. CASE TaskPollFindsWork(g)
  <2>1. TypeOK'
    BY <1>7
    DEF TaskPollFindsWork, TaskAt, TaskGoes, gate, run, motions, BridgeInv, TypeOK, TaskPoints
  <2>2. AdmissionExclusive' /\ ExecServesLease' /\ TaskHasReason' /\ MotionHasOwner'
    BY <1>7
    DEF TaskPollFindsWork, TaskAt, TaskGoes, gate, run, motions, BridgeInv, AdmissionExclusive,
        ExecServesLease, TaskHasReason, MotionHasOwner, CloudBusy, TypeOK
  <2>3. QED
    BY <2>1, <2>2 DEF BridgeInv
<1>8. CASE TaskPollFindsNone(g)
  <2>1. TypeOK'
    BY <1>8
    DEF TaskPollFindsNone, TaskAt, TaskGoes, gate, run, motions, BridgeInv, TypeOK, TaskPoints
  <2>2. AdmissionExclusive' /\ ExecServesLease' /\ TaskHasReason' /\ MotionHasOwner'
    BY <1>8
    DEF TaskPollFindsNone, TaskAt, TaskGoes, gate, run, motions, BridgeInv, AdmissionExclusive,
        ExecServesLease, TaskHasReason, MotionHasOwner, CloudBusy, TypeOK
  <2>3. QED
    BY <2>1, <2>2 DEF BridgeInv
<1>9. CASE TaskWake(g)
  <2>1. TypeOK'
    BY <1>9 DEF TaskWake, TaskAt, TaskGoes, run, motions, BridgeInv, TypeOK, TaskPoints
  <2>2. AdmissionExclusive' /\ ExecServesLease' /\ TaskHasReason' /\ MotionHasOwner'
    BY <1>9
    DEF TaskWake, TaskAt, TaskGoes, run, motions, BridgeInv, AdmissionExclusive,
        ExecServesLease, TaskHasReason, MotionHasOwner, CloudBusy, TypeOK
  <2>3. QED
    BY <2>1, <2>2 DEF BridgeInv
<1>10. CASE TaskHome(g)
  <2>1. TypeOK'
    BY <1>10
    DEF TaskHome, TaskAt, TaskGoes, run, motions, BridgeInv, TypeOK, TaskPoints, CleanupPhases
  <2>2. AdmissionExclusive' /\ ExecServesLease' /\ TaskHasReason' /\ MotionHasOwner'
    BY <1>10
    DEF TaskHome, TaskAt, TaskGoes, run, motions, BridgeInv, AdmissionExclusive,
        ExecServesLease, TaskHasReason, MotionHasOwner, CloudBusy, TypeOK
  <2>3. QED
    BY <2>1, <2>2 DEF BridgeInv
<1>11. CASE TaskHomeStart(g)
  <2>1. ~Revoked(g) => movers = {}
    BY <1>11 DEF TaskHomeStart, TaskAt, Revoked, BridgeInv, MotionHasOwner, CloudBusy
  <2>2. movers' \subseteq Movers /\ \A m \in movers' : m.current /\ \A n \in movers' : n = m
    BY <1>11, <2>1, StartedMotions DEF TaskHomeStart, BridgeInv, TypeOK, MotionHasOwner, motions
  <2>3. arm' \in Arm
    BY <1>11, ArmCalls DEF TaskHomeStart, BridgeInv, TypeOK
  <2>4. TypeOK'
    BY <1>11, <2>2, <2>3 DEF TaskHomeStart, TaskGoes, BridgeInv, TypeOK, TaskPoints, gate, run, motions
  <2>5. AdmissionExclusive' /\ ExecServesLease' /\ TaskHasReason'
    BY <1>11 DEF TaskHomeStart, TaskAt, TaskGoes, Revoked, Faulted, BridgeInv, TypeOK, AdmissionExclusive,
             ExecServesLease, TaskHasReason, gate, run
  <2>6. CASE Revoked(g)
    BY <1>11, <2>4, <2>5, <2>6 DEF TaskHomeStart, TaskAt, TaskGoes, Revoked, BridgeInv, TypeOK,
                               MotionHasOwner, TaskHasReason, CloudBusy, gate, run, motions
  <2>7. CASE ~Revoked(g)
    <3>1. g = generation /\ task' \in [Gens -> TaskPoints]
      BY <2>4, <2>7 DEF Revoked, TypeOK
    <3>2. movers' # {} => movers' = StartedMotion(g, "home") /\ task'[g] = "homeWait"
      BY <1>11, <2>1, <2>7 DEF TaskHomeStart, TaskGoes, BridgeInv, TypeOK, motions
    <3>3. MotionHasOwner'
      BY <1>11, <2>1, <2>2, <2>7, <3>1, <3>2, StartedMotions DEF TaskHomeStart, MotionHasOwner
    <3>4. QED
      BY <2>4, <2>5, <3>3 DEF BridgeInv
  <2>8. QED
    BY <2>6, <2>7
<1>12. CASE TaskHomeWait(g)
  <2>1. TypeOK /\ MotionHasOwner
    BY DEF BridgeInv
  <2>2. /\ movers' \subseteq Movers /\ \A m \in movers' : m.current /\ \A n \in movers' : n = m
        /\ g # generation => \A m \in movers' : \E n \in movers : m.by = n.by
        /\ g = generation => movers' = {}
    <3>1. CASE Revoked(g)
      <4>1. StopOwnMotion(g) /\ g # generation
        BY <1>12, <3>1 DEF TaskHomeWait, TaskAt, Revoked, BridgeInv, TaskHasReason, Motion, MotionHasOwner
      <4>2. QED
        BY <2>1, <4>1, StopsOwnMotion
    <3>2. CASE ~Revoked(g)
      BY <1>12, <2>1, <3>2 DEF TaskHomeWait, Revoked, Motion, TypeOK, MotionHasOwner
    <3>3. QED
      BY <3>1, <3>2
  <2>3. arm' \in Arm
    BY <1>12, <2>1, ArmCalls DEF TaskHomeWait, TypeOK
  <2>4. TypeOK'
    BY <1>12, <2>1, <2>2, <2>3 DEF TaskHomeWait, TaskGoes, TypeOK, TaskPoints, gate, run
  <2>5. AdmissionExclusive' /\ ExecServesLease' /\ TaskHasReason'
    BY <1>12 DEF TaskHomeWait, TaskAt, TaskGoes, Revoked, BridgeInv, TypeOK, AdmissionExclusive,
             ExecServesLease, TaskHasReason, gate, run
  <2>6. MotionHasOwner'
    BY <1>12, <2>2 DEF TaskHomeWait, TaskGoes, BridgeInv, TypeOK, MotionHasOwner, CloudBusy, gate, run
  <2>7. QED
    BY <2>4, <2>5, <2>6 DEF BridgeInv
<1>13. CASE TaskFinish(g)
  <2>1. TypeOK'
    BY <1>13
    DEF TaskFinish, TaskAt, TaskGoes, gate, ReportedMode, run, motions, BridgeInv, TypeOK,
        TaskPoints, CleanupPhases
  <2>2. AdmissionExclusive' /\ ExecServesLease' /\ TaskHasReason' /\ MotionHasOwner'
    BY <1>13
    DEF TaskFinish, TaskAt, TaskGoes, gate, ReportedMode, run, motions, BridgeInv,
        AdmissionExclusive, ExecServesLease, TaskHasReason, MotionHasOwner, CloudBusy, TypeOK
  <2>3. QED
    BY <2>1, <2>2 DEF BridgeInv
<1>14. CASE TaskFail(g)
  <2>1. CASE g # generation
    <3>1. TypeOK'
      BY <1>14, <2>1 DEF TaskFail, TaskGoes, BridgeInv, TypeOK, TaskPoints, gate, run, motions
    <3>2. AdmissionExclusive' /\ ExecServesLease' /\ TaskHasReason' /\ MotionHasOwner'
      BY <1>14, <2>1 DEF TaskFail, TaskGoes, BridgeInv, TypeOK, AdmissionExclusive, ExecServesLease,
                     TaskHasReason, MotionHasOwner, CloudBusy, gate, run, motions
    <3>3. QED
      BY <3>1, <3>2 DEF BridgeInv
  <2>2. CASE g = generation
    <3>1. PICK n \in Gens, h \in HoldAnswers : Pause(n, h)
      BY <1>14, <2>2 DEF TaskFail
    <3>2. /\ task' \in [Gens -> TaskPoints]
          /\ \A x \in Gens : task'[x] = task[x] \/ task'[x] = "none"
      BY <1>14 DEF TaskFail, TaskGoes, BridgeInv, TypeOK, TaskPoints
    <3>3. QED
      BY <1>14, <3>1, <3>2, PausePreserves DEF TaskFail, BridgeInv, TypeOK, motions
  <2>3. QED
    BY <2>1, <2>2
<1>15. QED
  BY <1>1, <1>2, <1>3, <1>4, <1>5, <1>6, <1>7, <1>8, <1>9, <1>10, <1>11, <1>12, <1>13, <1>14 DEF TaskStep

\* One step of a command thread, execute(): the gate first, then what each
\* critical section does when it is let through.
LEMMA ExecPreserves ==
    ASSUME BridgeInv, NEW g \in Gens, ExecStep(g)
    PROVE  BridgeInv'
<1>1. ASSUME NEW p \in ExecPoints, ExecGate(g, p) PROVE BridgeInv'
  <2>1. /\ exec' \in [Gens -> Execs] /\ exec'[g] = IdleExec
        /\ \A x \in Gens : exec'[x] = exec[x] \/ exec'[x] = IdleExec
    BY <1>1, IdleExecTyped DEF ExecGate, ExecEnds, BridgeInv, TypeOK
  <2>2. CASE g # generation /\ UNCHANGED <<arm, gate, generation, run, timedOutLease, reports, task>>
    <3>1. TypeOK'
      BY <1>1, <2>1, <2>2 DEF ExecGate, BridgeInv, TypeOK, gate, run, motions
    <3>2. AdmissionExclusive' /\ ExecServesLease' /\ TaskHasReason' /\ MotionHasOwner'
      BY <1>1, <2>1, <2>2 DEF ExecGate, BridgeInv, TypeOK, AdmissionExclusive, ExecServesLease, IdleExec,
                           TaskHasReason, MotionHasOwner, CloudBusy, gate, run, motions
    <3>3. QED
      BY <3>1, <3>2 DEF BridgeInv
  <2>3. CASE ExpireRun
    BY <1>1, <2>1, <2>3, ExpiryPreserves DEF ExecGate, BridgeInv, TypeOK
  <2>4. QED
    BY <1>1, <2>2, <2>3 DEF ExecGate
<1>2. CASE ExecLive(g, "dispatch") /\ ExecDispatch(g) /\ ~ExecGate(g, "dispatch")
  <2>1. arm' \in Arm
    BY <1>2, ArmCalls DEF ExecDispatch, BridgeInv, TypeOK
  <2>2. exec[g] \in Execs /\ exec[g].pc = "dispatch" /\ g = generation
    BY <1>2 DEF ExecLive, ExecAt, BridgeInv, TypeOK
  <2>3. PICK e \in Execs : exec' = [exec EXCEPT ![g] = e] /\ e.session = exec[g].session
    <3>1. CASE exec' = [exec EXCEPT ![g] = AfterWaypoint(exec[g])]
      <4>1. exec[g].left \in 1..MaxWaypoints /\ exec[g].session \in Sessions \cup {NoSession}
        BY <2>2, ConstantsOK DEF Execs
      <4>2. exec[g].left - 1 \in 0..MaxWaypoints /\ (exec[g].left # 1 => exec[g].left - 1 > 0)
        BY <4>1, ConstantsOK
      <4>3. AfterWaypoint(exec[g]) \in Execs /\ AfterWaypoint(exec[g]).session = exec[g].session
        BY <4>1, <4>2 DEF AfterWaypoint, Execs, ExecPoints
      <4>4. QED
        BY <3>1, <4>3 DEF BridgeInv, TypeOK
    <3>2. CASE ExecGoes(g, "fail")
      <4>1. [exec[g] EXCEPT !.pc = "fail"] \in Execs
        BY <2>2 DEF Execs, ExecPoints
      <4>2. QED
        BY <3>2, <4>1, <2>2 DEF ExecGoes, Execs, BridgeInv, TypeOK
    <3>3. exec' = [exec EXCEPT ![g] = AfterWaypoint(exec[g])] \/ ExecGoes(g, "fail")
      BY <1>2 DEF ExecDispatch
    <3>4. QED
      BY <3>1, <3>2, <3>3
  <2>4. exec' \in [Gens -> Execs] /\ exec'[g].session = exec[g].session
    BY <2>3 DEF BridgeInv, TypeOK
  <2>5. TypeOK'
    BY <1>2, <2>1, <2>4 DEF ExecDispatch, BridgeInv, TypeOK, gate, run, motions
  <2>6. AdmissionExclusive' /\ TaskHasReason' /\ MotionHasOwner'
    BY <1>2 DEF ExecDispatch, BridgeInv, AdmissionExclusive, TaskHasReason, MotionHasOwner,
             CloudBusy, gate, run, motions
  <2>7. ExecServesLease'
    BY <1>2, <2>2, <2>4 DEF ExecDispatch, BridgeInv, ExecServesLease, gate, run
  <2>8. QED
    BY <2>5, <2>6, <2>7 DEF BridgeInv
<1>3. CASE ExecLive(g, "settle") /\ ExecSettle(g) /\ ~ExecGate(g, "settle")
  <2>1. arm' \in Arm
    BY <1>3, ArmCalls DEF ExecSettle, BridgeInv, TypeOK
  <2>2. exec[g] \in Execs /\ exec[g].pc = "settle" /\ g = generation
    BY <1>3 DEF ExecLive, ExecAt, BridgeInv, TypeOK
  <2>3. PICK e \in Execs : exec' = [exec EXCEPT ![g] = e] /\ e.session = exec[g].session
    <3>1. ASSUME NEW q \in {"complete", "fail"}, ExecGoes(g, q)
          PROVE  \E e \in Execs : exec' = [exec EXCEPT ![g] = e] /\ e.session = exec[g].session
      <4>1. [exec[g] EXCEPT !.pc = q] \in Execs
        BY <2>2 DEF Execs, ExecPoints
      <4>2. QED
        BY <3>1, <4>1, <2>2 DEF ExecGoes, Execs, BridgeInv, TypeOK
    <3>2. QED
      BY <1>3, <3>1 DEF ExecSettle
  <2>4. exec' \in [Gens -> Execs] /\ exec'[g].session = exec[g].session
    BY <2>3 DEF BridgeInv, TypeOK
  <2>5. TypeOK'
    BY <1>3, <2>1, <2>4 DEF ExecSettle, BridgeInv, TypeOK, gate, run, motions
  <2>6. AdmissionExclusive' /\ TaskHasReason' /\ MotionHasOwner'
    BY <1>3 DEF ExecSettle, BridgeInv, AdmissionExclusive, TaskHasReason, MotionHasOwner,
             CloudBusy, gate, run, motions
  <2>7. ExecServesLease'
    BY <1>3, <2>2, <2>4 DEF ExecSettle, BridgeInv, ExecServesLease, gate, run
  <2>8. QED
    BY <2>5, <2>6, <2>7 DEF BridgeInv
<1>4. CASE ExecLive(g, "complete") /\ ExecComplete(g) /\ ~ExecGate(g, "complete")
  <2>1. arm' \in Arm
    BY <1>4, ArmCalls DEF ExecComplete, BridgeInv, TypeOK
  <2>2. exec[g] \in Execs /\ g = generation /\ arm \in Arm
    BY <1>4 DEF ExecLive, BridgeInv, TypeOK
  <2>3. CASE ExecEnds(g)
    <3>1. exec' \in [Gens -> Execs] /\ exec'[g].pc = "idle"
      BY <2>3, IdleExecTyped DEF ExecEnds, IdleExec, BridgeInv, TypeOK
    <3>2. reports' \in 0..2
      BY <1>4 DEF ExecComplete, BridgeInv, TypeOK
    <3>3. TypeOK'
      BY <1>4, <2>1, <3>1, <3>2 DEF ExecComplete, BridgeInv, TypeOK, gate, motions
    <3>4. AdmissionExclusive' /\ ExecServesLease' /\ TaskHasReason' /\ MotionHasOwner'
      BY <1>4, <2>2, <3>1 DEF ExecComplete, BridgeInv, AdmissionExclusive, ExecServesLease,
                           TaskHasReason, MotionHasOwner, CloudBusy, gate, motions
    <3>5. QED
      BY <3>3, <3>4 DEF BridgeInv
  <2>4. CASE ExecGoes(g, "fail") /\ arm' = Faulted(arm) /\ UNCHANGED reports
    <3>1. [exec[g] EXCEPT !.pc = "fail"] \in Execs /\ exec[g].pc = "complete"
      BY <1>4, <2>2 DEF Execs, ExecPoints, ExecLive, ExecAt
    <3>2. exec' \in [Gens -> Execs] /\ exec'[g].pc = "fail" /\ exec'[g].session = exec[g].session
      BY <2>2, <2>4, <3>1 DEF ExecGoes, Execs, BridgeInv, TypeOK
    <3>3. TypeOK'
      BY <1>4, <2>1, <2>4, <3>2 DEF ExecComplete, BridgeInv, TypeOK, gate, motions
    <3>4. AdmissionExclusive' /\ TaskHasReason' /\ MotionHasOwner'
      BY <1>4 DEF ExecComplete, BridgeInv, AdmissionExclusive, TaskHasReason, MotionHasOwner,
               CloudBusy, gate, motions
    <3>5. ExecServesLease'
      BY <1>4, <2>2, <2>4, <3>1, <3>2, FaultStays DEF ExecComplete, BridgeInv, ExecServesLease, gate
    <3>6. QED
      BY <3>3, <3>4, <3>5 DEF BridgeInv
  <2>5. QED
    BY <1>4, <2>3, <2>4 DEF ExecComplete
<1>5. CASE ExecLive(g, "fail") /\ ExecFail(g) /\ ~ExecGate(g, "fail")
  <2>1. PICK n \in Gens, h \in HoldAnswers : Pause(n, h)
    BY <1>5 DEF ExecFail
  <2>2. /\ exec' \in [Gens -> Execs]
        /\ \A x \in Gens : exec'[x] = exec[x] \/ exec'[x] = IdleExec
    BY <1>5, IdleExecTyped DEF ExecFail, ExecEnds, BridgeInv, TypeOK
  <2>3. reports' \in 0..2
    BY <1>5 DEF ExecFail, BridgeInv, TypeOK
  <2>4. QED
    BY <1>5, <2>1, <2>2, <2>3, PausePreserves DEF ExecFail, BridgeInv, TypeOK, motions
<1>6. QED
  <2>1. \A p \in ExecPoints : ExecGate(g, p) => BridgeInv'
    BY <1>1
  <2>2. /\ ExecDispatch(g) => ExecGate(g, "dispatch") \/ ExecLive(g, "dispatch")
        /\ ExecSettle(g) => ExecGate(g, "settle") \/ ExecLive(g, "settle")
        /\ ExecComplete(g) => ExecGate(g, "complete") \/ ExecLive(g, "complete")
        /\ ExecFail(g) => ExecGate(g, "fail") \/ ExecLive(g, "fail")
    BY DEF ExecDispatch, ExecSettle, ExecComplete, ExecFail
  <2>3. QED
    BY <1>2, <1>3, <1>4, <1>5, <2>1, <2>2 DEF ExecStep, ExecPoints

\* One step of the deadline watchdog.
LEMMA WatchPreserves ==
    ASSUME BridgeInv, NEW g \in Gens, WatchStep(g)
    PROVE  BridgeInv'
<1>1. CASE ExpireRun
  BY <1>1, ExpiryPreserves DEF WatchStep, BridgeInv, TypeOK
<1>2. CASE /\ g # generation \/ lease = NoSession \/ runDeadline = "none"
           /\ UNCHANGED <<arm, gate, generation, run, timedOutLease, reports, task>>
  <2>1. TypeOK'
    BY <1>2 DEF WatchStep, BridgeInv, TypeOK, gate, run, motions
  <2>2. AdmissionExclusive' /\ ExecServesLease' /\ TaskHasReason' /\ MotionHasOwner'
    BY <1>2 DEF WatchStep, BridgeInv, AdmissionExclusive, ExecServesLease, TaskHasReason,
                MotionHasOwner, CloudBusy, gate, run, motions
  <2>3. QED
    BY <2>1, <2>2 DEF BridgeInv
<1>3. QED
  BY <1>1, <1>2 DEF WatchStep

\* One step of a pose motion, start_pose().
LEMMA MoverPreserves ==
    ASSUME BridgeInv, NEW m \in movers, MoverStep(m)
    PROVE  BridgeInv'
<1>1. CASE MoverRun(m)
  <2>1. arm' \in Arm /\ (arm.mode = "fault" => arm'.mode = "fault")
    <3>1. m.to \in Poses /\ arm \in Arm
      BY DEF BridgeInv, TypeOK, Movers, Poses
    <3>2. PICK p \in Poses : arm' \in {arm, Faulted(arm)} \/ (MayMove(arm) /\ arm' = Moved(arm, p))
      BY <1>1, <3>1 DEF MoverRun, Poses
    <3>3. QED
      BY <3>1, <3>2, ArmCalls, FaultStays DEF MayMove
  <2>2. /\ movers' \subseteq Movers /\ \A n \in movers' : n.current /\ \A o \in movers' : o = n
        /\ \A n \in movers' : \E o \in movers : n.by = o.by
    BY <1>1, MoverAdvances DEF MoverRun, BridgeInv, TypeOK, MotionHasOwner
  <2>3. TypeOK'
    BY <1>1, <2>1, <2>2 DEF MoverRun, BridgeInv, TypeOK, gate, run, threads
  <2>4. AdmissionExclusive' /\ ExecServesLease' /\ TaskHasReason'
    BY <1>1, <2>1 DEF MoverRun, BridgeInv, AdmissionExclusive, ExecServesLease, TaskHasReason,
                   gate, run, threads
  <2>5. MotionHasOwner'
    BY <1>1, <2>2 DEF MoverRun, BridgeInv, MotionHasOwner, CloudBusy, gate, run, threads
  <2>6. QED
    BY <2>3, <2>4, <2>5 DEF BridgeInv
<1>2. CASE MoverError(m)
  <2>1. arm' \in Arm /\ (arm.mode = "fault" => arm'.mode = "fault")
    BY <1>2, ArmCalls, FaultStays DEF MoverError, HoldOutcome, BridgeInv, TypeOK
  <2>2. /\ movers' \subseteq Movers /\ \A n \in movers' : n.current /\ \A o \in movers' : o = n
        /\ \A n \in movers' : \E o \in movers : n.by = o.by
    BY <1>2, MoverAdvances DEF MoverError, BridgeInv, TypeOK, MotionHasOwner
  <2>3. TypeOK'
    BY <1>2, <2>1, <2>2 DEF MoverError, BridgeInv, TypeOK, gate, run, threads
  <2>4. AdmissionExclusive' /\ ExecServesLease' /\ TaskHasReason'
    BY <1>2, <2>1 DEF MoverError, BridgeInv, AdmissionExclusive, ExecServesLease, TaskHasReason,
                   gate, run, threads
  <2>5. MotionHasOwner'
    BY <1>2, <2>2 DEF MoverError, BridgeInv, MotionHasOwner, CloudBusy, gate, run, threads
  <2>6. QED
    BY <2>3, <2>4, <2>5 DEF BridgeInv
<1>3. CASE MoverEnd(m)
  <2>1. TypeOK'
    BY <1>3 DEF MoverEnd, gate, run, threads, BridgeInv, TypeOK
  <2>2. AdmissionExclusive' /\ ExecServesLease' /\ TaskHasReason' /\ MotionHasOwner'
    BY <1>3
    DEF MoverEnd, gate, run, threads, BridgeInv, AdmissionExclusive, ExecServesLease,
        TaskHasReason, MotionHasOwner, CloudBusy, TypeOK
  <2>3. QED
    BY <2>1, <2>2 DEF BridgeInv
<1>4. QED
  BY <1>1, <1>2, <1>3 DEF MoverStep

\* The handlers that name a session.
LEMMA SessionPreserves ==
    ASSUME BridgeInv, NEW s \in Sessions,
           ApiPrepareSession(s) \/ ApiPrepareInvalid(s) \/ ApiHandleCommand(s) \/ ApiHandleStop(s)
    PROVE  BridgeInv'
<1>1. CASE ApiPrepareSession(s)
  <2>1. arm' \in Arm
    BY <1>1, ArmCalls DEF ApiPrepareSession, BridgeInv, TypeOK
  <2>2. TypeOK'
    BY <1>1, <2>1 DEF ApiPrepareSession, BridgeInv, TypeOK, motions
  <2>3. task[generation] = "none" /\ exec[generation].pc = "idle" /\ movers = {} /\ ~returningHome
    BY <1>1 DEF ApiPrepareSession, BridgeInv, AdmissionExclusive, ExecServesLease, TaskHasReason,
             MotionHasOwner, CloudBusy
  <2>4. AdmissionExclusive' /\ ExecServesLease' /\ TaskHasReason' /\ MotionHasOwner'
    BY <1>1, <2>3, ConstantsOK
    DEF ApiPrepareSession, BridgeInv, TypeOK, AdmissionExclusive, ExecServesLease, TaskHasReason,
        MotionHasOwner, motions
  <2>5. QED
    BY <2>2, <2>4 DEF BridgeInv
<1>2. CASE ApiPrepareInvalid(s)
  BY <1>2, PausePreserves
     DEF ApiPrepareInvalid, BridgeInv, TypeOK, threads, motions
<1>3. CASE ApiHandleCommand(s)
  <2>1. CASE ExpireRun /\ UNCHANGED <<exec, watch>>
    BY <1>3, <2>1, ExpiryPreserves DEF ApiHandleCommand, BridgeInv, TypeOK
  <2>2. CASE ~Expired
    <3>1. PICK n \in 1..MaxWaypoints :
              exec' = [exec EXCEPT ![generation] = [pc |-> "dispatch", session |-> s, left |-> n]]
      BY <1>3, <2>2 DEF ApiHandleCommand, ExpireRun
    <3>2. exec' \in [Gens -> Execs]
      BY <3>1, ConstantsOK DEF BridgeInv, TypeOK, Execs, ExecPoints
    <3>3. /\ lease = s /\ pending' = TRUE /\ activeCommand' = TRUE /\ reports' = 0
          /\ UNCHANGED <<arm, connected, gate, generation, lease, runDeadline, timedOutLease,
                         task, watch, motions>>
      BY <1>3, <2>2 DEF ApiHandleCommand, ExpireRun
    <3>4. TypeOK'
      BY <3>2, <3>3 DEF BridgeInv, TypeOK, gate, motions
    <3>5. AdmissionExclusive' /\ TaskHasReason' /\ MotionHasOwner'
      BY <3>3, ConstantsOK DEF BridgeInv, AdmissionExclusive, TaskHasReason, MotionHasOwner,
                               CloudBusy, gate, motions
    <3>6. ExecServesLease'
      BY <3>1, <3>3, ConstantsOK DEF BridgeInv, TypeOK, ExecServesLease
    <3>7. QED
      BY <3>4, <3>5, <3>6 DEF BridgeInv
  <2>3. QED
    BY <1>3, <2>1, <2>2 DEF ApiHandleCommand, ExpireRun
<1>4. CASE ApiHandleStop(s)
  <2>1. CASE ExpireRun
    BY <1>4, <2>1, ExpiryPreserves DEF ApiHandleStop, BridgeInv, TypeOK
  <2>2. CASE lease = s /\ UNCHANGED <<timedOutLease, reports>> /\ \E normal \in BOOLEAN : StopRun(normal)
    BY <1>4, <2>2, StopPreserves, ConstantsOK DEF ApiHandleStop, BridgeInv, TypeOK
  <2>3. QED
    BY <1>4, <2>1, <2>2 DEF ApiHandleStop
<1>5. QED
  BY <1>1, <1>2, <1>3, <1>4 DEF BridgeInv

\* The handlers of the websocket client.
LEMMA ApiPreserves ==
    ASSUME BridgeInv, Api
    PROVE  BridgeInv'
<1>1. CASE ApiConnected
  <2>1. TypeOK'
    BY <1>1 DEF ApiConnected, gate, run, threads, motions, BridgeInv, TypeOK
  <2>2. AdmissionExclusive' /\ ExecServesLease' /\ TaskHasReason' /\ MotionHasOwner'
    BY <1>1
    DEF ApiConnected, gate, run, threads, motions, BridgeInv, AdmissionExclusive,
        ExecServesLease, TaskHasReason, MotionHasOwner, CloudBusy, TypeOK
  <2>3. QED
    BY <2>1, <2>2 DEF BridgeInv
<1>2. CASE ApiDisconnected
  BY <1>2, PausePreserves
     DEF ApiDisconnected, BridgeInv, TypeOK, threads, motions
<1>3. CASE ApiErrorReceived
  BY <1>3, PausePreserves
     DEF ApiErrorReceived, BridgeInv, TypeOK, threads, motions
<1>4. CASE \E s \in Sessions : ApiPrepareSession(s) \/ ApiPrepareInvalid(s)
                              \/ ApiHandleCommand(s) \/ ApiHandleStop(s)
  BY <1>4, SessionPreserves
<1>5. QED
  BY <1>1, <1>2, <1>3, <1>4 DEF Api

\* The operator panel. This is where the timing assumption is needed: an
\* admission must not overtake a task thread that has just parked.
LEMMA PanelPreserves ==
    ASSUME BridgeInv, OutpacesPoll = FALSE, OperatorPanel
    PROVE  BridgeInv'
<1>1. CASE OperatorHold
  <2>1. CASE CloudBusy
    BY <1>1, <2>1, PausePreserves DEF OperatorHold, BridgeInv, TypeOK, threads
  <2>2. CASE ~CloudBusy
    <3>1. movers' \subseteq Movers /\ \A m \in movers' : m.current /\ \A n \in movers' : n = m
      BY <1>1, StoppedMotions DEF OperatorHold, BridgeInv
    <3>2. arm' \in Arm /\ (arm.mode = "fault" => arm'.mode = "fault")
      BY <1>1, <2>2, ArmCalls, FaultStays DEF OperatorHold, HoldOutcome, BridgeInv, TypeOK
    <3>3. TypeOK'
      BY <1>1, <2>2, <3>1, <3>2 DEF OperatorHold, BridgeInv, TypeOK, gate, run, threads
    <3>4. AdmissionExclusive' /\ ExecServesLease' /\ TaskHasReason' /\ MotionHasOwner'
      BY <1>1, <2>2, <3>1, <3>2
      DEF OperatorHold, BridgeInv, TypeOK, AdmissionExclusive, ExecServesLease, TaskHasReason,
          MotionHasOwner, CloudBusy, gate, run, threads
    <3>5. QED
      BY <3>3, <3>4 DEF BridgeInv
  <2>3. QED
    BY <2>1, <2>2
<1>2. CASE OperatorPause
  BY <1>2, PausePreserves
     DEF OperatorPause, BridgeInv, TypeOK, threads, motions
<1>3. CASE OperatorCloudReady
  <2>1. TypeOK'
    BY <1>3, OutpacesPoll = FALSE
    DEF OperatorCloudReady, Motion, MayAuthorize, ReportedMode, ParkedThreadGone, run, threads,
        motions, BridgeInv, TypeOK
  <2>2. AdmissionExclusive' /\ ExecServesLease' /\ TaskHasReason' /\ MotionHasOwner'
    BY <1>3, OutpacesPoll = FALSE
    DEF OperatorCloudReady, Motion, MayAuthorize, ReportedMode, ParkedThreadGone, run, threads,
        motions, BridgeInv, AdmissionExclusive, ExecServesLease, TaskHasReason, MotionHasOwner,
        CloudBusy, TypeOK
  <2>3. QED
    BY <2>1, <2>2 DEF BridgeInv
<1>4. CASE OperatorAutoQueueAtZero
  <2>1. TypeOK'
    BY <1>4
    DEF OperatorAutoQueueAtZero, Motion, ReportedMode, NewGeneration, Dormant, run, motions,
        BridgeInv, TypeOK, TaskPoints
  <2>2. AdmissionExclusive' /\ ExecServesLease' /\ TaskHasReason' /\ MotionHasOwner'
    BY <1>4
    DEF OperatorAutoQueueAtZero, Motion, ReportedMode, NewGeneration, Dormant, run, motions,
        BridgeInv, AdmissionExclusive, ExecServesLease, TaskHasReason, MotionHasOwner,
        CloudBusy, TypeOK
  <2>3. QED
    BY <2>1, <2>2 DEF BridgeInv
<1>5. CASE OperatorAutoQueueAtHome
  <2>1. TypeOK'
    BY <1>5, OutpacesPoll = FALSE
    DEF OperatorAutoQueueAtHome, Motion, MayAuthorize, ReportedMode, ParkedThreadGone, run,
        threads, motions, BridgeInv, TypeOK
  <2>2. AdmissionExclusive' /\ ExecServesLease' /\ TaskHasReason' /\ MotionHasOwner'
    BY <1>5, OutpacesPoll = FALSE
    DEF OperatorAutoQueueAtHome, Motion, MayAuthorize, ReportedMode, ParkedThreadGone, run,
        threads, motions, BridgeInv, AdmissionExclusive, ExecServesLease, TaskHasReason,
        MotionHasOwner, CloudBusy, TypeOK
  <2>3. QED
    BY <2>1, <2>2 DEF BridgeInv
<1>6. CASE OperatorEnable
  <2>1. TypeOK'
    BY <1>6, ArmCalls
    DEF OperatorEnable, Motion, CloudBusy, gate, run, threads, motions, BridgeInv, TypeOK
  <2>2. AdmissionExclusive' /\ ExecServesLease' /\ TaskHasReason' /\ MotionHasOwner'
    BY <1>6
    DEF OperatorEnable, Motion, CloudBusy, Enabled, EnableFaulted, gate, run, threads, motions,
        BridgeInv, AdmissionExclusive, ExecServesLease, TaskHasReason, MotionHasOwner, TypeOK
  <2>3. QED
    BY <2>1, <2>2 DEF BridgeInv
<1>7. CASE OperatorJog
  <2>1. TypeOK'
    BY <1>7, ArmCalls
    DEF OperatorJog, Motion, CloudBusy, MayMove, Poses, gate, run, threads, motions, BridgeInv,
        TypeOK
  <2>2. AdmissionExclusive' /\ ExecServesLease' /\ TaskHasReason' /\ MotionHasOwner'
    BY <1>7
    DEF OperatorJog, Motion, CloudBusy, MayMove, Poses, Moved, gate, run, threads, motions,
        BridgeInv, AdmissionExclusive, ExecServesLease, TaskHasReason, MotionHasOwner, TypeOK
  <2>3. QED
    BY <2>1, <2>2 DEF BridgeInv
<1>8. CASE \E p \in {"home", "zero"} : OperatorMovePose(p)
  <2>1. PICK p \in {"home", "zero"} : OperatorMovePose(p)
    BY <1>8
  <2>2. movers = {}
    BY <2>1 DEF OperatorMovePose, Motion, BridgeInv, MotionHasOwner
  <2>3. movers' \subseteq Movers /\ \A m \in movers' : m.current /\ \A n \in movers' : n = m
    BY <2>1, <2>2, StartedMotions DEF OperatorMovePose
  <2>4. TypeOK'
    BY <2>1, <2>3 DEF OperatorMovePose, BridgeInv, TypeOK, gate, run, threads
  <2>5. AdmissionExclusive' /\ ExecServesLease' /\ TaskHasReason' /\ MotionHasOwner'
    BY <2>1, <2>3
    DEF OperatorMovePose, BridgeInv, AdmissionExclusive, ExecServesLease, TaskHasReason,
        MotionHasOwner, CloudBusy, gate, run, threads
  <2>6. QED
    BY <2>4, <2>5 DEF BridgeInv
<1>9. QED
  BY <1>1, <1>2, <1>3, <1>4, <1>5, <1>6, <1>7, <1>8 DEF OperatorPanel

\* The clock, the servo bus, a hand on the arm, and a new process.
LEMMA EnvironmentPreserves ==
    ASSUME BridgeInv, Environment
    PROVE  BridgeInv'
<1>1. CASE DeadlinePasses
  <2>1. TypeOK'
    BY <1>1 DEF DeadlinePasses, gate, threads, motions, BridgeInv, TypeOK
  <2>2. AdmissionExclusive' /\ ExecServesLease' /\ TaskHasReason' /\ MotionHasOwner'
    BY <1>1
    DEF DeadlinePasses, gate, threads, motions, BridgeInv, AdmissionExclusive, ExecServesLease,
        TaskHasReason, MotionHasOwner, CloudBusy, TypeOK
  <2>3. QED
    BY <2>1, <2>2 DEF BridgeInv
<1>2. CASE ReadFails
  <2>1. TypeOK'
    BY <1>2, ArmCalls DEF ReadFails, gate, run, threads, motions, BridgeInv, TypeOK
  <2>2. AdmissionExclusive' /\ ExecServesLease' /\ TaskHasReason' /\ MotionHasOwner'
    BY <1>2
    DEF ReadFails, Faulted, gate, run, threads, motions, BridgeInv, AdmissionExclusive,
        ExecServesLease, TaskHasReason, MotionHasOwner, CloudBusy, TypeOK
  <2>3. QED
    BY <2>1, <2>2 DEF BridgeInv
<1>3. CASE HandMoves
  <2>1. TypeOK'
    BY <1>3, ArmCalls DEF HandMoves, Poses, gate, run, threads, motions, BridgeInv, TypeOK
  <2>2. AdmissionExclusive' /\ ExecServesLease' /\ TaskHasReason' /\ MotionHasOwner'
    BY <1>3
    DEF HandMoves, Poses, Moved, gate, run, threads, motions, BridgeInv, AdmissionExclusive,
        ExecServesLease, TaskHasReason, MotionHasOwner, CloudBusy, TypeOK
  <2>3. QED
    BY <2>1, <2>2 DEF BridgeInv
<1>4. CASE Restart
  <2>1. arm' \in Arm
    BY <1>4 DEF Restart, Attached, BridgeInv, TypeOK, Arm, Modes
  <2>2. exec' \in [Gens -> Execs] /\ task' \in [Gens -> TaskPoints]
    BY <1>4, IdleExecTyped DEF Restart, TaskPoints
  <2>3. TypeOK'
    <3>1. movers' \subseteq Movers /\ watch' \subseteq Gens /\ reports' \in 0..2
      BY <1>4 DEF Restart
    <3>2. QED
      BY <1>4, <2>1, <2>2, <3>1 DEF Restart, BridgeInv, TypeOK, CleanupPhases
  <2>4. AdmissionExclusive' /\ ExecServesLease' /\ TaskHasReason' /\ MotionHasOwner'
    BY <1>4 DEF Restart, IdleExec, BridgeInv, TypeOK, AdmissionExclusive, ExecServesLease, TaskHasReason,
             MotionHasOwner, CloudBusy
  <2>5. QED
    BY <2>3, <2>4 DEF BridgeInv
<1>5. QED
  BY <1>1, <1>2, <1>3, <1>4 DEF Environment

-----------------------------------------------------------------------------
(* The invariant, and the state properties it implies.                     *)

\* A new process satisfies the invariant wherever the arm was left.
LEMMA InitEstablishes == Init => BridgeInv
<1> SUFFICES ASSUME Init PROVE BridgeInv
  OBVIOUS
<1>1. arm \in Arm
  <2>1. PICK t \in BOOLEAN, p \in Poses : arm = Attached(t, p)
    BY DEF Init
  <2>2. QED
    BY <2>1 DEF Attached, Arm, Modes
<1>2. exec \in [Gens -> Execs] /\ task \in [Gens -> TaskPoints]
  BY IdleExecTyped DEF Init, TaskPoints
<1>3. movers \subseteq Movers /\ watch \subseteq Gens /\ reports \in 0..2
  BY DEF Init
<1>4. TypeOK
  <2>1. {connected, ready, autoQueue, parked, returningHome, pending, activeCommand, motionError}
            \subseteq BOOLEAN
    BY DEF Init
  <2>2. {lease, timedOutLease} \subseteq Sessions \cup {NoSession}
    BY DEF Init
  <2>3. cleanupPhase \in CleanupPhases /\ generation \in Gens /\ runDeadline \in {"none", "set", "due"}
    BY DEF Init, CleanupPhases
  <2>4. QED
    BY <1>1, <1>2, <1>3, <2>1, <2>2, <2>3 DEF TypeOK
<1>5. AdmissionExclusive /\ ExecServesLease /\ TaskHasReason /\ MotionHasOwner
  BY DEF Init, IdleExec, AdmissionExclusive, ExecServesLease, TaskHasReason, MotionHasOwner, CloudBusy
<1>6. QED
  BY <1>4, <1>5 DEF BridgeInv

\* Nothing changes when nothing changes.
LEMMA StutterPreserves == BridgeInv /\ UNCHANGED vars => BridgeInv'
<1> SUFFICES ASSUME BridgeInv, UNCHANGED vars PROVE BridgeInv'
  OBVIOUS
<1>1. UNCHANGED <<arm, connected, ready, autoQueue, parked, returningHome, cleanupPhase, generation,
                  lease, pending, activeCommand, runDeadline, timedOutLease, reports, task, exec,
                  watch, movers, motionError>>
  BY DEF vars, gate, run, threads, motions
<1>2. TypeOK'
  BY <1>1 DEF BridgeInv, TypeOK
<1>3. AdmissionExclusive' /\ ExecServesLease' /\ TaskHasReason' /\ MotionHasOwner'
  BY <1>1 DEF BridgeInv, AdmissionExclusive, ExecServesLease, TaskHasReason, MotionHasOwner, CloudBusy
<1>4. QED
  BY <1>2, <1>3 DEF BridgeInv

\* The invariant is inductive.
LEMMA BridgeStep ==
    ASSUME OutpacesPoll = FALSE, BridgeInv, [Next]_vars
    PROVE  BridgeInv'
<1>1. CASE Api
  BY <1>1, ApiPreserves
<1>2. CASE OperatorPanel
  BY <1>2, PanelPreserves
<1>3. CASE Threads
  BY <1>3, TaskPreserves, ExecPreserves, WatchPreserves, MoverPreserves DEF Threads
<1>4. CASE Environment
  BY <1>4, EnvironmentPreserves
<1>5. CASE UNCHANGED vars
  BY <1>5, StutterPreserves
<1>6. QED
  BY <1>1, <1>2, <1>3, <1>4, <1>5 DEF Next

\* BridgeInv holds in every reachable state, for any number of sessions, threads
\* and waypoints, with or without faults and restarts, when the operator does
\* not outpace the poll.
THEOREM BridgeInvariant ==
    ASSUME OutpacesPoll = FALSE
    PROVE  Spec => []BridgeInv
<1>1. BridgeInv /\ [Next]_vars => BridgeInv'
  BY BridgeStep
<1>2. QED
  BY <1>1, InitEstablishes, PTL DEF Spec

\* Every variable keeps its type.
THEOREM TypeCorrect ==
    ASSUME OutpacesPoll = FALSE
    PROVE  Spec => []TypeOK
<1>1. BridgeInv => TypeOK
  BY DEF BridgeInv
<1>2. QED
  BY <1>1, BridgeInvariant, PTL

\* Awaiting a session, running one and cleaning up after one exclude each other,
\* and a run's deadline is watched (cloud.py 133-185, 308-336, 476-504).
THEOREM AdmissionIsExclusive ==
    ASSUME OutpacesPoll = FALSE
    PROVE  Spec => []AdmissionExclusive
<1>1. BridgeInv => AdmissionExclusive
  BY DEF BridgeInv
<1>2. QED
  BY <1>1, BridgeInvariant, PTL

\* At most one pose motion is alive, and none drives the arm while a session is
\* awaited or runs (operator.py 42-105, 141-171).
THEOREM CommanderIsUnique ==
    ASSUME OutpacesPoll = FALSE
    PROVE  Spec => []OneCommander
<1>1. BridgeInv => OneCommander
  BY DEF BridgeInv, MotionHasOwner, TaskHasReason, CloudBusy, OneCommander
<1>2. QED
  BY <1>1, BridgeInvariant, PTL

-----------------------------------------------------------------------------
(* What a step may do to the arm.                                          *)

\* The step neither moves the arm nor releases its servos.
ArmKept == arm'.pose = arm.pose /\ (arm.torque => arm'.torque)

\* What the driver calls do to the pose and the torque.
LEMMA CallsKeepArm ==
    ASSUME NEW a \in Arm
    PROVE  /\ \A b \in {Faulted(a), Held(a), Enabled(a), Faulted(Enabled(a))} \cup EnableFaulted(a) :
                  b.pose = a.pose /\ (a.torque => b.torque)
           /\ \A b \in {Disabled(a)} \cup DisableFaulted(a) : b.pose = a.pose
           /\ \A p \in Poses : Moved(a, p).torque = a.torque
<1>1. \A b \in {Faulted(a), Held(a), Enabled(a), Faulted(Enabled(a))} :
        b.pose = a.pose /\ (a.torque => b.torque)
  BY DEF Arm, Faulted, Held, Enabled
<1>2. \A b \in EnableFaulted(a) : b.pose = a.pose /\ (a.torque => b.torque)
  BY DEF Arm, EnableFaulted
<1>3. \A b \in {Disabled(a)} \cup DisableFaulted(a) : b.pose = a.pose
  BY DEF Arm, Disabled, DisableFaulted
<1>4. \A p \in Poses : Moved(a, p).torque = a.torque
  BY DEF Arm, Moved
<1>5. QED
  BY <1>1, <1>2, <1>3, <1>4

\* pause() holds; it neither moves the arm nor releases it.
LEMMA PauseKeepsArm ==
    ASSUME BridgeInv, NEW g \in Gens, NEW h \in HoldAnswers, Pause(g, h)
    PROVE  ArmKept
BY CallsKeepArm DEF BridgeInv, TypeOK, Pause, HoldOutcome, ArmKept

\* Nor does _stop_run(),
LEMMA StopKeepsArm ==
    ASSUME BridgeInv, NEW normal \in BOOLEAN, StopRun(normal)
    PROVE  ArmKept
BY PauseKeepsArm, CallsKeepArm DEF BridgeInv, TypeOK, StopRun, StartCleanup, ArmKept

\* nor an expired deadline.
LEMMA ExpiryKeepsArm ==
    ASSUME BridgeInv, ExpireRun
    PROVE  ArmKept
BY StopKeepsArm DEF ExpireRun

\* No websocket handler moves or releases the arm itself.
LEMMA ApiKeepsArm ==
    ASSUME BridgeInv, Api
    PROVE  ArmKept
<1>1. CASE ApiConnected
  BY <1>1 DEF ApiConnected, ArmKept
<1>2. CASE ApiDisconnected \/ ApiErrorReceived
  BY <1>2, PauseKeepsArm DEF ApiDisconnected, ApiErrorReceived
<1>3. ASSUME NEW s \in Sessions, ApiPrepareSession(s) PROVE ArmKept
  BY <1>3, CallsKeepArm DEF ApiPrepareSession, BridgeInv, TypeOK, ArmKept
<1>4. ASSUME NEW s \in Sessions, ApiPrepareInvalid(s) PROVE ArmKept
  BY <1>4, PauseKeepsArm DEF ApiPrepareInvalid
<1>5. ASSUME NEW s \in Sessions, ApiHandleCommand(s) PROVE ArmKept
  BY <1>5, ExpiryKeepsArm DEF ApiHandleCommand, ArmKept
<1>6. ASSUME NEW s \in Sessions, ApiHandleStop(s) PROVE ArmKept
  BY <1>6, ExpiryKeepsArm, StopKeepsArm DEF ApiHandleStop
<1>7. QED
  BY <1>1, <1>2, <1>3, <1>4, <1>5, <1>6 DEF Api

\* The panel moves the arm only while the cloud is idle.
LEMMA PanelMovesManually ==
    ASSUME BridgeInv, OperatorPanel
    PROVE  ArmKept \/ (~CloudBusy /\ arm'.torque = arm.torque)
<1>1. CASE OperatorHold
  BY <1>1, PauseKeepsArm, CallsKeepArm DEF OperatorHold, HoldOutcome, BridgeInv, TypeOK, ArmKept
<1>2. CASE OperatorPause
  BY <1>2, PauseKeepsArm DEF OperatorPause
<1>3. CASE OperatorCloudReady \/ OperatorAutoQueueAtZero \/ OperatorAutoQueueAtHome
  BY <1>3 DEF OperatorCloudReady, OperatorAutoQueueAtZero, OperatorAutoQueueAtHome, ArmKept
<1>4. CASE OperatorEnable
  BY <1>4, CallsKeepArm DEF OperatorEnable, BridgeInv, TypeOK, ArmKept
<1>5. CASE OperatorJog
  BY <1>5, CallsKeepArm DEF OperatorJog, BridgeInv, TypeOK
<1>6. CASE \E p \in {"home", "zero"} : OperatorMovePose(p)
  BY <1>6 DEF OperatorMovePose, ArmKept
<1>7. QED
  BY <1>1, <1>2, <1>3, <1>4, <1>5, <1>6 DEF OperatorPanel

\* The task thread moves nothing itself, and releases the arm only at Zero.
LEMMA TaskReleasesAtZero ==
    ASSUME BridgeInv, NEW g \in Gens, TaskStep(g)
    PROVE  /\ arm'.pose = arm.pose
           /\ \/ ArmKept
              \/ arm.pose = "zero" /\ lease = NoSession /\ ~ready /\ movers = {}
<1>1. arm \in Arm
  BY DEF BridgeInv, TypeOK
<1>2. CASE TaskZeroWait(g)
  <2>1. CASE ArmKept
    BY <2>1 DEF ArmKept
  <2>2. CASE ~ArmKept
    <3>1. arm' # arm /\ arm' # Faulted(arm)
      BY <1>1, <2>2, CallsKeepArm DEF ArmKept
    <3>2. ~Revoked(g) /\ Motion = {} /\ arm.pose = "zero"
              /\ arm' \in {Disabled(arm)} \cup DisableFaulted(arm)
      BY <1>2, <3>1 DEF TaskZeroWait
    <3>3. task[generation] = "zeroWait" /\ movers = {}
      BY <1>2, <3>2 DEF TaskZeroWait, TaskAt, Revoked, Motion, BridgeInv, MotionHasOwner
    <3>4. QED
      BY <1>1, <3>2, <3>3, CallsKeepArm DEF BridgeInv, TaskHasReason
  <2>3. QED
    BY <2>1, <2>2
<1>3. CASE TaskZeroStart(g)
  BY <1>1, <1>3, CallsKeepArm DEF TaskZeroStart, ArmKept
<1>4. CASE TaskHomeStart(g)
  BY <1>1, <1>4, CallsKeepArm DEF TaskHomeStart, ArmKept
<1>5. CASE TaskFail(g)
  BY <1>5, PauseKeepsArm DEF TaskFail, ArmKept
<1>6. CASE \/ TaskLookup(g) \/ TaskPark(g) \/ TaskParked(g) \/ TaskSleep(g) \/ TaskPollFindsWork(g)
           \/ TaskPollFindsNone(g) \/ TaskWake(g) \/ TaskHome(g) \/ TaskHomeWait(g) \/ TaskFinish(g)
  BY <1>6 DEF TaskLookup, TaskPark, TaskParked, TaskSleep, TaskPollFindsWork, TaskPollFindsNone,
              TaskWake, TaskHome, TaskHomeWait, TaskFinish, ArmKept
<1>7. QED
  BY <1>2, <1>3, <1>4, <1>5, <1>6 DEF TaskStep

\* A command thread moves the arm only for the live run, before its deadline.
LEMMA ExecMovesForItsRun ==
    ASSUME BridgeInv, NEW g \in Gens, ExecStep(g)
    PROVE  ArmKept \/ (RunOwns /\ arm'.torque = arm.torque)
<1>1. arm \in Arm
  BY DEF BridgeInv, TypeOK
<1>2. ASSUME NEW p \in ExecPoints, ExecGate(g, p) PROVE ArmKept
  BY <1>2, ExpiryKeepsArm DEF ExecGate, ArmKept
<1>3. CASE ExecDispatch(g) /\ ~ExecGate(g, "dispatch")
  <2>1. g = generation /\ exec[g].pc = "dispatch" /\ ~Expired
    BY <1>3 DEF ExecDispatch, ExecLive, ExecAt
  <2>2. RunOwns
    BY <2>1 DEF RunOwns, Expired, BridgeInv, ExecServesLease
  <2>3. \/ arm' \in {arm, Faulted(arm)}
        \/ \E p \in Poses : arm' = Moved(arm, p)
    BY <1>3 DEF ExecDispatch
  <2>4. QED
    BY <1>1, <2>2, <2>3, CallsKeepArm DEF ArmKept
<1>4. CASE (ExecSettle(g) /\ ~ExecGate(g, "settle")) \/ (ExecComplete(g) /\ ~ExecGate(g, "complete"))
  BY <1>1, <1>4, CallsKeepArm DEF ExecSettle, ExecComplete, ArmKept
<1>5. CASE ExecFail(g) /\ ~ExecGate(g, "fail")
  BY <1>5, PauseKeepsArm DEF ExecFail
<1>6. QED
  <2>1. \A p \in ExecPoints : ExecGate(g, p) => ArmKept
    BY <1>2
  <2>2. QED
    BY <1>3, <1>4, <1>5, <2>1 DEF ExecStep, ExecPoints

\* A pose motion moves the arm only for an idle cloud or the live cleanup.
LEMMA MoverMovesForItsOwner ==
    ASSUME BridgeInv, NEW m \in movers, MoverStep(m)
    PROVE  ArmKept \/ ((ManualOwns \/ CleanupOwns) /\ arm'.torque = arm.torque)
<1>1. arm \in Arm /\ m.to \in Poses
  BY DEF BridgeInv, TypeOK, Movers, Poses
<1>2. CASE MoverRun(m)
  <2>1. CASE arm' \in {arm, Faulted(arm)}
    BY <1>1, <2>1, CallsKeepArm DEF ArmKept
  <2>2. CASE arm' \notin {arm, Faulted(arm)}
    <3>1. m.pc = "run" /\ ~m.stop /\ \E p \in Poses : arm' = Moved(arm, p)
      BY <1>1, <1>2, <2>2 DEF MoverRun, Poses
    <3>2. arm'.torque = arm.torque
      BY <1>1, <3>1, CallsKeepArm
    <3>3. CASE CloudBusy
      BY <3>1, <3>2, <3>3 DEF CleanupOwns, BridgeInv, MotionHasOwner, TaskHasReason
    <3>4. QED
      BY <3>2, <3>3 DEF ManualOwns
  <2>3. QED
    BY <2>1, <2>2
<1>3. CASE MoverError(m)
  BY <1>1, <1>3, CallsKeepArm DEF MoverError, HoldOutcome, ArmKept
<1>4. CASE MoverEnd(m)
  BY <1>4 DEF MoverEnd, ArmKept
<1>5. QED
  BY <1>2, <1>3, <1>4 DEF MoverStep

\* The environment moves only an unpowered arm.
LEMMA EnvironmentMovesUnpowered ==
    ASSUME BridgeInv, Environment
    PROVE  ArmKept \/ (~arm.torque /\ arm'.torque = arm.torque)
<1>1. arm \in Arm
  BY DEF BridgeInv, TypeOK
<1>2. CASE DeadlinePasses
  BY <1>2 DEF DeadlinePasses, ArmKept
<1>3. CASE ReadFails
  BY <1>1, <1>3, CallsKeepArm DEF ReadFails, ArmKept
<1>4. CASE HandMoves
  BY <1>1, <1>4, CallsKeepArm DEF HandMoves
<1>5. CASE Restart
  BY <1>1, <1>5 DEF Restart, Attached, ArmKept
<1>6. QED
  BY <1>2, <1>3, <1>4, <1>5 DEF Environment

\* Every step, by who moved the arm and who released it.
LEMMA ArmSteps ==
    ASSUME BridgeInv, [Next]_vars
    PROVE  \/ ArmKept
           \/ ~arm.torque /\ arm'.torque = arm.torque
           \/ (ManualOwns \/ RunOwns \/ CleanupOwns) /\ arm'.torque = arm.torque
           \/ arm'.pose = arm.pose /\ arm.pose = "zero" /\ lease = NoSession /\ ~ready /\ movers = {}
<1>1. CASE Api
  BY <1>1, ApiKeepsArm
<1>2. CASE OperatorPanel
  BY <1>2, PanelMovesManually DEF ManualOwns
<1>3. CASE Threads
  BY <1>3, TaskReleasesAtZero, ExecMovesForItsRun, MoverMovesForItsOwner, ExpiryKeepsArm
     DEF Threads, WatchStep, ArmKept
<1>4. CASE Environment
  BY <1>4, EnvironmentMovesUnpowered
<1>5. CASE UNCHANGED vars
  BY <1>5 DEF vars, ArmKept
<1>6. QED
  BY <1>1, <1>2, <1>3, <1>4, <1>5 DEF Next

\* A powered arm moves only for the operator while the cloud is idle, for the
\* live run before its deadline, or for the cleanup of the current generation:
\* never for a superseded thread (cloud.py 414-435, operator.py 53-105).
THEOREM MotionIsAuthorised ==
    ASSUME OutpacesPoll = FALSE
    PROVE  Spec => MotionAuthorised
<1>1. BridgeInv /\ [Next]_vars
        => [arm'.pose # arm.pose /\ arm.torque => ManualOwns \/ RunOwns \/ CleanupOwns]_vars
  BY ArmSteps DEF ArmKept
<1>2. QED
  BY <1>1, BridgeInvariant, PTL DEF Spec, MotionAuthorised

\* Servos are released only at the measured Zero, with no run, no admission and
\* no motion relying on them (operator.py 130-138).
THEOREM TorqueIsReleasedOnlyAtZero ==
    ASSUME OutpacesPoll = FALSE
    PROVE  Spec => TorqueReleasedOnlyAtZero
<1>1. BridgeInv /\ [Next]_vars
        => [arm.torque /\ ~arm'.torque =>
              arm.pose = "zero" /\ lease = NoSession /\ ~ready /\ movers = {}]_vars
  BY ArmSteps DEF ArmKept
<1>2. QED
  BY <1>1, BridgeInvariant, PTL DEF Spec, TorqueReleasedOnlyAtZero

-----------------------------------------------------------------------------
(* Commands in flight.                                                     *)

\* The step launches no command thread and extends none.
NothingLaunched == \A g \in Gens : exec'[g].left <= exec[g].left

\* Only a command handler starts a command thread or gives one more waypoints.
LEMMA OnlyCommandsLaunch ==
    ASSUME BridgeInv, [Next]_vars
    PROVE  NothingLaunched \/ \E s \in Sessions : ApiHandleCommand(s)
<1>1. /\ exec \in [Gens -> Execs] /\ IdleExec.left = 0
      /\ \A g \in Gens : exec[g].left \in Nat
  BY ConstantsOK DEF BridgeInv, TypeOK, Execs, IdleExec
<1>2. CASE UNCHANGED exec
  BY <1>1, <1>2 DEF NothingLaunched
<1>3. CASE \E g \in Gens : ExecStep(g)
  <2>1. PICK g \in Gens : ExecStep(g)
    BY <1>3
  <2>2. exec' = [exec EXCEPT ![g] = exec'[g]]
    BY <1>1, <2>1 DEF ExecStep, ExecDispatch, ExecSettle, ExecComplete, ExecFail, ExecGate, ExecEnds, ExecGoes
  <2>3. \/ ExecEnds(g) \/ \E p \in ExecPoints : ExecGoes(g, p)
        \/ exec' = [exec EXCEPT ![g] = AfterWaypoint(exec[g])]
    BY <2>1 DEF ExecStep, ExecDispatch, ExecSettle, ExecComplete, ExecFail, ExecGate, ExecPoints
  <2>4. exec'[g].left <= exec[g].left
    <3>1. CASE ExecEnds(g)
      BY <1>1, <3>1 DEF ExecEnds
    <3>2. CASE \E p \in ExecPoints : ExecGoes(g, p)
      BY <1>1, <3>2 DEF ExecGoes, Execs
    <3>3. CASE exec' = [exec EXCEPT ![g] = AfterWaypoint(exec[g])]
      BY <1>1, <3>3 DEF AfterWaypoint
    <3>4. QED
      BY <2>3, <3>1, <3>2, <3>3
  <2>5. QED
    BY <1>1, <2>2, <2>4 DEF NothingLaunched
<1>4. CASE Restart
  BY <1>1, <1>4 DEF Restart, NothingLaunched
<1>5. QED
  <2>1. CASE Api
    BY <1>2, <2>1 DEF Api, ApiConnected, ApiDisconnected, ApiErrorReceived, ApiPrepareSession,
                      ApiPrepareInvalid, ApiHandleStop, threads
  <2>2. CASE OperatorPanel
    BY <1>2, <2>2 DEF OperatorPanel, OperatorHold, OperatorPause, OperatorCloudReady,
                      OperatorAutoQueueAtZero, OperatorAutoQueueAtHome, OperatorEnable, OperatorJog,
                      OperatorMovePose, threads
  <2>3. CASE Threads
    <3>1. ASSUME NEW g \in Gens, TaskStep(g) PROVE UNCHANGED exec
      BY <3>1 DEF TaskStep, TaskLookup, TaskPark, TaskZeroStart, TaskZeroWait, TaskParked, TaskSleep,
                  TaskPollFindsWork, TaskPollFindsNone, TaskWake, TaskHome, TaskHomeStart,
                  TaskHomeWait, TaskFinish, TaskFail
    <3>2. ASSUME NEW g \in Gens, WatchStep(g) PROVE UNCHANGED exec
      BY <3>2 DEF WatchStep
    <3>3. ASSUME NEW m \in movers, MoverStep(m) PROVE UNCHANGED exec
      BY <3>3 DEF MoverStep, MoverRun, MoverError, MoverEnd, threads
    <3>4. QED
      BY <1>2, <1>3, <2>3, <3>1, <3>2, <3>3 DEF Threads
  <2>4. CASE Environment
    BY <1>2, <1>4, <2>4 DEF Environment, DeadlinePasses, ReadFails, HandMoves, threads
  <2>5. CASE UNCHANGED vars
    BY <1>2, <2>5 DEF vars, threads
  <2>6. QED
    BY <2>1, <2>2, <2>3, <2>4, <2>5 DEF Next

\* A command is launched only when no command thread of the live generation is
\* left (cloud.py 352-359, 408-412): two never drive one run, although pending
\* is cleared before the thread of the first has gone.
THEOREM CommandsDoNotOverlap ==
    ASSUME OutpacesPoll = FALSE
    PROVE  Spec => OneCommandInFlight
<1>1. BridgeInv /\ [Next]_vars
        => [\A g \in Gens : exec'[g].left > exec[g].left => exec[g].pc = "idle"]_vars
  <2> SUFFICES ASSUME BridgeInv, [Next]_vars, NEW g \in Gens, exec'[g].left > exec[g].left
               PROVE  exec[g].pc = "idle"
    OBVIOUS
  <2>1. exec \in [Gens -> Execs] /\ exec[g].left \in Nat
    BY ConstantsOK DEF BridgeInv, TypeOK, Execs
  <2>2. ~NothingLaunched
    <3>1. exec' \in [Gens -> Execs]
      BY BridgeStep DEF BridgeInv, TypeOK
    <3>2. exec'[g].left \in Nat
      BY <3>1, ConstantsOK DEF Execs
    <3>3. QED
      BY <2>1, <3>2 DEF NothingLaunched
  <2>3. PICK s \in Sessions : ApiHandleCommand(s)
    BY <2>2, OnlyCommandsLaunch
  <2>4. ~UNCHANGED exec
    BY <2>1, <2>2 DEF NothingLaunched
  <2>5. /\ ~pending /\ ReportedMode(arm) = "active"
        /\ \E n \in 1..MaxWaypoints :
              exec' = [exec EXCEPT ![generation] = [pc |-> "dispatch", session |-> s, left |-> n]]
    BY <2>3, <2>4 DEF ApiHandleCommand
  <2>6. g = generation
    BY <2>1, <2>5
  <2>7. arm.mode # "fault"
    BY <2>5 DEF ReportedMode
  <2>8. QED
    BY <2>5, <2>6, <2>7 DEF BridgeInv, ExecServesLease
<1>2. QED
  BY <1>1, BridgeInvariant, PTL DEF Spec, OneCommandInFlight

-----------------------------------------------------------------------------
(* Auto-queue is attended.                                                 *)

\* pause() switches auto-queue off,
LEMMA PauseAttends ==
    ASSUME NEW g \in Gens, NEW h \in HoldAnswers, Pause(g, h)
    PROVE  AutoQueueAttended'
BY DEF Pause, AutoQueueAttended

\* _stop_run() starts the task thread that attends it, or pauses,
LEMMA StopAttends ==
    ASSUME BridgeInv, AutoQueueAttended, lease # NoSession, NEW normal \in BOOLEAN, StopRun(normal)
    PROVE  AutoQueueAttended'
<1>1. CASE \E g \in Gens : StartCleanup(g)
  BY <1>1 DEF StartCleanup, NewGeneration, AutoQueueAttended, BridgeInv, TypeOK
<1>2. CASE UNCHANGED <<gate, lease>>
  BY <1>2 DEF gate, AutoQueueAttended
<1>3. QED
  BY <1>1, <1>2, PauseAttends DEF StopRun

\* and so does an expired deadline.
LEMMA ExpiryAttends ==
    ASSUME BridgeInv, AutoQueueAttended, ExpireRun
    PROVE  AutoQueueAttended'
BY StopAttends DEF ExpireRun, Expired

\* Whoever clears ready, the lease or the last task thread leaves another behind.
LEMMA AttendedStep ==
    ASSUME BridgeInv, AutoQueueAttended, [Next]_vars
    PROVE  AutoQueueAttended'
<1>1. CASE Api
  <2>1. CASE ApiConnected
    BY <2>1 DEF ApiConnected, AutoQueueAttended, gate, run, threads
  <2>2. CASE ApiDisconnected \/ ApiErrorReceived
    BY <2>2, PauseAttends DEF ApiDisconnected, ApiErrorReceived
  <2>3. ASSUME NEW s \in Sessions, ApiPrepareSession(s) PROVE AutoQueueAttended'
    BY <2>3, ConstantsOK DEF ApiPrepareSession, AutoQueueAttended
  <2>4. ASSUME NEW s \in Sessions, ApiPrepareInvalid(s) PROVE AutoQueueAttended'
    BY <2>4, PauseAttends DEF ApiPrepareInvalid
  <2>5. ASSUME NEW s \in Sessions, ApiHandleCommand(s) PROVE AutoQueueAttended'
    <3>1. CASE ExpireRun
      BY <3>1, ExpiryAttends
    <3>2. CASE ~ExpireRun
      <4>1. UNCHANGED <<autoQueue, ready, lease, generation, task>>
        BY <2>5, <3>2 DEF ApiHandleCommand, gate
      <4>2. QED
        BY <4>1 DEF AutoQueueAttended
    <3>3. QED
      BY <3>1, <3>2
  <2>6. ASSUME NEW s \in Sessions, ApiHandleStop(s) PROVE AutoQueueAttended'
    BY <2>6, ExpiryAttends, StopAttends, ConstantsOK DEF ApiHandleStop
  <2>7. QED
    BY <1>1, <2>1, <2>2, <2>3, <2>4, <2>5, <2>6 DEF Api
<1>2. CASE OperatorPanel
  <2>1. CASE OperatorHold \/ OperatorPause
    BY <2>1, PauseAttends DEF OperatorHold, OperatorPause, AutoQueueAttended, gate, run, threads
  <2>2. CASE OperatorCloudReady \/ OperatorAutoQueueAtHome
    BY <2>2 DEF OperatorCloudReady, OperatorAutoQueueAtHome, AutoQueueAttended
  <2>3. CASE OperatorAutoQueueAtZero
    BY <2>3 DEF OperatorAutoQueueAtZero, NewGeneration, AutoQueueAttended, BridgeInv, TypeOK
  <2>4. CASE OperatorEnable \/ OperatorJog \/ \E p \in {"home", "zero"} : OperatorMovePose(p)
    BY <2>4 DEF OperatorEnable, OperatorJog, OperatorMovePose, AutoQueueAttended, gate, run, threads
  <2>5. QED
    BY <1>2, <2>1, <2>2, <2>3, <2>4 DEF OperatorPanel
<1>3. ASSUME NEW g \in Gens, TaskStep(g) PROVE AutoQueueAttended'
  <2> USE DEF BridgeInv, TypeOK, AutoQueueAttended, TaskAt, TaskGoes, gate, run
  <2>1. CASE TaskFail(g) /\ g = generation
    BY <2>1, PauseAttends DEF TaskFail
  <2>2. CASE TaskFail(g) /\ g # generation
    BY <2>2 DEF TaskFail
  <2>3. CASE TaskFinish(g)
    BY <2>3 DEF TaskFinish
  <2>4. CASE TaskLookup(g) \/ TaskPark(g) \/ TaskParked(g) \/ TaskSleep(g)
    BY <2>4 DEF TaskLookup, TaskPark, TaskParked, TaskSleep
  <2>5. CASE TaskPollFindsWork(g) \/ TaskPollFindsNone(g) \/ TaskWake(g) \/ TaskHome(g)
    BY <2>5 DEF TaskPollFindsWork, TaskPollFindsNone, TaskWake, TaskHome
  <2>6. CASE TaskZeroStart(g) \/ TaskZeroWait(g) \/ TaskHomeStart(g) \/ TaskHomeWait(g)
    BY <2>6 DEF TaskZeroStart, TaskZeroWait, TaskHomeStart, TaskHomeWait
  <2>7. QED
    BY <1>3, <2>1, <2>2, <2>3, <2>4, <2>5, <2>6 DEF TaskStep
<1>4. ASSUME NEW g \in Gens, ExecStep(g) PROVE AutoQueueAttended'
  <2>1. ASSUME NEW p \in ExecPoints, ExecGate(g, p) PROVE AutoQueueAttended'
    <3>1. CASE ExpireRun
      BY <3>1, ExpiryAttends
    <3>2. CASE ~ExpireRun
      <4>1. UNCHANGED <<autoQueue, ready, lease, generation, task>>
        BY <2>1, <3>2 DEF ExecGate, gate, run
      <4>2. QED
        BY <4>1 DEF AutoQueueAttended
    <3>3. QED
      BY <3>1, <3>2
  <2>2. CASE ExecFail(g) /\ ~ExecGate(g, "fail")
    BY <2>2, PauseAttends DEF ExecFail
  <2>3. CASE UNCHANGED <<gate, generation, lease, task>>
    BY <2>3 DEF AutoQueueAttended, gate
  <2>4. \/ UNCHANGED <<gate, generation, lease, task>>
        \/ \E p \in ExecPoints : ExecGate(g, p)
        \/ ExecFail(g) /\ ~ExecGate(g, "fail")
    BY <1>4 DEF ExecStep, ExecDispatch, ExecSettle, ExecComplete, ExecPoints, gate, run
  <2>5. QED
    BY <2>1, <2>2, <2>3, <2>4
<1>5. ASSUME NEW g \in Gens, WatchStep(g) PROVE AutoQueueAttended'
  <2>1. CASE ExpireRun
    BY <2>1, ExpiryAttends
  <2>2. CASE ~ExpireRun
    <3>1. UNCHANGED <<autoQueue, ready, lease, generation, task>>
      BY <1>5, <2>2 DEF WatchStep, gate, run
    <3>2. QED
      BY <3>1 DEF AutoQueueAttended
  <2>3. QED
    BY <2>1, <2>2
<1>6. ASSUME NEW m \in movers, MoverStep(m) PROVE AutoQueueAttended'
  BY <1>6 DEF MoverStep, MoverRun, MoverError, MoverEnd, AutoQueueAttended, gate, run, threads
<1>7. CASE Environment
  BY <1>7 DEF Environment, DeadlinePasses, ReadFails, HandMoves, Restart, AutoQueueAttended,
              gate, run, threads
<1>8. CASE UNCHANGED vars
  BY <1>8 DEF vars, gate, run, threads, AutoQueueAttended
<1>9. QED
  BY <1>1, <1>2, <1>3, <1>4, <1>5, <1>6, <1>7, <1>8 DEF Next, Threads

\* While auto-queue is on, a session is awaited or running, or a task thread that
\* will get there is alive (cloud.py 194-249): a cleanup that fails, a stop or an
\* expiry never strands it.
THEOREM AutoQueueIsAttended ==
    ASSUME OutpacesPoll = FALSE
    PROVE  Spec => []AutoQueueAttended
<1>1. Init => AutoQueueAttended
  BY DEF Init, AutoQueueAttended
<1>2. BridgeInv /\ AutoQueueAttended /\ [Next]_vars => AutoQueueAttended'
  BY AttendedStep
<1>3. QED
  BY <1>1, <1>2, BridgeInvariant, PTL DEF Spec

-----------------------------------------------------------------------------
(* One terminal result per command.                                        *)

\* A command that is still active was not reported; a command thread that has not
\* gone reports at most what a dead bus kept it from; and a second report is one
\* that a dead bus caused, which no task thread takes for a parked arm.
Reported ==
    /\ activeCommand => reports = 0
    /\ exec[generation].pc # "idle" => reports = 0 \/ arm.mode = "fault"
    /\ reports = 2 => arm.mode = "fault" /\ task[generation] # "zeroWait"

\* Steps that report nothing, launch nothing and leave a fault where it is.
LEMMA QuietReports ==
    ASSUME Reported, UNCHANGED <<generation, reports, activeCommand>>,
           exec'[generation].pc = exec[generation].pc
               \/ exec'[generation].pc = "idle" \/ exec[generation].pc # "idle",
           arm.mode = "fault" =>
               arm'.mode = "fault" /\ (task'[generation] = "zeroWait" => task[generation] = "zeroWait")
    PROVE  Reported'
BY DEF Reported

\* pause() after at most one report, or over a dead bus.
LEMMA PauseReports ==
    ASSUME BridgeInv, NEW g \in Gens, NEW h \in HoldAnswers, Pause(g, h),
           \A x \in Gens : task[x] = "none" => task'[x] = "none",
           \A x \in Gens : exec[x].pc = "idle" => exec'[x].pc = "idle",
           reports' = 2 => arm.mode = "fault"
    PROVE  Reported'
<1>1. arm.mode = "fault" => arm'.mode = "fault"
  BY FaultStays DEF Pause, HoldOutcome, BridgeInv, TypeOK
<1>2. generation' = g /\ task'[g] = "none" /\ exec'[g].pc = "idle" /\ activeCommand' = FALSE
  BY PauseResets
<1>3. QED
  BY <1>1, <1>2 DEF Reported

\* _stop_run() drops the command, so whoever reports it does so for the last time.
LEMMA StopReports ==
    ASSUME BridgeInv, Reported, lease # NoSession, NEW normal \in BOOLEAN, StopRun(normal),
           \A x \in Gens : exec[x].pc = "idle" => exec'[x].pc = "idle",
           reports' = reports \/ reports' = 1
    PROVE  Reported'
<1>1. CASE \E g \in Gens : StartCleanup(g) /\ normal /\ ReportedMode(arm) = "active"
  <2>1. PICK g \in Gens : StartCleanup(g)
    BY <1>1
  <2>2. arm.mode # "fault"
    BY <1>1 DEF ReportedMode
  <2>3. generation' = g /\ exec'[g].pc = "idle" /\ activeCommand' = FALSE
    BY <2>1 DEF StartCleanup, NewGeneration, Dormant
  <2>4. QED
    BY <2>2, <2>3 DEF Reported
<1>2. CASE UNCHANGED task /\ \E g \in Gens, h \in HoldAnswers : Pause(g, h)
  BY <1>2, PauseReports DEF Reported
<1>3. CASE arm' = Faulted(arm) /\ activeCommand' = FALSE /\ UNCHANGED <<generation, task>>
  <2>1. arm'.mode = "fault"
    BY <1>3, FaultStays DEF BridgeInv, TypeOK
  <2>2. task[generation] = "none"
    BY DEF BridgeInv, AdmissionExclusive
  <2>3. QED
    BY <1>3, <2>1, <2>2 DEF Reported
<1>4. QED
  BY <1>1, <1>2, <1>3 DEF StopRun

LEMMA ExpiryReports ==
    ASSUME BridgeInv, Reported, ExpireRun,
           \A x \in Gens : exec[x].pc = "idle" => exec'[x].pc = "idle"
    PROVE  Reported'
<1>1. lease # NoSession /\ StopRun(TRUE)
  BY DEF ExpireRun, Expired
<1>2. CASE activeCommand
  <2>1. reports = 0
    BY <1>2 DEF Reported
  <2>2. reports' = 1
    BY <1>2, <2>1 DEF ExpireRun
  <2>3. QED
    BY <1>1, <2>2, StopReports
<1>3. CASE ~activeCommand
  <2>1. reports' = reports
    BY <1>3 DEF ExpireRun
  <2>2. QED
    BY <1>1, <2>1, StopReports
<1>4. QED
  BY <1>2, <1>3

\* The handlers of the websocket client.
LEMMA ApiReports ==
    ASSUME BridgeInv, Reported, Api
    PROVE  Reported'
<1>1. CASE ApiConnected
  BY <1>1, QuietReports DEF ApiConnected, run, threads
<1>2. CASE ApiDisconnected \/ ApiErrorReceived \/ \E s \in Sessions : ApiPrepareInvalid(s)
  <2>1. UNCHANGED <<task, exec, reports>>
    BY <1>2 DEF ApiDisconnected, ApiErrorReceived, ApiPrepareInvalid, threads
  <2>2. PICK g \in Gens, h \in HoldAnswers : Pause(g, h)
    BY <1>2 DEF ApiDisconnected, ApiErrorReceived, ApiPrepareInvalid
  <2>3. QED
    BY <2>1, <2>2, PauseReports DEF Reported
<1>3. ASSUME NEW s \in Sessions, ApiPrepareSession(s) PROVE Reported'
  BY <1>3, QuietReports, FaultStays DEF ApiPrepareSession, BridgeInv, TypeOK
<1>4. ASSUME NEW s \in Sessions, ApiHandleCommand(s) PROVE Reported'
  <2>1. CASE ExpireRun /\ UNCHANGED exec
    BY <2>1, ExpiryReports
  <2>2. CASE reports' = 0 /\ UNCHANGED <<arm, generation>>
    BY <2>2 DEF Reported
  <2>3. QED
    BY <1>4, <2>1, <2>2 DEF ApiHandleCommand
<1>5. ASSUME NEW s \in Sessions, ApiHandleStop(s) PROVE Reported'
  <2>1. CASE ExpireRun
    BY <1>5, <2>1, ExpiryReports DEF ApiHandleStop
  <2>2. CASE ~ExpireRun
    <3>1. lease = s /\ UNCHANGED <<exec, reports>> /\ \E normal \in BOOLEAN : StopRun(normal)
      BY <1>5, <2>2 DEF ApiHandleStop
    <3>2. lease # NoSession
      BY <3>1, ConstantsOK
    <3>3. QED
      BY <3>1, <3>2, StopReports
  <2>3. QED
    BY <2>1, <2>2
<1>6. QED
  BY <1>1, <1>2, <1>3, <1>4, <1>5 DEF Api

\* The panel.
LEMMA PanelReports ==
    ASSUME BridgeInv, Reported, OperatorPanel
    PROVE  Reported'
<1>1. CASE OperatorHold \/ OperatorPause
  <2>1. UNCHANGED <<task, exec, reports>>
    BY <1>1 DEF OperatorHold, OperatorPause, threads
  <2>2. CASE \E g \in Gens, h \in HoldAnswers : Pause(g, h)
    BY <2>1, <2>2, PauseReports DEF Reported
  <2>3. CASE \E h \in HoldAnswers : arm' = HoldOutcome(h) /\ UNCHANGED <<generation, run>>
    <3>1. arm.mode = "fault" => arm'.mode = "fault"
      BY <2>3, FaultStays DEF HoldOutcome, BridgeInv, TypeOK
    <3>2. QED
      BY <2>1, <2>3, <3>1, QuietReports DEF run
  <2>4. QED
    BY <1>1, <2>2, <2>3 DEF OperatorHold, OperatorPause
<1>2. CASE OperatorCloudReady \/ OperatorAutoQueueAtHome \/ \E p \in {"home", "zero"} : OperatorMovePose(p)
  BY <1>2, QuietReports DEF OperatorCloudReady, OperatorAutoQueueAtHome, OperatorMovePose, run, threads
<1>3. CASE OperatorAutoQueueAtZero
  <2>1. PICK g \in Gens : NewGeneration(g)
    BY <1>3 DEF OperatorAutoQueueAtZero
  <2>2. generation' = g /\ exec'[g].pc = "idle" /\ UNCHANGED <<reports, activeCommand>>
    BY <1>3, <2>1 DEF OperatorAutoQueueAtZero, NewGeneration, Dormant, run
  <2>3. arm.mode # "fault"
    BY <1>3 DEF OperatorAutoQueueAtZero, ReportedMode
  <2>4. QED
    BY <2>2, <2>3 DEF Reported
<1>4. CASE OperatorEnable
  BY <1>4, QuietReports DEF OperatorEnable, run, threads
<1>5. CASE OperatorJog
  BY <1>5, QuietReports, FaultStays DEF OperatorJog, run, threads, BridgeInv, TypeOK
<1>6. QED
  BY <1>1, <1>2, <1>3, <1>4, <1>5 DEF OperatorPanel

\* The task thread parks a healthy arm only: when it switches the torque off, two
\* reports are impossible.
LEMMA TaskReports ==
    ASSUME BridgeInv, Reported, NEW g \in Gens, TaskStep(g)
    PROVE  Reported'
<1> USE DEF TaskAt, TaskGoes, run
<1>1. CASE TaskFail(g)
  <2>1. CASE g # generation
    BY <1>1, <2>1, QuietReports DEF TaskFail
  <2>2. CASE g = generation
    <3>1. PICK n \in Gens, h \in HoldAnswers : Pause(n, h)
      BY <1>1, <2>2 DEF TaskFail
    <3>2. \A x \in Gens : task[x] = "none" => task'[x] = "none"
      BY <1>1 DEF TaskFail, BridgeInv, TypeOK
    <3>3. UNCHANGED <<exec, reports>>
      BY <1>1 DEF TaskFail
    <3>4. QED
      BY <3>1, <3>2, <3>3, PauseReports DEF Reported
  <2>3. QED
    BY <2>1, <2>2
<1>2. CASE TaskZeroWait(g) /\ arm' = Disabled(arm) /\ g = generation
  <2>1. UNCHANGED <<exec, reports, generation, activeCommand>> /\ reports # 2
    BY <1>2 DEF TaskZeroWait, Reported
  <2>2. exec[generation].pc = "idle"
    BY <1>2 DEF TaskZeroWait, BridgeInv, ExecServesLease, TaskHasReason
  <2>3. QED
    BY <2>1, <2>2 DEF Reported
<1>3. CASE TaskZeroWait(g) /\ ~(arm' = Disabled(arm) /\ g = generation)
  <2>1. arm.mode = "fault" => arm'.mode = "fault"
    <3>1. arm \in Arm /\ \A a \in DisableFaulted(arm) : a.mode = "fault"
      BY DEF DisableFaulted, BridgeInv, TypeOK, Arm
    <3>2. arm' \in {arm, Faulted(arm)} \cup DisableFaulted(arm)
      BY <1>3 DEF TaskZeroWait, Revoked
    <3>3. QED
      BY <3>1, <3>2, FaultStays
  <2>2. task'[generation] = "zeroWait" => task[generation] = "zeroWait"
    BY <1>3 DEF TaskZeroWait, BridgeInv, TypeOK
  <2>3. QED
    BY <1>3, <2>1, <2>2, QuietReports DEF TaskZeroWait
<1>4. CASE TaskZeroStart(g)
  <2>1. arm.mode = "fault" => arm'.mode = "fault" /\ ReportedMode(arm) # "active"
    BY <1>4, FaultStays DEF TaskZeroStart, ReportedMode, BridgeInv, TypeOK
  <2>2. arm.mode = "fault" /\ task'[generation] = "zeroWait" => task[generation] = "zeroWait"
    BY <1>4, <2>1 DEF TaskZeroStart, BridgeInv, TypeOK
  <2>3. QED
    BY <1>4, <2>1, <2>2, QuietReports DEF TaskZeroStart
<1>5. CASE TaskHomeStart(g)
  <2>1. arm.mode = "fault" => arm'.mode = "fault"
    BY <1>5, FaultStays DEF TaskHomeStart, BridgeInv, TypeOK
  <2>2. task'[generation] = "zeroWait" => task[generation] = "zeroWait"
    BY <1>5 DEF TaskHomeStart, BridgeInv, TypeOK
  <2>3. QED
    BY <1>5, <2>1, <2>2, QuietReports DEF TaskHomeStart
<1>6. CASE \/ TaskLookup(g) \/ TaskPark(g) \/ TaskParked(g) \/ TaskSleep(g) \/ TaskPollFindsWork(g)
           \/ TaskPollFindsNone(g) \/ TaskWake(g) \/ TaskHome(g) \/ TaskHomeWait(g) \/ TaskFinish(g)
  <2>1. UNCHANGED <<arm, generation, reports, activeCommand, exec>>
    BY <1>6 DEF TaskLookup, TaskPark, TaskParked, TaskSleep, TaskPollFindsWork, TaskPollFindsNone,
                TaskWake, TaskHome, TaskHomeWait, TaskFinish
  <2>2. task'[generation] = "zeroWait" => task[generation] = "zeroWait"
    BY <1>6 DEF TaskLookup, TaskPark, TaskParked, TaskSleep, TaskPollFindsWork, TaskPollFindsNone,
                TaskWake, TaskHome, TaskHomeWait, TaskFinish, BridgeInv, TypeOK
  <2>3. QED
    BY <2>1, <2>2, QuietReports
<1>7. QED
  BY <1>1, <1>2, <1>3, <1>4, <1>5, <1>6 DEF TaskStep

\* The command thread reports as it goes: with a live bus nobody has before it.
LEMMA ExecReports ==
    ASSUME BridgeInv, Reported, NEW g \in Gens, ExecStep(g)
    PROVE  Reported'
<1> USE DEF ExecAt, ExecGoes, ExecEnds, run
<1>1. ASSUME NEW p \in ExecPoints, ExecGate(g, p) PROVE Reported'
  <2>1. \A x \in Gens : exec[x].pc = "idle" => exec'[x].pc = "idle"
    BY <1>1 DEF ExecGate, IdleExec, BridgeInv, TypeOK
  <2>2. CASE ExpireRun
    BY <2>1, <2>2, ExpiryReports
  <2>3. CASE ~ExpireRun
    BY <1>1, <2>3, QuietReports DEF ExecGate, BridgeInv, TypeOK
  <2>4. QED
    BY <2>2, <2>3
<1>2. CASE (ExecDispatch(g) \/ ExecSettle(g)) /\ ~\E p \in ExecPoints : ExecGate(g, p)
  <2>1. /\ UNCHANGED <<generation, reports, activeCommand, task>>
        /\ g = generation /\ exec[g].pc # "idle"
    BY <1>2 DEF ExecDispatch, ExecSettle, ExecLive, ExecPoints
  <2>2. arm.mode = "fault" => arm'.mode = "fault"
    BY <1>2, FaultStays DEF ExecDispatch, ExecSettle, ExecPoints, BridgeInv, TypeOK
  <2>3. QED
    BY <2>1, <2>2, QuietReports
<1>3. CASE ExecLive(g, "complete") /\ ExecComplete(g) /\ ~ExecGate(g, "complete")
  <2>1. g = generation /\ exec[g].pc = "complete" /\ UNCHANGED <<generation, task>> /\ activeCommand' = FALSE
    BY <1>3 DEF ExecComplete, ExecLive
  <2>2. task[generation] = "none"
    BY <2>1 DEF BridgeInv, AdmissionExclusive, ExecServesLease
  <2>3. CASE UNCHANGED arm /\ exec' = [exec EXCEPT ![g] = IdleExec]
             /\ reports' = IF reports < 2 THEN reports + 1 ELSE reports
    BY <2>1, <2>2, <2>3 DEF Reported, IdleExec, BridgeInv, TypeOK
  <2>4. CASE arm' = Faulted(arm) /\ UNCHANGED reports
    <3>1. arm'.mode = "fault"
      BY <2>4, FaultStays DEF BridgeInv, TypeOK
    <3>2. QED
      BY <2>1, <2>2, <2>4, <3>1 DEF Reported
  <2>5. QED
    BY <1>3, <2>3, <2>4 DEF ExecComplete
<1>4. CASE ExecLive(g, "fail") /\ ExecFail(g) /\ ~ExecGate(g, "fail")
  <2>1. g = generation /\ exec[g].pc = "fail"
    BY <1>4 DEF ExecLive
  <2>2. PICK n \in Gens, h \in HoldAnswers : Pause(n, h)
    BY <1>4 DEF ExecFail
  <2>3. reports' = 2 => arm.mode = "fault"
    BY <1>4, <2>1 DEF ExecFail, Reported, BridgeInv, TypeOK
  <2>4. \A x \in Gens : exec[x].pc = "idle" => exec'[x].pc = "idle"
    BY <1>4 DEF ExecFail, IdleExec, BridgeInv, TypeOK
  <2>5. UNCHANGED task
    BY <1>4 DEF ExecFail
  <2>6. QED
    BY <2>2, <2>3, <2>4, <2>5, PauseReports
<1>5. QED
  BY <1>1, <1>2, <1>3, <1>4 DEF ExecStep, ExecDispatch, ExecSettle, ExecComplete, ExecFail, ExecPoints

\* Watchdogs, pose motions and the environment.
LEMMA OthersReport ==
    ASSUME BridgeInv, Reported,
           \/ \E g \in Gens : WatchStep(g)
           \/ \E m \in movers : MoverStep(m)
           \/ Environment \/ UNCHANGED vars
    PROVE  Reported'
<1>1. ASSUME NEW g \in Gens, WatchStep(g) PROVE Reported'
  <2>1. CASE ExpireRun
    BY <1>1, <2>1, ExpiryReports DEF WatchStep
  <2>2. CASE ~ExpireRun
    BY <1>1, <2>2, QuietReports DEF WatchStep, run
  <2>3. QED
    BY <2>1, <2>2
<1>2. ASSUME NEW m \in movers, MoverStep(m) PROVE Reported'
  <2>1. UNCHANGED <<generation, reports, activeCommand, exec, task>>
    BY <1>2 DEF MoverStep, MoverRun, MoverError, MoverEnd, run, threads
  <2>2. arm.mode = "fault" => arm'.mode = "fault"
    <3>1. arm \in Arm
      BY DEF BridgeInv, TypeOK
    <3>2. arm' \in {arm, Faulted(arm), Held(arm)} \cup {Moved(arm, p) : p \in Poses}
      <4>1. CASE MoverRun(m)
        <5>1. m \in Movers
          BY DEF BridgeInv, TypeOK
        <5>2. \A p : p \in {"away", m.to} => p \in Poses
          BY <5>1 DEF Movers, Poses
        <5>3. QED
          BY <4>1, <5>2 DEF MoverRun
      <4>2. CASE MoverError(m) \/ MoverEnd(m)
        BY <4>2 DEF MoverError, MoverEnd, HoldOutcome
      <4>3. QED
        BY <1>2, <4>1, <4>2 DEF MoverStep
    <3>3. QED
      BY <3>1, <3>2, FaultStays
  <2>3. QED
    BY <2>1, <2>2, QuietReports
<1>3. CASE DeadlinePasses \/ ReadFails \/ HandMoves
  <2>1. UNCHANGED <<generation, reports, activeCommand, exec, task>>
    BY <1>3 DEF DeadlinePasses, ReadFails, HandMoves, run, threads
  <2>2. arm.mode = "fault" => arm'.mode = "fault"
    BY <1>3, FaultStays DEF DeadlinePasses, ReadFails, HandMoves, BridgeInv, TypeOK
  <2>3. QED
    BY <2>1, <2>2, QuietReports
<1>4. CASE Restart
  BY <1>4 DEF Restart, Reported, IdleExec, BridgeInv, TypeOK
<1>5. CASE UNCHANGED vars
  BY <1>5 DEF vars, run, threads, Reported
<1>6. QED
  BY <1>1, <1>2, <1>3, <1>4, <1>5 DEF Environment

\* As long as the arm answers, the cloud hears of one terminal result per command:
\* completion, failure and deadline never both report one (cloud.py 116-122, 454-474).
THEOREM CommandsAreReportedOnce ==
    ASSUME OutpacesPoll = FALSE
    PROVE  Spec => []OneReportPerCommand
<1>1. Init => Reported
  BY DEF Init, Reported, IdleExec
<1>2. BridgeInv /\ Reported /\ [Next]_vars => Reported'
  BY ApiReports, PanelReports, TaskReports, ExecReports, OthersReport DEF Next, Threads
<1>3. BridgeInv /\ Reported => OneReportPerCommand
  BY DEF BridgeInv, TypeOK, Reported, OneReportPerCommand
<1>4. QED
  BY <1>1, <1>2, <1>3, BridgeInvariant, PTL DEF Spec

=============================================================================
