---------------------------- MODULE CloudBridge ----------------------------
(***************************************************************************)
(* The SO101 controller: cloud.CloudBridge, operator.Operator and the arm. *)
(*                                                                         *)
(* One bridge is shared by the websocket client (actions named Api...),    *)
(* the operator panel (Operator...), and the threads they start: the queue *)
(* task thread that cleans up after a run, the thread that executes a      *)
(* command, the run-deadline watchdog and the pose-motion thread.  A       *)
(* handler, and each stretch of a thread between two releases of the       *)
(* bridge lock, or of the operator lock that is always taken first, is one *)
(* action.                                                                 *)
(*                                                                         *)
(* generation is a counter in the code; threads only compare it with the   *)
(* value they captured.  So it is an identifier here, and "+= 1" picks any *)
(* identifier that no living thread still holds.                           *)
(***************************************************************************)
EXTENDS Naturals, SO101Driver

CONSTANTS
    Sessions,           \* leases the cloud may hand out, one per session
    NoSession,          \* lease = None
    Gens,               \* generation identifiers: the bound on threads alive at once
    NoGen,              \* the owner of a motion the operator panel started
    MaxWaypoints,       \* bound: waypoints of one command
    Faults,             \* TRUE: a bus access, camera check or motion may fail
    Restarts,           \* TRUE: the process may crash and be started again
    OutpacesPoll        \* TRUE: the operator can enable, move Home and authorize
                        \* within the 2 s sleep of a task thread that just parked

ASSUME ConstantsOK ==
    /\ NoSession \notin Sessions
    /\ NoGen \notin Gens
    /\ MaxWaypoints \in Nat \ {0}
    /\ {Faults, Restarts, OutpacesPoll} \subseteq BOOLEAN

VARIABLES
    arm,                \* driver and servos, see SO101Driver
    connected, ready, autoQueue, parked, returningHome, cleanupPhase,
    generation,
    lease, pending, activeCommand,
    runDeadline,        \* run_deadline: none, set, or already passed
    timedOutLease,
    reports,            \* terminal results sent for the command last launched
    task,               \* per generation, where its _next_auto_task thread is
    exec,               \* per generation, its execute() thread
    watch,              \* generations whose watch_deadline() thread is alive
    movers,             \* living pose-motion threads
    motionError         \* Operator.motion_error is set

gate    == <<ready, autoQueue, parked, returningHome, cleanupPhase>>
run     == <<lease, pending, activeCommand, runDeadline>>
threads == <<task, exec, watch>>
motions == <<movers, motionError>>
vars    == <<arm, connected, gate, generation, run, timedOutLease, reports, threads, motions>>

CleanupPhases == {"NONE", "PREPARING", "PARKING_ZERO", "MOVING_HOME"}
TaskPoints    == {"none", "lookup", "park", "zeroStart", "zeroWait", "parked", "sleep",
                  "poll", "wake", "home", "homeStart", "homeWait", "finish", "fail"}
ExecPoints    == {"idle", "dispatch", "settle", "complete", "fail"}
Execs         == {e \in [pc : ExecPoints, session : Sessions \cup {NoSession},
                         left : 0..MaxWaypoints] : e.pc = "dispatch" => e.left > 0}
Movers        == [by : Gens \cup {NoGen}, to : {"home", "zero"}, stop : BOOLEAN,
                  current : BOOLEAN, pc : {"run", "err", "end"}]

IdleExec == [pc |-> "idle", session |-> NoSession, left |-> 0]

\* The outcomes of an access to the bus: answered, or (with Faults) raised.
BusAnswers == IF Faults THEN BOOLEAN ELSE {TRUE}

-----------------------------------------------------------------------------
(* Helpers every handler is built from.                                    *)

Dormant(g) ==
    /\ task[g] = "none" /\ exec[g].pc = "idle" /\ g \notin watch
    /\ \A m \in movers : m.by # g

\* self.generation += 1
NewGeneration(g) == g # generation /\ Dormant(g) /\ generation' = g

\* self.motion, if a pose-motion thread is registered there.
Motion == {m \in movers : m.current}

\* self.motion.set()
StoppedMotion == {IF m.current THEN [m EXCEPT !.stop = TRUE] ELSE m : m \in movers}

\* start_pose(): the new thread overwrites self.motion.
StartedMotion(g, p) ==
    {[m EXCEPT !.current = FALSE] : m \in movers}
      \cup {[by |-> g, to |-> p, stop |-> FALSE, current |-> TRUE, pc |-> "run"]}

\* The panel refuses manual controls while any of these is set.
CloudBusy == ready \/ lease # NoSession \/ autoQueue \/ returningHome

\* hold() reads the pose, then writes it as the goal: either access may raise,
\* and a write that raises leaves the driver as it was.
HoldAnswers    == IF Faults THEN {"done", "unread", "unwritten"} ELSE {"done"}
HoldOutcome(h) == IF h = "done" THEN Held(arm) ELSE IF h = "unread" THEN Faulted(arm) ELSE arm

\* Mutant: auto_queue is not reset.
PauseKeepsAutoQueue(g, h) ==
    /\ NewGeneration(g)
    /\ ready' = FALSE /\ parked' = FALSE /\ returningHome' = FALSE /\ cleanupPhase' = "NONE"
    /\ lease' = NoSession /\ pending' = FALSE /\ activeCommand' = FALSE /\ runDeadline' = "none"
    /\ arm' = IF CloudBusy THEN HoldOutcome(h) ELSE arm
    /\ UNCHANGED autoQueue

\* pause(): every field is reset before hold() gets the chance to raise.
Pause(g, h) ==
    /\ NewGeneration(g)
    /\ ready' = FALSE /\ autoQueue' = FALSE /\ parked' = FALSE
    /\ returningHome' = FALSE /\ cleanupPhase' = "NONE"
    /\ lease' = NoSession /\ pending' = FALSE /\ activeCommand' = FALSE
    /\ runDeadline' = "none"
    /\ arm' = IF CloudBusy THEN HoldOutcome(h) ELSE arm

\* Mutant: the busy checks are dropped.
MayAuthorizeWhileBusy == connected /\ ~ready /\ ReportedMode(arm) = "active" /\ arm.pose = "home"

MayAuthorize ==
    /\ connected /\ lease = NoSession /\ ~ready /\ ~returningHome
    /\ ReportedMode(arm) = "active" /\ arm.pose = "home"

\* Mutant: the generation is not advanced.
StartCleanupSameGeneration(g) ==
    /\ g = generation
    /\ pending' = FALSE /\ activeCommand' = FALSE /\ runDeadline' = "none"
    /\ lease' = NoSession /\ ready' = FALSE
    /\ returningHome' = TRUE /\ cleanupPhase' = "PREPARING"
    /\ task' = [task EXCEPT ![g] = "lookup"]
    /\ UNCHANGED <<arm, autoQueue, parked, generation>>

\* _stop_run(), normal reason, healthy arm: old waypoints are revoked, and a
\* task thread of the new generation takes over.
StartCleanup(g) ==
    /\ NewGeneration(g)
    /\ pending' = FALSE /\ activeCommand' = FALSE /\ runDeadline' = "none"
    /\ lease' = NoSession /\ ready' = FALSE
    /\ returningHome' = TRUE /\ cleanupPhase' = "PREPARING"
    /\ task' = [task EXCEPT ![g] = "lookup"]
    /\ UNCHANGED <<arm, autoQueue, parked>>

\* _stop_run() for the lease it names.  The deadline is already cancelled and
\* the command already dropped when driver.state() raises.
StopRun(normal) ==
    LET cleans == normal /\ ReportedMode(arm) = "active"
    IN  \/ /\ cleans
           /\ \E g \in Gens : StartCleanup(g)
        \/ /\ ~cleans
           /\ \E g \in Gens, h \in HoldAnswers : Pause(g, h)
           /\ UNCHANGED task
        \/ /\ Faults
           /\ arm' = Faulted(arm)
           /\ activeCommand' = FALSE /\ runDeadline' = "none"
           /\ UNCHANGED <<gate, generation, lease, pending, task>>

\* expire_run(), once the deadline has passed.  It reports the command it cut off.
Expired == lease # NoSession /\ runDeadline = "due"
ExpireRun ==
    /\ Expired
    /\ timedOutLease' = lease
    /\ reports' = IF activeCommand /\ reports < 2 THEN reports + 1 ELSE reports
    /\ StopRun(TRUE)

-----------------------------------------------------------------------------
(* Handlers the websocket client calls, one at a time.                     *)

ApiConnected ==
    /\ ~connected /\ connected' = TRUE
    /\ UNCHANGED <<arm, gate, generation, run, timedOutLease, reports, threads, motions>>

\* Also called on every failed attempt to reconnect.
ApiDisconnected ==
    /\ connected' = FALSE
    /\ \E g \in Gens, h \in HoldAnswers : Pause(g, h)
    /\ UNCHANGED <<timedOutLease, reports, threads, motions>>

\* Any rejection but "409 session is not active", which changes nothing.
ApiErrorReceived ==
    /\ connected
    /\ \E g \in Gens, h \in HoldAnswers : Pause(g, h)
    /\ UNCHANGED <<connected, timedOutLease, reports, threads, motions>>

\* Mutant: the watchdog is not started.
ApiPrepareSessionUnwatched(s) ==
    /\ connected /\ ready /\ lease = NoSession /\ ReportedMode(arm) = "active"
    /\ s # timedOutLease
    /\ lease' = s /\ runDeadline' = "set" /\ ready' = FALSE
    /\ UNCHANGED <<arm, connected, autoQueue, parked, returningHome, cleanupPhase, generation,
                   pending, activeCommand, timedOutLease, reports, threads, motions>>

\* The observation is read after the lease is granted, and may raise.
ApiPrepareSession(s) ==
    /\ connected /\ ready /\ lease = NoSession /\ ReportedMode(arm) = "active"
    /\ s # timedOutLease
    /\ lease' = s /\ runDeadline' = "set" /\ ready' = FALSE
    /\ watch' = watch \cup {generation}
    /\ \E h \in BusAnswers : arm' = IF h THEN arm ELSE Faulted(arm)
    /\ UNCHANGED <<connected, autoQueue, parked, returningHome, cleanupPhase, generation,
                   pending, activeCommand, timedOutLease, reports, task, exec, motions>>

\* prepare_session with a run_duration_s that is not finite and positive.
ApiPrepareInvalid(s) ==
    /\ connected /\ ready /\ lease = NoSession /\ ReportedMode(arm) = "active"
    /\ s # timedOutLease
    /\ \E g \in Gens, h \in HoldAnswers : Pause(g, h)
    /\ UNCHANGED <<connected, timedOutLease, reports, threads, motions>>

\* Mutant: check() does not look at pending.
ApiHandleCommandWhilePending(s) ==
    /\ connected /\ ~Expired
    /\ lease = s /\ s # timedOutLease /\ ReportedMode(arm) = "active"
    /\ pending' = TRUE /\ activeCommand' = TRUE /\ reports' = 0
    /\ exec' = [exec EXCEPT ![generation] = [pc |-> "dispatch", session |-> s, left |-> 1]]
    /\ UNCHANGED <<arm, connected, gate, generation, lease, runDeadline, timedOutLease, task,
                   watch, motions>>

\* joint_command or joint_trajectory.  check() first expires an overdue run; a
\* payload it rejects changes nothing else.
ApiHandleCommand(s) ==
    /\ connected
    /\ \/ /\ ExpireRun
          /\ UNCHANGED <<exec, watch>>
       \/ /\ ~Expired
          /\ lease = s /\ s # timedOutLease /\ ~pending /\ ReportedMode(arm) = "active"
          /\ pending' = TRUE /\ activeCommand' = TRUE /\ reports' = 0
          /\ \E n \in 1..MaxWaypoints :
                exec' = [exec EXCEPT ![generation] =
                            [pc |-> "dispatch", session |-> s, left |-> n]]
          /\ UNCHANGED <<arm, gate, generation, lease, runDeadline, timedOutLease, task, watch>>
    /\ UNCHANGED <<connected, motions>>

\* stop_session.  An overdue run times out first; another run's Stop is ignored.
ApiHandleStop(s) ==
    /\ connected
    /\ \/ ExpireRun
       \/ /\ ~Expired /\ lease = s
          /\ \E normal \in BOOLEAN : StopRun(normal)
          /\ UNCHANGED <<timedOutLease, reports>>
    /\ UNCHANGED <<connected, exec, watch, motions>>

-----------------------------------------------------------------------------
(* The operator panel: Operator.action() under the operator lock.          *)

\* hold.  driver.hold() runs a second time after pause(), to the same effect.
OperatorHold ==
    /\ movers' = StoppedMotion
    /\ \E g \in Gens, h \in HoldAnswers :
          IF CloudBusy THEN Pause(g, h)
          ELSE arm' = HoldOutcome(h) /\ UNCHANGED <<gate, generation, run>>
    /\ UNCHANGED <<connected, timedOutLease, reports, threads, motionError>>

\* cloud_pause, and auto_queue with enabled = false.
OperatorPause ==
    /\ movers' = StoppedMotion
    /\ \E g \in Gens, h \in HoldAnswers : Pause(g, h)
    /\ UNCHANGED <<connected, timedOutLease, reports, threads, motionError>>

\* The time the operator needs, against the 2 s sleep after parking.
ParkedThreadGone == OutpacesPoll \/ task[generation] = "none"

\* Mutant: a running pose motion is not refused.
OperatorCloudReadyMoving ==
    /\ MayAuthorize /\ ParkedThreadGone
    /\ ready' = TRUE
    /\ UNCHANGED <<arm, connected, autoQueue, parked, returningHome, cleanupPhase, generation,
                   run, timedOutLease, reports, threads, motions>>

\* cloud_ready: admit one session, with auto-queue left off.
OperatorCloudReady ==
    /\ Motion = {} /\ MayAuthorize /\ ParkedThreadGone
    /\ ready' = TRUE
    /\ UNCHANGED <<arm, connected, autoQueue, parked, returningHome, cleanupPhase, generation,
                   run, timedOutLease, reports, threads, motions>>

\* set_auto_queue(True) at Zero: wait there, or park there, until work arrives.
OperatorAutoQueueAtZero ==
    /\ Motion = {} /\ ~autoQueue
    /\ arm.pose = "zero" /\ ReportedMode(arm) \in {"active", "readonly"}
    /\ connected /\ lease = NoSession /\ ~ready /\ ~returningHome /\ ~pending
    /\ autoQueue' = TRUE
    /\ parked' = (ReportedMode(arm) = "readonly")
    /\ returningHome' = ~parked'
    /\ \E g \in Gens : NewGeneration(g) /\ task' = [task EXCEPT ![g] = "lookup"]
    /\ UNCHANGED <<arm, connected, ready, cleanupPhase, run, timedOutLease, reports,
                   exec, watch, motions>>

\* set_auto_queue(True) elsewhere: authorize() demands enabled Home.
OperatorAutoQueueAtHome ==
    /\ Motion = {} /\ ~autoQueue /\ MayAuthorize /\ ParkedThreadGone
    /\ ready' = TRUE /\ autoQueue' = TRUE
    /\ UNCHANGED <<arm, connected, parked, returningHome, cleanupPhase, generation,
                   run, timedOutLease, reports, threads, motions>>

OperatorEnable ==
    /\ Motion = {} /\ ~CloudBusy /\ arm.mode # "fault"
    /\ \/ arm' = Enabled(arm)
       \/ Faults /\ arm' \in EnableFaulted(arm)
    /\ UNCHANGED <<connected, gate, generation, run, timedOutLease, reports, threads, motions>>

\* home, zero: start a pose motion.
OperatorMovePose(p) ==
    /\ Motion = {} /\ ~CloudBusy /\ ReportedMode(arm) = "active"
    /\ movers' = StartedMotion(NoGen, p)
    /\ motionError' = FALSE
    /\ UNCHANGED <<arm, connected, gate, generation, run, timedOutLease, reports, threads>>

\* move: one direct target.
OperatorJog ==
    /\ Motion = {} /\ ~CloudBusy /\ MayMove(arm)
    /\ \E p \in Poses : arm' = Moved(arm, p)
    /\ UNCHANGED <<connected, gate, generation, run, timedOutLease, reports, threads, motions>>

-----------------------------------------------------------------------------
(* The queue task thread, _next_auto_task(g).                              *)

TaskAt(g, p)   == task[g] = p
TaskGoes(g, p) == task' = [task EXCEPT ![g] = p]

\* move_for_queue() gives up when its generation or its reason to move is gone.
Revoked(g) == g # generation \/ ~(autoQueue \/ returningHome)

\* Queue HTTP runs without the lock; an unknown queue counts as an empty one.
TaskLookup(g) ==
    /\ TaskAt(g, "lookup")
    /\ \/ autoQueue /\ TaskGoes(g, "home")
       \/ TaskGoes(g, "park")
    /\ UNCHANGED <<arm, connected, gate, generation, run, timedOutLease, reports, exec, watch, motions>>

TaskPark(g) ==
    /\ TaskAt(g, "park")
    /\ IF g # generation
       THEN TaskGoes(g, "none") /\ UNCHANGED cleanupPhase
       ELSE /\ cleanupPhase' = IF parked THEN "NONE" ELSE "PARKING_ZERO"
            /\ TaskGoes(g, IF parked THEN "parked" ELSE "zeroStart")
    /\ UNCHANGED <<arm, connected, ready, autoQueue, parked, returningHome, generation, run,
                   timedOutLease, reports, exec, watch, motions>>

\* move_for_queue(g, "zero") up to its waiting loop.
TaskZeroStart(g) ==
    /\ TaskAt(g, "zeroStart")
    /\ IF Revoked(g)
       THEN TaskGoes(g, "parked") /\ UNCHANGED <<arm, motions>>
       ELSE \/ /\ ReportedMode(arm) = "active"
               /\ movers' = StartedMotion(g, "zero") /\ motionError' = FALSE
               /\ TaskGoes(g, "zeroWait")
               /\ UNCHANGED arm
            \/ /\ ReportedMode(arm) # "active"
               /\ TaskGoes(g, "fail")
               /\ UNCHANGED <<arm, motions>>
            \/ /\ Faults
               /\ arm' = Faulted(arm)
               /\ TaskGoes(g, "fail")
               /\ UNCHANGED motions
    /\ UNCHANGED <<connected, gate, generation, run, timedOutLease, reports, exec, watch>>

\* The waiting loop stops its own motion when revoked.
StopOwnMotion(g) ==
    movers' = {IF m.current /\ m.by = g THEN [m EXCEPT !.stop = TRUE] ELSE m : m \in movers}

\* Mutant: the loop does not wait for the motion thread to finish.
TaskZeroWaitImpatient(g) ==
    /\ TaskAt(g, "zeroWait") /\ ~Revoked(g) /\ ~motionError /\ arm.pose = "zero"
    /\ arm' = Disabled(arm)
    /\ TaskGoes(g, "parked")
    /\ UNCHANGED <<connected, gate, generation, run, timedOutLease, reports, exec, watch, motions>>

\* Mutant: when revoked, the loop goes round again.
TaskZeroWaitSpins(g) ==
    /\ TaskAt(g, "zeroWait")
    /\ \/ Revoked(g) /\ UNCHANGED <<arm, movers, task>>
       \/ /\ ~Revoked(g) /\ Motion = {}
          /\ arm' = Disabled(arm)
          /\ TaskGoes(g, IF motionError THEN "fail" ELSE "parked")
          /\ UNCHANGED movers
    /\ UNCHANGED <<connected, gate, generation, run, timedOutLease, reports, exec, watch, motionError>>

\* After the motion: torque is released only from a measured Zero.
TaskZeroWait(g) ==
    /\ TaskAt(g, "zeroWait")
    /\ \/ /\ Revoked(g)
          /\ StopOwnMotion(g)
          /\ TaskGoes(g, "parked")
          /\ UNCHANGED arm
       \/ /\ ~Revoked(g) /\ Motion = {}
          /\ \/ /\ ~motionError /\ arm.pose = "zero"
                /\ arm' = Disabled(arm)
                /\ TaskGoes(g, "parked")
             \/ /\ motionError \/ arm.pose # "zero"
                /\ TaskGoes(g, "fail")
                /\ UNCHANGED arm
             \/ /\ Faults /\ ~motionError
                /\ \/ arm' = Faulted(arm)
                   \/ arm.pose = "zero" /\ arm' \in DisableFaulted(arm)
                /\ TaskGoes(g, "fail")
          /\ UNCHANGED movers
    /\ UNCHANGED <<connected, gate, generation, run, timedOutLease, reports, exec, watch, motionError>>

\* Mutant: returning_home is not reset.
TaskParkedStillReturning(g) ==
    /\ TaskAt(g, "parked")
    /\ IF g # generation THEN TaskGoes(g, "none") /\ UNCHANGED <<cleanupPhase, parked>>
       ELSE cleanupPhase' = "NONE" /\ parked' = TRUE /\ TaskGoes(g, "sleep")
    /\ UNCHANGED <<arm, connected, ready, autoQueue, returningHome, generation, run, timedOutLease,
                   reports, exec, watch, motions>>

TaskParked(g) ==
    /\ TaskAt(g, "parked")
    /\ IF g # generation
       THEN TaskGoes(g, "none") /\ UNCHANGED <<returningHome, cleanupPhase, parked>>
       ELSE /\ returningHome' = FALSE /\ cleanupPhase' = "NONE" /\ parked' = TRUE
            /\ TaskGoes(g, "sleep")
    /\ UNCHANGED <<arm, connected, ready, autoQueue, generation, run, timedOutLease, reports,
                   exec, watch, motions>>

\* Two seconds later: is anyone still interested?
TaskSleep(g) ==
    /\ TaskAt(g, "sleep")
    /\ TaskGoes(g, IF g # generation \/ ~autoQueue THEN "none" ELSE "poll")
    /\ UNCHANGED <<arm, connected, gate, generation, run, timedOutLease, reports, exec, watch, motions>>

\* Mutant: the loop does not break.
TaskPollIgnoresWork(g) ==
    /\ TaskAt(g, "poll") /\ TaskGoes(g, "sleep")
    /\ UNCHANGED <<arm, connected, gate, generation, run, timedOutLease, reports, exec, watch, motions>>

TaskPollFindsWork(g) ==
    /\ TaskAt(g, "poll") /\ TaskGoes(g, "wake")
    /\ UNCHANGED <<arm, connected, gate, generation, run, timedOutLease, reports, exec, watch, motions>>

\* An empty queue, or a lookup that failed: sleep again.
TaskPollFindsNone(g) ==
    /\ TaskAt(g, "poll") /\ TaskGoes(g, "sleep")
    /\ UNCHANGED <<arm, connected, gate, generation, run, timedOutLease, reports, exec, watch, motions>>

TaskWake(g) ==
    /\ TaskAt(g, "wake")
    /\ IF g # generation \/ ~autoQueue
       THEN TaskGoes(g, "none") /\ UNCHANGED returningHome
       ELSE TaskGoes(g, "home") /\ returningHome' = TRUE
    /\ UNCHANGED <<arm, connected, ready, autoQueue, parked, cleanupPhase, generation, run,
                   timedOutLease, reports, exec, watch, motions>>

TaskHome(g) ==
    /\ TaskAt(g, "home")
    /\ IF g # generation
       THEN TaskGoes(g, "none") /\ UNCHANGED <<returningHome, cleanupPhase>>
       ELSE /\ returningHome' = TRUE /\ cleanupPhase' = "MOVING_HOME"
            /\ TaskGoes(g, "homeStart")
    /\ UNCHANGED <<arm, connected, ready, autoQueue, parked, generation, run, timedOutLease,
                   reports, exec, watch, motions>>

\* move_for_queue(g, "home"): a parked arm is enabled first.
TaskHomeStart(g) ==
    /\ TaskAt(g, "homeStart")
    /\ LET enabled == IF parked /\ arm.mode # "fault" THEN Enabled(arm) ELSE arm
       IN  IF Revoked(g)
           THEN TaskGoes(g, "finish") /\ UNCHANGED <<arm, motions>>
           ELSE \/ /\ ReportedMode(enabled) = "active"
                   /\ arm' = enabled
                   /\ movers' = StartedMotion(g, "home") /\ motionError' = FALSE
                   /\ TaskGoes(g, "homeWait")
                \/ /\ ReportedMode(enabled) # "active"
                   /\ TaskGoes(g, "fail")
                   /\ UNCHANGED <<arm, motions>>
                \/ /\ Faults
                   /\ \/ arm' = Faulted(enabled)
                      \/ parked /\ arm.mode # "fault" /\ arm' \in EnableFaulted(arm)
                   /\ TaskGoes(g, "fail")
                   /\ UNCHANGED motions
    /\ UNCHANGED <<connected, gate, generation, run, timedOutLease, reports, exec, watch>>

TaskHomeWait(g) ==
    /\ TaskAt(g, "homeWait")
    /\ \/ /\ Revoked(g)
          /\ StopOwnMotion(g)
          /\ TaskGoes(g, "finish")
       \/ /\ ~Revoked(g) /\ Motion = {}
          /\ TaskGoes(g, IF motionError THEN "fail" ELSE "finish")
          /\ UNCHANGED movers
    /\ UNCHANGED <<arm, connected, gate, generation, run, timedOutLease, reports, exec, watch,
                   motionError>>

\* Home reached: admit the next session if auto-queue is still on.
TaskFinish(g) ==
    /\ TaskAt(g, "finish")
    /\ IF g # generation
       THEN TaskGoes(g, "none") /\ UNCHANGED gate
       ELSE /\ returningHome' = FALSE /\ cleanupPhase' = "NONE" /\ parked' = FALSE
            /\ UNCHANGED autoQueue
            /\ \/ /\ ~autoQueue
                  /\ TaskGoes(g, "none") /\ UNCHANGED ready
               \/ /\ autoQueue /\ connected /\ lease = NoSession /\ ~ready
                  /\ ReportedMode(arm) = "active" /\ arm.pose = "home"
                  /\ TaskGoes(g, "none") /\ ready' = TRUE
               \/ /\ autoQueue
                  /\ \/ Faults
                     \/ ~connected \/ lease # NoSession \/ ready
                     \/ ReportedMode(arm) # "active" \/ arm.pose # "home"
                  /\ TaskGoes(g, "fail") /\ UNCHANGED ready
    /\ UNCHANGED <<arm, connected, generation, run, timedOutLease, reports, exec, watch, motions>>

\* Mutant: the exception is recorded, and nothing paused.
TaskFailUnpaused(g) ==
    /\ TaskAt(g, "fail") /\ TaskGoes(g, "none")
    /\ UNCHANGED <<arm, connected, gate, generation, run, timedOutLease, reports, exec, watch, motions>>

\* Any exception of the thread pauses the bridge, unless it was superseded.
TaskFail(g) ==
    /\ TaskAt(g, "fail")
    /\ TaskGoes(g, "none")
    /\ IF g # generation
       THEN UNCHANGED <<arm, gate, generation, run>>
       ELSE \E n \in Gens, h \in HoldAnswers : Pause(n, h)
    /\ UNCHANGED <<connected, timedOutLease, reports, exec, watch, motions>>

TaskStep(g) ==
    \/ TaskLookup(g) \/ TaskPark(g) \/ TaskZeroStart(g) \/ TaskZeroWait(g) \/ TaskParked(g)
    \/ TaskSleep(g) \/ TaskPollFindsWork(g) \/ TaskPollFindsNone(g) \/ TaskWake(g)
    \/ TaskHome(g) \/ TaskHomeStart(g) \/ TaskHomeWait(g) \/ TaskFinish(g) \/ TaskFail(g)

-----------------------------------------------------------------------------
(* The command thread, execute(..., generation = g).                       *)

ExecAt(g, p)   == exec[g].pc = p
ExecGoes(g, p) == exec' = [exec EXCEPT ![g].pc = p]
ExecEnds(g)    == exec' = [exec EXCEPT ![g] = IdleExec]

\* The gate at the head of each critical section: superseded or overdue.
ExecGate(g, p) ==
    /\ ExecAt(g, p) /\ ExecEnds(g)
    /\ \/ /\ g # generation
          /\ UNCHANGED <<arm, gate, generation, run, timedOutLease, reports, task>>
       \/ g = generation /\ ExpireRun
    /\ UNCHANGED <<connected, watch, motions>>

ExecLive(g, p) == ExecAt(g, p) /\ g = generation /\ ~Expired

AfterWaypoint(e) ==
    [pc |-> IF e.left = 1 THEN "settle" ELSE "dispatch", session |-> e.session, left |-> e.left - 1]

\* One waypoint.  It fails unmoved when the arm is not active or the dispatch
\* stalled, and after moving when LeRobot clipped the target.
ExecDispatch(g) ==
    \/ ExecGate(g, "dispatch")
    \/ /\ ExecLive(g, "dispatch")
       /\ \/ /\ MayMove(arm)
             /\ \E p \in Poses : arm' = Moved(arm, p)
             /\ exec' = [exec EXCEPT ![g] = AfterWaypoint(exec[g])]
          \/ /\ MayMove(arm) /\ \E p \in Poses : arm' = Moved(arm, p)
             /\ ExecGoes(g, "fail")
          \/ ExecGoes(g, "fail") /\ UNCHANGED arm
          \/ /\ Faults /\ arm' = Faulted(arm)
             /\ ExecGoes(g, "fail")
       /\ UNCHANGED <<connected, gate, generation, run, timedOutLease, reports, task, watch, motions>>

\* The last target was held for 0.2 s, or the 10 s budget ran out.
ExecSettle(g) ==
    \/ ExecGate(g, "settle")
    \/ /\ ExecLive(g, "settle")
       /\ \/ ExecGoes(g, "complete") /\ UNCHANGED arm
          \/ ExecGoes(g, "fail") /\ UNCHANGED arm
          \/ ExecGoes(g, "fail") /\ Faults /\ arm' = Faulted(arm)
       /\ UNCHANGED <<connected, gate, generation, run, timedOutLease, reports, task, watch, motions>>

\* Mutant: active_command is not cleared.
ExecCompleteStillActive(g) ==
    /\ ExecLive(g, "complete") /\ ExecEnds(g)
    /\ pending' = FALSE /\ reports' = IF reports < 2 THEN reports + 1 ELSE reports
    /\ UNCHANGED <<arm, connected, gate, generation, lease, activeCommand, runDeadline,
                   timedOutLease, task, watch, motions>>

\* pending is cleared before the observation is read, which may raise.
ExecComplete(g) ==
    \/ ExecGate(g, "complete")
    \/ /\ ExecLive(g, "complete")
       /\ pending' = FALSE /\ activeCommand' = FALSE
       /\ \/ /\ ExecEnds(g) /\ UNCHANGED arm
             /\ reports' = IF reports < 2 THEN reports + 1 ELSE reports
          \/ /\ Faults /\ ExecGoes(g, "fail") /\ arm' = Faulted(arm)
             /\ UNCHANGED reports
       /\ UNCHANGED <<connected, gate, generation, lease, runDeadline, timedOutLease, task,
                      watch, motions>>

\* The exception handler reports the command and pauses the bridge.
ExecFail(g) ==
    \/ ExecGate(g, "fail")
    \/ /\ ExecLive(g, "fail")
       /\ ExecEnds(g)
       /\ reports' = IF reports < 2 THEN reports + 1 ELSE reports
       /\ \E n \in Gens, h \in HoldAnswers : Pause(n, h)
       /\ UNCHANGED <<connected, timedOutLease, task, watch, motions>>

ExecStep(g) == ExecDispatch(g) \/ ExecSettle(g) \/ ExecComplete(g) \/ ExecFail(g)

-----------------------------------------------------------------------------
(* The watchdog and the pose-motion threads.                               *)

\* watch_deadline(): leaves when its run is over, expires it when it is due.
WatchStep(g) ==
    /\ g \in watch /\ watch' = watch \ {g}
    /\ \/ /\ g # generation \/ lease = NoSession \/ runDeadline = "none"
          /\ UNCHANGED <<arm, gate, generation, run, timedOutLease, reports, task>>
       \/ g = generation /\ ExpireRun
    /\ UNCHANGED <<connected, exec, motions>>

\* Replace mover m, or drop it: self.motion is cleared with it.
MoverGoes(m, p) == movers' = (movers \ {m}) \cup {[m EXCEPT !.pc = p]}

\* One turn of start_pose()'s loop, under the operator lock.
MoverRun(m) ==
    /\ m.pc = "run"
    /\ \/ /\ m.stop \/ (MayMove(arm) /\ arm.pose = m.to)
          /\ MoverGoes(m, "end") /\ UNCHANGED arm
       \/ ~m.stop /\ ~MayMove(arm) /\ MoverGoes(m, "err") /\ UNCHANGED arm
       \/ /\ ~m.stop /\ MayMove(arm) /\ arm.pose # m.to
          /\ \E p \in {"away", m.to} \ {arm.pose} : arm' = Moved(arm, p)
          /\ UNCHANGED movers
       \/ ~m.stop /\ Faults /\ MoverGoes(m, "err") /\ arm' \in {arm, Faulted(arm)}
    /\ UNCHANGED <<connected, gate, generation, run, timedOutLease, reports, threads, motionError>>

\* Its exception handler holds the arm and swallows what hold() raises.
MoverError(m) ==
    /\ m.pc = "err"
    /\ MoverGoes(m, "end") /\ motionError' = TRUE
    /\ \E h \in HoldAnswers : arm' = HoldOutcome(h)
    /\ UNCHANGED <<connected, gate, generation, run, timedOutLease, reports, threads>>

MoverEnd(m) ==
    /\ m.pc = "end"
    /\ movers' = movers \ {m}
    /\ UNCHANGED <<arm, connected, gate, generation, run, timedOutLease, reports, threads, motionError>>

MoverStep(m) == MoverRun(m) \/ MoverError(m) \/ MoverEnd(m)

-----------------------------------------------------------------------------
(* The environment.                                                        *)

DeadlinePasses ==
    /\ runDeadline = "set" /\ runDeadline' = "due"
    /\ UNCHANGED <<arm, connected, gate, generation, lease, pending, activeCommand, timedOutLease,
                   reports, threads, motions>>

\* Anything that reads the arm, a status page included, may meet a dead bus.
ReadFails ==
    /\ Faults /\ arm.mode # "fault" /\ arm' = Faulted(arm)
    /\ UNCHANGED <<connected, gate, generation, run, timedOutLease, reports, threads, motions>>

\* An unpowered arm can be pushed.
HandMoves ==
    /\ ~arm.torque
    /\ \E p \in Poses \ {arm.pose} : arm' = Moved(arm, p)
    /\ UNCHANGED <<connected, gate, generation, run, timedOutLease, reports, threads, motions>>

\* A new process: everything is lost but the arm, which keeps its torque.
Restart ==
    /\ Restarts
    /\ arm' = Attached(arm.torque, arm.pose)
    /\ connected' = FALSE /\ ready' = FALSE /\ autoQueue' = FALSE /\ parked' = FALSE
    /\ returningHome' = FALSE /\ cleanupPhase' = "NONE"
    /\ lease' = NoSession /\ pending' = FALSE /\ activeCommand' = FALSE
    /\ runDeadline' = "none" /\ timedOutLease' = NoSession /\ reports' = 0
    /\ task' = [g \in Gens |-> "none"] /\ exec' = [g \in Gens |-> IdleExec]
    /\ watch' = {} /\ movers' = {} /\ motionError' = FALSE
    /\ UNCHANGED generation

-----------------------------------------------------------------------------
(* The specification.  The arm is wherever the last process left it.       *)

Init ==
    /\ arm \in {Attached(t, p) : t \in BOOLEAN, p \in Poses}
    /\ arm.torque => Restarts
    /\ connected = FALSE /\ ready = FALSE /\ autoQueue = FALSE /\ parked = FALSE
    /\ returningHome = FALSE /\ cleanupPhase = "NONE"
    /\ generation \in Gens
    /\ lease = NoSession /\ pending = FALSE /\ activeCommand = FALSE
    /\ runDeadline = "none" /\ timedOutLease = NoSession /\ reports = 0
    /\ task = [g \in Gens |-> "none"] /\ exec = [g \in Gens |-> IdleExec]
    /\ watch = {} /\ movers = {} /\ motionError = FALSE

Api ==
    \/ ApiConnected \/ ApiDisconnected \/ ApiErrorReceived
    \/ \E s \in Sessions :
          ApiPrepareSession(s) \/ ApiPrepareInvalid(s) \/ ApiHandleCommand(s) \/ ApiHandleStop(s)

OperatorPanel ==
    \/ OperatorHold \/ OperatorPause \/ OperatorCloudReady
    \/ OperatorAutoQueueAtZero \/ OperatorAutoQueueAtHome
    \/ OperatorEnable \/ OperatorJog
    \/ \E p \in {"home", "zero"} : OperatorMovePose(p)

Threads ==
    \/ \E g \in Gens : TaskStep(g) \/ ExecStep(g) \/ WatchStep(g)
    \/ \E m \in movers : MoverStep(m)

Environment == DeadlinePasses \/ ReadFails \/ HandMoves \/ Restart

Next == Api \/ OperatorPanel \/ Threads \/ Environment

Spec == Init /\ [][Next]_vars

\* Threads are scheduled; queued work is eventually seen by the poll.  Nothing
\* is assumed of the cloud, the operator or the environment.
Fairness ==
    /\ \A g \in Gens : WF_vars(TaskStep(g)) /\ WF_vars(ExecStep(g)) /\ WF_vars(WatchStep(g))
    /\ WF_vars(\E m \in movers : MoverStep(m))

FairSpec == Spec /\ Fairness /\ \A g \in Gens : SF_vars(TaskPollFindsWork(g))

-----------------------------------------------------------------------------
(* Properties.                                                             *)

TypeOK ==
    /\ arm \in Arm
    /\ {connected, ready, autoQueue, parked, returningHome, pending, activeCommand,
        motionError} \subseteq BOOLEAN
    /\ cleanupPhase \in CleanupPhases
    /\ generation \in Gens
    /\ {lease, timedOutLease} \subseteq Sessions \cup {NoSession}
    /\ runDeadline \in {"none", "set", "due"}
    /\ reports \in 0..2
    /\ task \in [Gens -> TaskPoints]
    /\ exec \in [Gens -> Execs]
    /\ watch \subseteq Gens
    /\ movers \subseteq Movers

\* Admission (cloud.py 172, 308-335): waiting for a session, running one and
\* cleaning up after one exclude each other, no command outlives its lease, and
\* the deadline runs exactly while a healthy run is on.
AdmissionExclusive ==
    /\ ready => lease = NoSession /\ ~returningHome
    /\ lease # NoSession => ~returningHome /\ task[generation] = "none"
    /\ pending => lease # NoSession
    /\ runDeadline # "none" => lease # NoSession /\ generation \in watch

\* A command is accepted only when the thread of the one before has gone
\* (cloud.py 358, 408-412): two execute() threads never drive one run.
OneCommandInFlight ==
    [][\A g \in Gens : exec'[g].left > exec[g].left => exec[g].pc = "idle"]_vars

\* A pose motion and a live run never command the arm together (operator.py
\* 144-147, cloud.py 420-425), nor do two pose motions.
OneCommander ==
    LET driving == {m \in movers : m.pc = "run" /\ ~m.stop /\ MayMove(arm)}
    IN  /\ driving # {} => lease = NoSession /\ ~ready
        /\ \A m1, m2 \in movers : m1 = m2

\* Auto-queue is never stranded (cloud.py 194-249): while it is on, a session is
\* awaited or running, or a task thread that will get there is alive.
AutoQueueAttended ==
    autoQueue => ready \/ lease # NoSession \/ task[generation] # "none"

\* The cloud hears of one terminal result per command at most, whichever of
\* completion, failure and deadline comes first (cloud.py 116-122, 454-474), as
\* long as the arm answers: ExpiredRunRevoked says what happens when it does not.
OneReportPerCommand == reports <= 1 \/ arm.mode = "fault"

\* "At expiry it revokes the lease" (README.md 258; "Revoke the expired session
\* before the bounded Home cleanup", cloud.py 109): no run that timed out keeps it.
ExpiredRunRevoked == timedOutLease # NoSession => lease # timedOutLease

\* "Otherwise they move to saved Zero and verify torque off; auto-queue checks for
\* new work every two seconds" (README.md 236): while it does, the arm rests.
ParkedArmReleased == autoQueue /\ task[generation] = "sleep" => ~arm.torque

\* "Enable Auto-queue from enabled Home or saved Zero, including Zero with torque
\* off" (README.md 236): an idle healthy arm resting at Zero is accepted.
RestingZeroAccepted ==
    arm.pose = "zero" /\ ~arm.torque /\ arm.mode # "fault" /\ connected /\ ~CloudBusy
        /\ Motion = {} => ReportedMode(arm) \in {"active", "readonly"}

\* "Admission remains disarmed until measured Home and camera checks pass"
\* (cloud.py 172-173): nothing is admitted while a return to Home is under way.
AdmissionWaitsForHome == ready \/ lease # NoSession => ~returningHome

\* What entitles a powered arm to move.
ManualOwns  == ~CloudBusy
RunOwns     == /\ lease # NoSession /\ pending /\ runDeadline # "due"
               /\ exec[generation].pc = "dispatch" /\ exec[generation].session = lease
CleanupOwns == /\ returningHome /\ lease = NoSession /\ ~ready
               /\ \E m \in movers : m.by = generation /\ m.current /\ m.pc = "run" /\ ~m.stop

\* A powered arm moves only for the operator while the cloud is idle, for the
\* command of the live lease before its deadline, or for the cleanup of the
\* current generation: never for a thread that was superseded by a stop, a
\* pause, a disconnect or a later run (cloud.py 420-425, operator.py 60-87).
MotionAuthorised ==
    [][arm'.pose # arm.pose /\ arm.torque => ManualOwns \/ RunOwns \/ CleanupOwns]_vars

\* Servos are released only at the measured Zero, with no run or admission
\* that relies on them (operator.py 130-138).
TorqueReleasedOnlyAtZero ==
    [][arm.torque /\ ~arm'.torque =>
          arm.pose = "zero" /\ lease = NoSession /\ ~ready /\ movers = {}]_vars

-----------------------------------------------------------------------------
(* The inductive invariant behind the safety properties above: who holds   *)
(* what while each thread of the live generation is where it is.           *)

\* A command thread of the live generation serves the lease; pending stays set
\* until it has settled, and after that only a fault keeps it alive.
ExecServesLease ==
    exec[generation].pc # "idle" =>
        /\ lease # NoSession /\ exec[generation].session = lease
        /\ pending \/ (exec[generation].pc = "fail" /\ arm.mode = "fault")

\* The task thread of the live generation excludes admission and a run, and has
\* the reason to move that move_for_queue() will ask it for.
TaskHasReason ==
    /\ task[generation] # "none" => lease = NoSession /\ ~ready
    /\ task[generation] \notin {"none", "sleep"} => autoQueue \/ returningHome
    /\ task[generation] \in {"lookup", "park"} => returningHome \/ parked
    /\ task[generation] \in {"zeroStart", "zeroWait", "homeStart", "homeWait"} => returningHome

\* The only pose motion is the one self.motion names; while the cloud is busy it
\* belongs to the task thread that is waiting for it.
MotionHasOwner ==
    /\ \A m \in movers : m.current /\ \A n \in movers : n = m
    /\ CloudBusy => \A m \in movers :
                        m.by = generation /\ task[generation] \in {"zeroWait", "homeWait"}

\* Every reachable state satisfies all of it, and every step preserves it
\* (cloud.py 64-81, 133-249, 308-336, 414-504; operator.py 42-139).
BridgeInv ==
    TypeOK /\ AdmissionExclusive /\ ExecServesLease /\ TaskHasReason /\ MotionHasOwner

-----------------------------------------------------------------------------
(* The bridge implements SessionLifecycle.                                 *)

Stage == IF lease # NoSession THEN "running"
         ELSE IF ready THEN "ready"
         ELSE IF autoQueue \/ returningHome THEN "cleaning"
         ELSE "idle"

Lifecycle == INSTANCE SessionLifecycle WITH stage <- Stage, holder <- lease, auto <- autoQueue

\* Every step of every thread and handler is a step of the session life cycle,
\* or no step of it (cloud.py 133-185, 238-249, 476-504).
ImplementsLifecycle == Lifecycle!Spec

-----------------------------------------------------------------------------
(* Liveness, under FairSpec.                                               *)

\* A run whose deadline passed loses its lease with no message from the cloud,
\* if the arm answers (cloud.py 89-96).
DeadlineEnforced ==
    \A s \in Sessions : (lease = s /\ runDeadline = "due") ~> (lease # s \/ arm.mode = "fault")

\* A cleanup reaches Home, Zero or a pause: returning_home does not stick
\* (cloud.py 206-249, operator.py 113-139).
CleanupEnds == returningHome ~> ~returningHome

\* While auto-queue waits parked, work that stays queued is admitted, unless the
\* operator, the connection or a failed motion switched auto-queue off
\* (cloud.py 218-244).
QueuedWorkServed == (autoQueue /\ task[generation] = "sleep") ~> (ready \/ ~autoQueue)

\* A superseded thread notices and leaves (cloud.py 204-249, 420-422, 92-94,
\* operator.py 127-129): a long series of runs leaks none.
SupersededThreadsEnd ==
    \A g \in Gens :
        (g # generation /\ ~Dormant(g)) ~> (g = generation \/ Dormant(g))

=============================================================================
