--------------------------- MODULE YamMotionProofs ---------------------------
(***************************************************************************)
(* Motion under a lease, for every number of requests, runs, actions,      *)
(* orders and failures: an executor moves the arms for the run that has    *)
(* the lease, and a station that waits for a run holds its arms at Home.   *)
(*                                                                         *)
(* The invariant is about executors that may still move (Live).  Each of   *)
(* them is the pending action, so that whoever revokes the lease and       *)
(* cancels the pending action ends it; none is left when a station offers  *)
(* itself to the next run; and the client's thread accepts an action only  *)
(* while no other executor works and nobody is within a hold.  Who offers  *)
(* the station has found it at Home, and only a launch, which holds        *)
(* _physical_lock, may then change the arms before it says so.             *)
(***************************************************************************)
EXTENDS YamOperatorProofs

----------------------------------------------------------------------------
(* The invariant.                                                          *)

Offered == op.mode = "API_WAITING" /\ op.authorized

\* An executor before or in the motion of its action.
Acting(e) ==
    \/ At(e, "trajectory") \/ At(e, "command")
    \/ (At(e, "move") \/ At(e, "moving")) /\ stack[e][2] \in {"acted", "played"}
\* ... that would move the arms: nothing has cancelled it.
Live(e) == Acting(e) /\ ~action[e].cancelled /\ arm.state \in Held
\* An executor that has not yet filed the result of its action.
ActionSteps == {"trajectory", "command", "acted", "played", "act_failed"}
Working(e) == \E l \in ActionSteps : Within(e, l)

\* The arms are away while they move or are initialized; a lost link is a fault.
Poised ==
    /\ arm.state \in {"EXECUTING", "INITIALIZING"} => arm.pose = "away"
    /\ ~arm.link => arm.state = "FAULT"

\* One motion, one release; after a release the arms are not held.
OneMotion ==
    /\ arm.state = "STOPPED" => \A t \in Threads : ~At(t, "moving")
    /\ arm.state = "EXECUTING" =>
          \A t, u \in Threads : At(t, "moving") /\ At(u, "moving") => t = u
OneRelease ==
    \A t \in Threads :
        /\ At(t, "stopped") => arm.state \notin Held
        /\ At(t, "releasing") =>
              \/ ~arm.link
              \/ arm.state = "STOPPING" /\ \A u \in Threads : At(u, "releasing") => t = u

WaypathStacks ==
    {<<>>, <<"move", "waypath_end">>, <<"moving", "waypath_end">>, <<"waypath_end">>,
     <<"holding", "waypath_held">>, <<"hold_wait", "waypath_held">>, <<"waypath_held">>}
WaypathAlone == stack[Waypath] \in WaypathStacks

\* A station on offer is at Home, or somebody is about to say that it is not.
OfferedAtHome ==
    Offered /\ arm.state \in Held /\ Idle(Waypath) =>
        \/ arm.state = "STOPPED" /\ arm.pose = "home"
        \/ \E t \in Threads : At(t, "launched")

\* Nobody moves into the next run.
OfferedUnmoved ==
    Offered \/ At(Client, "prepared") => \A e \in Executors : ~Live(e)

\* Who may still move is the pending action, and nobody is holding the arms.
LivePends == \A e \in Executors : Live(e) => op.pending = e
LiveUnheld == \A e \in Executors : Live(e) => \A t \in Threads : ~Within(t, "held")
LiveLeased ==
    \A e \in Executors : Live(e) => op.lease = action[e].run \/ Closed(e) \/ At(Client, "hold")

\* While an action is validated no executor works, and a hold takes the authority.
Receiving == At(Client, "validate") \/ At(Client, "accept")
ReceivedAlone == Receiving => op.offer # None /\ \A e \in Executors : ~Working(e)
ReceivedUnheld ==
    Receiving /\ StillAuthorized /\ arm.state \in Held =>
        \/ \A t \in Threads : ~Within(t, "held")
        \/ At(Client, "validate") /\ \E t \in Threads : At(t, "launched")
OneWorker == \A e, f \in Executors : Working(e) /\ Working(f) => e = f

\* Who is about to offer the station has found it free.
GrantsFree ==
    \A t \in Threads : At(t, "run_policy") \/ At(t, "grant") => op.lease = None /\ op.pending = None
\* A motion of the operator has withdrawn the offer.
MovesAnnounced ==
    \A t \in Threads :
        At(t, "move") /\ stack[t][2] \in {"homed", "at_zero", "wrist_end"} => op.mode # "API_WAITING"
\* An executor has _physical_lock only to recover.
LockRecovers ==
    \A e \in Executors : physLock = e =>
        \E l \in {"recovering", "parked_or_not", "recovered"} : Within(e, l)

\* Who is about to be given "run_policy" waits before it, with _physical_lock to come.
EntersFirst ==
    \A p \in Panel : \A i \in DOMAIN stack[p] :
        stack[p][i] = "run_policy" /\ i > 1 => stack[p][i - 1] = "enter"

MotionInv ==
    /\ Poised /\ OneMotion /\ OneRelease /\ WaypathAlone /\ OfferedAtHome /\ OfferedUnmoved
    /\ LivePends /\ LiveUnheld /\ LiveLeased /\ ReceivedAlone /\ ReceivedUnheld /\ OneWorker
    /\ GrantsFree /\ MovesAnnounced /\ LockRecovers /\ EntersFirst

----------------------------------------------------------------------------
(* Whose step it is, and which.                                            *)

QueueLabels == {"claim_launch", "claim_next", "claim_scene", "seek", "at_home", "scene", "grant",
                "rested", "rested_late", "start_failed", "cancelled", "tick_end"}
ClientLabels == {"prepared", "validate", "accept", "close", "ended"}
PanelLabels == {"enter", "launch_result", "run_policy", "wrist", "wrist_end", "waypath"}
ExecutorLabels == {"trajectory", "command", "acted", "played", "act_failed", "recover",
                   "recovering", "parked_or_not", "recovered"}

\* The labels at which the steps outside of the procedures are taken.
LEMMA StepHeads ==
    /\ QueueStep => Idle(Queue) \/ \E l \in QueueLabels : At(Queue, l)
    /\ ClientStep => Idle(Client) \/ \E l \in ClientLabels : At(Client, l)
    /\ WaypathEnd => At(Waypath, "waypath_end")
    /\ WaypathHeld => At(Waypath, "waypath_held")
    /\ \A p : PanelStep(p) => Idle(p) \/ \E l \in PanelLabels : At(p, l)
    /\ \A w : WatchStep(w) => \E l \in {"watch", "expired"} : At(w, l)
    /\ \A e : ExecutorStep(e) => \E l \in ExecutorLabels : At(e, l)
<1>1. QueueStep => Idle(Queue) \/ \E l \in QueueLabels : At(Queue, l)
  BY DEF QueueStep, TickFault, HandoffEnds, RestedLate, TickStart, Claim, Seek, SeekHome, SceneHome,
         Grant, RestedEarly, StartFailed, StartCancelled, TickEnd, Ticks, QueueLabels
<1>2. ClientStep => Idle(Client) \/ \E l \in ClientLabels : At(Client, l)
  BY DEF ClientStep, Prepare, Prepared, Receive, Validate, Accept, StopSession, CloseFaulted, Ended,
         Connects, Disconnects, TransportPauses, ClientLabels
<1>3. ASSUME NEW p, PanelStep(p) PROVE Idle(p) \/ \E l \in PanelLabels : At(p, l)
  BY <1>3 DEF PanelStep, PressStop, PressOn, PressMove, Pressed, Enter, LaunchResult, RunPolicy,
              WristTest, WristEnd, StartWaypath, PanelLabels
<1>4. ASSUME NEW w, WatchStep(w) PROVE \E l \in {"watch", "expired"} : At(w, l)
  BY <1>4 DEF WatchStep, WatchEnds, Expire, Expired
<1>5. ASSUME NEW e, ExecutorStep(e) PROVE \E l \in ExecutorLabels : At(e, l)
  BY <1>5 DEF ExecutorStep, Execute, Acted, Replan, TrajectoryFailed, CommandFailed, Recover,
              Recovering, ParkedOrNot, Recovered, ExecutorLabels
<1>6. QED
  BY <1>1, <1>2, <1>3, <1>4, <1>5 DEF WaypathEnd, WaypathHeld

\* The procedure of a thread, by where it is.
LEMMA ProcedureAt ==
    ASSUME NEW t, Procedure(t)
    PROVE  \/ At(t, "move") /\ (MoveRefused(t) \/ MoveBegin(t))
           \/ At(t, "moving") /\ (MoveEnd(t) \/ MoveInterrupted(t) \/ MoveFailed(t))
           \/ (At(t, "pause") \/ At(t, "pause_clear")) /\ PauseQueue(t)
           \/ At(t, "pause_handoff") /\ PauseHandoff(t)
           \/ At(t, "fault") /\ Fault(t)
           \/ At(t, "hold") /\ Hold(t)
           \/ At(t, "holding") /\ HoldRequest(t)
           \/ At(t, "hold_wait") /\ HoldDone(t)
           \/ At(t, "held") /\ HoldEnd(t)
           \/ At(t, "stop") /\ Stop(t)
           \/ At(t, "torque_off") /\ TorqueOff(t)
           \/ At(t, "stopping") /\ StopRequest(t)
           \/ At(t, "release") /\ Release(t)
           \/ At(t, "releasing") /\ Released(t)
           \/ At(t, "stopped") /\ StopEnd(t)
           \/ At(t, "launch") /\ Launch(t)
           \/ At(t, "launching") /\ LaunchBegin(t)
           \/ At(t, "initializing") /\ LaunchEnd(t)
           \/ At(t, "launched") /\ Launched(t)
           \/ At(t, "home") /\ Home(t)
           \/ At(t, "homing") /\ Homing(t)
           \/ At(t, "homed") /\ Homed(t)
           \/ At(t, "hold_measured") /\ HoldMeasured(t)
           \/ At(t, "remeasured") /\ Remeasured(t)
           \/ At(t, "park") /\ Park(t)
           \/ At(t, "parking") /\ Parking(t)
           \/ At(t, "at_zero") /\ AtZero(t)
           \/ At(t, "receipt") /\ Receipt(t)
<1>1. /\ (MoveRefused(t) \/ MoveBegin(t)) => At(t, "move")
      /\ (MoveEnd(t) \/ MoveInterrupted(t) \/ MoveFailed(t)) => At(t, "moving")
  BY DEF MoveRefused, MoveBegin, MoveEnd, MoveInterrupted, MoveFailed
<1>2. /\ PauseQueue(t) => At(t, "pause") \/ At(t, "pause_clear")
      /\ PauseHandoff(t) => At(t, "pause_handoff") /\ (Fault(t) => At(t, "fault"))
      /\ Hold(t) => At(t, "hold")
      /\ HoldRequest(t) => At(t, "holding")
      /\ HoldDone(t) => At(t, "hold_wait")
      /\ HoldEnd(t) => At(t, "held")
      /\ Fault(t) => At(t, "fault")
  BY DEF PauseQueue, PauseHandoff, Fault, Hold, HoldRequest, HoldDone, HoldEnd
<1>3. /\ Stop(t) => At(t, "stop")
      /\ TorqueOff(t) => At(t, "torque_off")
      /\ StopRequest(t) => At(t, "stopping")
      /\ Release(t) => At(t, "release")
      /\ Released(t) => At(t, "releasing")
      /\ StopEnd(t) => At(t, "stopped")
  BY DEF Stop, TorqueOff, StopRequest, Release, Released, StopEnd
<1>4. /\ Launch(t) => At(t, "launch")
      /\ LaunchBegin(t) => At(t, "launching")
      /\ LaunchEnd(t) => At(t, "initializing")
      /\ Launched(t) => At(t, "launched")
      /\ Home(t) => At(t, "home")
      /\ Homing(t) => At(t, "homing")
      /\ Homed(t) => At(t, "homed")
      /\ HoldMeasured(t) => At(t, "hold_measured")
      /\ Remeasured(t) => At(t, "remeasured")
      /\ Park(t) => At(t, "park")
      /\ Parking(t) => At(t, "parking")
      /\ AtZero(t) => At(t, "at_zero")
      /\ Receipt(t) => At(t, "receipt")
  BY DEF Launch, LaunchBegin, LaunchEnd, Launched, Home, Homing, Homed, HoldMeasured, Remeasured,
         Park, Parking, AtZero, Receipt
<1>5. QED
  BY <1>1, <1>2, <1>3, <1>4 DEF Procedure

\* Nobody else's stack changes.
Only(t) == \A x \in Threads : x # t => stack'[x] = stack[x]

LEMMA OnlyIn ==
    ASSUME TypeOK, NEW t, NEW s, stack' = [stack EXCEPT ![t] = s]
    PROVE  Only(t)
BY DEF TypeOK, Only

LEMMA MovesOnly ==
    ASSUME TypeOK, NEW t, \/ \E ls : Jump(t, ls) \/ Go(t, ls) \/ Start(t, ls)
                          \/ \E r : Return(t, r)
                          \/ Finish(t) \/ UNCHANGED stack
    PROVE  Only(t)
<1>1. ASSUME NEW ls, Jump(t, ls) \/ Go(t, ls) PROVE Only(t)
  BY <1>1 DEF Jump, Go, TypeOK, Only
<1>2. ASSUME NEW ls, Start(t, ls) PROVE Only(t)
  BY <1>2 DEF Start, TypeOK, Only
<1>3. ASSUME NEW r, Return(t, r) PROVE Only(t)
  BY <1>3 DEF Return, TypeOK, Only
<1>4. CASE UNCHANGED stack
  BY <1>4 DEF Only
<1>5. QED
  BY <1>1, <1>2, <1>3, <1>4 DEF Finish

\* Only three steps change the stacks of two threads.
LEMMA StepOnly ==
    ASSUME TypeOK, Outcomes, NEW t \in Threads, Step(t)
    PROVE  \/ Only(t)
           \/ t = Client /\ (Prepared \/ Accept)
           \/ t \in Panel /\ StartWaypath(t)
<1>1. CASE Procedure(t)
  BY <1>1, ProcedureGo, OnlyIn DEF Goes
<1>2. CASE t = Queue /\ QueueStep
  <2>1. TickFault \/ HandoffEnds \/ TickStart => Only(t)
    BY <1>2, MovesOnly DEF TickFault, HandoffEnds, TickStart
  <2>2. RestedLate \/ TickEnd => Only(t)
    BY <1>2, MovesOnly DEF RestedLate, TickEnd
  <2>3. Claim \/ RestedEarly \/ StartFailed \/ StartCancelled => Only(t)
    BY <1>2, MovesOnly DEF Claim, RestedEarly, StartFailed, StartCancelled
  <2>4. ASSUME NEW nexts, Checked(nexts) PROVE Only(t)
    BY <1>2, <2>4, MovesOnly DEF Checked
  <2>5. Seek \/ SeekHome \/ SceneHome \/ Grant => Only(t)
    BY <2>4 DEF Seek, SeekHome, SceneHome, Grant
  <2>6. QED
    BY <1>2, <2>1, <2>2, <2>3, <2>5 DEF QueueStep
<1>3. CASE t = Client /\ ClientStep
  <2>1. Prepare \/ Receive \/ StopSession => Only(t)
    BY <1>3, MovesOnly DEF Prepare, Receive, StopSession
  <2>2. Validate \/ CloseFaulted \/ Ended => Only(t)
    BY <1>3, MovesOnly DEF Validate, CloseFaulted, Ended
  <2>3. Connects \/ Disconnects \/ TransportPauses => Only(t)
    BY <1>3, MovesOnly DEF Connects, Disconnects, TransportPauses
  <2>4. QED
    BY <1>3, <2>1, <2>2, <2>3 DEF ClientStep
<1>4. CASE t = Waypath /\ (WaypathEnd \/ WaypathHeld)
  BY <1>4, MovesOnly DEF WaypathEnd, WaypathHeld
<1>5. CASE t \in Panel /\ PanelStep(t)
  <2>1. PressStop(t) \/ PressOn(t) \/ PressMove(t) => Only(t)
    BY MovesOnly DEF PressStop, PressOn, PressMove
  <2>2. Enter(t) => Only(t)
    BY OnlyIn DEF Enter
  <2>3. LaunchResult(t) \/ RunPolicy(t) \/ WristTest(t) \/ WristEnd(t) => Only(t)
    BY MovesOnly DEF LaunchResult, RunPolicy, WristTest, WristEnd
  <2>4. QED
    BY <1>5, <2>1, <2>2, <2>3 DEF PanelStep
<1>6. CASE t \in Watchdogs /\ ~Idle(t) /\ WatchStep(t)
  BY <1>6, MovesOnly DEF WatchStep, WatchEnds, Expire, Expired
<1>7. CASE t \in Executors /\ ~Idle(t) /\ ExecutorStep(t)
  <2>1. Execute(t) \/ Acted(t) \/ Replan(t) => Only(t)
    BY MovesOnly DEF Execute, Acted, Replan
  <2>2. TrajectoryFailed(t) \/ CommandFailed(t) \/ Recover(t) => Only(t)
    BY MovesOnly DEF TrajectoryFailed, CommandFailed, Recover
  <2>3. Recovering(t) \/ ParkedOrNot(t) \/ Recovered(t) => Only(t)
    BY MovesOnly DEF Recovering, ParkedOrNot, Recovered
  <2>4. QED
    BY <1>7, <2>1, <2>2, <2>3 DEF ExecutorStep
<1>8. QED
  BY <1>1, <1>2, <1>3, <1>4, <1>5, <1>6, <1>7 DEF Step

\* The three leave their own thread idle, and begin another.
LEMMA Handovers ==
    ASSUME TypeOK, Granting
    PROVE  /\ Prepared => \A x \in Threads : stack'[x] # stack[x] =>
                 x = Client \/ (x = op.offer /\ x \in Watchdogs /\ Idle(x))
           /\ Accept => \A x \in Threads : stack'[x] # stack[x] =>
                 x = Client \/ (x \in Executors /\ Idle(x))
           /\ \A p \in Panel : StartWaypath(p) => \A x \in Threads : stack'[x] # stack[x] =>
                 x = p \/ (x = Waypath /\ Idle(x))
<1>1. ASSUME Prepared, NEW x \in Threads, stack'[x] # stack[x], x # Client
      PROVE  x = op.offer /\ x \in Watchdogs /\ Idle(x)
  BY <1>1 DEF Prepared, Granting, TypeOK
<1>2. ASSUME Accept, NEW x \in Threads, stack'[x] # stack[x], x # Client
      PROVE  x \in Executors /\ Idle(x)
  BY <1>2 DEF Accept, TypeOK, Finish, Return
<1>3. ASSUME NEW p \in Panel, StartWaypath(p), NEW x \in Threads, stack'[x] # stack[x], x # p
      PROVE  x = Waypath /\ Idle(x)
  BY <1>3 DEF StartWaypath, TypeOK
<1>4. QED
  BY <1>1, <1>2, <1>3

\* Who goes on takes the step; who begins takes it, or is begun by it.
LEMMA WhoGoesOn ==
    ASSUME TypeOK, Outcomes, Granting, Next, ~Crash, NEW x \in Threads, stack'[x] # stack[x]
    PROVE  /\ ~Idle(x) => Step(x)
           /\ x \in Executors /\ Idle(x) => Accept
<1>1. CASE Environment
  <2>1. PollFindsFault
    BY <1>1 DEF Environment, ServoFault, LinkLost
  <2>2. stack' = [stack EXCEPT ![Poller] = <<"pause_clear", "fault">>] /\ Idle(Poller)
    BY <2>1 DEF PollFindsFault, Start
  <2>3. x = Poller /\ Idle(x)
    BY <2>2 DEF TypeOK
  <2>4. QED
    BY <2>3, ThreadsDistinct
<1>2. ASSUME NEW t \in Threads, Step(t) PROVE (~Idle(x) => Step(x)) /\ (x \in Executors /\ Idle(x) => Accept)
  <2>1. CASE t = x
    <3>1. x \in Executors => ~Idle(x)
      BY <1>2, <2>1, ThreadsDistinct DEF Step, Procedure
    <3>2. QED
      BY <1>2, <2>1, <3>1
  <2>2. CASE t # x
    <3>1. ~Only(t)
      BY <2>2 DEF Only
    <3>2. CASE t = Client /\ (Prepared \/ Accept)
      BY <2>2, <3>2, Handovers, ThreadsDistinct
    <3>3. CASE t \in Panel /\ StartWaypath(t)
      BY <2>2, <3>3, Handovers, ThreadsDistinct
    <3>4. QED
      BY <1>2, <3>1, <3>2, <3>3, StepOnly
  <2>3. QED
    BY <2>1, <2>2
<1>3. QED
  BY <1>1, <1>2 DEF Next

\* The step of a thread that goes on, by where it is.
LEMMA GoesOnAt ==
    ASSUME TypeOK, Outcomes, Granting, Next, ~Crash, NEW x \in Threads, stack'[x] # stack[x]
    PROVE  /\ At(x, "move") => MoveRefused(x) \/ MoveBegin(x)
           /\ At(x, "moving") => MoveEnd(x) \/ MoveInterrupted(x) \/ MoveFailed(x)
           /\ At(x, "hold") => Hold(x)
           /\ At(x, "release") => Release(x)
           /\ At(x, "releasing") => Released(x)
           /\ At(x, "launching") => LaunchBegin(x)
           /\ At(x, "initializing") => LaunchEnd(x)
           /\ At(x, "launched") => Launched(x)
           /\ At(x, "homing") => Homing(x)
           /\ At(x, "parking") => Parking(x)
           /\ At(x, "wrist") => WristTest(x)
           /\ At(x, "enter") => Enter(x)
           /\ At(x, "at_home") => SeekHome
           /\ At(x, "validate") => Validate
           /\ At(x, "accept") => Accept
           /\ At(x, "prepared") => Prepared
           /\ At(x, "waypath_end") => WaypathEnd
           /\ At(x, "waypath_held") => WaypathHeld
           /\ At(x, "trajectory") \/ At(x, "command") => Execute(x)
           /\ At(x, "recover") => Recover(x)
           /\ At(x, "recovered") => Recovered(x)
<1> SUFFICES ASSUME ~Idle(x)
             PROVE  /\ At(x, "move") => MoveRefused(x) \/ MoveBegin(x)
                    /\ At(x, "moving") => MoveEnd(x) \/ MoveInterrupted(x) \/ MoveFailed(x)
                    /\ At(x, "hold") => Hold(x)
                    /\ At(x, "release") => Release(x)
                    /\ At(x, "releasing") => Released(x)
                    /\ At(x, "launching") => LaunchBegin(x)
                    /\ At(x, "initializing") => LaunchEnd(x)
                    /\ At(x, "launched") => Launched(x)
                    /\ At(x, "homing") => Homing(x)
                    /\ At(x, "parking") => Parking(x)
                    /\ At(x, "wrist") => WristTest(x)
                    /\ At(x, "enter") => Enter(x)
                    /\ At(x, "at_home") => SeekHome
                    /\ At(x, "validate") => Validate
                    /\ At(x, "accept") => Accept
                    /\ At(x, "prepared") => Prepared
                    /\ At(x, "waypath_end") => WaypathEnd
                    /\ At(x, "waypath_held") => WaypathHeld
                    /\ At(x, "trajectory") \/ At(x, "command") => Execute(x)
                    /\ At(x, "recover") => Recover(x)
                    /\ At(x, "recovered") => Recovered(x)
  BY DEF At, Idle
<1>1. Step(x)
  BY WhoGoesOn
<1>2. CASE Procedure(x)
  BY <1>2, ProcedureAt DEF At
<1>3. CASE x = Queue /\ QueueStep
  <2>1. \E l \in QueueLabels : At(x, l)
    BY <1>3, StepHeads
  <2>2. At(x, "at_home") => SeekHome
    BY <1>3
    DEF QueueStep, TickFault, HandoffEnds, RestedLate, TickStart, Claim, Seek, SeekHome, SceneHome,
        Grant, RestedEarly, StartFailed, StartCancelled, TickEnd, Ticks, At, Idle
  <2>3. QED
    BY <2>1, <2>2 DEF At, QueueLabels
<1>4. CASE x = Client /\ ClientStep
  <2>1. \E l \in ClientLabels : At(x, l)
    BY <1>4, StepHeads
  <2>2. /\ At(x, "validate") => Validate
        /\ At(x, "accept") => Accept
        /\ At(x, "prepared") => Prepared
    BY <1>4
    DEF ClientStep, Prepare, Prepared, Receive, Validate, Accept, StopSession, CloseFaulted, Ended,
        Connects, Disconnects, TransportPauses, At, Idle
  <2>3. QED
    BY <2>1, <2>2 DEF At, ClientLabels
<1>5. CASE x = Waypath /\ (WaypathEnd \/ WaypathHeld)
  BY <1>5, StepHeads DEF At
<1>6. CASE x \in Panel /\ PanelStep(x)
  <2>1. \E l \in PanelLabels : At(x, l)
    BY <1>6, StepHeads
  <2>2. (At(x, "wrist") => WristTest(x)) /\ (At(x, "enter") => Enter(x))
    BY <1>6 DEF PanelStep, PressStop, PressOn, PressMove, Pressed, Enter, LaunchResult, RunPolicy,
                WristTest, WristEnd, StartWaypath, At, Idle
  <2>3. QED
    BY <2>1, <2>2 DEF At, PanelLabels
<1>7. CASE x \in Watchdogs /\ WatchStep(x)
  BY <1>7, StepHeads DEF At
<1>8. CASE x \in Executors /\ ExecutorStep(x)
  <2>1. \E l \in ExecutorLabels : At(x, l)
    BY <1>8, StepHeads
  <2>2. (At(x, "trajectory") \/ At(x, "command") => Execute(x)) /\ (At(x, "recover") => Recover(x))
        /\ (At(x, "recovered") => Recovered(x))
    BY <1>8 DEF ExecutorStep, Execute, Acted, Replan, TrajectoryFailed, CommandFailed, Recover,
                Recovering, ParkedOrNot, Recovered, At
  <2>3. QED
    BY <2>1, <2>2 DEF At, ExecutorLabels
<1>9. QED
  BY <1>1, <1>2, <1>3, <1>4, <1>5, <1>6, <1>7, <1>8 DEF Step

----------------------------------------------------------------------------
(* What a step does to the arms.                                           *)

\* The turns that the arms can take, with the thread that makes them.
Begun(t)    == /\ MoveBegin(t) /\ arm.state = "STOPPED"
               /\ arm'.state = "EXECUTING" /\ arm'.pose = "away"
Halted(t)   == /\ At(t, "moving") /\ (\E r : Return(t, r))
               /\ arm.state = "EXECUTING" /\ arm'.state = "STOPPED"
Enabling(t) == /\ LaunchBegin(t) /\ (arm.state = "DISABLED" \/ (arm.state = "FAULT" /\ arm.link))
               /\ arm'.state = "INITIALIZING" /\ arm'.pose = "away"
Enabled(t)  == /\ At(t, "initializing") /\ Go(t, <<"launched">>) /\ Prompt(t)
               /\ arm.state = "INITIALIZING" /\ arm'.state = "STOPPED"
Frees(t)    == /\ At(t, "release") /\ Go(t, <<"releasing">>) /\ arm.link
               /\ arm.state \notin {"STOPPING", "INITIALIZING"} /\ arm'.state = "STOPPING"
Freed(t)    == /\ At(t, "releasing") /\ (\E r : Return(t, r))
               /\ arm.state = "STOPPING" /\ arm'.state \in {"DISABLED", "FAULT"}
Turned ==
    \/ arm'.state = arm.state /\ arm'.pose = arm.pose /\ arm'.link = arm.link
    \/ /\ arm'.link = arm.link
       /\ \/ \E t \in Threads : \/ Begun(t) \/ Halted(t) \/ Enabling(t) \/ Enabled(t)
                               \/ Frees(t) \/ Freed(t)
          \/ arm.state # "STOPPING" /\ arm'.state = "FAULT"
          \/ arm.state = "INITIALIZING" /\ arm'.state = "DISABLED"
    \/ arm'.state = "FAULT" /\ ~arm'.link
    \/ Crash /\ arm'.state = "DISABLED" /\ arm'.link

LEMMA ArmActs ==
    ASSUME Next
    PROVE  \/ UNCHANGED arm
           \/ \E t \in Threads :
                 \/ MoveBegin(t) \/ MoveEnd(t) \/ MoveInterrupted(t) \/ MoveFailed(t)
                 \/ HoldRequest(t) \/ HoldDone(t) \/ StopRequest(t) \/ Release(t) \/ Released(t)
                 \/ LaunchBegin(t) \/ LaunchEnd(t)
           \/ ServoFault \/ LinkLost \/ Crash
<1>1. CASE Environment
  BY <1>1 DEF Environment, PollFindsFault
<1>2. ASSUME NEW t \in Threads, Step(t)
      PROVE  \/ UNCHANGED arm
             \/ MoveBegin(t) \/ MoveEnd(t) \/ MoveInterrupted(t) \/ MoveFailed(t)
             \/ HoldRequest(t) \/ HoldDone(t) \/ StopRequest(t) \/ Release(t) \/ Released(t)
             \/ LaunchBegin(t) \/ LaunchEnd(t)
  BY <1>2, ProcedureKeeps, OthersKeep DEF Step
<1>3. QED
  BY <1>1, <1>2 DEF Next

LEMMA NextTurned ==
    ASSUME TypeOK, Next
    PROVE  Turned
<1>1. arm \in Arms
  BY Types
<1>2. CASE UNCHANGED arm
  BY <1>2 DEF Turned
<1>3. ASSUME NEW t \in Threads, MoveBegin(t) PROVE Turned
  <2>1. Begun(t) /\ arm'.link = arm.link
    BY <1>1, <1>3 DEF MoveBegin, Begun, Arms
  <2>2. QED
    BY <2>1 DEF Turned
<1>4. ASSUME NEW t \in Threads, MoveEnd(t) PROVE Turned
  <2>1. PICK r \in {"reached", "missed", "rejected"}, pose \in {"zero", "home", "away"} :
            /\ arm' = [arm EXCEPT !.state = "STOPPED", !.pose = pose] /\ Return(t, r)
    BY <1>4 DEF MoveEnd, Goal
  <2>2. At(t, "moving") /\ arm.state = "EXECUTING"
    BY <1>4 DEF MoveEnd, MayAdvance
  <2>3. Halted(t) /\ arm'.link = arm.link
    BY <1>1, <2>1, <2>2 DEF Halted, Arms
  <2>4. QED
    BY <2>3 DEF Turned
<1>5. ASSUME NEW t \in Threads, MoveInterrupted(t) PROVE Turned
  <2>1. /\ At(t, "moving") /\ \E r : Return(t, r)
        /\ arm' = [arm EXCEPT !.state = IF @ = "EXECUTING" THEN "STOPPED" ELSE @]
    BY <1>5 DEF MoveInterrupted
  <2>2. CASE arm.state = "EXECUTING"
    <3>1. Halted(t) /\ arm'.link = arm.link
      BY <1>1, <2>1, <2>2 DEF Halted, Arms
    <3>2. QED
      BY <3>1 DEF Turned
  <2>3. CASE arm.state # "EXECUTING"
    BY <1>1, <2>1, <2>3 DEF Turned, Arms
  <2>4. QED
    BY <2>2, <2>3
<1>6. ASSUME NEW t \in Threads, MoveFailed(t) PROVE Turned
  BY <1>1, <1>6 DEF MoveFailed, Turned, Arms
<1>7. ASSUME NEW t \in Threads, HoldRequest(t) \/ StopRequest(t) PROVE Turned
  BY <1>1, <1>7 DEF HoldRequest, StopRequest, Turned, Arms
<1>8. ASSUME NEW t \in Threads, HoldDone(t) PROVE Turned
  BY <1>1, <1>2, <1>8 DEF HoldDone, Held, Turned, Arms
<1>9. ASSUME NEW t \in Threads, Release(t) PROVE Turned
  <2>1. UNCHANGED arm \/ (Frees(t) /\ arm'.link = arm.link)
    BY <1>1, <1>9 DEF Release, Frees, Arms
  <2>2. QED
    BY <1>2, <2>1 DEF Turned
<1>10. ASSUME NEW t \in Threads, Released(t) PROVE Turned
  <2>1. UNCHANGED arm \/ (Freed(t) /\ arm'.link = arm.link)
    BY <1>1, <1>10 DEF Released, Freed, Arms
  <2>2. QED
    BY <1>2, <2>1 DEF Turned
<1>11. ASSUME NEW t \in Threads, LaunchBegin(t) PROVE Turned
  <2>1. CASE ~(~Cancelled(t) /\ (arm.state = "DISABLED" \/ DriverlessFault))
    BY <1>2, <1>11, <2>1 DEF LaunchBegin
  <2>2. CASE ~Cancelled(t) /\ (arm.state = "DISABLED" \/ DriverlessFault)
    <3>1. arm' = [arm EXCEPT !.state = "INITIALIZING", !.verified = FALSE, !.halt = FALSE,
                            !.torque = TRUE, !.pose = "away"]
      BY <1>11, <2>2 DEF LaunchBegin
    <3>2. Enabling(t) /\ arm'.link = arm.link
      BY <1>1, <1>11, <2>2, <3>1 DEF DriverlessFault, Enabling, Arms
    <3>3. QED
      BY <3>2 DEF Turned
  <2>3. QED
    BY <2>1, <2>2
<1>12. ASSUME NEW t \in Threads, LaunchEnd(t) PROVE Turned
  <2>1. At(t, "initializing")
    BY <1>12 DEF LaunchEnd
  <2>2. CASE /\ arm.state = "INITIALIZING" /\ Prompt(t) /\ Go(t, <<"launched">>)
             /\ arm' = [arm EXCEPT !.state = "STOPPED"]
    <3>1. Enabled(t) /\ arm'.link = arm.link
      BY <1>1, <2>1, <2>2 DEF Enabled, Arms
    <3>2. QED
      BY <3>1 DEF Turned
  <2>3. CASE /\ arm.state = "INITIALIZING"
             /\ arm' = [arm EXCEPT !.state = "FAULT", !.torque = FALSE, !.verified = TRUE]
    BY <1>1, <2>3 DEF Turned, Arms
  <2>4. CASE /\ arm.state = "INITIALIZING"
             /\ \E s \in {"FAULT", "DISABLED"}, off \in BOOLEAN :
                   arm' = [arm EXCEPT !.state = s, !.torque = ~off, !.verified = off]
    BY <1>1, <2>4 DEF Turned, Arms
  <2>5. CASE arm.state # "INITIALIZING"
    BY <1>2, <1>12, <2>5 DEF LaunchEnd
  <2>6. arm.state = "INITIALIZING" =>
           \/ Prompt(t) /\ Go(t, <<"launched">>) /\ arm' = [arm EXCEPT !.state = "STOPPED"]
           \/ arm' = [arm EXCEPT !.state = "FAULT", !.torque = FALSE, !.verified = TRUE]
           \/ \E s \in {"FAULT", "DISABLED"}, off \in BOOLEAN :
                 arm' = [arm EXCEPT !.state = s, !.torque = ~off, !.verified = off]
    BY <1>12 DEF LaunchEnd
  <2>7. QED
    BY <2>2, <2>3, <2>4, <2>5, <2>6
<1>13. CASE ServoFault \/ LinkLost
  BY <1>1, <1>13 DEF ServoFault, LinkLost, Turned, Arms
<1>14. CASE Crash
  BY <1>14 DEF Crash, FreshArm, Turned
<1>15. QED
  BY <1>2, <1>3, <1>4, <1>5, <1>6, <1>7, <1>8, <1>9, <1>10, <1>11, <1>12, <1>13, <1>14, ArmActs

LEMMA NextPoised ==
    ASSUME Poised, Turned, arm' \in Arms
    PROVE  Poised'
<1>1. arm'.state \in {"EXECUTING", "INITIALIZING"} => arm'.pose = "away"
  BY DEF Poised, Turned, Begun, Halted, Enabling, Enabled, Frees, Freed
<1>2. ~arm'.link => arm'.state = "FAULT"
  BY DEF Poised, Turned, Begun, Halted, Enabling, Enabled, Frees, Freed
<1>3. QED
  BY <1>1, <1>2 DEF Poised

\* Held arms are held by a launch that ends.
LEMMA HeldCame ==
    ASSUME TypeOK, Turned, arm'.state \in Held
    PROVE  arm.state \in Held \/ \E t \in Threads : Enabled(t)
<1>1. CASE \E t \in Threads : Begun(t) \/ Halted(t)
  BY <1>1 DEF Begun, Halted, Held
<1>2. CASE ~\E t \in Threads : Begun(t) \/ Halted(t)
  BY <1>2 DEF Turned, Enabling, Frees, Freed, Held
<1>3. QED
  BY <1>1, <1>2

----------------------------------------------------------------------------
(* One motion, one release, one waypath.                                   *)

\* What is known of a step that is not a crash.
Stepping == YamInv /\ YamInv' /\ MotionInv /\ Next /\ ~Crash /\ AllMoved /\ Turned

LEMMA Steps ==
    ASSUME Stepping
    PROVE  /\ TypeOK /\ Ordered /\ Kinds /\ Outcomes /\ Mutex /\ LeaseIsFree /\ Granting
           /\ TypeOK' /\ Ordered' /\ Kinds' /\ Outcomes' /\ Mutex' /\ LeaseIsFree' /\ Granting'
           /\ Next /\ ~Crash /\ AllMoved /\ Turned
           /\ Poised /\ OneMotion /\ OneRelease /\ WaypathAlone /\ OfferedAtHome /\ OfferedUnmoved
           /\ LivePends /\ LiveUnheld /\ LiveLeased /\ ReceivedAlone /\ ReceivedUnheld /\ OneWorker
           /\ GrantsFree /\ MovesAnnounced /\ LockRecovers /\ EntersFirst
BY DEF Stepping, YamInv, MotionInv

\* How thread x has come to l.
LEMMA Came ==
    ASSUME Stepping, NEW x \in Threads, NEW l, At(x, l)'
    PROVE  \/ stack'[x] = stack[x] /\ At(x, l)
           \/ /\ ~Idle(x)
              /\ \E ls \in Seq(Labels) :
                    /\ Leads(Head(stack[x]), ls) /\ Duly(x, Head(stack[x]), ls)
                    /\ stack'[x] = ls \o Tail(stack[x]) /\ ls # <<>> /\ Head(ls) = l
           \/ /\ ~Idle(x) /\ Len(stack[x]) > 1 /\ stack[x][2] = l /\ Above(Head(stack[x]), l)
              /\ Leads(Head(stack[x]), <<>>) /\ (Head(stack[x]) \in Moves => l \in MoveEnds)
              /\ Head(stack[x]) \in Waiting => l \in {"held", "waypath_held"}
              /\ stack'[x] = Tail(stack[x])
           \/ /\ Idle(x)
              /\ \E ls \in Seq(Labels) :
                    Begins(x, ls) /\ Called(x, ls) /\ stack'[x] = ls /\ Head(ls) = l
           \/ Enters(x, stack'[x]) /\ l \in MoveOrders
<1>1. /\ stack[x] \in Seq(Labels) /\ stack'[x] \in Seq(Labels) /\ Moved(x) /\ stack'[x] # <<>>
      /\ Head(stack'[x]) = l /\ TypeOK /\ Ordered
  BY Steps DEF TypeOK, AllMoved, At
<1>2. CASE stack'[x] = stack[x]
  BY <1>1, <1>2 DEF At
<1>3. CASE ~Idle(x) /\ \E ls \in Seq(Labels) :
                /\ Leads(Head(stack[x]), ls) /\ Duly(x, Head(stack[x]), ls)
                /\ stack'[x] = ls \o Tail(stack[x])
  <2>1. PICK ls \in Seq(Labels) : /\ Leads(Head(stack[x]), ls) /\ Duly(x, Head(stack[x]), ls)
                                 /\ stack'[x] = ls \o Tail(stack[x])
    BY <1>3
  <2>2. \/ ls # <<>> /\ Head(stack'[x]) = Head(ls)
        \/ /\ ls = <<>> /\ Len(stack[x]) > 1 /\ Head(stack'[x]) = stack[x][2]
           /\ Above(Head(stack[x]), stack[x][2])
           /\ Head(stack[x]) \in Moves => stack[x][2] \in MoveEnds
           /\ Head(stack[x]) \in Waiting => stack[x][2] \in {"held", "waypath_held"}
    BY <1>1, <1>3, <2>1, MovedAt
  <2>3. <<>> \o Tail(stack[x]) = Tail(stack[x])
    BY <1>1, <1>3, Push, EmptySeq DEF Idle
  <2>4. CASE ls # <<>>
    BY <1>1, <1>3, <2>1, <2>2, <2>4
  <2>5. CASE ls = <<>>
    BY <1>1, <1>3, <2>1, <2>2, <2>3, <2>5
  <2>6. QED
    BY <2>4, <2>5
<1>4. CASE Idle(x) /\ \E ls \in Seq(Labels) : Begins(x, ls) /\ Called(x, ls) /\ stack'[x] = ls
  BY <1>1, <1>4
<1>5. CASE Enters(x, stack'[x])
  BY <1>1, <1>5 DEF Enters, MoveOrders
<1>6. QED
  BY <1>1, <1>2, <1>3, <1>4, <1>5 DEF Moved

\* Who returns, leaves where it was.
LEMMA Pops ==
    ASSUME TypeOK, NEW t \in Threads, ~Idle(t), NEW r, Return(t, r)
    PROVE  /\ stack'[t] # stack[t] /\ stack'[t] = Tail(stack[t])
           /\ \A a \in Labels : stack'[t] # <<a>> \o Tail(stack[t])
<1>1. stack[t] \in Seq(Labels) /\ stack[t] # <<>> /\ stack'[t] = Tail(stack[t])
  BY DEF TypeOK, Idle, Return
<1>2. Len(stack[t]) \in Nat \ {0} /\ Len(Tail(stack[t])) = Len(stack[t]) - 1
  BY <1>1, HeadTailProperties, Push, EmptySeq
<1>3. ASSUME NEW a \in Labels PROVE stack'[t] # <<a>> \o Tail(stack[t])
  <2>1. <<a>> \in Seq(Labels) /\ Len(<<a>>) = 1
    OBVIOUS
  <2>2. Len(<<a>> \o Tail(stack[t])) = Len(stack[t])
    BY <1>1, <1>2, <2>1, Push
  <2>3. QED
    BY <1>1, <1>2, <2>2
<1>4. ASSUME stack'[t] = stack[t] PROVE FALSE
  <2>1. Tail(stack[t]) = stack[t]
    BY <1>1, <1>4
  <2>2. Len(stack[t]) = Len(stack[t]) - 1
    BY <1>2, <2>1
  <2>3. QED
    BY <1>2, <2>2
<1>5. QED
  BY <1>1, <1>3, <1>4

LEMMA CameMoving ==
    ASSUME Stepping, NEW x \in Threads, At(x, "moving")'
    PROVE  (stack'[x] = stack[x] /\ At(x, "moving")) \/ (MoveBegin(x) /\ Only(x))
<1>1. CASE ~Idle(x) /\ \E ls \in Seq(Labels) :
                /\ Leads(Head(stack[x]), ls) /\ stack'[x] = ls \o Tail(stack[x])
                /\ ls # <<>> /\ Head(ls) = "moving"
  <2>1. PICK ls \in Seq(Labels) : /\ Leads(Head(stack[x]), ls) /\ stack'[x] = ls \o Tail(stack[x])
                                 /\ ls # <<>> /\ Head(ls) = "moving"
    BY <1>1
  <2>2. At(x, "move") /\ ls = <<"moving">> /\ "moving" \in Labels
    BY <1>1, <2>1 DEF Leads, At, Idle, Labels, Moves
  <2>3. stack'[x] # stack[x]
    BY <2>2 DEF At
  <2>4. MoveRefused(x) \/ MoveBegin(x)
    BY <2>2, <2>3, Steps, GoesOnAt
  <2>5. ~MoveRefused(x)
    BY <1>1, <2>1, <2>2, Steps, Pops DEF MoveRefused
  <2>6. Only(x)
    BY <2>4, <2>5, Steps, MovesOnly DEF MoveBegin
  <2>7. QED
    BY <2>4, <2>5, <2>6
<1>2. ~Above(Head(stack[x]), "moving")
  BY DEF Above, MoveEnds, MoveOrders
<1>3. \A ls : Begins(x, ls) => Head(ls) # "moving"
  BY DEF Begins, MoveOrders
<1>4. "moving" \notin MoveOrders
  BY DEF MoveOrders
<1>5. QED
  BY <1>1, <1>2, <1>3, <1>4, Came

\* When a launch ends nobody stands before a motion, and nobody is in one.
LEMMA PromptLaunch ==
    ASSUME Stepping, NEW t \in Threads, Enabled(t), NEW x \in Threads, ~Idle(x), x # t
    PROVE  \E l \in {"enter", "watch", "expired", "validate", "recover", "initializing",
                     "releasing", "hold_wait", "release"} : At(x, l)
BY DEF Enabled, Prompt, Waits, Moving

LEMMA NextOneMotion ==
    ASSUME Stepping
    PROVE  OneMotion'
<1>1. ASSUME arm'.state = "STOPPED", NEW x \in Threads, At(x, "moving")' PROVE FALSE
  <2>1. ~MoveBegin(x)
    <3>1. MoveBegin(x) => arm'.state = "EXECUTING"
      BY Steps, Types DEF MoveBegin, Arms
    <3>2. QED
      BY <1>1, <3>1
  <2>2. stack'[x] = stack[x] /\ At(x, "moving") /\ ~Idle(x)
    BY <1>1, <2>1, CameMoving DEF At, Idle
  <2>3. arm.state # "STOPPED"
    BY <2>2, Steps DEF OneMotion
  <2>4. ASSUME NEW t \in Threads, Halted(t) PROVE FALSE
    <3>1. t = x
      BY <2>2, <2>4, Steps DEF Halted, OneMotion
    <3>2. QED
      BY <2>2, <2>4, <3>1, Steps, Pops DEF Halted
  <2>5. ASSUME NEW t \in Threads, Enabled(t) PROVE FALSE
    <3>1. x # t
      BY <2>2, <2>5 DEF Enabled, At
    <3>2. QED
      BY <2>2, <2>5, <3>1, PromptLaunch DEF At
  <2>6. QED
    BY <1>1, <2>3, <2>4, <2>5, Steps DEF Turned, Begun, Enabling, Frees, Freed
<1>2. ASSUME arm'.state = "EXECUTING", NEW x \in Threads, NEW u \in Threads, At(x, "moving")',
             At(u, "moving")'
      PROVE  x = u
  <2>1. ASSUME NEW a \in Threads, NEW b \in Threads, MoveBegin(a), Only(a), At(b, "moving")'
        PROVE  a = b
    <3>1. a # b => stack'[b] = stack[b]
      BY <2>1 DEF Only
    <3>2. a # b => At(b, "moving")
      BY <2>1, <3>1 DEF At
    <3>3. arm.state = "STOPPED"
      BY <2>1 DEF MoveBegin
    <3>4. QED
      BY <3>2, <3>3, Steps DEF OneMotion
  <2>2. CASE At(x, "moving") /\ At(u, "moving")
    <3>1. arm.state = "EXECUTING" \/ arm.state = "STOPPED"
      BY <1>2, Steps DEF Turned, Begun, Halted, Enabling, Enabled, Frees, Freed
    <3>2. QED
      BY <2>2, <3>1, Steps DEF OneMotion
  <2>3. QED
    BY <1>2, <2>1, <2>2, CameMoving
<1>3. QED
  BY <1>1, <1>2 DEF OneMotion, At


----------------------------------------------------------------------------
(* What a step does to the run and to the offer.                           *)

\* The station is not offered by this step, and is not taken.
Modest == /\ Offered' => Offered
          /\ op'.mode \in {"API_WAITING", "API_ACTIVE"} => op'.mode = op.mode
\* The run and its action stay what they are.
Stays == op'.lease = op.lease /\ op'.pending = op.pending
Kept == Stays /\ Modest /\ op'.deadline \in {op.deadline, None} /\ op'.offer = op.offer

Offers(t) ==
    /\ (At(t, "run_policy") \/ At(t, "grant")) /\ Only(t) /\ UNCHANGED <<arm, action>>
    /\ arm.pose = "home" /\ op'.mode = "API_WAITING"
    /\ Stays /\ op'.deadline = op.deadline /\ op'.offer = op.offer
\* A hold or a release ends the run and its action.
Ends(t) ==
    /\ At(t, "held") \/ At(t, "stopped")
    /\ op'.lease = None /\ op'.pending = None /\ Modest
    /\ op'.deadline = op.deadline /\ op'.offer = op.offer
Revokes(t) ==
    /\ Hold(t) /\ arm.link
    /\ op'.lease = None /\ op'.pending = op.pending /\ Modest /\ ~op'.authorized
    /\ op'.deadline = op.deadline /\ op'.offer = op.offer
\* An executor files the result of what is pending.
Files(e) ==
    /\ e \in Executors /\ (At(e, "acted") \/ At(e, "played") \/ At(e, "act_failed"))
    /\ op'.lease = op.lease /\ op'.pending = None /\ Modest
    /\ op'.deadline = op.deadline /\ op'.offer = op.offer
\* The lease is gone, and who took it has still to hold, or has closed the run, or found
\* nothing pending.
Drops ==
    /\ op'.lease = None /\ op'.pending = op.pending /\ Modest /\ op'.offer = op.offer
    /\ At(Client, "hold")' \/ op'.deadline = None
    /\ op.pending = None \/ op'.deadline = None \/ At(Client, "hold")'
OpTurned ==
    \/ Kept \/ Drops
    \/ \E t \in Threads : Offers(t) \/ Ends(t) \/ Revokes(t) \/ Files(t)
    \/ /\ Prepare /\ op'.pending = op.pending /\ op'.mode = "API_ACTIVE"
       /\ Offered /\ physLock = None
    \/ Prepared /\ Stays /\ Modest /\ ~At(Client, "validate")' /\ ~At(Client, "accept")'
    \/ Receive /\ Stays /\ Modest /\ op'.deadline = op.deadline
    \/ Validate /\ Stays /\ Modest /\ op'.deadline = op.deadline
    \/ Accept /\ op'.lease = op.lease /\ Modest /\ op'.deadline = op.deadline

LEMMA KeptOp ==
    ASSUME op \in Ops,
           \/ UNCHANGED op
           \/ \E m \in Modes \ {"API_WAITING", "API_ACTIVE"} : op' = [op EXCEPT !.mode = m]
           \/ \E m \in Modes \ {"API_WAITING", "API_ACTIVE"}, ok \in BOOLEAN :
                 op' = [op EXCEPT !.mode = m, !.ok = ok]
           \/ op' = [op EXCEPT !.deadline = None]
           \/ \E c \in BOOLEAN : op' = [op EXCEPT !.connected = c]
           \/ \E r \in {"none", "armed", "set"} : op' = [op EXCEPT !.recovery = r]
           \/ \E l \in BOOLEAN, ok \in BOOLEAN :
                 op' = [op EXCEPT !.mode = "STOPPED", !.launched = l, !.ok = ok]
           \/ op' = [op EXCEPT !.mode = "FAULT", !.launched = FALSE, !.ok = FALSE,
                              !.authorized = FALSE]
           \/ op' = [op EXCEPT !.authorized = FALSE, !.mode = "READY"]
           \/ op' = [op EXCEPT !.authorized = FALSE,
                              !.mode = IF @ = "API_WAITING" THEN "READY" ELSE @]
    PROVE  Kept
BY ZenonT(60) DEF Kept, Stays, Modest, Offered, Ops, Modes

LEMMA ProcedureTurns ==
    ASSUME TypeOK, NEW t \in Threads, Procedure(t)
    PROVE  OpTurned
<1>1. op \in Ops
  BY Types
<1>2. CASE UNCHANGED op
  BY <1>1, <1>2, KeptOp DEF OpTurned
<1>3. CASE PauseHandoff(t)
  <2>1. \/ UNCHANGED op
        \/ op' = [op EXCEPT !.authorized = FALSE,
                           !.mode = IF @ = "API_WAITING" THEN "READY" ELSE @]
    BY <1>3 DEF PauseHandoff
  <2>2. Kept
    BY <1>1, <2>1, KeptOp
  <2>3. QED
    BY <2>2 DEF OpTurned
<1>4. CASE Fault(t) \/ Homing(t) \/ Launched(t)
  <2>1. \/ \E m \in Modes \ {"API_WAITING", "API_ACTIVE"} : op' = [op EXCEPT !.mode = m]
        \/ \E m \in Modes \ {"API_WAITING", "API_ACTIVE"}, ok \in BOOLEAN :
              op' = [op EXCEPT !.mode = m, !.ok = ok]
        \/ \E l \in BOOLEAN, ok \in BOOLEAN :
              op' = [op EXCEPT !.mode = "STOPPED", !.launched = l, !.ok = ok]
    BY <1>4 DEF Fault, Homing, Launched, Modes
  <2>2. Kept
    BY <1>1, <2>1, KeptOp
  <2>3. QED
    BY <2>2 DEF OpTurned
<1>5. CASE Hold(t)
  <2>1. CASE arm.link
    <3>1. op' = Revoke(op)
      BY <1>5, <2>1 DEF Hold
    <3>2. Revokes(t)
      BY ZenonT(60), <1>1, <1>5, <2>1, <3>1 DEF Revokes, Revoke, Modest, Offered, Ops
    <3>3. QED
      BY <3>2 DEF OpTurned
  <2>2. CASE ~arm.link
    BY <1>2, <1>5, <2>2 DEF Hold
  <2>3. QED
    BY <2>1, <2>2
<1>6. CASE HoldEnd(t)
  <2>1. PICK healthy \in BOOLEAN :
            op' = [Revoke(op) EXCEPT !.pending = None, !.launched = healthy, !.ok = healthy,
                                     !.mode = IF healthy THEN "STOPPED" ELSE "FAULT"]
    BY <1>6 DEF HoldEnd
  <2>2. At(t, "held")
    BY <1>6 DEF HoldEnd
  <2>3. Ends(t)
    BY ZenonT(60), <1>1, <2>1, <2>2 DEF Ends, Revoke, Modest, Offered, Ops
  <2>4. QED
    BY <2>3 DEF OpTurned
<1>7. CASE Stop(t) \/ TorqueOff(t)
  <2>1. \/ UNCHANGED op
        \/ \E r \in {"none", "armed", "set"} : op' = [op EXCEPT !.recovery = r]
        \/ op' = [op EXCEPT !.deadline = None]
    BY <1>1, <1>7 DEF Stop, TorqueOff, Ops
  <2>2. Kept
    BY <1>1, <2>1, KeptOp
  <2>3. QED
    BY <2>2 DEF OpTurned
<1>8. CASE StopEnd(t)
  <2>1. PICK m \in {"DISABLED", "FAULT"} :
            op' = [Revoke(op) EXCEPT !.pending = None, !.launched = FALSE, !.mode = m]
    BY <1>8 DEF StopEnd
  <2>2. At(t, "stopped")
    BY <1>8 DEF StopEnd
  <2>3. Ends(t)
    BY ZenonT(60), <1>1, <2>1, <2>2 DEF Ends, Revoke, Modest, Offered, Ops
  <2>4. QED
    BY <2>3 DEF OpTurned
<1>9. CASE Home(t) \/ Homed(t) \/ Remeasured(t) \/ Parking(t)
  <2>1. UNCHANGED op \/ \E m \in Modes \ {"API_WAITING", "API_ACTIVE"} : op' = [op EXCEPT !.mode = m]
    BY <1>9 DEF Home, Homed, Remeasured, Parking, Modes
  <2>2. Kept
    BY <1>1, <2>1, KeptOp
  <2>3. QED
    BY <2>2 DEF OpTurned
<1>10. QED
  BY <1>2, <1>3, <1>4, <1>5, <1>6, <1>7, <1>8, <1>9, ProcedureKeeps

\* Authority is given at Home, by whoever is at "run_policy" or at "grant".
LEMMA Authorizes ==
    ASSUME op \in Ops, NEW o \in {op, [op EXCEPT !.mode = "READY"]}, op' = Authorize(o)
    PROVE  Kept \/ (/\ arm.pose = "home" /\ op'.mode = "API_WAITING" /\ Stays
                    /\ op'.deadline = op.deadline /\ op'.offer = op.offer)
<1>1. CASE MayAuthorize(o)
  <2>1. op' = [o EXCEPT !.mode = "API_WAITING", !.authorized = TRUE] /\ arm.pose = "home"
    BY <1>1 DEF Authorize, MayAuthorize
  <2>2. QED
    BY <2>1 DEF Ops, Stays
<1>2. CASE ~MayAuthorize(o)
  <2>1. UNCHANGED op \/ op' = [op EXCEPT !.mode = "READY"]
    BY <1>2 DEF Authorize
  <2>2. QED
    BY <2>1, KeptOp DEF Modes
<1>3. QED
  BY <1>1, <1>2

LEMMA QueueTurns ==
    ASSUME TypeOK, QueueStep
    PROVE  OpTurned
<1>1. op \in Ops /\ Queue \in Threads
  BY Types DEF Threads
<1>2. CASE UNCHANGED op
  BY <1>1, <1>2, KeptOp DEF OpTurned
<1>3. CASE HandoffEnds
  <2>1. op' = [op EXCEPT !.authorized = FALSE, !.mode = "READY"]
    BY <1>3 DEF HandoffEnds
  <2>2. Kept
    BY <1>1, <2>1, KeptOp
  <2>3. QED
    BY <2>2 DEF OpTurned
<1>4. CASE Grant /\ op' = Authorize(op)
  <2>1. At(Queue, "grant") /\ UNCHANGED arm
    BY <1>4 DEF Grant
  <2>2. \E ls : Go(Queue, ls)
    BY <1>4 DEF Grant, Checked
  <2>3. Only(Queue) /\ UNCHANGED action
    BY <1>1, <2>2, MovesOnly DEF Go
  <2>4. Kept \/ (/\ arm.pose = "home" /\ op'.mode = "API_WAITING" /\ Stays
                 /\ op'.deadline = op.deadline /\ op'.offer = op.offer)
    BY <1>1, <1>4, Authorizes
  <2>5. Kept \/ Offers(Queue)
    BY <2>1, <2>3, <2>4 DEF Offers
  <2>6. QED
    BY <1>1, <2>5 DEF OpTurned
<1>5. CASE TickFault \/ RestedLate \/ TickStart \/ Claim \/ Seek \/ SeekHome \/ SceneHome
  BY <1>2, <1>5 DEF TickFault, RestedLate, TickStart, Claim, Seek, SeekHome, SceneHome
<1>6. CASE Grant
  BY <1>2, <1>4, <1>6 DEF Grant
<1>7. CASE RestedEarly \/ StartFailed \/ StartCancelled \/ TickEnd
  BY <1>2, <1>7 DEF RestedEarly, StartFailed, StartCancelled, TickEnd
<1>8. QED
  BY <1>3, <1>5, <1>6, <1>7 DEF QueueStep

LEMMA ClientTurns ==
    ASSUME TypeOK, Granting, ClientStep
    PROVE  OpTurned
<1>1. op \in Ops
  BY Types
<1>2. CASE UNCHANGED op
  BY <1>1, <1>2, KeptOp DEF OpTurned
<1>3. CASE Prepare
  <2>1. PICK w \in Watchdogs :
            op' = [op EXCEPT !.lease = w, !.offer = w, !.mode = "API_ACTIVE"]
    BY <1>3 DEF Prepare
  <2>2. op'.pending = op.pending /\ op'.mode = "API_ACTIVE"
    BY <1>1, <2>1 DEF Ops
  <2>3. Offered /\ physLock = None
    BY <1>3 DEF Prepare, Offered
  <2>4. QED
    BY <1>3, <2>2, <2>3 DEF OpTurned
<1>4. CASE Prepared
  <2>1. Stays /\ Modest
    BY <1>1, <1>4 DEF Prepared, Stays, Modest, Offered, Ops
  <2>2. Client \in Threads /\ op.offer # Client /\ op.offer \in Threads
    BY <1>4, ThreadsDistinct DEF Prepared, Granting, Threads
  <2>3. stack'[Client] = <<>>
    BY <1>4, <2>2 DEF Prepared, TypeOK
  <2>4. QED
    BY <1>4, <2>1, <2>3 DEF OpTurned, At
<1>5. CASE Receive
  <2>1. op' = [op EXCEPT !.offer = op.lease]
    BY <1>5 DEF Receive
  <2>2. Stays /\ Modest /\ op'.deadline = op.deadline
    BY <1>1, <2>1 DEF Stays, Modest, Offered, Ops
  <2>3. QED
    BY <1>5, <2>2 DEF OpTurned
<1>6. CASE Validate
  <2>1. \/ op' = op \/ op' = [op EXCEPT !.offer = None]
        \/ op' = [op EXCEPT !.mode = "FAULT", !.ok = FALSE, !.authorized = FALSE, !.offer = None]
    BY <1>6 DEF Validate
  <2>2. Stays /\ Modest /\ op'.deadline = op.deadline
    BY <1>1, <2>1 DEF Stays, Modest, Offered, Ops
  <2>3. QED
    BY <1>6, <2>2 DEF OpTurned
<1>7. CASE Accept
  <2>1. \/ op' = [op EXCEPT !.offer = None]
        \/ \E e \in Executors : op' = [op EXCEPT !.pending = e, !.offer = None]
    BY <1>7 DEF Accept
  <2>2. op'.lease = op.lease /\ Modest /\ op'.deadline = op.deadline
    BY <1>1, <2>1 DEF Modest, Offered, Ops
  <2>3. QED
    BY <1>7, <2>2 DEF OpTurned
<1>8. CASE StopSession
  BY <1>2, <1>8 DEF StopSession
<1>9. CASE CloseFaulted
  <2>1. op' = [Revoke(op) EXCEPT !.deadline = None]
    BY <1>9 DEF CloseFaulted
  <2>2. /\ op'.lease = None /\ op'.pending = op.pending /\ op'.offer = op.offer
        /\ op'.deadline = None /\ Modest
    BY ZenonT(60), <1>1, <2>1 DEF Revoke, Modest, Offered, Ops
  <2>3. QED
    BY <2>2 DEF OpTurned, Drops
<1>10. CASE Ended
  <2>1. UNCHANGED op \/ op' = [op EXCEPT !.deadline = None]
    BY <1>10 DEF Ended
  <2>2. QED
    BY <1>1, <2>1, KeptOp DEF OpTurned
<1>11. CASE Connects \/ TransportPauses
  <2>1. \E c \in BOOLEAN : op' = [op EXCEPT !.connected = c]
    BY <1>11 DEF Connects, TransportPauses
  <2>2. QED
    BY <1>1, <2>1, KeptOp DEF OpTurned
<1>12. CASE Disconnects
  <2>1. CASE op.lease = None
    <3>1. op' = [op EXCEPT !.connected = FALSE]
      BY <1>12, <2>1 DEF Disconnects
    <3>2. QED
      BY <1>1, <3>1, KeptOp DEF OpTurned
  <2>2. CASE op.lease # None
    <3>1. op' = [Revoke(op) EXCEPT !.connected = FALSE, !.mode = "FAULT", !.ok = FALSE]
      BY <1>12, <2>2 DEF Disconnects
    <3>2. op'.lease = None /\ op'.pending = op.pending /\ op'.offer = op.offer /\ Modest
      BY ZenonT(60), <1>1, <3>1 DEF Revoke, Modest, Offered, Ops
    <3>3. Start(Client, <<"hold">>) /\ Client \in Threads
      BY <1>12, <2>2 DEF Disconnects, Threads
    <3>4. At(Client, "hold")'
      BY <3>3 DEF Start, At, TypeOK
    <3>5. QED
      BY <3>2, <3>4 DEF OpTurned, Drops
  <2>3. QED
    BY <2>1, <2>2
<1>13. QED
  BY <1>3, <1>4, <1>5, <1>6, <1>7, <1>8, <1>9, <1>10, <1>11, <1>12 DEF ClientStep

LEMMA PanelTurns ==
    ASSUME TypeOK, NEW p \in Panel, PanelStep(p)
    PROVE  OpTurned
<1>1. op \in Ops /\ p \in Threads /\ p \notin Executors
  BY Types, ThreadsDistinct DEF Threads
<1>2. CASE RunPolicy(p)
  <2>1. /\ At(p, "run_policy") /\ Finish(p) /\ UNCHANGED arm
        /\ op' = Authorize([op EXCEPT !.mode = "READY"])
    BY <1>2 DEF RunPolicy
  <2>2. Only(p)
    BY <1>1, <2>1, MovesOnly
  <2>3. UNCHANGED action
    BY <1>1, <2>1 DEF Finish, Return
  <2>4. Kept \/ (/\ arm.pose = "home" /\ op'.mode = "API_WAITING" /\ Stays
                 /\ op'.deadline = op.deadline /\ op'.offer = op.offer)
    BY <1>1, <2>1, Authorizes
  <2>5. Kept \/ Offers(p)
    BY <2>1, <2>2, <2>3, <2>4 DEF Offers
  <2>6. QED
    BY <1>1, <2>5 DEF OpTurned
<1>3. ~RunPolicy(p) =>
        \/ UNCHANGED op
        \/ op' = [op EXCEPT !.mode = "FAULT", !.launched = FALSE, !.ok = FALSE, !.authorized = FALSE]
        \/ \E m \in {"WRIST_TEST", "STOPPED", "FAULT", "WAYPATH"} : op' = [op EXCEPT !.mode = m]
  <2>1. CASE PressStop(p) \/ PressOn(p) \/ PressMove(p) \/ Enter(p) \/ LaunchResult(p)
    BY <2>1 DEF PressStop, PressOn, PressMove, Enter, LaunchResult
  <2>2. CASE WristTest(p) \/ WristEnd(p) \/ StartWaypath(p)
    BY <2>2 DEF WristTest, WristEnd, StartWaypath
  <2>3. QED
    BY <2>1, <2>2 DEF PanelStep
<1>4. {"WRIST_TEST", "STOPPED", "FAULT", "WAYPATH"} \subseteq Modes \ {"API_WAITING", "API_ACTIVE"}
  BY DEF Modes
<1>5. QED
  BY <1>1, <1>2, <1>3, <1>4, KeptOp DEF OpTurned

LEMMA WaypathTurns ==
    ASSUME TypeOK, WaypathEnd \/ WaypathHeld
    PROVE  OpTurned
<1>1. op \in Ops
  BY Types
<1>2. \/ UNCHANGED op
      \/ \E m \in Modes \ {"API_WAITING", "API_ACTIVE"} : op' = [op EXCEPT !.mode = m]
      \/ \E m \in Modes \ {"API_WAITING", "API_ACTIVE"}, ok \in BOOLEAN :
            op' = [op EXCEPT !.mode = m, !.ok = ok]
  BY DEF WaypathEnd, WaypathHeld, Modes
<1>3. QED
  BY <1>1, <1>2, KeptOp DEF OpTurned

LEMMA WatchTurns ==
    ASSUME TypeOK, NEW w \in Watchdogs, WatchStep(w)
    PROVE  OpTurned
<1>1. op \in Ops /\ (UNCHANGED op \/ op' = [op EXCEPT !.deadline = None])
  BY Types DEF WatchStep, WatchEnds, Expire, Expired
<1>2. QED
  BY <1>1, KeptOp DEF OpTurned

LEMMA ExecutorTurns ==
    ASSUME TypeOK, NEW e \in Executors, ExecutorStep(e)
    PROVE  OpTurned
<1>1. op \in Ops /\ e \in Threads
  BY Types DEF Threads
<1>2. CASE UNCHANGED op
  BY <1>1, <1>2, KeptOp DEF OpTurned
<1>3. CASE Acted(e) \/ Replan(e) \/ TrajectoryFailed(e) \/ CommandFailed(e)
  <2>1. At(e, "acted") \/ At(e, "played") \/ At(e, "act_failed")
    BY <1>3 DEF Acted, Replan, TrajectoryFailed, CommandFailed
  <2>2. \/ UNCHANGED op
        \/ op' = [op EXCEPT !.pending = None]
        \/ op' = [op EXCEPT !.pending = None, !.mode = "FAULT", !.ok = FALSE]
        \/ op' = [op EXCEPT !.pending = None, !.mode = "FAULT", !.ok = FALSE, !.authorized = FALSE]
    BY <1>3 DEF Acted, Replan, TrajectoryFailed, CommandFailed
  <2>3. UNCHANGED op \/ Files(e)
    BY ZenonT(60), <1>1, <2>1, <2>2 DEF Files, Modest, Offered, Ops
  <2>4. QED
    BY <1>1, <1>2, <2>3 DEF OpTurned
<1>4. CASE Recover(e) \/ Recovered(e)
  <2>1. UNCHANGED op \/ \E r \in {"none", "armed", "set"} : op' = [op EXCEPT !.recovery = r]
    BY <1>4 DEF Recover, Recovered
  <2>2. QED
    BY <1>1, <2>1, KeptOp DEF OpTurned
<1>5. QED
  BY <1>2, <1>3, <1>4 DEF ExecutorStep, Execute, Recovering, ParkedOrNot

LEMMA NextTurns ==
    ASSUME TypeOK, Granting, Next, ~Crash
    PROVE  OpTurned
<1>1. op \in Ops
  BY Types
<1>2. CASE Environment
  <2>1. CASE PollFindsFault
    <3>1. op' = IF op.lease = None THEN op ELSE [Revoke(op) EXCEPT !.deadline = None]
      BY <2>1 DEF PollFindsFault
    <3>2. CASE op.lease = None
      BY <1>1, <3>1, <3>2, KeptOp DEF OpTurned
    <3>3. CASE op.lease # None
      <4>1. /\ op'.lease = None /\ op'.pending = op.pending /\ op'.offer = op.offer
            /\ op'.deadline = None /\ Modest
        BY ZenonT(60), <1>1, <3>1, <3>3 DEF Revoke, Modest, Offered, Ops
      <4>2. QED
        BY <4>1 DEF OpTurned, Drops
    <3>4. QED
      BY <3>2, <3>3
  <2>2. CASE ServoFault \/ LinkLost
    BY <1>1, <2>2, KeptOp DEF ServoFault, LinkLost, OpTurned
  <2>3. QED
    BY <1>2, <2>1, <2>2 DEF Environment
<1>3. QED
  BY <1>2, ProcedureTurns, QueueTurns, ClientTurns, PanelTurns, WaypathTurns, WatchTurns,
     ExecutorTurns DEF Next, Step

----------------------------------------------------------------------------
(* What a step does to the actions of executors and to _physical_lock.     *)

ActsBy(t) ==
    \/ UNCHANGED action
    \/ t \in Executors /\ stack'[t] = <<>> /\ action' = [action EXCEPT ![t] = NoAction]
    \/ Hold(t)
    \/ t = Client /\ Accept
LocksBy(t) ==
    physLock' \in {physLock, None} \/ (physLock' = t /\ (t \in Executors => Recover(t)))

LEMMA MovesAct ==
    ASSUME TypeOK, NEW t \in Threads,
           \/ \E ls : Go(t, ls)
           \/ \E r : Return(t, r)
           \/ Finish(t) \/ UNCHANGED <<physLock, action>>
    PROVE  ActsBy(t) /\ LocksBy(t)
<1>1. ASSUME NEW r, Return(t, r) PROVE ActsBy(t) /\ LocksBy(t)
  <2>1. stack'[t] = Tail(stack[t])
    BY <1>1 DEF Return, TypeOK
  <2>2. QED
    BY <1>1, <2>1 DEF Return, ActsBy, LocksBy
<1>2. CASE UNCHANGED <<physLock, action>>
  BY <1>2 DEF ActsBy, LocksBy
<1>3. QED
  BY <1>1, <1>2 DEF Go, Finish

LEMMA ProcedureActs ==
    ASSUME TypeOK, Outcomes, NEW t \in Threads, Procedure(t)
    PROVE  ActsBy(t) /\ LocksBy(t)
<1>1. CASE MoveRefused(t) \/ MoveBegin(t) \/ MoveEnd(t) \/ MoveInterrupted(t) \/ MoveFailed(t)
  <2>1. CASE MoveBegin(t)
    BY <2>1, MovesAct DEF MoveBegin
  <2>2. \E r : Return(t, r) \/ MoveBegin(t)
    BY <1>1 DEF MoveRefused, MoveEnd, MoveInterrupted, MoveFailed
  <2>3. QED
    BY <2>1, <2>2, MovesAct
<1>2. CASE PauseQueue(t) \/ PauseHandoff(t) \/ Fault(t) \/ HoldRequest(t) \/ HoldDone(t) \/ HoldEnd(t)
  BY <1>2, MovesAct DEF PauseQueue, PauseHandoff, Fault, HoldRequest, HoldDone, HoldEnd
<1>3. CASE Hold(t)
  <2>1. CASE arm.link
    BY <1>3, <2>1 DEF Hold, ActsBy, LocksBy
  <2>2. CASE ~arm.link
    BY <1>3, <2>2, MovesAct DEF Hold
  <2>3. QED
    BY <2>1, <2>2
<1>4. CASE Stop(t) \/ TorqueOff(t)
  <2>1. CASE arm.link
    BY <1>4, <2>1, MovesAct DEF Stop, TorqueOff
  <2>2. CASE ~arm.link
    BY <1>4, <2>2, MovesAct DEF Stop, TorqueOff
  <2>3. QED
    BY <2>1, <2>2
<1>5. CASE StopRequest(t) \/ Release(t) \/ Released(t) \/ StopEnd(t)
  <2>1. (\E ls : Go(t, ls)) \/ (\E r : Return(t, r))
    BY <1>5 DEF StopRequest, Release, Released, StopEnd
  <2>2. QED
    BY <2>1, MovesAct
<1>6. CASE Launch(t) \/ LaunchEnd(t) \/ Launched(t)
  <2>1. (\E ls : Go(t, ls)) \/ (\E r : Return(t, r))
    BY <1>6 DEF Launch, InvalidatePark, LaunchEnd, Launched
  <2>2. QED
    BY <2>1, MovesAct
<1>7. CASE LaunchBegin(t)
  <2>1. CASE ~Cancelled(t) /\ (arm.state = "DISABLED" \/ DriverlessFault)
    BY <1>7, <2>1, MovesAct DEF LaunchBegin
  <2>2. CASE ~(~Cancelled(t) /\ (arm.state = "DISABLED" \/ DriverlessFault))
    <3>1. (\E ls : Go(t, ls)) \/ (\E r : Return(t, r))
      BY <1>7, <2>2 DEF LaunchBegin
    <3>2. QED
      BY <3>1, MovesAct
  <2>3. QED
    BY <2>1, <2>2
<1>8. CASE Home(t) \/ Homing(t) \/ HoldMeasured(t) \/ Park(t) \/ Parking(t)
  <2>1. (\E ls : Go(t, ls)) \/ (\E r : Return(t, r))
    BY <1>8 DEF Home, Homing, HoldMeasured, Park, Parking
  <2>2. QED
    BY <2>1, MovesAct
<1>9. CASE Homed(t) \/ Remeasured(t)
  <2>1. (\E ls : Go(t, ls)) \/ (\E r : Return(t, r))
    BY <1>9 DEF Outcomes, Homed, Remeasured
  <2>2. QED
    BY <2>1, MovesAct
<1>10. CASE AtZero(t)
  <2>1. At(t, "at_zero") /\ out[t] \in {"reached", "interrupted", "missed", "servo", "failed"}
    BY <1>10 DEF AtZero, Outcomes
  <2>2. (\E ls : Go(t, ls)) \/ (\E r : Return(t, r))
    BY <1>10, <2>1 DEF AtZero
  <2>3. QED
    BY <2>2, MovesAct
<1>11. CASE Receipt(t)
  <2>1. \E r : Return(t, r)
    BY <1>11 DEF Receipt
  <2>2. QED
    BY <2>1, MovesAct
<1>12. QED
  BY <1>1, <1>2, <1>3, <1>4, <1>5, <1>6, <1>7, <1>8, <1>9, <1>10, <1>11, ProcedureAt

LEMMA StepActs ==
    ASSUME TypeOK, Outcomes, NEW t \in Threads, Step(t)
    PROVE  ActsBy(t) /\ LocksBy(t)
<1>1. CASE Procedure(t)
  BY <1>1, ProcedureActs
<1>2. CASE t = Queue /\ QueueStep
  <2>1. Queue \notin Executors
    BY ThreadsDistinct
  <2>2. HandoffEnds \/ TickStart => ActsBy(t) /\ LocksBy(t)
    BY <1>2, <2>1 DEF HandoffEnds, TickStart, ActsBy, LocksBy
  <2>3. RestedLate \/ TickEnd => ActsBy(t) /\ LocksBy(t)
    <3>1. CASE Jump(Queue, <<"pause">>) /\ physLock' = None /\ UNCHANGED action
      BY <3>1 DEF ActsBy, LocksBy
    <3>2. RestedLate \/ TickEnd =>
             \/ Jump(Queue, <<"pause">>) /\ physLock' = None /\ UNCHANGED action
             \/ Finish(t) \/ \E ls : Go(t, ls)
      BY <1>2 DEF RestedLate, TickEnd
    <3>3. QED
      BY <3>1, <3>2, MovesAct
  <2>4. TickFault \/ Claim \/ RestedEarly \/ StartFailed \/ StartCancelled => ActsBy(t) /\ LocksBy(t)
    BY <1>2, MovesAct DEF TickFault, Claim, RestedEarly, StartFailed, StartCancelled
  <2>5. ASSUME NEW nexts, Checked(nexts) PROVE ActsBy(t) /\ LocksBy(t)
    BY <1>2, <2>5, MovesAct DEF Checked
  <2>6. Seek \/ SeekHome \/ SceneHome \/ Grant => ActsBy(t) /\ LocksBy(t)
    BY <2>5 DEF Seek, SeekHome, SceneHome, Grant
  <2>7. QED
    BY <1>2, <2>2, <2>3, <2>4, <2>6 DEF QueueStep
<1>3. CASE t = Client /\ ClientStep
  <2>1. Client \notin Executors
    BY ThreadsDistinct
  <2>2. Prepare \/ Prepared => ActsBy(t) /\ LocksBy(t)
    BY <1>3, <2>1 DEF Prepare, Prepared, ActsBy, LocksBy
  <2>3. Accept => ActsBy(t) /\ LocksBy(t)
    <3>1. Accept => Finish(t) \/ UNCHANGED physLock
      BY <1>3 DEF Accept
    <3>2. QED
      BY <1>3, <3>1, MovesAct DEF ActsBy, LocksBy
  <2>4. Receive \/ StopSession \/ Connects \/ Disconnects \/ TransportPauses => ActsBy(t) /\ LocksBy(t)
    BY MovesAct DEF Receive, StopSession, Connects, Disconnects, TransportPauses
  <2>5. Validate \/ CloseFaulted \/ Ended => ActsBy(t) /\ LocksBy(t)
    BY <1>3, MovesAct DEF Validate, CloseFaulted, Ended
  <2>6. QED
    BY <1>3, <2>2, <2>3, <2>4, <2>5 DEF ClientStep
<1>4. CASE t = Waypath /\ (WaypathEnd \/ WaypathHeld)
  <2>1. (\E ls : Go(t, ls)) \/ Finish(t)
    BY <1>4 DEF WaypathEnd, WaypathHeld
  <2>2. QED
    BY <2>1, MovesAct
<1>5. CASE t \in Panel /\ PanelStep(t)
  <2>1. t \notin Executors
    BY <1>5, ThreadsDistinct
  <2>2. Enter(t) \/ StartWaypath(t) => ActsBy(t) /\ LocksBy(t)
    BY <2>1 DEF Enter, StartWaypath, ActsBy, LocksBy
  <2>3. PressStop(t) \/ PressOn(t) \/ PressMove(t) => ActsBy(t) /\ LocksBy(t)
    BY MovesAct DEF PressStop, PressOn, PressMove
  <2>4. LaunchResult(t) \/ RunPolicy(t) \/ WristTest(t) \/ WristEnd(t) => ActsBy(t) /\ LocksBy(t)
    BY MovesAct DEF LaunchResult, RunPolicy, WristTest, WristEnd
  <2>5. QED
    BY <1>5, <2>2, <2>3, <2>4 DEF PanelStep
<1>6. CASE t \in Watchdogs /\ WatchStep(t)
  <2>1. t \notin Executors
    BY <1>6, ThreadsDistinct
  <2>2. Expire(t) => ActsBy(t) /\ LocksBy(t)
    BY <2>1 DEF Expire, ActsBy, LocksBy
  <2>3. WatchEnds(t) \/ Expired(t) => ActsBy(t) /\ LocksBy(t)
    BY MovesAct DEF WatchEnds, Expired
  <2>4. QED
    BY <1>6, <2>2, <2>3 DEF WatchStep
<1>7. CASE t \in Executors /\ ExecutorStep(t)
  <2>1. CASE Recover(t)
    <3>1. (physLock' = t /\ UNCHANGED action) \/ Finish(t)
      BY <2>1 DEF Recover
    <3>2. QED
      BY <2>1, <3>1, MovesAct DEF ActsBy, LocksBy
  <2>2. ~Recover(t) => Finish(t) \/ \E ls : Go(t, ls)
    BY <1>7 DEF ExecutorStep, Execute, Acted, Replan, TrajectoryFailed, CommandFailed, Recovering,
               ParkedOrNot, Recovered
  <2>3. QED
    BY <2>1, <2>2, MovesAct
<1>8. QED
  BY <1>1, <1>2, <1>3, <1>4, <1>5, <1>6, <1>7 DEF Step

\* An action is what it was, or over, or is being accepted; only a hold cancels one, the
\* pending one; and an executor takes the lock only to recover.
Cancels == \E t \in Threads : Hold(t) /\ arm.link
ActionTurned(e) ==
    \/ action'[e].run = action[e].run /\ action'[e].cancelled = action[e].cancelled
    \/ /\ Cancels /\ action'[e].run = action[e].run
       /\ action'[e].cancelled = (action[e].cancelled \/ op.pending = e)
    \/ stack'[e] = <<>>
    \/ Accept /\ Idle(e) /\ stack'[e] # <<>>

LEMMA NextActions ==
    ASSUME TypeOK, Outcomes, Next, ~Crash, NEW e \in Executors
    PROVE  ActionTurned(e) /\ (physLock' = e => physLock = e \/ Recover(e))
<1>1. action \in Actions /\ None # e /\ e \in Threads
  BY Types, ThreadsDistinct DEF Threads
<1>2. CASE Environment
  BY <1>1, <1>2 DEF Environment, PollFindsFault, ServoFault, LinkLost, ActionTurned
<1>3. ASSUME NEW t \in Threads, Step(t)
      PROVE  ActionTurned(e) /\ (physLock' = e => physLock = e \/ Recover(e))
  <2>1. ActsBy(t) /\ LocksBy(t)
    BY <1>3, StepActs
  <2>2. CASE UNCHANGED action
    BY <1>1, <2>1, <2>2 DEF LocksBy, ActionTurned
  <2>3. CASE t \in Executors /\ stack'[t] = <<>> /\ action' = [action EXCEPT ![t] = NoAction]
    BY <1>1, <2>1, <2>3 DEF LocksBy, ActionTurned, Actions
  <2>4. CASE Hold(t)
    <3>1. CASE arm.link
      BY <1>1, <2>1, <2>4, <3>1 DEF Hold, LocksBy, ActionTurned, Cancels, Actions
    <3>2. CASE ~arm.link
      BY <1>1, <2>1, <2>4, <3>2 DEF Hold, Return, LocksBy, ActionTurned, TypeOK
    <3>3. QED
      BY <3>1, <3>2
  <2>5. CASE t = Client /\ Accept
    <3>1. CASE StillAuthorized
      <4>1. PICK x \in Executors, k \in {"trajectory", "command"} :
                /\ Idle(x) /\ action' = [action EXCEPT ![x] = [run |-> op.offer, cancelled |-> FALSE]]
                /\ stack' = [stack EXCEPT ![Client] = <<>>, ![x] = <<k>>]
        BY <2>5, <3>1 DEF Accept
      <4>2. CASE x = e
        BY <1>1, <2>1, <2>5, <4>1, <4>2, ThreadsDistinct DEF LocksBy, ActionTurned, TypeOK
      <4>3. CASE x # e
        BY <1>1, <2>1, <2>5, <4>1, <4>3, ThreadsDistinct DEF LocksBy, ActionTurned, Actions
      <4>4. QED
        BY <4>2, <4>3
    <3>2. CASE ~StillAuthorized
      BY <1>1, <2>1, <2>5, <3>2, ThreadsDistinct
      DEF Accept, Finish, Return, LocksBy, ActionTurned, TypeOK
    <3>3. QED
      BY <3>1, <3>2
  <2>6. QED
    BY <2>1, <2>2, <2>3, <2>4, <2>5 DEF ActsBy
<1>4. QED
  BY <1>2, <1>3 DEF Next

----------------------------------------------------------------------------
(* One release, and the waypath on its own thread.                         *)

LEMMA GoHead ==
    ASSUME TypeOK, NEW t \in Threads, ~Idle(t), NEW ls \in Seq(Labels), ls # <<>>,
           Go(t, ls) \/ Jump(t, ls)
    PROVE  At(t, Head(ls))'
<1>1. stack[t] \in Seq(Labels) /\ stack[t] # <<>> /\ stack'[t] = ls \o Tail(stack[t])
  BY DEF TypeOK, Idle, Go, Jump
<1>2. Len(ls) \in Nat /\ Len(ls) # 0 /\ Head(ls) = ls[1]
  BY EmptySeq, HeadTailProperties
<1>3. stack'[t] \in Seq(Labels) /\ Len(stack'[t]) # 0 /\ stack'[t][1] = ls[1] /\ stack'[t] # <<>>
  BY <1>1, <1>2, Push, EmptySeq
<1>4. QED
  BY <1>2, <1>3 DEF At

LEMMA CameReleasing ==
    ASSUME Stepping, NEW x \in Threads, At(x, "releasing")'
    PROVE  \/ stack'[x] = stack[x] /\ At(x, "releasing")
           \/ Only(x) /\ arm.link /\ arm.state # "STOPPING" /\ arm'.state = "STOPPING"
<1>1. CASE ~Idle(x) /\ \E ls \in Seq(Labels) :
                /\ Leads(Head(stack[x]), ls) /\ stack'[x] = ls \o Tail(stack[x])
                /\ ls # <<>> /\ Head(ls) = "releasing"
  <2>1. PICK ls \in Seq(Labels) : /\ Leads(Head(stack[x]), ls) /\ stack'[x] = ls \o Tail(stack[x])
                                 /\ ls # <<>> /\ Head(ls) = "releasing"
    BY <1>1
  <2>2. At(x, "release") /\ ls = <<"releasing">> /\ "releasing" \in Labels
    BY <1>1, <2>1 DEF Leads, At, Idle, Labels, Stops
  <2>3. stack'[x] # stack[x]
    BY <2>2 DEF At
  <2>4. Release(x)
    BY <2>2, <2>3, Steps, GoesOnAt
  <2>5. ~\E r : Return(x, r)
    BY <1>1, <2>1, <2>2, Steps, Pops
  <2>6. /\ Go(x, <<"releasing">>) /\ arm' = [arm EXCEPT !.state = "STOPPING", !.verified = FALSE]
        /\ arm.link /\ arm.state # "STOPPING"
    BY <2>4, <2>5 DEF Release
  <2>7. Only(x) /\ arm'.state = "STOPPING"
    BY <2>6, Steps, MovesOnly, Types DEF Arms
  <2>8. QED
    BY <2>6, <2>7
<1>2. ~Above(Head(stack[x]), "releasing")
  BY DEF Above, MoveEnds, MoveOrders
<1>3. \A ls : Begins(x, ls) => Head(ls) # "releasing"
  BY DEF Begins, MoveOrders
<1>4. "releasing" \notin MoveOrders
  BY DEF MoveOrders
<1>5. QED
  BY <1>1, <1>2, <1>3, <1>4, Came

LEMMA CameStopped ==
    ASSUME Stepping, NEW x \in Threads, At(x, "stopped")'
    PROVE  \/ stack'[x] = stack[x] /\ At(x, "stopped")
           \/ At(x, "release") /\ Release(x) /\ \E r : Return(x, r)
           \/ At(x, "releasing") /\ Released(x)
<1>1. CASE /\ ~Idle(x) /\ Above(Head(stack[x]), "stopped") /\ Leads(Head(stack[x]), <<>>)
           /\ stack'[x] = Tail(stack[x])
  <2>1. Head(stack[x]) \in {"stopping", "release", "releasing"}
    BY <1>1 DEF Above, MoveEnds, MoveOrders
  <2>2. At(x, "release") \/ At(x, "releasing")
    BY <1>1, <2>1 DEF Leads, At, Idle
  <2>3. stack'[x] # stack[x]
    <3>1. stack[x] \in Seq(Labels) /\ stack[x] # <<>>
      BY <1>1, Steps DEF TypeOK, Idle
    <3>2. Len(stack[x]) \in Nat /\ Len(Tail(stack[x])) = Len(stack[x]) - 1
      BY <3>1, HeadTailProperties, Push, EmptySeq
    <3>3. ASSUME stack'[x] = stack[x] PROVE FALSE
      <4>1. Tail(stack[x]) = stack[x]
        BY <1>1, <3>3
      <4>2. Len(stack[x]) = Len(stack[x]) - 1
        BY <3>2, <4>1
      <4>3. QED
        BY <3>2, <4>2
    <3>4. QED
      BY <3>3
  <2>4. (At(x, "release") => Release(x)) /\ (At(x, "releasing") => Released(x))
    BY <2>3, Steps, GoesOnAt
  <2>5. ~Go(x, <<"releasing">>)
    <3>1. "releasing" \in Labels /\ <<"releasing">> \in Seq(Labels) /\ Head(<<"releasing">>) = "releasing"
      BY DEF Labels, Stops
    <3>2. Go(x, <<"releasing">>) => At(x, "releasing")'
      BY <1>1, <3>1, Steps, GoHead
    <3>3. QED
      BY <3>2 DEF At
  <2>6. Release(x) => \E r : Return(x, r)
    BY <2>5 DEF Release
  <2>7. QED
    BY <2>2, <2>4, <2>6
<1>2. \A ls : Leads(Head(stack[x]), ls) /\ ls # <<>> => Head(ls) # "stopped"
  BY DEF Leads
<1>3. \A ls : Begins(x, ls) => Head(ls) # "stopped"
  BY DEF Begins, MoveOrders
<1>4. "stopped" \notin MoveOrders
  BY DEF MoveOrders
<1>5. QED
  BY <1>1, <1>2, <1>3, <1>4, Came

LEMMA NextOneRelease ==
    ASSUME Stepping
    PROVE  OneRelease'
<1>1. arm \in Arms /\ TypeOK /\ Turned /\ Poised /\ OneRelease
  BY Steps, Types
<1>2. ASSUME NEW x \in Threads, At(x, "stopped")', arm'.state \in Held PROVE FALSE
  <2>1. CASE stack'[x] = stack[x] /\ At(x, "stopped")
    <3>1. arm.state \notin Held
      BY <1>1, <2>1 DEF OneRelease
    <3>2. PICK t \in Threads : Enabled(t)
      BY <1>1, <1>2, <3>1, HeldCame
    <3>3. x # t /\ ~Idle(x)
      BY <2>1, <3>2 DEF Enabled, At, Idle
    <3>4. QED
      BY <2>1, <3>2, <3>3, PromptLaunch DEF At
  <2>2. CASE At(x, "release") /\ Release(x) /\ \E r : Return(x, r)
    <3>1. ~Go(x, <<"releasing">>)
      <4>1. "releasing" \in Labels /\ <<"releasing">> \in Seq(Labels) /\ Head(<<"releasing">>) = "releasing"
        BY DEF Labels, Stops
      <4>2. ~Idle(x)
        BY <2>2 DEF At, Idle
      <4>3. QED
        BY <1>1, <1>2, <4>1, <4>2, GoHead DEF At
    <3>2. /\ arm.state = "STOPPING" \/ ~arm.link \/ arm.state = "DISABLED" \/ DriverlessFault
          /\ UNCHANGED arm
      BY <2>2, <3>1 DEF Release
    <3>3. QED
      BY <1>1, <1>2, <3>2 DEF Poised, DriverlessFault, Held
  <2>3. CASE At(x, "releasing") /\ Released(x)
    <3>1. ~arm.link \/ arm.state = "STOPPING"
      BY <1>1, <2>3 DEF OneRelease
    <3>2. arm.state \notin Held
      BY <1>1, <3>1 DEF Poised, Held
    <3>3. UNCHANGED arm \/ arm'.state \in {"DISABLED", "FAULT"}
      BY <1>1, <2>3 DEF Released, Arms
    <3>4. QED
      BY <1>2, <3>2, <3>3 DEF Held
  <2>4. QED
    BY <1>2, <2>1, <2>2, <2>3, CameStopped
<1>3. ASSUME NEW x \in Threads, At(x, "releasing")', arm'.link
      PROVE  arm'.state = "STOPPING" /\ \A u \in Threads : At(u, "releasing")' => x = u
  <2>1. arm.link
    BY <1>3, Steps DEF Turned
  <2>2. CASE stack'[x] = stack[x] /\ At(x, "releasing")
    <3>1. arm.state = "STOPPING" /\ ~Idle(x) /\ \A u \in Threads : At(u, "releasing") => x = u
      BY <1>1, <2>1, <2>2 DEF OneRelease, At, Idle
    <3>2. ASSUME NEW t \in Threads, Freed(t) PROVE FALSE
      <4>1. t = x /\ \E r : Return(x, r)
        BY <3>1, <3>2 DEF Freed
      <4>2. QED
        BY <1>1, <2>2, <3>1, <4>1, Pops
    <3>3. arm'.state = "STOPPING"
      BY <1>1, <1>3, <3>1, <3>2, Steps DEF Turned, Begun, Halted, Enabling, Enabled, Frees
    <3>4. QED
      BY <3>1, <3>3, CameReleasing
  <2>3. CASE Only(x) /\ arm.link /\ arm.state # "STOPPING" /\ arm'.state = "STOPPING"
    <3>1. ASSUME NEW u \in Threads, At(u, "releasing")', u # x PROVE FALSE
      <4>1. At(u, "releasing")
        BY <2>3, <3>1 DEF Only, At
      <4>2. QED
        BY <1>1, <2>3, <4>1 DEF OneRelease
    <3>2. QED
      BY <2>3, <3>1
  <2>4. QED
    BY <1>3, <2>2, <2>3, CameReleasing
<1>4. QED
  BY <1>2, <1>3 DEF OneRelease, At

LEMMA Pairs ==
    ASSUME NEW a \in Labels, NEW b \in Labels
    PROVE  /\ Tail(<<a, b>>) = <<b>> /\ Tail(<<b>>) = <<>> /\ <<>> \o <<>> = <<>>
           /\ <<a>> \o <<b>> = <<a, b>> /\ <<>> \o <<b>> = <<b>> /\ <<a, b>> \o <<>> = <<a, b>>
<1>1. /\ <<a, b>> \in Seq(Labels) /\ <<b>> \in Seq(Labels) /\ <<a>> \in Seq(Labels)
      /\ Len(<<a, b>>) = 2 /\ Len(<<b>>) = 1 /\ Len(<<a>>) = 1 /\ <<a, b>> # <<>> /\ <<b>> # <<>>
  OBVIOUS
<1>2. Tail(<<a, b>>) \in Seq(Labels) /\ Len(Tail(<<a, b>>)) = 1 /\ Tail(<<a, b>>)[1] = b
  BY <1>1
<1>3. Tail(<<a, b>>) = <<b>>
  BY <1>1, <1>2, SeqEqual
<1>4. <<a>> \o <<b>> \in Seq(Labels) /\ Len(<<a>> \o <<b>>) = 2
  BY <1>1
<1>5. (<<a>> \o <<b>>)[1] = a /\ (<<a>> \o <<b>>)[2] = b
  BY <1>1
<1>6. \A i \in 1 .. 2 : (<<a>> \o <<b>>)[i] = <<a, b>>[i]
  <2>1. \A i \in 1 .. 2 : i = 1 \/ i = 2
    OBVIOUS
  <2>2. QED
    BY <1>5, <2>1
<1>7. <<a>> \o <<b>> = <<a, b>>
  BY <1>1, <1>4, <1>6, SeqEqual
<1>8. Tail(<<b>>) \in Seq(Labels) /\ Len(Tail(<<b>>)) = 0
  BY <1>1, HeadTailProperties
<1>9. Tail(<<b>>) = <<>>
  BY <1>8, EmptySeq
<1>10. QED
  BY <1>1, <1>3, <1>7, <1>9, ConcatEmptySeq, EmptySeq

LEMMA NextWaypathAlone ==
    ASSUME Stepping
    PROVE  WaypathAlone'
<1>1. Moved(Waypath) /\ stack[Waypath] \in WaypathStacks
  BY Steps DEF AllMoved, Threads, WaypathAlone
<1>2. CASE Idle(Waypath)
  <2>1. \A ls : Begins(Waypath, ls) => ls = <<"move", "waypath_end">>
    BY ThreadsDistinct DEF Begins
  <2>2. ~Enters(Waypath, stack'[Waypath])
    BY <1>2 DEF Enters, At, Idle
  <2>4. QED
    BY <1>1, <1>2, <2>1, <2>2 DEF Moved, WaypathAlone, WaypathStacks, Idle
<1>3. CASE ~Idle(Waypath)
  <2>1. ~Enters(Waypath, stack'[Waypath])
    BY ThreadsDistinct DEF Enters
  <2>2. \/ stack'[Waypath] \in {stack[Waypath], <<>>}
        \/ \E ls \in Seq(Labels) : /\ Leads(Head(stack[Waypath]), ls)
                                  /\ stack'[Waypath] = ls \o Tail(stack[Waypath])
    BY <1>1, <1>3, <2>1 DEF Moved
  <2>3. {"move", "moving", "waypath_end", "holding", "hold_wait", "waypath_held"} \subseteq Labels
    BY DEF Labels, Moves, Holds
  <2>4. ASSUME NEW ls \in Seq(Labels), Leads(Head(stack[Waypath]), ls),
               stack'[Waypath] = ls \o Tail(stack[Waypath])
        PROVE  stack'[Waypath] \in WaypathStacks
    <3>1. ASSUME NEW a \in {"move", "moving"}, stack[Waypath] = <<a, "waypath_end">>
          PROVE  stack'[Waypath] \in WaypathStacks
      <4>1. a \in Labels /\ "waypath_end" \in Labels /\ "moving" \in Labels /\ Head(<<a, "waypath_end">>) = a
        BY <2>3
      <4>2. Tail(stack[Waypath]) = <<"waypath_end">> /\ Head(stack[Waypath]) = a
        BY <3>1, <4>1, Pairs
      <4>3. ls \in {<<>>, <<"moving">>}
        BY <2>4, <4>2 DEF Leads
      <4>4. QED
        BY <2>4, <4>1, <4>2, <4>3, Pairs DEF WaypathStacks
    <3>2. CASE stack[Waypath] = <<"waypath_end">>
      <4>1. Tail(stack[Waypath]) = <<>> /\ ls \in {<<>>, <<"holding", "waypath_held">>}
        BY <2>4, <2>3, <3>2, Pairs DEF Leads
      <4>2. QED
        BY <2>4, <2>3, <4>1, Pairs DEF WaypathStacks
    <3>3. ASSUME NEW a \in {"holding", "hold_wait"}, stack[Waypath] = <<a, "waypath_held">>
          PROVE  stack'[Waypath] \in WaypathStacks
      <4>1. a \in Labels /\ "waypath_held" \in Labels /\ "hold_wait" \in Labels /\ Head(<<a, "waypath_held">>) = a
        BY <2>3
      <4>2. Tail(stack[Waypath]) = <<"waypath_held">> /\ Head(stack[Waypath]) = a
        BY <3>3, <4>1, Pairs
      <4>3. ls \in {<<>>, <<"hold_wait">>}
        BY <2>4, <4>2 DEF Leads
      <4>4. QED
        BY <2>4, <4>1, <4>2, <4>3, Pairs DEF WaypathStacks
    <3>4. CASE stack[Waypath] = <<"waypath_held">>
      <4>1. Tail(stack[Waypath]) = <<>> /\ ls = <<>>
        BY <2>4, <2>3, <3>4, Pairs DEF Leads
      <4>2. QED
        BY <2>4, <2>3, <4>1, Pairs DEF WaypathStacks
    <3>5. QED
      BY <1>1, <1>3, <3>1, <3>2, <3>3, <3>4 DEF WaypathStacks, Idle
  <2>5. QED
    BY <1>1, <2>2, <2>4 DEF WaypathAlone, WaypathStacks
<1>4. QED
  BY <1>2, <1>3

----------------------------------------------------------------------------
(* Who may still move, and who works.                                      *)

LEMMA Turns ==
    ASSUME Stepping
    PROVE  /\ OpTurned
           /\ \A e \in Executors : ActionTurned(e) /\ (physLock' = e => physLock = e \/ Recover(e))
BY Steps, NextTurns, NextActions

\* What the acceptance of an action does.
Accepted(e) ==
    /\ At(Client, "accept") /\ StillAuthorized /\ Idle(e)
    /\ op'.pending = e /\ op'.lease = op.lease /\ op'.mode = op.mode
    /\ op'.authorized = op.authorized /\ op'.offer = None /\ op'.deadline = op.deadline
    /\ action'[e].run = op.offer /\ stack'[Client] = <<>> /\ UNCHANGED <<arm, physLock>>
    /\ stack'[e] \in {<<"trajectory">>, <<"command">>}
    /\ \A x \in Threads : x # Client /\ x # e => stack'[x] = stack[x]

LEMMA AcceptDoes ==
    ASSUME Stepping, NEW e \in Executors, Idle(e), stack'[e] # stack[e]
    PROVE  Accepted(e)
<1>1. /\ e \in Threads /\ Client \in Threads /\ e # Client /\ op \in Ops /\ action \in Actions
      /\ TypeOK
  BY Steps, Types, ThreadsDistinct DEF Threads
<1>2. Accept
  BY <1>1, Steps, WhoGoesOn
<1>3. StillAuthorized
  BY <1>1, <1>2, ThreadsDistinct DEF Accept, Finish, Return, TypeOK
<1>4. PICK x \in Executors, k \in {"trajectory", "command"} :
          /\ Idle(x) /\ action' = [action EXCEPT ![x] = [run |-> op.offer, cancelled |-> FALSE]]
          /\ op' = [op EXCEPT !.pending = x, !.offer = None]
          /\ stack' = [stack EXCEPT ![Client] = <<>>, ![x] = <<k>>]
          /\ UNCHANGED physLock
  BY <1>2, <1>3 DEF Accept
<1>5. x = e
  BY <1>1, <1>4 DEF TypeOK
<1>6. At(Client, "accept") /\ UNCHANGED arm
  BY <1>2 DEF Accept
<1>7. /\ op'.pending = e /\ op'.lease = op.lease /\ op'.mode = op.mode
      /\ op'.authorized = op.authorized /\ op'.offer = None /\ op'.deadline = op.deadline
  BY <1>1, <1>4, <1>5 DEF Ops
<1>8. action'[e].run = op.offer
  BY <1>1, <1>4, <1>5 DEF Actions
<1>9. /\ stack'[Client] = <<>> /\ stack'[e] \in {<<"trajectory">>, <<"command">>}
      /\ \A y \in Threads : y # Client /\ y # e => stack'[y] = stack[y]
  BY <1>1, <1>4, <1>5, ThreadsDistinct DEF TypeOK, Threads
<1>10. QED
  BY <1>3, <1>4, <1>5, <1>6, <1>7, <1>8, <1>9 DEF Accepted

\* How an executor that goes on has changed its stack.
LEMMA ExecutorMoves ==
    ASSUME Stepping, NEW e \in Executors, stack'[e] # stack[e], stack'[e] # <<>>
    PROVE  \/ Accepted(e)
           \/ /\ ~Idle(e) /\ \E ls \in Seq(Labels) :
                 /\ Leads(Head(stack[e]), ls) /\ Duly(e, Head(stack[e]), ls)
                 /\ stack'[e] = ls \o Tail(stack[e])
<1>1. e \in Threads /\ e \notin Panel /\ Moved(e)
  BY Steps, ThreadsDistinct DEF Threads, AllMoved
<1>2. Idle(e) => Accepted(e)
  BY AcceptDoes
<1>3. QED
  BY <1>1, <1>2 DEF Moved, Enters

LEMMA ActingCame ==
    ASSUME Stepping, NEW e \in Executors, Acting(e)'
    PROVE  Acting(e) \/ Accepted(e)
<1>1. e \in Threads /\ stack[e] \in Seq(Labels) /\ stack'[e] \in Seq(Labels) /\ TypeOK /\ Ordered
  BY Steps DEF Threads, TypeOK
<1>2. stack'[e] # <<>> /\ Head(stack'[e]) \in {"trajectory", "command", "move", "moving"}
  BY DEF Acting, At
<1>3. CASE stack'[e] = stack[e]
  BY <1>3 DEF Acting, At
<1>4. ASSUME ~Idle(e), NEW ls \in Seq(Labels), Leads(Head(stack[e]), ls),
             stack'[e] = ls \o Tail(stack[e])
      PROVE  Acting(e)
  <2>1. ls # <<>> /\ Head(stack'[e]) = Head(ls)
    <3>1. ~\E l \in {"trajectory", "command", "move", "moving"} : Above(Head(stack[e]), l)
      BY DEF Above, MoveEnds, MoveOrders
    <3>2. QED
      BY <1>1, <1>2, <1>4, <3>1, MovedAt
  <2>2. \/ Head(stack[e]) \in {"trajectory", "command"}
        \/ Head(stack[e]) = "move" /\ ls = <<"moving">>
        \/ ls \in {<<"move", "homed">>, <<"move", "at_zero">>, <<"move", "wrist_end">>}
    BY <1>2, <1>4, <2>1 DEF Leads
  <2>3. stack[e] # <<>>
    BY <1>4 DEF Idle
  <2>4. /\ Len(stack[e]) \in Nat \ {0} /\ Len(ls) \in Nat
        /\ Len(stack'[e]) = Len(ls) + Len(stack[e]) - 1
        /\ DOMAIN stack'[e] = 1 .. (Len(ls) + Len(stack[e]) - 1)
        /\ \A i \in 1 .. Len(ls) : stack'[e][i] = ls[i]
        /\ \A i \in (Len(ls) + 1) .. (Len(ls) + Len(stack[e]) - 1) :
              stack'[e][i] = stack[e][i - Len(ls) + 1]
        /\ stack'[e][1] = Head(stack'[e])
    BY <1>1, <1>2, <1>4, <2>3, Push
  <2>5. CASE Head(stack[e]) = "move" /\ ls = <<"moving">>
    <3>1. Len(ls) = 1 /\ Head(ls) = "moving"
      BY <2>5
    <3>2. Head(stack'[e]) = "moving" /\ stack'[e][1] = "moving" /\ 1 \in DOMAIN stack'[e]
      BY <2>1, <2>4, <3>1
    <3>3. 1 < Len(stack'[e])
      BY <3>2, Steps, <1>1 DEF Ordered, Stacked, Moves
    <3>4. 2 \in (Len(ls) + 1) .. (Len(ls) + Len(stack[e]) - 1) /\ 2 - Len(ls) + 1 = 2
      BY <2>4, <3>1, <3>3
    <3>5. stack'[e][2] = stack[e][2]
      BY <2>4, <3>4
    <3>6. stack'[e][2] \in {"acted", "played"}
      BY <3>2 DEF Acting, At
    <3>7. QED
      BY <2>3, <2>5, <3>5, <3>6 DEF Acting, At
  <2>6. CASE ls \in {<<"move", "homed">>, <<"move", "at_zero">>, <<"move", "wrist_end">>}
    <3>1. Len(ls) = 2 /\ Head(ls) = "move" /\ ls[2] \in {"homed", "at_zero", "wrist_end"}
      BY <2>6
    <3>2. stack'[e][2] = ls[2]
      BY <2>4, <3>1
    <3>3. QED
      BY <2>1, <3>1, <3>2 DEF Acting, At
  <2>7. QED
    BY <2>2, <2>3, <2>5, <2>6 DEF Acting, At
<1>5. QED
  BY <1>2, <1>3, <1>4, ExecutorMoves

\* Who may still move could, and has not been cancelled, or has just been accepted.
LEMMA LiveCame ==
    ASSUME Stepping, NEW e \in Executors, Live(e)'
    PROVE  \/ /\ Live(e) /\ ~Idle(e) /\ action'[e].run = action[e].run
              /\ ~(Cancels /\ op.pending = e)
           \/ Accepted(e)
<1>1. Acting(e)' /\ ~action'[e].cancelled /\ arm'.state \in Held
  BY DEF Live
<1>2. ASSUME Acting(e) PROVE arm.state \in Held
  <2>1. ASSUME NEW t \in Threads, Enabled(t) PROVE FALSE
    <3>1. ~Idle(e) /\ e \in Threads /\ e # t
      BY <1>2, <2>1 DEF Acting, At, Idle, Enabled, Threads
    <3>2. QED
      BY <1>2, <2>1, <3>1, PromptLaunch DEF Acting, At
  <2>2. QED
    BY <1>1, <2>1, Steps, HeldCame
<1>3. CASE Acting(e)
  <2>1. ~Idle(e) /\ arm.state \in Held /\ stack'[e] # <<>>
    BY <1>1, <1>2, <1>3 DEF Acting, At, Idle
  <2>2. ActionTurned(e)
    BY Turns
  <2>3. /\ action'[e].run = action[e].run
        /\ ~action[e].cancelled /\ ~(Cancels /\ op.pending = e)
    <3>1. action'[e].run = action[e].run /\ ~action[e].cancelled
      BY <1>1, <2>1, <2>2 DEF ActionTurned, Idle
    <3>2. ASSUME Cancels, op.pending = e PROVE FALSE
      <4>1. action' = [x \in Executors |-> [action[x] EXCEPT !.cancelled = @ \/ op.pending = x]]
        BY <3>2 DEF Cancels, Hold
      <4>2. action \in Actions
        BY Steps, Types
      <4>3. action'[e].cancelled
        BY <3>2, <4>1, <4>2 DEF Actions
      <4>4. QED
        BY <1>1, <4>3
    <3>3. QED
      BY <3>1, <3>2
  <2>4. QED
    BY <1>3, <2>1, <2>3 DEF Live
<1>4. QED
  BY <1>1, <1>3, ActingCame

----------------------------------------------------------------------------
(* Who works.                                                              *)

LEMMA PopsNot ==
    ASSUME TypeOK, NEW t \in Threads, ~Idle(t), NEW ls \in Seq(Labels),
           stack'[t] = ls \o Tail(stack[t]), NEW r, Return(t, r)
    PROVE  ls = <<>>
<1>1. stack[t] \in Seq(Labels) /\ stack[t] # <<>> /\ ls \o Tail(stack[t]) = Tail(stack[t])
  BY DEF TypeOK, Idle, Return
<1>2. /\ Len(stack[t]) \in Nat /\ Len(ls) \in Nat /\ Len(Tail(stack[t])) = Len(stack[t]) - 1
      /\ Len(ls \o Tail(stack[t])) = Len(ls) + Len(stack[t]) - 1
  BY <1>1, HeadTailProperties, Push
<1>3. Len(ls) + Len(stack[t]) - 1 = Len(stack[t]) - 1
  BY <1>1, <1>2
<1>4. Len(ls) = 0
  BY <1>2, <1>3
<1>5. QED
  BY <1>4, EmptySeq

\* Before, in or after the motion of its action.
LEMMA WorkingTop ==
    ASSUME TypeOK, Ordered, NEW e \in Executors, Working(e)
    PROVE  /\ e \in Threads /\ ~Idle(e) /\ stack[e] \in Seq(Labels)
           /\ DOMAIN stack[e] = 1 .. Len(stack[e]) /\ Len(stack[e]) \in Nat
           /\ Head(stack[e]) = stack[e][1]
           /\ \/ Head(stack[e]) \in ActionSteps
              \/ Head(stack[e]) \in Moves /\ 2 \in DOMAIN stack[e] /\ stack[e][2] \in {"acted", "played"}
<1>1. e \in Threads
  BY DEF Threads
<1>2. PICK l \in ActionSteps, i \in DOMAIN stack[e] : stack[e][i] = l
  BY DEF Working, Within
<1>3. /\ stack[e] \in Seq(Labels) /\ stack[e] # <<>>
      /\ Head(stack[e]) = l \/ Above(Head(stack[e]), l)
  BY <1>1, <1>2, WithinHead DEF Within
<1>4. /\ Len(stack[e]) \in Nat /\ DOMAIN stack[e] = 1 .. Len(stack[e]) /\ Head(stack[e]) = stack[e][1]
  BY <1>3, Push, EmptySeq
<1>5. ASSUME Head(stack[e]) \notin ActionSteps
      PROVE  Head(stack[e]) \in Moves /\ 2 \in DOMAIN stack[e] /\ stack[e][2] \in {"acted", "played"}
  <2>0. Above(Head(stack[e]), l) /\ l \in ActionSteps /\ i # 1
    BY <1>2, <1>3, <1>4, <1>5
  <2>1. Head(stack[e]) \in Moves /\ l \in {"acted", "played"} /\ i # 1
    BY <2>0 DEF Above, ActionSteps, MoveEnds, MoveOrders
  <2>2. Stacked(stack[e]) /\ 1 \in DOMAIN stack[e]
    BY <1>1, <1>2, <1>4 DEF Ordered
  <2>3. 1 < Len(stack[e]) /\ stack[e][2] \in MoveEnds
    BY <1>4, <2>1, <2>2 DEF Stacked
  <2>4. 2 \in DOMAIN stack[e]
    BY <1>4, <2>3
  <2>5. i = 2 \/ 2 < i
    BY <1>4, <2>1
  <2>6. ~Above(stack[e][2], l)
    BY <2>1, <2>3 DEF Above, MoveEnds, Moves, MoveOrders
  <2>7. i = 2
    BY <1>2, <2>2, <2>4, <2>5, <2>6 DEF Stacked
  <2>8. QED
    BY <1>2, <2>1, <2>4, <2>7
<1>6. QED
  BY <1>1, <1>3, <1>4, <1>5 DEF Idle

LEMMA ActingWorks ==
    ASSUME TypeOK, Ordered, NEW e \in Executors, Acting(e)
    PROVE  Working(e)
<1>1. e \in Threads /\ stack[e] # <<>> /\ stack[e] \in Seq(Labels)
  BY DEF Acting, At, Threads, TypeOK
<1>2. /\ Len(stack[e]) \in Nat \ {0} /\ DOMAIN stack[e] = 1 .. Len(stack[e])
      /\ Head(stack[e]) = stack[e][1] /\ 1 \in DOMAIN stack[e]
  BY <1>1, Push
<1>3. CASE At(e, "trajectory") \/ At(e, "command")
  BY <1>2, <1>3 DEF At, Working, Within, ActionSteps
<1>4. CASE (At(e, "move") \/ At(e, "moving")) /\ stack[e][2] \in {"acted", "played"}
  <2>1. 1 < Len(stack[e])
    BY <1>1, <1>2, <1>4 DEF Ordered, Stacked, At, Moves
  <2>2. 2 \in DOMAIN stack[e]
    BY <1>2, <2>1
  <2>3. QED
    BY <1>4, <2>2 DEF Working, Within, ActionSteps
<1>5. QED
  BY <1>3, <1>4 DEF Acting

\* Who works has not the lock: its cancel_event is its own.
LEMMA WorkingUnlocked ==
    ASSUME TypeOK, Ordered, LockRecovers, NEW e \in Executors, Working(e)
    PROVE  physLock # e
<1> SUFFICES ASSUME physLock = e PROVE FALSE
  OBVIOUS
<1>1. PICK l \in {"recovering", "parked_or_not", "recovered"}, i \in DOMAIN stack[e] : stack[e][i] = l
  BY DEF LockRecovers, Within
<1>2. /\ e \in Threads /\ ~Idle(e) /\ stack[e] \in Seq(Labels)
      /\ DOMAIN stack[e] = 1 .. Len(stack[e]) /\ Len(stack[e]) \in Nat
      /\ Head(stack[e]) = stack[e][1]
      /\ \/ Head(stack[e]) \in ActionSteps
         \/ Head(stack[e]) \in Moves /\ 2 \in DOMAIN stack[e] /\ stack[e][2] \in {"acted", "played"}
  BY WorkingTop
<1>3. Stacked(stack[e]) /\ 1 \in DOMAIN stack[e]
  BY <1>1, <1>2 DEF Ordered
<1>4. CASE Head(stack[e]) \in ActionSteps
  <2>1. stack[e][1] # l /\ ~Above(stack[e][1], l)
    BY <1>2, <1>4
    DEF ActionSteps, Above, MoveEnds, MoveOrders, Moves, Pausing, Holding, Releasing, ParkSteps, Stops
  <2>2. i # 1 /\ 1 < i
    BY <1>1, <1>2, <2>1
  <2>3. QED
    BY <1>1, <1>3, <2>1, <2>2 DEF Stacked
<1>5. CASE Head(stack[e]) \in Moves /\ 2 \in DOMAIN stack[e] /\ stack[e][2] \in {"acted", "played"}
  <2>1. stack[e][1] # l /\ stack[e][2] # l /\ ~Above(stack[e][2], l)
    BY <1>2, <1>5
    DEF Above, MoveEnds, MoveOrders, Moves, Pausing, Holding, Releasing, ParkSteps, Stops
  <2>2. 2 < i
    BY <1>1, <1>2, <2>1
  <2>3. QED
    BY <1>1, <1>3, <1>5, <2>1, <2>2 DEF Stacked
<1>6. QED
  BY <1>2, <1>4, <1>5

LEMMA LeadsToAction ==
    ASSUME NEW h, NEW ls \in Seq(Labels), Leads(h, ls), NEW j \in DOMAIN ls, ls[j] \in ActionSteps
    PROVE  h \in ActionSteps
<1>1. ASSUME ls[j] \in {"acted", "played"} PROVE h \in {"trajectory", "command"}
  BY <1>1 DEF Leads
<1>2. ASSUME ls[j] = "act_failed" PROVE h = "played"
  BY <1>2 DEF Leads
<1>3. ls[j] \notin {"trajectory", "command"}
  BY DEF Leads
<1>4. QED
  BY <1>1, <1>2, <1>3 DEF ActionSteps

LEMMA WorkingCame ==
    ASSUME Stepping, NEW e \in Executors, Working(e)'
    PROVE  Working(e) \/ Accepted(e)
<1>1. e \in Threads /\ TypeOK /\ stack'[e] \in Seq(Labels)
  BY Steps DEF Threads, TypeOK
<1>2. PICK l \in ActionSteps, i \in DOMAIN stack'[e] : stack'[e][i] = l
  BY DEF Working, Within
<1>3. stack'[e] # <<>>
  BY <1>2
<1>4. CASE stack'[e] = stack[e]
  BY <1>2, <1>4 DEF Working, Within
<1>5. ASSUME ~Idle(e), NEW ls \in Seq(Labels), Leads(Head(stack[e]), ls), stack'[e] = ls \o Tail(stack[e])
      PROVE  Working(e)
  <2>1. /\ \A k \in DOMAIN stack'[e] :
                 \/ \E j \in DOMAIN ls : stack'[e][k] = ls[j]
                 \/ \E j \in DOMAIN stack[e] : j > 1 /\ stack'[e][k] = stack[e][j]
        /\ 1 \in DOMAIN stack[e] /\ Head(stack[e]) = stack[e][1]
    BY <1>1, <1>5, MovedTo
  <2>2. CASE \E j \in DOMAIN stack[e] : stack'[e][i] = stack[e][j]
    BY <1>2, <2>2 DEF Working, Within
  <2>3. CASE \E j \in DOMAIN ls : stack'[e][i] = ls[j]
    <3>1. Head(stack[e]) \in ActionSteps
      BY <1>2, <1>5, <2>3, LeadsToAction
    <3>2. QED
      BY <2>1, <3>1 DEF Working, Within
  <2>4. QED
    BY <2>1, <2>2, <2>3
<1>6. QED
  BY <1>3, <1>4, <1>5, ExecutorMoves

LEMMA NextOneWorker ==
    ASSUME Stepping
    PROVE  OneWorker'
<1>1. ASSUME NEW e \in Executors, NEW f \in Executors, Working(e)', Working(f)' PROVE e = f
  <2>1. CASE Working(e) /\ Working(f)
    BY <2>1, Steps DEF OneWorker
  <2>2. ASSUME NEW g \in Executors, Accepted(g) PROVE ~Working(e) /\ ~Working(f)
    BY <2>2, Steps DEF Accepted, ReceivedAlone, Receiving
  <2>3. CASE Accepted(e) /\ Accepted(f)
    BY <2>3 DEF Accepted
  <2>4. QED
    BY <1>1, <2>1, <2>2, <2>3, WorkingCame
<1>2. QED
  BY <1>1 DEF OneWorker, Working, Within, ActionSteps

\* An executor that waits in its motion may still move.
LEMMA WaitingWorkerIsLive ==
    ASSUME TypeOK, Ordered, LockRecovers, NEW e \in Executors, Working(e), Waits(e)
    PROVE  Live(e)
<1>1. /\ ~Idle(e) /\ \/ Head(stack[e]) \in ActionSteps
                     \/ Head(stack[e]) \in Moves /\ stack[e][2] \in {"acted", "played"}
  BY WorkingTop
<1>2. Moving(e)
  BY <1>1 DEF Waits, At, ActionSteps, Moves
<1>3. physLock # e /\ e # Queue
  BY WorkingUnlocked, ThreadsDistinct
<1>4. ~action[e].cancelled
  BY <1>2, <1>3 DEF Moving, Cancelled
<1>5. QED
  BY <1>1, <1>2, <1>4 DEF Live, Acting, Moving, Held, At, ActionSteps

----------------------------------------------------------------------------
(* The client's thread, and holds.                                         *)

LEMMA AtWithin ==
    ASSUME TypeOK, NEW t \in Threads, NEW l, At(t, l)
    PROVE  Within(t, l)
<1>1. stack[t] \in Seq(Labels) /\ stack[t] # <<>>
  BY DEF TypeOK, At
<1>2. 1 \in DOMAIN stack[t] /\ stack[t][1] = l
  BY <1>1, Push DEF At
<1>3. QED
  BY <1>2 DEF Within

LEMMA ClientBegins ==
    ASSUME Stepping, Idle(Client)
    PROVE  /\ At(Client, "prepared")' => Prepare
           /\ At(Client, "validate")' => Receive
<1>1. Client \in Threads /\ TypeOK /\ Outcomes /\ Granting /\ Next /\ ~Crash
  BY Steps DEF Threads
<1>2. CASE stack'[Client] = <<>>
  BY <1>2 DEF At
<1>3. ASSUME stack'[Client] # <<>>, Environment PROVE FALSE
  <2>1. PollFindsFault
    BY <1>1, <1>3 DEF Environment, ServoFault, LinkLost, Idle
  <2>2. stack' = [stack EXCEPT ![Poller] = <<"pause_clear", "fault">>]
    BY <2>1 DEF PollFindsFault, Start
  <2>3. QED
    BY <1>1, <1>3, <2>2, ThreadsDistinct DEF TypeOK, Idle
<1>4. ASSUME stack'[Client] # <<>>, NEW t \in Threads, Step(t)
      PROVE  Client = t /\ ClientStep
  <2>1. Client = t
    <3>1. ASSUME Only(t), Client # t PROVE FALSE
      BY <1>1, <1>4, <3>1 DEF Only, Idle
    <3>2. ASSUME NEW p \in Panel, StartWaypath(p) PROVE FALSE
      BY <1>1, <1>4, <3>2, Handovers, ThreadsDistinct DEF Idle
    <3>3. QED
      BY <1>1, <1>4, <3>1, <3>2, StepOnly
  <2>2. QED
    BY <1>4, <2>1, ThreadsDistinct DEF Step, Procedure
<1>5. ASSUME stack'[Client] # <<>>, ClientStep, ~Prepare, ~Receive
      PROVE  ~At(Client, "prepared")' /\ ~At(Client, "validate")'
  <2>1. ~Prepared /\ ~Validate /\ ~Accept /\ ~CloseFaulted /\ ~Ended
    BY DEF Prepared, Validate, Accept, CloseFaulted, Ended, At, Idle
  <2>2. Connects \/ TransportPauses => UNCHANGED stack
    BY DEF Connects, TransportPauses
  <2>3. ASSUME StopSession \/ Disconnects
        PROVE  stack'[Client] \in {stack[Client], <<"pause_clear", "close">>, <<"hold", "ended">>, <<"hold">>}
    BY <1>1, <2>3 DEF StopSession, Disconnects, Start, TypeOK
  <2>4. QED
    BY <1>5, <2>1, <2>2, <2>3 DEF ClientStep, At, Idle
<1>6. ASSUME stack'[Client] # <<>>, ClientStep
      PROVE  (At(Client, "prepared")' => Prepare) /\ (At(Client, "validate")' => Receive)
  <2>1. Prepare => ~At(Client, "validate")'
    BY <1>1 DEF Prepare, Start, At, TypeOK
  <2>2. Receive => ~At(Client, "prepared")'
    BY <1>1 DEF Receive, Start, At, TypeOK
  <2>3. QED
    BY <1>5, <1>6, <2>1, <2>2
<1>7. QED
  BY <1>1, <1>2, <1>3, <1>4, <1>6 DEF Next

\* How the client's thread has come to the validation of an action.
LEMMA CameReceiving ==
    ASSUME Stepping, Receiving'
    PROVE  \/ Receiving /\ stack'[Client] = stack[Client]
           \/ /\ Validate /\ At(Client, "validate") /\ At(Client, "accept")'
              /\ physLock = None /\ UNCHANGED <<op, arm>>
           \/ Receive /\ Idle(Client) /\ At(Client, "validate")'
<1>1. Client \in Threads /\ TypeOK /\ Outcomes /\ Granting /\ Next /\ ~Crash
  BY Steps DEF Threads
<1>2. ~\E h : Above(h, "validate") \/ Above(h, "accept")
  BY DEF Above, MoveEnds, MoveOrders
<1>3. CASE At(Client, "validate")'
  <2>1. \A ls \in Seq(Labels) : ls # <<>> /\ Head(ls) = "validate" => ~Leads(Head(stack[Client]), ls)
    BY DEF Leads
  <2>2. (stack'[Client] = stack[Client] /\ At(Client, "validate")) \/ Idle(Client)
    BY <1>1, <1>2, <1>3, <2>1, Came DEF MoveOrders, Enters, At, Idle
  <2>3. QED
    BY <1>3, <2>2, ClientBegins DEF Receiving
<1>4. CASE At(Client, "accept")'
  <2>1. \A ls \in Seq(Labels) : Begins(Client, ls) => Head(ls) # "accept"
    BY DEF Begins, MoveOrders
  <2>2. CASE stack'[Client] = stack[Client]
    BY <1>4, <2>2 DEF Receiving, At
  <2>3. ASSUME ~Idle(Client), NEW ls \in Seq(Labels), Leads(Head(stack[Client]), ls),
               stack'[Client] = ls \o Tail(stack[Client]), ls # <<>>, Head(ls) = "accept"
        PROVE  /\ Validate /\ At(Client, "validate")
               /\ physLock = None /\ UNCHANGED <<op, arm>>
    <3>1. At(Client, "validate") /\ stack'[Client] # stack[Client]
      BY <1>4, <2>3 DEF Leads, At, Idle
    <3>2. Validate
      BY <1>1, <3>1, GoesOnAt
    <3>3. ~Finish(Client)
      BY <1>1, <2>3, PopsNot DEF Finish
    <3>4. ~Go(Client, <<"stopping">>)
      <4>1. <<"stopping">> \in Seq(Labels) /\ Head(<<"stopping">>) = "stopping"
        BY DEF Labels, Stops
      <4>2. Go(Client, <<"stopping">>) => At(Client, "stopping")'
        BY <1>1, <2>3, <4>1, GoHead
      <4>3. QED
        BY <1>4, <4>2 DEF At
    <3>5. QED
      BY <3>1, <3>2, <3>3, <3>4 DEF Validate
  <2>4. QED
    BY <1>1, <1>2, <1>4, <2>1, <2>2, <2>3, Came DEF MoveOrders
<1>5. QED
  BY <1>3, <1>4 DEF Receiving, At

\* As long as it is there, what was received stays.
LEMMA ReceivedStays ==
    ASSUME Stepping, Receiving, stack'[Client] = stack[Client]
    PROVE  /\ ~Prepare /\ ~Prepared /\ ~Receive /\ ~Validate /\ ~Accept
           /\ op'.offer = op.offer
<1>1. Client \in Threads /\ TypeOK /\ ~Idle(Client)
  BY Steps DEF Threads, Receiving, At, Idle
<1>2. ~Prepare /\ ~Receive /\ ~Prepared
  BY <1>1 DEF Prepare, Receive, Prepared, Receiving, At
<1>3. ~Finish(Client)
  BY <1>1, Pops DEF Finish
<1>4. ~Validate
  <2>1. \A l \in {"accept", "stopping"} : <<l>> \in Seq(Labels) /\ Head(<<l>>) = l
    BY DEF Labels, Stops
  <2>2. ASSUME NEW l \in {"accept", "stopping"}, Go(Client, <<l>>) PROVE At(Client, l)
    BY <1>1, <2>1, <2>2, GoHead DEF At
  <2>3. At(Client, "validate") => ~Go(Client, <<"accept">>) /\ ~Go(Client, <<"stopping">>)
    BY <2>2 DEF At
  <2>4. QED
    BY <1>3, <2>3 DEF Validate
<1>5. ~Accept
  <2>1. Accept => stack'[Client] = <<>>
    BY <1>1, <1>3, ThreadsDistinct DEF Accept, TypeOK
  <2>2. QED
    BY <1>1, <2>1 DEF Idle
<1>6. op'.offer = op.offer
  BY <1>2, <1>4, <1>5, Turns DEF OpTurned, Kept, Drops, Offers, Ends, Revokes, Files
<1>7. QED
  BY <1>2, <1>4, <1>5, <1>6

\* Who is within a hold was, or begins one and takes the lease.
LEMMA CameHeld ==
    ASSUME Stepping, NEW t \in Threads, Within(t, "held")'
    PROVE  Within(t, "held") \/ (Hold(t) /\ arm.link /\ op'.lease = None)
<1>1. TypeOK /\ Outcomes /\ Granting /\ Next /\ ~Crash /\ AllMoved /\ op \in Ops
  BY Steps, Types
<1>2. Within(t, "held") \/ At(t, "hold")
  <2>1. ASSUME NEW ls \in Seq(Labels), Leads(Head(stack[t]), ls), NEW j \in DOMAIN ls, ls[j] = "held"
        PROVE  Head(stack[t]) = "hold"
    BY <2>1 DEF Leads
  <2>2. ASSUME NEW ls \in Seq(Labels), Begins(t, ls), NEW j \in DOMAIN ls, ls[j] = "held"
        PROVE  FALSE
    BY <2>2 DEF Begins, MoveOrders
  <2>3. QED
    BY <1>1, <2>1, <2>2, WithinCame DEF MoveOrders, At, Idle
<1>3. ASSUME ~Within(t, "held") PROVE Hold(t) /\ arm.link /\ op'.lease = None
  <2>1. At(t, "hold") /\ stack'[t] # stack[t]
    BY <1>2, <1>3 DEF Within
  <2>2. Hold(t)
    BY <1>1, <2>1, GoesOnAt
  <2>3. ASSUME ~arm.link PROVE FALSE
    <3>1. Return(t, "raised") /\ ~Idle(t)
      BY <2>1, <2>2, <2>3 DEF Hold, At, Idle
    <3>2. stack[t] \in Seq(Labels) /\ stack[t] # <<>> /\ <<>> \in Seq(Labels)
      BY <1>1, <2>1, EmptySeq DEF TypeOK, At
    <3>3. stack'[t] = <<>> \o Tail(stack[t])
      BY <1>1, <3>1, <3>2, Pops, Push
    <3>4. \A i \in DOMAIN stack'[t] : \E j \in DOMAIN stack[t] : stack'[t][i] = stack[t][j]
      <4>1. DOMAIN <<>> = {}
        OBVIOUS
      <4>2. QED
        BY <1>1, <3>1, <3>2, <3>3, <4>1, MovedTo
    <3>5. QED
      BY <1>3, <3>4 DEF Within
  <2>4. op'.lease = None
    BY <1>1, <2>2, <2>3 DEF Hold, Revoke, Ops
  <2>5. QED
    BY <2>2, <2>3, <2>4
<1>4. QED
  BY <1>3

LEMMA NextReceivedAlone ==
    ASSUME Stepping
    PROVE  ReceivedAlone'
<1> SUFFICES ASSUME Receiving'
             PROVE  op'.offer # None /\ \A e \in Executors : ~Working(e)'
  BY DEF ReceivedAlone, Receiving, At, Working, Within, ActionSteps
<1>1. /\ TypeOK /\ Ordered /\ LockRecovers /\ LivePends /\ ReceivedAlone /\ op \in Ops
      /\ Client \in Threads
  BY Steps, Types DEF Threads
<1>2. stack'[Client] # <<>>
  BY DEF Receiving, At
<1>3. ASSUME Receiving PROVE \A e \in Executors : ~Working(e)'
  BY <1>1, <1>2, <1>3, WorkingCame DEF ReceivedAlone, Accepted
<1>4. CASE Receiving /\ stack'[Client] = stack[Client]
  BY <1>1, <1>3, <1>4, ReceivedStays DEF ReceivedAlone
<1>5. CASE At(Client, "validate") /\ UNCHANGED op
  BY <1>1, <1>3, <1>5 DEF ReceivedAlone, Receiving
<1>6. CASE Receive /\ Idle(Client)
  <2>1. op'.offer # None /\ op.pending = None /\ Prompt(Client)
    BY <1>1, <1>6 DEF Receive, Ops
  <2>2. ASSUME NEW e \in Executors, Working(e)' PROVE FALSE
    <3>1. Working(e)
      BY <1>2, <2>2, WorkingCame DEF Accepted
    <3>2. e \in Threads /\ ~Idle(e) /\ e # Client /\ e # None
      BY <1>1, <3>1, WorkingTop, ThreadsDistinct
    <3>3. Waits(e)
      BY <2>1, <3>2 DEF Prompt
    <3>4. op.pending = e
      BY <1>1, <3>1, <3>3, WaitingWorkerIsLive DEF LivePends
    <3>5. QED
      BY <2>1, <3>2, <3>4
  <2>3. QED
    BY <2>1, <2>2
<1>7. QED
  BY <1>4, <1>5, <1>6, CameReceiving

----------------------------------------------------------------------------
(* Who may still move.                                                     *)

\* Nothing but a hold, which cancels it, takes its place from an action that moves.
LEMMA LiveKeeps ==
    ASSUME Stepping, NEW e \in Executors, Live(e), ~(Cancels /\ op.pending = e)
    PROVE  /\ op.pending = e
           /\ \/ Kept \/ Drops \/ \E t \in Threads : Offers(t)
              \/ Stays /\ Modest /\ op'.deadline = op.deadline
<1>1. /\ TypeOK /\ Ordered /\ LivePends /\ LiveUnheld /\ OneRelease /\ OneWorker
      /\ OfferedUnmoved /\ ReceivedAlone
  BY Steps
<1>2. op.pending = e /\ Working(e) /\ Acting(e) /\ arm.state \in Held
  BY <1>1, ActingWorks DEF LivePends, Live
<1>3. ASSUME NEW t \in Threads PROVE ~Ends(t) /\ ~Revokes(t) /\ ~Files(t)
  <2>1. ~At(t, "held") /\ ~At(t, "stopped")
    BY <1>1, <1>2, AtWithin DEF LiveUnheld, OneRelease
  <2>2. ~Revokes(t)
    BY <1>2 DEF Revokes, Cancels
  <2>3. ~Files(t)
    <3>1. SUFFICES ASSUME Files(t) PROVE FALSE
      OBVIOUS
    <3>2. t \in Executors /\ (At(t, "acted") \/ At(t, "played") \/ At(t, "act_failed"))
      BY <3>1 DEF Files
    <3>3. Working(t)
      BY <1>1, <3>2, AtWithin DEF Working, ActionSteps
    <3>4. t = e
      BY <1>1, <1>2, <3>2, <3>3 DEF OneWorker
    <3>5. QED
      BY <1>2, <3>2, <3>4 DEF Acting, At
  <2>4. QED
    BY <2>1, <2>2, <2>3 DEF Ends
<1>4. ~Prepare /\ ~Prepared /\ ~Accept
  <2>1. ~Offered /\ ~At(Client, "prepared") /\ ~At(Client, "accept")
    BY <1>1, <1>2 DEF OfferedUnmoved, ReceivedAlone, Receiving
  <2>2. QED
    BY <2>1 DEF Prepare, Prepared, Accept, Offered
<1>5. QED
  BY <1>2, <1>3, <1>4, Turns DEF OpTurned

LEMMA NextLivePends ==
    ASSUME Stepping
    PROVE  LivePends'
<1>1. ASSUME NEW e \in Executors, Live(e)' PROVE op'.pending = e
  <2>1. CASE Accepted(e)
    BY <2>1 DEF Accepted
  <2>2. CASE Live(e) /\ ~(Cancels /\ op.pending = e)
    BY <2>2, LiveKeeps DEF Kept, Stays, Drops, Offers
  <2>3. QED
    BY <1>1, <2>1, <2>2, LiveCame
<1>2. QED
  BY <1>1 DEF LivePends, Live, Acting, At

LEMMA NextLiveUnheld ==
    ASSUME Stepping
    PROVE  LiveUnheld'
<1>1. ASSUME NEW e \in Executors, Live(e)', NEW t \in Threads, Within(t, "held")' PROVE FALSE
  <2>1. CASE Accepted(e)
    <3>1. /\ At(Client, "accept") /\ StillAuthorized /\ UNCHANGED arm
          /\ op'.lease = op.lease /\ op.lease = op.offer
      BY <2>1 DEF Accepted, StillAuthorized
    <3>2. op.offer # None
      BY <3>1, Steps DEF ReceivedAlone, Receiving
    <3>3. arm.state \in Held
      BY <1>1, <3>1 DEF Live
    <3>4. ~Within(t, "held")
      BY <3>1, <3>3, Steps DEF ReceivedUnheld, Receiving, At
    <3>5. QED
      BY <1>1, <3>1, <3>2, <3>4, CameHeld
  <2>2. CASE Live(e) /\ ~(Cancels /\ op.pending = e)
    <3>1. op.pending = e /\ ~Within(t, "held")
      BY <2>2, Steps DEF LivePends, LiveUnheld
    <3>2. QED
      BY <1>1, <2>2, <3>1, CameHeld DEF Cancels
  <2>3. QED
    BY <1>1, <2>1, <2>2, LiveCame
<1>2. QED
  BY <1>1 DEF LiveUnheld, Live, Acting, At, Within

LEMMA NextLiveLeased ==
    ASSUME Stepping
    PROVE  LiveLeased'
<1>1. ASSUME NEW e \in Executors, Live(e)'
      PROVE  op'.lease = action'[e].run \/ Closed(e)' \/ At(Client, "hold")'
  <2>1. CASE Accepted(e)
    BY <2>1 DEF Accepted, StillAuthorized
  <2>2. CASE Live(e) /\ action'[e].run = action[e].run /\ ~(Cancels /\ op.pending = e)
    <3>1. /\ op.pending = e
          /\ \/ Kept \/ Drops \/ \E t \in Threads : Offers(t)
             \/ Stays /\ Modest /\ op'.deadline = op.deadline
      BY <2>2, LiveKeeps
    <3>2. \/ Stays /\ op'.deadline \in {op.deadline, None}
          \/ Drops
      BY <3>1 DEF Kept, Offers
    <3>3. CASE Drops
      BY <3>1, <3>3 DEF Drops, Closed
    <3>4. CASE Stays /\ op'.deadline \in {op.deadline, None}
      <4>1. CASE op.lease = action[e].run
        BY <2>2, <3>4, <4>1 DEF Stays
      <4>2. CASE Closed(e)
        BY <3>4, <4>2 DEF Stays, Closed
      <4>3. CASE At(Client, "hold")
        <5>1. CASE stack'[Client] = stack[Client]
          BY <4>3, <5>1 DEF At
        <5>2. CASE stack'[Client] # stack[Client]
          <6>1. Client \in Threads /\ Hold(Client)
            BY <4>3, <5>2, Steps, GoesOnAt DEF Threads
          <6>2. arm.link
            BY <2>2, Steps DEF Poised, Live, Held
          <6>3. QED
            BY <2>2, <3>1, <6>1, <6>2 DEF Cancels
        <5>3. QED
          BY <5>1, <5>2
      <4>4. QED
        BY <2>2, <4>1, <4>2, <4>3, Steps DEF LiveLeased
    <3>5. QED
      BY <3>2, <3>3, <3>4
  <2>3. QED
    BY <1>1, <2>1, <2>2, LiveCame
<1>2. QED
  BY <1>1 DEF LiveLeased, Live, Acting, Closed, At

LEMMA NextReceivedUnheld ==
    ASSUME Stepping
    PROVE  ReceivedUnheld'
<1> SUFFICES ASSUME Receiving', StillAuthorized', arm'.state \in Held
             PROVE  \/ \A t \in Threads : ~Within(t, "held")'
                    \/ At(Client, "validate")' /\ \E t \in Threads : At(t, "launched")'
  BY DEF ReceivedUnheld, Receiving, StillAuthorized, At, Within
<1>1. /\ TypeOK /\ Ordered /\ Mutex /\ Outcomes /\ Granting /\ Next /\ ~Crash /\ Turned
      /\ ReceivedAlone /\ ReceivedUnheld /\ op \in Ops /\ Client \in Threads
  BY Steps, Types DEF Threads
<1>2. op'.offer # None /\ op'.lease = op'.offer /\ op'.mode = "API_ACTIVE"
  BY NextReceivedAlone DEF ReceivedAlone, StillAuthorized
<1>3. \A t \in Threads : Within(t, "held")' => Within(t, "held")
  BY <1>2, CameHeld
<1>4. CASE Receive /\ Idle(Client)
  <2>1. arm.state \in Held /\ Prompt(Client)
    BY <1>4 DEF Receive
  <2>2. ASSUME NEW t \in Threads, Within(t, "held")' PROVE FALSE
    <3>1. Within(t, "held") /\ stack[t] # <<>>
          /\ (Head(stack[t]) = "held" \/ Above(Head(stack[t]), "held"))
      BY <1>1, <1>3, <2>2, WithinHead
    <3>2. Head(stack[t]) \in {"held", "holding", "hold_wait"} /\ ~Idle(t) /\ t # Client
      BY <1>4, <3>1 DEF Above, MoveEnds, MoveOrders, Idle
    <3>3. QED
      BY <2>1, <3>2 DEF Prompt, Waits, Moving, At, Held
  <2>3. QED
    BY <2>2
<1>5. CASE At(Client, "validate") /\ physLock = None /\ UNCHANGED <<op, arm>>
  <2>1. StillAuthorized /\ arm.state \in Held /\ Receiving
    BY <1>5 DEF StillAuthorized, Receiving
  <2>2. \A t \in Threads : ~At(t, "launched")
    BY <1>1, <1>5, AtOwner, ThreadsDistinct DEF Locked, LaunchSteps, Threads
  <2>3. QED
    BY <1>1, <1>3, <2>1, <2>2 DEF ReceivedUnheld
<1>6. CASE Receiving /\ stack'[Client] = stack[Client]
  <2>1. StillAuthorized
    <3>1. /\ ~Prepare /\ ~Prepared /\ ~Receive /\ ~Validate /\ ~Accept
          /\ op'.offer = op.offer
      BY <1>6, ReceivedStays
    <3>2. op'.lease # None
      BY <1>2
    <3>3. op'.lease = op.lease /\ op.mode = "API_ACTIVE"
      BY <1>2, <3>1, <3>2, Turns
      DEF OpTurned, Kept, Stays, Modest, Drops, Offers, Ends, Revokes, Files
    <3>4. QED
      BY <1>2, <3>1, <3>3 DEF StillAuthorized
  <2>2. CASE arm.state \in Held
    <3>1. CASE \A t \in Threads : ~Within(t, "held")
      BY <1>3, <3>1
    <3>2. ASSUME At(Client, "validate"), NEW t \in Threads, At(t, "launched")
          PROVE  At(Client, "validate")' /\ At(t, "launched")'
      <4>1. stack'[t] = stack[t]
        <5>1. Launched(t) => op'.mode = "STOPPED"
          BY <1>1 DEF Launched, Ops
        <5>2. stack'[t] # stack[t] => Launched(t)
          BY <1>1, <3>2, GoesOnAt
        <5>3. QED
          BY <1>2, <5>1, <5>2
      <4>2. QED
        BY <1>6, <3>2, <4>1 DEF At
    <3>3. QED
      BY <1>1, <1>6, <2>1, <2>2, <3>1, <3>2 DEF ReceivedUnheld
  <2>3. CASE arm.state \notin Held
    <3>1. PICK t \in Threads : Enabled(t)
      BY <1>1, <2>3, HeldCame
    <3>2. At(t, "initializing") /\ Go(t, <<"launched">>) /\ ~Idle(t)
      BY <3>1 DEF Enabled, At, Idle
    <3>3. <<"launched">> \in Seq(Labels) /\ Head(<<"launched">>) = "launched"
      BY DEF Labels
    <3>4. At(t, "launched")'
      BY <1>1, <3>2, <3>3, GoHead
    <3>5. t # Client /\ ~Idle(Client)
      BY <1>6, <3>2 DEF Receiving, At, Idle
    <3>6. At(Client, "validate")
      BY <1>1, <1>6, <3>1, <3>5, PromptLaunch DEF Receiving, At
    <3>7. QED
      BY <1>6, <3>4, <3>6 DEF At
  <2>4. QED
    BY <2>2, <2>3
<1>7. QED
  BY <1>4, <1>5, <1>6, CameReceiving

----------------------------------------------------------------------------
(* Who offers the station.                                                 *)

LEMMA NextOfferedUnmoved ==
    ASSUME Stepping
    PROVE  OfferedUnmoved'
<1>1. ASSUME NEW e \in Executors, Live(e)', Offered' \/ At(Client, "prepared")' PROVE FALSE
  <2>1. Client \in Threads
    BY ThreadsDistinct DEF Threads
  <2>2. CASE Accepted(e)
    <3>1. op'.mode = "API_ACTIVE" /\ stack'[Client] = <<>>
      BY <2>2 DEF Accepted, StillAuthorized
    <3>2. QED
      BY <1>1, <3>1 DEF Offered, At
  <2>3. CASE Live(e) /\ ~(Cancels /\ op.pending = e)
    <3>1. ~Offered /\ ~At(Client, "prepared")
      BY <2>3, Steps DEF OfferedUnmoved
    <3>2. CASE Offered'
      <4>1. PICK t \in Threads : Offers(t)
        BY <2>3, <3>1, <3>2, LiveKeeps DEF Kept, Drops, Modest
      <4>2. op.pending = None
        BY <4>1, Steps DEF Offers, GrantsFree
      <4>3. QED
        BY <2>3, <4>2, LiveKeeps, ThreadsDistinct
    <3>3. CASE At(Client, "prepared")'
      <4>1. ~\E h : Above(h, "prepared")
        BY DEF Above, MoveEnds, MoveOrders
      <4>2. \A h : \A ls \in Seq(Labels) : ls # <<>> /\ Head(ls) = "prepared" => ~Leads(h, ls)
        BY DEF Leads
      <4>3. Idle(Client)
        BY <2>1, <3>1, <3>3, <4>1, <4>2, Came DEF MoveOrders
      <4>4. Prepare
        BY <3>3, <4>3, ClientBegins
      <4>5. QED
        BY <3>1, <4>4 DEF Prepare, Offered
    <3>4. QED
      BY <1>1, <3>2, <3>3
  <2>4. QED
    BY <1>1, <2>2, <2>3, LiveCame
<1>2. QED
  BY <1>1 DEF OfferedUnmoved, Offered, Live, Acting, At

\* Nobody takes the lease, or gives an action, while another has _physical_lock.
LEMMA FreeStays ==
    ASSUME Stepping, op.lease = None, op.pending = None, physLock # None
    PROVE  op'.lease = None /\ op'.pending = None
<1>1. Accept => op'.pending = None
  <2>1. SUFFICES ASSUME Accept PROVE op'.pending = None
    OBVIOUS
  <2>2. op.offer # None
    BY <2>1, Steps DEF Accept, ReceivedAlone, Receiving
  <2>3. op' = [op EXCEPT !.offer = None]
    BY <2>1, <2>2 DEF Accept, StillAuthorized
  <2>4. QED
    BY <2>3, Steps, Types DEF Ops
<1>2. QED
  BY <1>1, Turns DEF OpTurned, Kept, Stays, Drops, Offers, Ends, Revokes, Files

LEMMA NextGrantsFree ==
    ASSUME Stepping
    PROVE  GrantsFree'
<1>1. /\ TypeOK /\ Ordered /\ Mutex /\ Kinds /\ Kinds' /\ Outcomes /\ Granting /\ Next /\ ~Crash
      /\ GrantsFree /\ EntersFirst /\ LeaseIsFree /\ TypeOK'
  BY Steps
<1>2. ASSUME NEW t \in Threads, NEW l \in {"run_policy", "grant"}, At(t, l)',
             stack'[t] = stack[t], At(t, l)
      PROVE  op'.lease = None /\ op'.pending = None
  <2>1. physLock = t /\ t # None
    BY <1>1, <1>2, AtOwner, ThreadsDistinct DEF Locked, MoveOrders, Threads
  <2>2. QED
    BY <1>1, <1>2, <2>1, FreeStays DEF GrantsFree
<1>3. ASSUME NEW t \in Threads, At(t, "grant")' PROVE op'.lease = None /\ op'.pending = None
  <2>1. ~\E h : Above(h, "grant")
    BY DEF Above, MoveEnds, MoveOrders
  <2>2. \A ls : Begins(t, ls) => Head(ls) # "grant"
    BY DEF Begins, MoveOrders
  <2>3. ASSUME ~Idle(t), NEW ls \in Seq(Labels), Leads(Head(stack[t]), ls),
               ls # <<>>, Head(ls) = "grant"
        PROVE  op'.lease = None /\ op'.pending = None
    <3>1. At(t, "at_home") /\ stack'[t] # stack[t]
      BY <1>3, <2>3 DEF Leads, At, Idle
    <3>2. SeekHome
      BY <1>1, <3>1, GoesOnAt
    <3>3. t = Queue
      <4>1. stack[t] \in Seq(Labels) /\ stack[t] # <<>>
        BY <1>1, <3>1 DEF TypeOK, At
      <4>2. 1 \in DOMAIN stack[t] /\ stack[t][1] = "at_home"
        BY <3>1, <4>1, Push DEF At
      <4>3. OfKind(t, stack[t][1])
        BY <1>1, <4>2 DEF Kinds
      <4>4. QED
        BY <4>2, <4>3 DEF OfKind
    <3>4. ASSUME NEW a \in {"cancelled", "start_failed"}, Go(Queue, <<a>>) PROVE FALSE
      <4>1. <<a>> \in Seq(Labels) /\ Head(<<a>>) = a
        BY DEF Labels
      <4>2. At(Queue, a)'
        BY <1>1, <2>3, <3>3, <3>4, <4>1, GoHead
      <4>3. QED
        BY <1>3, <3>3, <4>2 DEF At
    <3>5. AtHome /\ UNCHANGED op
      <4>1. ~Go(Queue, <<"cancelled">>) /\ ~Go(Queue, <<"start_failed">>)
        BY <3>4
      <4>2. QED
        BY <3>2, <4>1 DEF SeekHome, Checked
    <3>6. op.lease = None
      BY <1>1, <3>1, <3>3, AtOwner DEF Locked, LeaseIsFree
    <3>7. QED
      BY <3>5, <3>6 DEF AtHome
  <2>4. QED
    BY <1>2, <1>3, <2>1, <2>2, <2>3, Came DEF MoveOrders
<1>4. ASSUME NEW t \in Threads, At(t, "run_policy")' PROVE op'.lease = None /\ op'.pending = None
  <2>1. \A h : \A ls \in Seq(Labels) : ls # <<>> /\ Head(ls) = "run_policy" => ~Leads(h, ls)
    BY DEF Leads
  <2>2. \A ls : Begins(t, ls) => Head(ls) # "run_policy"
    BY DEF Begins, MoveOrders
  <2>3. ASSUME ~Idle(t), Len(stack[t]) > 1, stack[t][2] = "run_policy",
               Above(Head(stack[t]), "run_policy"), Leads(Head(stack[t]), <<>>)
        PROVE  FALSE
    <3>1. Head(stack[t]) = "pause_handoff"
      BY <2>3 DEF Above, MoveEnds, Leads
    <3>2. stack[t] \in Seq(Labels) /\ stack[t] # <<>>
      BY <1>1, <2>3 DEF TypeOK, Idle
    <3>3. 2 \in DOMAIN stack[t] /\ stack[t][1] = "pause_handoff"
      BY <2>3, <3>1, <3>2, Push
    <3>4. OfKind(t, "run_policy")
      BY <1>1, <2>3, <3>3 DEF Kinds
    <3>5. t \in Panel
      BY <3>4 DEF OfKind
    <3>6. stack[t][2 - 1] = "enter"
      BY <1>1, <2>3, <3>3, <3>5 DEF EntersFirst
    <3>7. QED
      BY <3>3, <3>6
  <2>4. ASSUME Enters(t, stack'[t]) PROVE op'.lease = None /\ op'.pending = None
    <3>1. At(t, "enter") /\ t \in Panel /\ stack'[t] # stack[t]
      BY <1>4, <2>4 DEF Enters, At
    <3>2. Enter(t)
      BY <1>1, <3>1, GoesOnAt
    <3>3. UNCHANGED op /\ PolicyReady
      <4>1. CASE stack[t][2] = "run_policy" /\ ~PolicyReady
        <5>1. stack'[t] = <<>>
          BY <1>1, <3>2, <4>1 DEF Enter, TypeOK
        <5>2. QED
          BY <1>4, <5>1 DEF At
      <4>2. CASE stack[t][2] # "run_policy"
        <5>1. stack'[t] \in {<<>>, <<stack[t][2]>>, <<"launch", "launch_result">>}
          BY <2>4 DEF Enters
        <5>2. QED
          BY <1>4, <4>2, <5>1 DEF At
      <4>3. QED
        BY <3>2, <4>1, <4>2 DEF Enter
    <3>4. QED
      BY <3>3 DEF PolicyReady
  <2>5. QED
    BY <1>2, <1>4, <2>1, <2>2, <2>3, <2>4, Came
<1>5. QED
  BY <1>3, <1>4 DEF GrantsFree, At

LEMMA NextEntersFirst ==
    ASSUME Stepping
    PROVE  EntersFirst'
<1>1. ASSUME NEW p \in Panel, NEW i \in DOMAIN stack'[p], stack'[p][i] = "run_policy", i > 1
      PROVE  stack'[p][i - 1] = "enter"
  <2>1. p \in Threads /\ Moved(p) /\ stack[p] \in Seq(Labels) /\ stack'[p] \in Seq(Labels)
    BY Steps DEF Threads, AllMoved, TypeOK
  <2>2. CASE stack'[p] = stack[p]
    BY <1>1, <2>2, Steps DEF EntersFirst
  <2>3. CASE stack'[p] = <<>>
    BY <1>1, <2>3
  <2>4. ASSUME ~Idle(p), NEW ls \in Seq(Labels), Leads(Head(stack[p]), ls),
               stack'[p] = ls \o Tail(stack[p])
        PROVE  stack'[p][i - 1] = "enter"
    <3>1. /\ Len(stack[p]) \in Nat \ {0} /\ Len(ls) \in Nat /\ Head(stack[p]) = stack[p][1]
          /\ DOMAIN stack[p] = 1 .. Len(stack[p]) /\ DOMAIN ls = 1 .. Len(ls)
          /\ DOMAIN stack'[p] = 1 .. (Len(ls) + Len(stack[p]) - 1)
          /\ \A k \in 1 .. Len(ls) : stack'[p][k] = ls[k]
          /\ \A k \in (Len(ls) + 1) .. (Len(ls) + Len(stack[p]) - 1) :
                stack'[p][k] = stack[p][k - Len(ls) + 1]
      BY <2>1, <2>4, Push DEF Idle
    <3>2. \A j \in DOMAIN ls : ls[j] # "run_policy"
      BY <2>4 DEF Leads
    <3>3. i \in (Len(ls) + 1) .. (Len(ls) + Len(stack[p]) - 1)
      BY <1>1, <3>1, <3>2
    <3>4. ASSUME NEW k \in Int, k = i - Len(ls) + 1 PROVE stack[p][i - Len(ls)] = "enter"
      <4>1. k \in DOMAIN stack[p] /\ k > 1 /\ k - 1 = i - Len(ls) /\ stack[p][k] = stack'[p][i]
        BY <3>1, <3>3, <3>4
      <4>2. stack[p][k - 1] = "enter"
        BY <1>1, <4>1, Steps DEF EntersFirst
      <4>3. QED
        BY <4>1, <4>2
    <3>5. stack[p][i - Len(ls)] = "enter"
      <4>1. i - Len(ls) + 1 \in Int
        BY <3>1, <3>3
      <4>2. QED
        BY <3>4, <4>1
    <3>6. i - Len(ls) # 1
      BY <2>4, <3>1, <3>5 DEF Leads
    <3>7. i - 1 \in (Len(ls) + 1) .. (Len(ls) + Len(stack[p]) - 1) /\ i - 1 - Len(ls) + 1 = i - Len(ls)
      BY <3>1, <3>3, <3>6
    <3>8. QED
      BY <3>1, <3>5, <3>7
  <2>5. ASSUME NEW ls \in Seq(Labels), Begins(p, ls), stack'[p] = ls PROVE stack'[p][i - 1] = "enter"
    <3>1. \/ ls \in {<<"pause_clear", "stop">>, <<"hold">>, <<"pause">>}
          \/ \E o \in MoveOrders : ls \in {<<"enter", o>>, <<"pause", "enter", o>>}
      BY <2>5, ThreadsDistinct DEF Begins
    <3>2. CASE ls \in {<<"pause_clear", "stop">>, <<"hold">>, <<"pause">>}
      BY <1>1, <2>5, <3>2
    <3>3. ASSUME NEW o \in MoveOrders, ls = <<"enter", o>> PROVE i - 1 = 1 /\ ls[1] = "enter"
      BY <1>1, <2>5, <3>3
    <3>4. ASSUME NEW o \in MoveOrders, ls = <<"pause", "enter", o>>
          PROVE  i - 1 = 2 /\ ls[2] = "enter"
      BY <1>1, <2>5, <3>4
    <3>5. QED
      BY <2>5, <3>1, <3>2, <3>3, <3>4
  <2>6. CASE Enters(p, stack'[p])
    BY <1>1, <2>6 DEF Enters
  <2>7. QED
    BY <2>1, <2>2, <2>3, <2>4, <2>5, <2>6 DEF Moved
<1>2. QED
  BY <1>1 DEF EntersFirst

----------------------------------------------------------------------------
(* The operator's motions, the lock of a recovery, and the offer at Home.  *)

LEMMA NextMovesAnnounced ==
    ASSUME Stepping
    PROVE  MovesAnnounced'
<1>1. /\ TypeOK /\ Ordered /\ Mutex /\ Outcomes /\ Granting /\ Next /\ ~Crash /\ op \in Ops
      /\ MovesAnnounced
  BY Steps, Types
<1>2. ASSUME NEW t \in Threads, At(t, "move")', stack'[t][2] \in {"homed", "at_zero", "wrist_end"},
             stack'[t] = stack[t], At(t, "move")
      PROVE  op'.mode # "API_WAITING"
  <2>1. stack[t] \in Seq(Labels) /\ stack[t] # <<>> /\ Head(stack[t]) = "move"
    BY <1>1, <1>2 DEF TypeOK, At
  <2>2. /\ Len(stack[t]) \in Nat \ {0} /\ stack[t][1] = "move" /\ DOMAIN stack[t] = 1 .. Len(stack[t])
    BY <2>1, Push
  <2>3. 1 \in DOMAIN stack[t] /\ 1 < Len(stack[t])
    BY <1>1, <2>2 DEF Ordered, Stacked, Moves
  <2>4. 2 \in DOMAIN stack[t]
    BY <2>2, <2>3
  <2>5. Within(t, stack[t][2]) /\ stack[t][2] \in Locked \ MoveOrders
    BY <1>2, <2>4 DEF Within, Locked, MoveOrders
  <2>6. physLock = t
    BY <1>1, <2>5, WithinOwner
  <2>7. ASSUME NEW x \in Threads, Offers(x) PROVE FALSE
    <3>1. physLock = x
      BY <1>1, <2>7, AtOwner DEF Offers, Locked, MoveOrders
    <3>2. QED
      BY <2>1, <2>6, <2>7, <3>1 DEF Offers, At
  <2>8. op.mode # "API_WAITING"
    BY <1>1, <1>2 DEF MovesAnnounced
  <2>9. QED
    BY <2>7, <2>8, Turns DEF OpTurned, Kept, Modest, Drops, Ends, Revokes, Files
<1>3. ASSUME NEW t \in Threads, At(t, "move")', stack'[t][2] \in {"homed", "at_zero", "wrist_end"},
             ~Idle(t), NEW ls \in Seq(Labels), Leads(Head(stack[t]), ls),
             stack'[t] = ls \o Tail(stack[t]), ls # <<>>, Head(ls) = "move"
      PROVE  op'.mode # "API_WAITING"
  <2>1. stack[t] \in Seq(Labels) /\ stack[t] # <<>>
    BY <1>1, <1>3 DEF TypeOK, Idle
  <2>2. ls \in {<<"move", "homed">>, <<"move", "at_zero">>, <<"move", "wrist_end">>,
                <<"move", "played">>, <<"move", "acted">>}
    BY <1>3 DEF Leads
  <2>3. Len(ls) = 2
    BY <2>2
  <2>4. stack'[t][2] = ls[2]
    <3>1. 2 \in 1 .. Len(ls)
      BY <2>3
    <3>2. QED
      BY <1>3, <2>1, <3>1, Push
  <2>5. ls \in {<<"move", "homed">>, <<"move", "at_zero">>, <<"move", "wrist_end">>}
    BY <1>3, <2>2, <2>4
  <2>6. At(t, "homing") \/ At(t, "parking") \/ At(t, "wrist")
    BY <1>3, <2>1, <2>5 DEF Leads, At
  <2>7. stack'[t] # stack[t]
    BY <1>3, <2>6 DEF At
  <2>8. ~\E r : Return(t, r)
    BY <1>1, <1>3, PopsNot
  <2>9. CASE At(t, "homing")
    <3>1. Homing(t)
      BY <1>1, <2>7, <2>9, GoesOnAt
    <3>2. QED
      BY <1>1, <3>1 DEF Homing, Ops
  <2>10. CASE At(t, "parking")
    <3>1. Parking(t)
      BY <1>1, <2>7, <2>10, GoesOnAt
    <3>2. QED
      BY <1>1, <2>8, <3>1 DEF Parking, Ops
  <2>11. CASE At(t, "wrist")
    <3>1. WristTest(t)
      BY <1>1, <2>7, <2>11, GoesOnAt
    <3>2. QED
      BY <1>1, <2>8, <3>1 DEF WristTest, Finish, Ops
  <2>12. QED
    BY <2>6, <2>9, <2>10, <2>11
<1>4. ~\E h : Above(h, "move")
  BY DEF Above, MoveEnds, MoveOrders
<1>5. ASSUME NEW t \in Threads, NEW ls \in Seq(Labels), Begins(t, ls), Head(ls) = "move"
      PROVE  ls = <<"move", "waypath_end">>
  BY <1>5 DEF Begins, MoveOrders
<1>6. ASSUME NEW t \in Threads, At(t, "move")', stack'[t][2] \in {"homed", "at_zero", "wrist_end"}
      PROVE  op'.mode # "API_WAITING"
  BY <1>2, <1>3, <1>4, <1>5, <1>6, Came DEF MoveOrders
<1>7. QED
  BY <1>6 DEF MovesAnnounced, At

RecoverySteps == {"recovering", "parked_or_not", "recovered"}

LEMMA NextLockRecovers ==
    ASSUME Stepping
    PROVE  LockRecovers'
<1> SUFFICES ASSUME NEW e \in Executors, physLock' = e
             PROVE  \E l \in RecoverySteps : Within(e, l)'
  BY DEF LockRecovers, RecoverySteps, Within
<1>1. /\ TypeOK /\ Ordered /\ Kinds /\ Outcomes /\ Granting /\ Next /\ ~Crash /\ LockRecovers
      /\ e \in Threads /\ e # None /\ stack[e] \in Seq(Labels) /\ stack'[e] \in Seq(Labels)
      /\ Moved(e)
  BY Steps, ThreadsDistinct DEF Threads, TypeOK, AllMoved
<1>2. CASE Recover(e) /\ physLock # e
  <2>1. At(e, "recover") /\ Jump(e, <<"pause_clear", "hold", "recovering">>)
    BY <1>1, <1>2 DEF Recover, Finish, Return
  <2>2. stack[e] # <<>> /\ stack'[e] = <<"pause_clear", "hold", "recovering">> \o Tail(stack[e])
    BY <1>1, <2>1 DEF At, Jump, TypeOK
  <2>3. <<"pause_clear", "hold", "recovering">> \in Seq(Labels)
    BY DEF Labels, Holds
  <2>4. /\ Len(stack[e]) \in Nat \ {0}
        /\ DOMAIN stack'[e] = 1 .. (Len(<<"pause_clear", "hold", "recovering">>) + Len(stack[e]) - 1)
        /\ \A i \in 1 .. Len(<<"pause_clear", "hold", "recovering">>) :
              stack'[e][i] = <<"pause_clear", "hold", "recovering">>[i]
    BY <1>1, <2>2, <2>3, Push
  <2>5. 3 \in DOMAIN stack'[e] /\ stack'[e][3] = "recovering"
    BY <2>4
  <2>6. QED
    BY <2>5 DEF Within, RecoverySteps
<1>3. CASE physLock = e
  <2>1. PICK l \in RecoverySteps, i \in DOMAIN stack[e] : stack[e][i] = l
    BY <1>1, <1>3 DEF LockRecovers, RecoverySteps, Within
  <2>2. /\ Len(stack[e]) \in Nat \ {0} /\ DOMAIN stack[e] = 1 .. Len(stack[e])
        /\ stack[e] # <<>> /\ Head(stack[e]) = stack[e][1] /\ 1 \in DOMAIN stack[e]
    BY <1>1, <2>1, Push, EmptySeq
  <2>3. CASE stack'[e] = stack[e]
    BY <2>1, <2>3 DEF Within
  <2>4. ASSUME NEW ls \in Seq(Labels), Leads(Head(stack[e]), ls), stack'[e] = ls \o Tail(stack[e]),
               stack'[e] # stack[e]
        PROVE  \E m \in RecoverySteps : Within(e, m)'
    <3>1. \A j \in DOMAIN stack[e] :
                j > 1 => \E k \in DOMAIN stack'[e] : stack'[e][k] = stack[e][j]
      BY <1>1, <2>2, <2>4, MovedTo DEF Idle
    <3>2. CASE i > 1
      BY <2>1, <3>1, <3>2 DEF Within
    <3>3. ASSUME i = 1, NEW j \in DOMAIN ls, ls[j] \in RecoverySteps
          PROVE  \E m \in RecoverySteps : Within(e, m)'
      <4>1. j \in DOMAIN stack'[e] /\ stack'[e][j] = ls[j]
        <5>1. /\ Len(ls) \in Nat /\ DOMAIN ls = 1 .. Len(ls)
              /\ DOMAIN stack'[e] = 1 .. (Len(ls) + Len(stack[e]) - 1)
              /\ \A k \in 1 .. Len(ls) : stack'[e][k] = ls[k]
          BY <1>1, <2>2, <2>4, Push
        <5>2. QED
          BY <2>2, <3>3, <5>1
      <4>2. QED
        BY <3>3, <4>1 DEF Within
    <3>4. CASE i = 1 /\ l \in {"recovering", "parked_or_not"}
      <4>1. ls \in {<<"recovered">>, <<"stop", "recovered">>, <<"park", "parked_or_not">>}
        BY <2>1, <2>2, <2>4, <3>4 DEF Leads
      <4>2. \E j \in DOMAIN ls : ls[j] \in RecoverySteps
        <5>1. CASE ls = <<"recovered">>
          <6>1. 1 \in DOMAIN ls /\ ls[1] = "recovered"
            BY <5>1
          <6>2. QED
            BY <6>1 DEF RecoverySteps
        <5>2. CASE ls \in {<<"stop", "recovered">>, <<"park", "parked_or_not">>}
          <6>1. 2 \in DOMAIN ls /\ ls[2] \in {"recovered", "parked_or_not"}
            BY <5>2
          <6>2. QED
            BY <6>1 DEF RecoverySteps
        <5>3. QED
          BY <4>1, <5>1, <5>2
      <4>3. QED
        BY <3>3, <3>4, <4>2
    <3>5. CASE i = 1 /\ l = "recovered"
      <4>1. At(e, "recovered") /\ Stacked(stack[e])
        BY <1>1, <2>1, <2>2, <3>5 DEF At, Ordered
      <4>2. Recovered(e)
        BY <1>1, <2>4, <4>1, GoesOnAt
      <4>3. Len(stack[e]) = 1
        <5>1. ASSUME Len(stack[e]) # 1 PROVE FALSE
          <6>1. ASSUME NEW n \in Nat \ {0}, n # 1 PROVE 2 \in 1 .. n /\ 1 < 2
            BY <6>1
          <6>2. 2 \in DOMAIN stack[e] /\ 1 < 2
            BY <2>2, <5>1, <6>1
          <6>3. Above("recovered", stack[e][2])
            BY <2>1, <2>2, <3>5, <4>1, <6>2 DEF Stacked
          <6>4. QED
            BY <6>3
            DEF Above, Moves, Pausing, Holding, Releasing, LaunchSteps, HomeSteps, ParkSteps, Stops
        <5>2. QED
          BY <5>1
      <4>4. Tail(stack[e]) = <<>>
        <5>1. Tail(stack[e]) \in Seq(Labels) /\ Len(Tail(stack[e])) = 0
          BY <1>1, <2>2, <4>3, HeadTailProperties
        <5>2. QED
          BY <5>1, EmptySeq
      <4>5. physLock' = None
        BY <1>3, <4>2, <4>4 DEF Recovered, Finish, Return
      <4>6. QED
        BY <1>1, <4>5
    <3>6. QED
      BY <2>1, <2>2, <3>2, <3>4, <3>5 DEF RecoverySteps
  <2>5. Head(stack[e]) \notin {"prepared", "accept", "waypath", "enter"}
    <3>1. OfKind(e, Head(stack[e])) /\ e \notin Panel /\ e # Client
      BY <1>1, <2>2, ThreadsDistinct DEF Kinds
    <3>2. QED
      BY <3>1 DEF OfKind
  <2>6. ~Gone(e) /\ ~Enters(e, stack'[e]) /\ ~Idle(e)
    BY <1>1, <2>2, <2>5 DEF Gone, Enters, At, Idle
  <2>7. QED
    BY <1>1, <2>3, <2>4, <2>6 DEF Moved
<1>4. QED
  BY <1>2, <1>3, Turns

\* A waypath that ends says how.
LEMMA WaypathEnds ==
    ASSUME Stepping, ~Idle(Waypath), Idle(Waypath)'
    PROVE  op'.mode # "API_WAITING"
<1>1. /\ TypeOK /\ Outcomes /\ Granting /\ Next /\ ~Crash /\ op \in Ops /\ Waypath \in Threads
      /\ Moved(Waypath) /\ stack[Waypath] \in WaypathStacks /\ stack[Waypath] \in Seq(Labels)
  BY Steps, Types DEF Threads, AllMoved, WaypathAlone, TypeOK
<1>2. stack[Waypath] # <<>> /\ stack'[Waypath] = <<>> /\ stack'[Waypath] # stack[Waypath]
  BY DEF Idle
<1>3. Head(stack[Waypath]) \in {"move", "moving", "waypath_end", "holding", "hold_wait", "waypath_held"}
  BY <1>1, <1>2 DEF WaypathStacks
<1>4. ~Gone(Waypath) /\ ~Enters(Waypath, stack'[Waypath])
  BY <1>1, <1>3 DEF Gone, Enters, At
<1>5. PICK ls \in Seq(Labels) : stack'[Waypath] = ls \o Tail(stack[Waypath])
  BY <1>1, <1>2, <1>4 DEF Moved, Idle
<1>6. Len(stack[Waypath]) = 1
  <2>1. /\ Len(stack[Waypath]) \in Nat \ {0} /\ Len(ls) \in Nat
        /\ Len(ls \o Tail(stack[Waypath])) = Len(ls) + Len(stack[Waypath]) - 1
    BY <1>1, <1>2, Push
  <2>2. Len(ls \o Tail(stack[Waypath])) = 0
    BY <1>2, <1>5
  <2>3. ASSUME NEW m \in Nat \ {0}, NEW n \in Nat, n + m - 1 = 0 PROVE m = 1
    BY <2>3
  <2>4. Len(ls) + Len(stack[Waypath]) - 1 = 0
    BY <2>1, <2>2
  <2>5. QED
    BY <2>1, <2>3, <2>4
<1>7. stack[Waypath] \in {<<"waypath_end">>, <<"waypath_held">>}
  BY <1>1, <1>2, <1>6 DEF WaypathStacks
<1>8. CASE stack[Waypath] = <<"waypath_end">>
  <2>1. At(Waypath, "waypath_end")
    BY <1>2, <1>8 DEF At
  <2>2. WaypathEnd
    BY <1>1, <1>2, <2>1, GoesOnAt
  <2>3. ~Go(Waypath, <<"holding", "waypath_held">>)
    <3>1. <<"holding", "waypath_held">> \in Seq(Labels) /\ <<"holding", "waypath_held">> # <<>>
      BY DEF Labels, Holds
    <3>2. Go(Waypath, <<"holding", "waypath_held">>) => At(Waypath, Head(<<"holding", "waypath_held">>))'
      BY <1>1, <3>1, GoHead
    <3>3. QED
      BY <1>2, <3>2 DEF At
  <2>4. QED
    BY <1>1, <2>2, <2>3 DEF WaypathEnd, Ops
<1>9. CASE stack[Waypath] = <<"waypath_held">>
  <2>1. At(Waypath, "waypath_held")
    BY <1>2, <1>9 DEF At
  <2>2. WaypathHeld
    BY <1>1, <1>2, <2>1, GoesOnAt
  <2>3. QED
    BY <1>1, <2>2 DEF WaypathHeld, Ops
<1>10. QED
  BY <1>7, <1>8, <1>9

\* Nobody begins to move arms that are on offer.
LEMMA OfferedStands ==
    ASSUME Stepping, Offered, Idle(Waypath), arm.state = "STOPPED", NEW t \in Threads
    PROVE  ~Begun(t)
<1>1. /\ TypeOK /\ Ordered /\ Kinds /\ MovesAnnounced /\ OfferedUnmoved /\ LockRecovers
  BY Steps
<1> SUFFICES ASSUME Begun(t) PROVE FALSE
  OBVIOUS
<1>2. At(t, "move") /\ ~Cancelled(t)
  BY DEF Begun, MoveBegin
<1>3. stack[t] \in Seq(Labels) /\ stack[t] # <<>> /\ Head(stack[t]) = "move"
  BY <1>1, <1>2 DEF TypeOK, At
<1>4. /\ Len(stack[t]) \in Nat \ {0} /\ stack[t][1] = "move" /\ DOMAIN stack[t] = 1 .. Len(stack[t])
  BY <1>3, Push
<1>5. 1 \in DOMAIN stack[t] /\ 1 < Len(stack[t]) /\ stack[t][1 + 1] \in MoveEnds
  BY <1>1, <1>4 DEF Ordered, Stacked, Moves
<1>6. 2 \in DOMAIN stack[t] /\ stack[t][2] \in MoveEnds
  BY <1>4, <1>5
<1>7. OfKind(t, stack[t][2])
  BY <1>1, <1>6 DEF Kinds
<1>8. CASE stack[t][2] \in {"homed", "at_zero", "wrist_end"}
  BY <1>1, <1>2, <1>8 DEF MovesAnnounced, Offered
<1>9. CASE stack[t][2] = "waypath_end"
  BY <1>3, <1>7, <1>9 DEF OfKind, Idle
<1>10. CASE stack[t][2] \in {"played", "acted"}
  <2>1. t \in Executors /\ Acting(t)
    BY <1>2, <1>7, <1>10 DEF OfKind, Acting
  <2>2. physLock # t /\ t # Queue
    BY <1>1, <2>1, ActingWorks, WorkingUnlocked, ThreadsDistinct
  <2>3. Live(t)
    BY <1>2, <2>1, <2>2 DEF Live, Cancelled, Held
  <2>4. QED
    BY <1>1, <2>1, <2>3 DEF OfferedUnmoved
<1>11. QED
  BY <1>6, <1>8, <1>9, <1>10 DEF MoveEnds

LEMMA NextOfferedAtHome ==
    ASSUME Stepping
    PROVE  OfferedAtHome'
<1> SUFFICES ASSUME Offered', arm'.state \in Held, Idle(Waypath)'
             PROVE  \/ arm'.state = "STOPPED" /\ arm'.pose = "home"
                    \/ \E t \in Threads : At(t, "launched")'
  BY DEF OfferedAtHome, Offered, Idle, At
<1>1. /\ TypeOK /\ Outcomes /\ Granting /\ Next /\ ~Crash /\ op \in Ops /\ arm \in Arms /\ Turned
      /\ Poised /\ OfferedAtHome
  BY Steps, Types
<1>2. CASE \E t \in Threads : Offers(t)
  BY <1>1, <1>2 DEF Offers, Poised, Held
<1>3. CASE ~\E t \in Threads : Offers(t)
  <2>1. Offered
    BY <1>3, Turns
    DEF OpTurned, Kept, Modest, Drops, Ends, Revokes, Files, Offered
  <2>2. ASSUME NEW t \in Threads, Enabled(t) PROVE At(t, "launched")'
    <3>1. <<"launched">> \in Seq(Labels) /\ Head(<<"launched">>) = "launched"
      BY DEF Labels
    <3>2. Go(t, <<"launched">>) /\ ~Idle(t)
      BY <2>2 DEF Enabled, At, Idle
    <3>3. QED
      BY <1>1, <3>1, <3>2, GoHead
  <2>3. CASE arm.state \in Held
    <3>1. Idle(Waypath)
      BY WaypathEnds DEF Offered
    <3>2. ASSUME NEW t \in Threads, At(t, "launched") PROVE At(t, "launched")'
      <4>1. Launched(t) => op'.mode = "STOPPED"
        BY <1>1 DEF Launched, Ops
      <4>2. stack'[t] # stack[t] => Launched(t)
        BY <1>1, <3>2, GoesOnAt
      <4>3. QED
        BY <3>2, <4>1, <4>2 DEF Offered, At
    <3>3. CASE arm.state = "STOPPED" /\ arm.pose = "home"
      <4>1. \A t \in Threads : ~Begun(t)
        BY <2>1, <3>1, <3>3, OfferedStands
      <4>2. QED
        BY <1>1, <3>3, <4>1 DEF Turned, Halted, Enabling, Enabled, Frees, Freed, Held
    <3>4. QED
      BY <1>1, <2>1, <2>3, <3>1, <3>2, <3>3 DEF OfferedAtHome
  <2>4. QED
    BY <1>1, <2>2, <2>3, HeldCame
<1>4. QED
  BY <1>2, <1>3

----------------------------------------------------------------------------
(* The invariant, and what follows from it.                                *)

LEMMA InitMotion == Init => MotionInv
<1> SUFFICES ASSUME Init PROVE MotionInv
  OBVIOUS
<1>1. \A t \in Threads : stack[t] = <<>> /\ DOMAIN stack[t] = {}
  BY DEF Init
<1>2. \A t \in Threads : \A l : ~At(t, l) /\ ~Within(t, l)
  BY <1>1 DEF At, Within
<1>3. Client \in Threads /\ Waypath \in Threads /\ Executors \subseteq Threads /\ Panel \subseteq Threads
      /\ None \notin Threads
  BY ThreadsDistinct DEF Threads
<1>4. op.mode = "DISABLED" /\ arm.state = "DISABLED" /\ arm.link /\ physLock = None
  BY DEF Init, FreshOp, FreshArm
<1>5. \A e \in Executors : ~Live(e) /\ ~Working(e)
  BY <1>2, <1>3 DEF Live, Acting, Working
<1>6. Poised /\ OneMotion /\ OneRelease /\ WaypathAlone
  BY <1>1, <1>2, <1>3, <1>4 DEF Poised, OneMotion, OneRelease, WaypathAlone, WaypathStacks
<1>7. OfferedAtHome /\ OfferedUnmoved /\ LivePends /\ LiveUnheld /\ LiveLeased
  BY <1>4, <1>5 DEF OfferedAtHome, Offered, OfferedUnmoved, LivePends, LiveUnheld, LiveLeased
<1>8. ReceivedAlone /\ ReceivedUnheld /\ OneWorker /\ GrantsFree /\ MovesAnnounced
  BY <1>2, <1>3, <1>5
  DEF ReceivedAlone, ReceivedUnheld, Receiving, OneWorker, GrantsFree, MovesAnnounced
<1>9. LockRecovers /\ EntersFirst
  BY <1>1, <1>3, <1>4 DEF LockRecovers, EntersFirst
<1>10. QED
  BY <1>6, <1>7, <1>8, <1>9 DEF MotionInv

\* A crash, or a reboot, leaves nobody under way and the arms released.
LEMMA CrashMotion == Crash => MotionInv'
<1> SUFFICES ASSUME Crash PROVE MotionInv'
  OBVIOUS
<1>1. \A t \in Threads : stack'[t] = <<>> /\ DOMAIN stack'[t] = {}
  BY DEF Crash
<1>2. \A t \in Threads : \A l : ~At(t, l)' /\ ~Within(t, l)'
  BY <1>1 DEF At, Within
<1>3. Client \in Threads /\ Waypath \in Threads /\ Executors \subseteq Threads /\ Panel \subseteq Threads
      /\ None \notin Threads
  BY ThreadsDistinct DEF Threads
<1>4. op'.mode = "DISABLED" /\ arm'.state = "DISABLED" /\ arm'.link /\ physLock' = None
  BY DEF Crash, FreshOp, FreshArm
<1>5. \A e \in Executors : ~Live(e)' /\ ~Working(e)'
  BY <1>2, <1>3 DEF Live, Acting, Working
<1>6. Poised' /\ OneMotion' /\ OneRelease' /\ WaypathAlone'
  BY <1>1, <1>2, <1>3, <1>4 DEF Poised, OneMotion, OneRelease, WaypathAlone, WaypathStacks
<1>7. OfferedAtHome' /\ OfferedUnmoved' /\ LivePends' /\ LiveUnheld' /\ LiveLeased'
  BY <1>4, <1>5 DEF OfferedAtHome, Offered, OfferedUnmoved, LivePends, LiveUnheld, LiveLeased
<1>8. ReceivedAlone' /\ ReceivedUnheld' /\ OneWorker' /\ GrantsFree' /\ MovesAnnounced'
  BY <1>2, <1>3, <1>5
  DEF ReceivedAlone, ReceivedUnheld, Receiving, OneWorker, GrantsFree, MovesAnnounced
<1>9. LockRecovers' /\ EntersFirst'
  BY <1>1, <1>3, <1>4 DEF LockRecovers, EntersFirst
<1>10. QED
  BY <1>6, <1>7, <1>8, <1>9 DEF MotionInv

LEMMA NextMotion == ASSUME YamInv, MotionInv, Next PROVE MotionInv'
<1>1. CASE Crash
  BY <1>1, CrashMotion
<1>2. CASE ~Crash
  <2>1. TypeOK /\ Ordered /\ Outcomes /\ Mutex /\ Granting
    BY DEF YamInv
  <2>2. YamInv' /\ AllMoved /\ Turned
    BY <2>1, NextHolds, NextMoved, NextTurned
  <2>3. Stepping
    BY <1>2, <2>2 DEF Stepping
  <2>4. Poised'
    BY <2>3, Steps, TypesPrime, NextPoised
  <2>5. OneMotion' /\ OneRelease' /\ WaypathAlone'
    BY <2>3, NextOneMotion, NextOneRelease, NextWaypathAlone
  <2>6. OfferedAtHome' /\ OfferedUnmoved' /\ GrantsFree' /\ MovesAnnounced'
    BY <2>3, NextOfferedAtHome, NextOfferedUnmoved, NextGrantsFree, NextMovesAnnounced
  <2>7. LivePends' /\ LiveUnheld' /\ LiveLeased'
    BY <2>3, NextLivePends, NextLiveUnheld, NextLiveLeased
  <2>8. ReceivedAlone' /\ ReceivedUnheld' /\ OneWorker' /\ LockRecovers' /\ EntersFirst'
    BY <2>3, NextReceivedAlone, NextReceivedUnheld, NextOneWorker, NextLockRecovers, NextEntersFirst
  <2>9. QED
    BY <2>4, <2>5, <2>6, <2>7, <2>8 DEF MotionInv
<1>3. QED
  BY <1>1, <1>2

LEMMA StutterMotion == ASSUME MotionInv, UNCHANGED vars PROVE MotionInv'
<1>1. Poised' /\ OneMotion' /\ OneRelease' /\ WaypathAlone'
  BY DEF MotionInv, vars, Poised, OneMotion, OneRelease, WaypathAlone, At
<1>2. OfferedAtHome' /\ OfferedUnmoved'
  BY DEF MotionInv, vars, OfferedAtHome, OfferedUnmoved, Offered, Live, Acting, At, Idle
<1>3. LivePends' /\ LiveUnheld' /\ LiveLeased'
  BY DEF MotionInv, vars, LivePends, LiveUnheld, LiveLeased, Live, Acting, At, Within, Closed
<1>4. ReceivedAlone' /\ ReceivedUnheld' /\ OneWorker'
  BY DEF MotionInv, vars, ReceivedAlone, ReceivedUnheld, OneWorker, Receiving, Working, At,
         Within, StillAuthorized
<1>5. GrantsFree' /\ MovesAnnounced' /\ LockRecovers' /\ EntersFirst'
  BY DEF MotionInv, vars, GrantsFree, MovesAnnounced, LockRecovers, EntersFirst, At, Within
<1>6. QED
  BY <1>1, <1>2, <1>3, <1>4, <1>5 DEF MotionInv

\* In every behaviour, who may still move the arms for a run is the pending action of
\* the run that has the lease, alone, with no hold under way; and nobody is left over
\* when the station is offered again (api_handle_joint_trajectory, _authorize_joint_action,
\* _hold_physical, _authorize_automatic_policy).
THEOREM MotionInvariant == Spec => []MotionInv
<1>1. Init => YamInv /\ MotionInv
  BY InitHolds, InitMotion
<1>2. YamInv /\ MotionInv /\ [Next]_vars => (YamInv /\ MotionInv)'
  BY NextHolds, StutterHolds, NextMotion, StutterMotion
<1>3. QED
  BY <1>1, <1>2, PTL DEF Spec

\* The arms move for a run only while it has the lease, or the thread that has taken it
\* away is about to hold them: no action outlives its run, whatever the executors, the
\* client, the panel and the watchdogs do in between (api_handle_joint_trajectory,
\* _handle_command, _hold_physical, api_connection_changed).
THEOREM SessionMotionLeased == Spec => []SessionMotionIsLeased
<1>1. ASSUME YamInv, MotionInv, NEW e \in Executors, Moving(e), stack[e][2] \in {"acted", "played"}
      PROVE  op.lease = action[e].run \/ Closed(e) \/ At(Client, "hold")
  <2>1. TypeOK /\ Ordered /\ LockRecovers /\ LiveLeased
    BY <1>1 DEF YamInv, MotionInv
  <2>2. Acting(e) /\ arm.state \in Held
    BY <1>1 DEF Acting, Moving, Held
  <2>3. e # Queue /\ physLock # e
    BY <2>1, <2>2, ActingWorks, WorkingUnlocked, ThreadsDistinct
  <2>4. ~action[e].cancelled
    BY <1>1, <2>3 DEF Moving, Cancelled
  <2>5. QED
    BY <2>1, <2>2, <2>4 DEF Live, LiveLeased
<1>2. YamInv /\ MotionInv => SessionMotionIsLeased
  BY <1>1 DEF SessionMotionIsLeased
<1>3. QED
  BY YamInvariant, MotionInvariant, <1>2, PTL

\* A station that waits for a run holds its arms at Home: a launch, a motion of the
\* panel or a waypath withdraws the offer before the arms leave it
\* (_authorize_automatic_policy, action, _launch, _move_home).
THEOREM GrantsAreAtHome == Spec => []GrantIsAtHome
<1>1. ASSUME YamInv, MotionInv, physLock = None, NEW t \in Threads PROVE ~At(t, "launched")
  <2>1. TypeOK /\ Ordered /\ Mutex /\ None \notin Threads
    BY <1>1, ThreadsDistinct DEF YamInv, Threads
  <2>2. "launched" \in Locked
    BY DEF Locked, LaunchSteps
  <2>3. QED
    BY <1>1, <2>1, <2>2, AtOwner
<1>2. YamInv /\ MotionInv => GrantIsAtHome
  BY <1>1 DEF GrantIsAtHome, MotionInv, OfferedAtHome, Offered
<1>3. QED
  BY YamInvariant, MotionInvariant, <1>2, PTL
=============================================================================
