---------------------------- MODULE YamOperator ----------------------------
(***************************************************************************)
(* The YAM operator: PhysicalOperator (yam_operator_hardware_web.py over   *)
(* yam_operator_sim_web.py), its automatic queue (auto_queue.py) and       *)
(* Park at Zero (zero_control.py).  Panel requests, the Session API        *)
(* client, the queue loop, the watchdog of every run, the executor of      *)
(* every accepted action and the status poller are threads that share one  *)
(* station; _physical_lock serialises most of what moves the arms, and     *)
(* the two short locks, op.lock and auto_queue.lock, are the grain of      *)
(* atomicity here: one action per section under a lock, or per call of the *)
(* motor adapter that begins or ends.                                      *)
(*                                                                         *)
(* Every thread has a stack of labels.  launch, home, park, hold, stop and *)
(* move (IsolatedAdapter.execute) are procedures: they leave their result  *)
(* in out[t].  A run is named by its watchdog thread, an action of a run   *)
(* by its executor thread; a name is used again once nothing refers to it. *)
(*                                                                         *)
(* Abstracted: a pose to zero, home or neither; validation, settling and   *)
(* everything about motors and files that may fail to choices, at most     *)
(* MaxFaults of them; a queue read to whether it found an entry.           *)
(***************************************************************************)
EXTENDS Integers, Sequences, FiniteSets

CONSTANTS Panel,               \* panel requests in progress at once
          Watchdogs,           \* runs, each with its watchdog thread
          Executors,           \* actions of runs, each with its executor thread
          Client, Queue,       \* the Session API client; the queue loop
          Waypath, Poller,     \* a waypath in execution; status polling
          Orders,              \* what the operator may press
          HasScene,            \* a home scene is installed
          None,
          MaxFaults,           \* bound: failures of motors, network and files
          MaxCrashes,          \* bound: deaths of the operator or motor process
          MaxOrders,           \* bound: orders of the operator
          MaxEvents            \* bound: all of these together

AllOrders == {"launch", "home", "park", "run_policy", "wrist", "waypath",
              "stop", "hold", "on", "off"}
ASSUME OrdersKnown == Orders \subseteq AllOrders
ASSUME BoundsNat == MaxFaults \in Nat /\ MaxCrashes \in Nat /\ MaxOrders \in Nat /\ MaxEvents \in Nat
ASSUME HasSceneBoolean == HasScene \in BOOLEAN
ASSUME ThreadsDistinct ==
    /\ Panel \cap Watchdogs = {} /\ (Panel \cup Watchdogs) \cap Executors = {}
    /\ {Client, Queue, Waypath, Poller} \cap (Panel \cup Watchdogs \cup Executors) = {}
    /\ Client \notin {Queue, Waypath, Poller} /\ Queue \notin {Waypath, Poller}
    /\ Waypath # Poller
    /\ None \notin Panel \cup Watchdogs \cup Executors \cup {Client, Queue, Waypath, Poller}

Threads == Panel \cup Watchdogs \cup Executors \cup {Client, Queue, Waypath, Poller}

VARIABLES
    queue,     \* AutoQueue, and the receipt on disk
    op,        \* PhysicalOperator
    arm,       \* the adapter, and what the motors really do
    stack,     \* where every thread is
    out,       \* what its last procedure returned
    physLock,  \* owner of _physical_lock
    action,    \* an executor's action: its run, its cancel_event
    used       \* the bounded counters: faults, crashes, orders

vars == <<queue, op, arm, stack, out, physLock, action, used>>

Modes == {"DISABLED", "STOPPED", "READY", "MOVING_HOME", "PARKING_ZERO", "WRIST_TEST",
          "WAYPATH", "API_WAITING", "API_ACTIVE", "FAULT"}
ArmStates == {"DISABLED", "INITIALIZING", "STOPPED", "EXECUTING", "STOPPING", "FAULT"}
Held == {"STOPPED", "EXECUTING"}

FreshQueue(disk) ==
    [enabled |-> disk.enabled /\ disk.parked, parked |-> disk.parked, running |-> FALSE,
     completion |-> "none", handoff |-> FALSE, cancel |-> FALSE,
     disk |-> disk]
FreshOp ==
    [mode |-> "DISABLED", ok |-> TRUE, launched |-> FALSE, connected |-> FALSE,
     authorized |-> FALSE, lease |-> None, deadline |-> None, pending |-> None,
     offer |-> None, recovery |-> "none"]
\* The motors and the file outlive the process: a receipt in it was written at zero.
FreshArm(torque, pose) ==
    [state |-> "DISABLED", verified |-> FALSE, halt |-> FALSE, link |-> TRUE,
     torque |-> torque, pose |-> pose]

NoAction == [run |-> None, cancelled |-> FALSE]

Init ==
    /\ \E enabled \in BOOLEAN, parked \in BOOLEAN :
         /\ queue = FreshQueue([enabled |-> enabled, parked |-> parked])
         /\ arm = FreshArm(FALSE, IF parked THEN "zero" ELSE "away")
    /\ op = FreshOp
    /\ stack = [t \in Threads |-> <<>>] /\ out = [t \in Threads |-> "none"]
    /\ physLock = None
    /\ action = [e \in Executors |-> NoAction]
    /\ used = [faults |-> 0, crashes |-> 0, orders |-> 0]

----------------------------------------------------------------------------
(* Threads, procedures and locks.                                          *)

At(t, l) == stack[t] # <<>> /\ Head(stack[t]) = l
Idle(t)  == stack[t] = <<>>
Within(t, l) == \E i \in DOMAIN stack[t] : stack[t][i] = l

\* Go on at labels ls, what is below them on the stack waiting.
Jump(t, ls) == /\ stack' = [stack EXCEPT ![t] = ls \o Tail(@)]
               /\ out' = [out EXCEPT ![t] = "none"]
Go(t, ls) == Jump(t, ls) /\ UNCHANGED <<physLock, action>>
\* A thread that ends leaves its "with _physical_lock".
Return(t, r) == LET ends == Tail(stack[t]) = <<>> IN
                /\ stack' = [stack EXCEPT ![t] = Tail(@)]
                /\ out' = [out EXCEPT ![t] = IF ends THEN "none" ELSE r]
                /\ physLock' = IF ends /\ physLock = t THEN None ELSE physLock
                /\ action' = IF ends /\ t \in Executors THEN [action EXCEPT ![t] = NoAction]
                             ELSE action
Finish(t) == Return(t, "none")

MayHappen == used.faults + used.crashes + used.orders < MaxEvents
Fail == MayHappen /\ used.faults < MaxFaults /\ used' = [used EXCEPT !.faults = @ + 1]
Dies == MayHappen /\ used.crashes < MaxCrashes /\ used' = [used EXCEPT !.crashes = @ + 1]
NoFault == UNCHANGED used

\* The cancel_event that the thread passes to the adapter; manual orders and
\* the watchdog have none.
Cancelled(t) ==
    CASE t = Queue -> queue.cancel
      [] t \in Executors -> IF physLock = t THEN op.recovery = "set" ELSE action[t].cancelled
      [] OTHER -> FALSE

Set(q, enabled, parked) == [q EXCEPT !.enabled = enabled, !.parked = parked]
Saved(q) == [q EXCEPT !.disk = [enabled |-> q.enabled, parked |-> q.parked]]
\* _save(): what the file holds changes, unless an OSError is raised.
Save(q, saves) ==
    /\ queue' = IF saves THEN Saved(q) ELSE q
    /\ IF saves THEN NoFault ELSE Fail

Revoke(o) == [o EXCEPT !.lease = None, !.authorized = FALSE]

----------------------------------------------------------------------------
(* AutoQueue.pause: under auto_queue.lock, then under op.lock.             *)

\* Mutant: Stop does not cancel a startup in progress, nor disable the next.
PauseQueueGently(t) ==
    /\ At(t, "pause") \/ At(t, "pause_clear")
    /\ \E saves \in BOOLEAN : Save([queue EXCEPT !.completion = "none"], saves)
    /\ Go(t, <<"pause_handoff">>)
    /\ UNCHANGED <<op, arm>>

PauseQueue(t) ==
    /\ \E l \in {"pause", "pause_clear"} :
         /\ At(t, l)
         /\ \E saves \in BOOLEAN :
              Save([Set(queue, FALSE, queue.parked /\ l = "pause")
                      EXCEPT !.completion = "none", !.cancel = TRUE], saves)
    /\ Go(t, <<"pause_handoff">>)
    /\ UNCHANGED <<op, arm>>

\* Mutant: a pause leaves the readiness that has been offered.
PauseHandoffKeepsReady(t) ==
    /\ At(t, "pause_handoff")
    /\ Finish(t)
    /\ UNCHANGED <<queue, op, arm, used>>

PauseHandoff(t) ==
    /\ At(t, "pause_handoff")
    /\ LET withdraw == queue.handoff /\ op.lease = None IN
       /\ queue' = [queue EXCEPT !.handoff = @ /\ ~withdraw]
       /\ op' = IF ~withdraw THEN op
                ELSE [op EXCEPT !.authorized = FALSE,
                                !.mode = IF @ = "API_WAITING" THEN "READY" ELSE @]
    /\ Finish(t)
    /\ UNCHANGED <<arm, used>>

----------------------------------------------------------------------------
(* IsolatedAdapter.execute, as far as the operator depends on it.          *)

Goal(t) == CASE stack[t][2] = "homed"  -> "home"
             [] stack[t][2] = "at_zero" -> "zero"
             [] stack[t][2] = "waypath_end" -> "home"
             [] OTHER -> "away"

MoveRefused(t) ==
    /\ At(t, "move")
    /\ Cancelled(t) \/ arm.state # "STOPPED"
    /\ Return(t, IF Cancelled(t) THEN "interrupted"
                 ELSE IF arm.link THEN "failed" ELSE "servo")
    /\ UNCHANGED <<queue, op, arm, used>>

MoveBegin(t) ==
    /\ At(t, "move") /\ ~Cancelled(t) /\ arm.state = "STOPPED"
    /\ arm' = [arm EXCEPT !.state = "EXECUTING", !.halt = FALSE, !.pose = "away"]
    /\ Go(t, <<"moving">>)
    /\ UNCHANGED <<queue, op, used>>

\* A run's and a waypath's waypoints are validated one by one, with the kinematic
\* model that _physical_lock protects.
MayAdvance(t) == /\ arm.state = "EXECUTING" /\ ~arm.halt /\ ~Cancelled(t)
                 /\ t \in Executors \cup {Waypath} => physLock = None

\* The motion of t is under way, and nothing has told it to end.
Moving(t) == At(t, "moving") /\ arm.state = "EXECUTING" /\ ~arm.halt /\ ~Cancelled(t)

\* Assumed: movements, the initialization of the drivers, reads of the queue and the
\* answers of a model take so long that meanwhile no thread stands before a section
\* that nothing keeps it from.
Waits(t) == \/ \E l \in {"enter", "watch", "expired", "validate", "recover", "initializing",
                        "releasing"} : At(t, l)
            \/ Moving(t)
            \/ (At(t, "hold_wait") \/ At(t, "release")) /\ arm.state = "INITIALIZING"
Prompt(t) == \A x \in Threads \ {t} : ~Idle(x) => Waits(x)

MoveEnd(t) ==
    /\ At(t, "moving") /\ MayAdvance(t) /\ Prompt(t)
    /\ \E r \in {"reached", "missed", "rejected"} :
         /\ r = "rejected" => stack[t][2] = "played"
         /\ arm' = [arm EXCEPT !.state = "STOPPED",
                               !.pose = IF r = "reached" THEN Goal(t) ELSE "away"]
         /\ IF r = "missed" THEN Fail ELSE NoFault
         /\ Return(t, r)
    /\ UNCHANGED <<queue, op>>

MoveInterrupted(t) ==
    /\ At(t, "moving")
    /\ arm.halt \/ Cancelled(t) \/ arm.state # "EXECUTING"
    /\ arm' = [arm EXCEPT !.state = IF @ = "EXECUTING" THEN "STOPPED" ELSE @]
    /\ Return(t, IF arm.link THEN "interrupted" ELSE "servo")
    /\ UNCHANGED <<queue, op, used>>

\* A servo fault is held; after anything else the drivers are released.
MoveFailed(t) ==
    /\ At(t, "moving") /\ arm.state = "EXECUTING" /\ Fail
    /\ \E r \in {"servo", "failed"} :
         /\ \E torque \in IF r = "servo" THEN {TRUE} ELSE BOOLEAN :
              arm' = [arm EXCEPT !.state = "FAULT", !.halt = TRUE, !.torque = torque]
         /\ Return(t, r)
    /\ UNCHANGED <<queue, op>>

----------------------------------------------------------------------------
(* _hold_physical: revoke, hold, then say what came of it.                 *)

Hold(t) ==
    /\ At(t, "hold")
    /\ IF arm.link
         THEN /\ op' = Revoke(op)
              /\ action' = [e \in Executors |-> [action[e] EXCEPT !.cancelled = @ \/ op.pending = e]]
              /\ Jump(t, <<"holding", "held">>) /\ UNCHANGED physLock
         ELSE Return(t, "raised") /\ UNCHANGED op
    /\ UNCHANGED <<queue, arm, used>>

\* The adapter's hold(): calls in flight are cancelled, and it waits for a launch
\* to end; idle drivers have nothing to hold.
HoldRequest(t) ==
    /\ At(t, "holding")
    /\ arm' = [arm EXCEPT !.halt = TRUE]
    /\ Go(t, <<"hold_wait">>)
    /\ UNCHANGED <<queue, op, used>>

HoldDone(t) ==
    /\ At(t, "hold_wait") /\ arm.state # "INITIALIZING"
    /\ \/ /\ arm.state \in Held \cup {"DISABLED"}
          /\ Return(t, "ok") /\ UNCHANGED <<arm, used>>
       \/ /\ arm.state \in Held /\ Fail
          /\ arm' = [arm EXCEPT !.state = "FAULT"]
          /\ Return(t, "raised")
       \/ /\ arm.state \in {"FAULT", "STOPPING"}
          /\ Return(t, "raised") /\ UNCHANGED <<arm, used>>
    /\ UNCHANGED <<queue, op>>

HoldEnd(t) ==
    /\ At(t, "held")
    /\ LET healthy == out[t] = "ok" /\ arm.state \in Held IN
       op' = [Revoke(op) EXCEPT !.pending = None, !.launched = healthy, !.ok = healthy,
                                !.mode = IF healthy THEN "STOPPED" ELSE "FAULT"]
    /\ Return(t, "ok")
    /\ UNCHANGED <<queue, arm, used>>

----------------------------------------------------------------------------
(* _stop_physical: Stop pauses the queue for good, the release at the end  *)
(* of a park ("torque_off") does not; then torque off, verified or not.    *)

Stop(t) ==
    /\ At(t, "stop")
    /\ IF arm.link
         THEN /\ op' = [op EXCEPT !.recovery = IF @ = "none" THEN @ ELSE "set"]
              /\ Go(t, <<"pause_clear", "torque_off">>)
         ELSE Return(t, "raised") /\ UNCHANGED op
    /\ UNCHANGED <<queue, arm, used>>

TorqueOff(t) ==
    /\ At(t, "torque_off")
    /\ IF arm.link
         THEN op' = [op EXCEPT !.deadline = None] /\ Go(t, <<"stopping", "stopped">>)
         ELSE Return(t, "raised") /\ UNCHANGED op
    /\ UNCHANGED <<queue, arm, used>>

StopRequest(t) ==
    /\ At(t, "stopping")
    /\ arm' = [arm EXCEPT !.halt = TRUE]
    /\ Go(t, <<"release">>)
    /\ UNCHANGED <<queue, op, used>>

\* A fault that has left no drivers behind.
DriverlessFault == arm.state = "FAULT" /\ ~arm.torque /\ arm.link

\* stop() of the adapter raises when it has nothing whose release it could verify.
Release(t) ==
    /\ At(t, "release") /\ arm.state # "INITIALIZING"
    /\ IF \/ arm.state = "STOPPING" \/ ~arm.link
          \/ (arm.state = "DISABLED" /\ ~arm.verified) \/ DriverlessFault
         THEN Return(t, "raised") /\ UNCHANGED arm
         ELSE /\ arm' = [arm EXCEPT !.state = "STOPPING", !.verified = FALSE]
              /\ Go(t, <<"releasing">>)
    /\ UNCHANGED <<queue, op, used>>

Released(t) ==
    /\ At(t, "releasing")
    /\ \/ /\ arm.state = "STOPPING" /\ NoFault
          /\ arm' = [arm EXCEPT !.state = "DISABLED", !.verified = TRUE, !.torque = FALSE]
          /\ Return(t, "ok")
       \/ /\ arm.state = "STOPPING" /\ Fail
          /\ arm' = [arm EXCEPT !.state = "FAULT"]
          /\ Return(t, "raised")
       \/ arm.state # "STOPPING" /\ Return(t, "raised") /\ UNCHANGED <<arm, used>>
    /\ UNCHANGED <<queue, op>>

StopEnd(t) ==
    /\ At(t, "stopped")
    /\ op' = [Revoke(op) EXCEPT !.pending = None, !.launched = FALSE,
                                !.mode = IF out[t] = "ok" THEN "DISABLED" ELSE "FAULT"]
    /\ Return(t, "ok")
    /\ UNCHANGED <<queue, arm, used>>

----------------------------------------------------------------------------
(* _launch_physical: the receipt goes before a driver is enabled.          *)

\* Mutant: the receipt is taken back in memory only.
InvalidateParkInMemory(t, next) ==
    /\ queue' = [queue EXCEPT !.parked = FALSE] /\ NoFault
    /\ Go(t, next)

InvalidatePark(t, next) ==
    \E saves \in BOOLEAN :
        /\ Save([queue EXCEPT !.parked = FALSE], saves)
        /\ IF saves THEN Go(t, next) ELSE Return(t, "failed")

Launch(t) ==
    /\ At(t, "launch")
    /\ InvalidatePark(t, <<"launching">>)
    /\ UNCHANGED <<op, arm>>

\* launch() of the adapter: idempotent on held arms, refused while they are busy
\* or in a fault whose drivers are still owned.
LaunchBegin(t) ==
    /\ At(t, "launching")
    /\ IF ~Cancelled(t) /\ (arm.state = "DISABLED" \/ DriverlessFault)
         THEN /\ arm' = [arm EXCEPT !.state = "INITIALIZING", !.verified = FALSE,
                                    !.halt = FALSE, !.torque = TRUE, !.pose = "away"]
              /\ Go(t, <<"initializing">>)
         ELSE /\ UNCHANGED arm
              /\ IF ~Cancelled(t) /\ arm.state = "STOPPED" THEN Go(t, <<"launched">>)
                 ELSE Return(t, IF Cancelled(t) THEN "interrupted" ELSE "failed")
    /\ UNCHANGED <<queue, op, used>>

\* What fails is released again, or else retained; feedback outside the joint
\* limits makes the operator release both arms.
LaunchEnd(t) ==
    /\ At(t, "initializing")
    /\ \/ /\ arm.state = "INITIALIZING" /\ ~arm.halt /\ ~Cancelled(t) /\ Prompt(t)
          /\ arm' = [arm EXCEPT !.state = "STOPPED"]
          /\ Go(t, <<"launched">>) /\ NoFault
       \/ /\ arm.state = "INITIALIZING"
          /\ arm.halt \/ Cancelled(t)
          /\ arm' = [arm EXCEPT !.state = "FAULT", !.torque = FALSE, !.verified = TRUE]
          /\ Return(t, "interrupted") /\ NoFault
       \/ /\ arm.state = "INITIALIZING" /\ Fail
          /\ \E s \in {"FAULT", "DISABLED"}, off \in BOOLEAN :
               /\ s = "DISABLED" => off
               /\ arm' = [arm EXCEPT !.state = s, !.torque = ~off, !.verified = off]
          /\ Return(t, "failed")
       \/ arm.state # "INITIALIZING" /\ Return(t, "failed") /\ UNCHANGED <<arm, used>>
    /\ UNCHANGED <<queue, op>>

Launched(t) ==
    /\ At(t, "launched")
    /\ op' = [op EXCEPT !.mode = "STOPPED", !.launched = TRUE, !.ok = TRUE]
    /\ Return(t, IF arm.link THEN "ok" ELSE "failed")
    /\ UNCHANGED <<queue, arm, used>>

----------------------------------------------------------------------------
(* _move_home.                                                             *)

Home(t) ==
    /\ At(t, "home")
    /\ \/ arm.state # "STOPPED" /\ Return(t, "blocked") /\ UNCHANGED op
       \/ arm.state = "STOPPED" /\ Go(t, <<"homing">>) /\ UNCHANGED op
       \/ arm.state = "STOPPED" /\ op' = [op EXCEPT !.mode = "STOPPED"] /\ Return(t, "blocked")
    /\ UNCHANGED <<queue, arm, used>>

\* Mutant: the mode does not say that Home is under way.
HomingSilently(t) ==
    /\ At(t, "homing")
    /\ Go(t, <<"move", "homed">>)
    /\ UNCHANGED <<queue, op, arm, used>>

Homing(t) ==
    /\ At(t, "homing")
    /\ op' = [op EXCEPT !.mode = "MOVING_HOME"]
    /\ Go(t, <<"move", "homed">>)
    /\ UNCHANGED <<queue, arm, used>>

Homed(t) ==
    /\ At(t, "homed")
    /\ op' = IF out[t] = "reached" THEN [op EXCEPT !.mode = "READY"] ELSE op
    /\ CASE out[t] = "reached"     -> Return(t, "ok")
         [] out[t] = "interrupted" -> Return(t, "interrupted")
         [] out[t] = "missed"      -> Go(t, <<"hold_measured", "remeasured">>)
         [] out[t] = "servo"       -> Go(t, <<"pause_clear", "fault">>)
         [] out[t] = "failed"      -> Go(t, <<"stop">>)
    /\ UNCHANGED <<queue, arm, used>>

HoldMeasured(t) ==
    /\ At(t, "hold_measured")
    /\ IF arm.state # "STOPPED" \/ arm.halt \/ Cancelled(t)
         THEN Return(t, "interrupted") /\ NoFault
         ELSE \/ Return(t, "ok") /\ NoFault
              \/ Return(t, "servo") /\ Fail
    /\ UNCHANGED <<queue, op, arm>>

Remeasured(t) ==
    /\ At(t, "remeasured")
    /\ op' = IF out[t] = "ok" THEN [op EXCEPT !.mode = "STOPPED"] ELSE op
    /\ CASE out[t] = "ok"          -> Return(t, "blocked")
         [] out[t] = "interrupted" -> Return(t, "interrupted")
         [] out[t] = "servo"       -> Go(t, <<"pause_clear", "fault">>)
    /\ UNCHANGED <<queue, arm, used>>

\* Mutant: a mode that the page does not know.
FaultUnknown(t) ==
    /\ At(t, "fault")
    /\ op' = [op EXCEPT !.mode = "HOLDING_FAULT", !.ok = FALSE]
    /\ Finish(t)
    /\ UNCHANGED <<queue, arm, used>>

\* _mark_servo_fault_holding, after its pause.
Fault(t) ==
    /\ At(t, "fault")
    /\ op' = [op EXCEPT !.mode = "FAULT", !.ok = FALSE]
    /\ Finish(t)
    /\ UNCHANGED <<queue, arm, used>>

----------------------------------------------------------------------------
(* park_zero_and_stop.                                                     *)

MayPark(t) == /\ op.mode \in {"STOPPED", "READY"} /\ op.lease = None
              /\ arm.state = "STOPPED" /\ ~Cancelled(t)

Park(t) ==
    /\ At(t, "park")
    /\ \/ MayPark(t) /\ Go(t, <<"parking">>)
       \/ Return(t, "blocked")   \* not admitted, or refused by the guard
    /\ UNCHANGED <<queue, op, arm, used>>

\* Approval can outlive a Stop: the admission is checked again.
Parking(t) ==
    /\ At(t, "parking")
    /\ IF MayPark(t)
         THEN op' = [op EXCEPT !.mode = "PARKING_ZERO"] /\ Go(t, <<"move", "at_zero">>)
         ELSE UNCHANGED op /\ Return(t, "blocked")
    /\ UNCHANGED <<queue, arm, used>>

AtZero(t) ==
    /\ At(t, "at_zero")
    /\ CASE out[t] = "reached" ->
               IF op.mode = "PARKING_ZERO" /\ arm.state = "STOPPED" /\ ~Cancelled(t)
               THEN Go(t, <<"torque_off", "receipt">>)
               ELSE Return(t, "blocked")
         [] out[t] = "interrupted" -> Return(t, "interrupted")
         [] out[t] = "missed" -> IF arm.state # "STOPPED" \/ Cancelled(t)
                                 THEN Return(t, "blocked") ELSE Go(t, <<"hold">>)
         [] out[t] = "servo" -> Go(t, <<"pause_clear", "fault">>)
         [] out[t] = "failed" -> IF arm.state \in Held
                                 THEN Go(t, <<"hold">>) ELSE Return(t, "blocked")
    /\ UNCHANGED <<queue, op, arm, used>>

\* mark_parked, after arrival and verified torque-off only.
Receipt(t) ==
    /\ At(t, "receipt")
    /\ IF out[t] = "ok" /\ op.mode = "DISABLED" /\ arm.verified /\ ~Cancelled(t)
         THEN \E saves \in BOOLEAN :
                /\ Save([queue EXCEPT !.parked = TRUE], saves)
                /\ Return(t, IF saves THEN "parked" ELSE "raised")
         ELSE Return(t, IF out[t] = "raised" THEN "raised" ELSE "blocked") /\ UNCHANGED <<queue, used>>
    /\ UNCHANGED <<op, arm>>

----------------------------------------------------------------------------
(* AutoQueue.tick, on the queue loop.  The checks it makes before it has   *)
(* _physical_lock are made again with it: one step here.                   *)

Start(t, ls) == /\ Idle(t) /\ stack' = [stack EXCEPT ![t] = ls] /\ UNCHANGED out
Unowned == op.lease = None /\ ~op.authorized /\ op.pending = None /\ op.deadline = None

Eligible == /\ op.mode = "DISABLED" /\ arm.state = "DISABLED"
            /\ op.ok /\ op.connected /\ Unowned
CompletionEligible == /\ queue.completion # "none" /\ op.mode = "STOPPED" /\ arm.state = "STOPPED"
                      /\ op.ok /\ Unowned
AtHome == op.mode = "READY" /\ arm.state = "STOPPED" /\ op.pending = None /\ arm.pose = "home"

Ticks == /\ Idle(Queue) /\ ~queue.running /\ (queue.enabled \/ queue.completion # "none")
Faulted == arm.state = "FAULT" \/ op.mode = "FAULT"

TickFault ==
    /\ Ticks /\ Faulted
    /\ Start(Queue, <<"pause_clear">>)
    /\ UNCHANGED <<queue, op, arm, physLock, action, used>>

\* The handoff has timed out, or the queue has been cleared.
HandoffEnds ==
    /\ Ticks /\ ~Faulted /\ queue.handoff /\ queue.enabled /\ op.lease = None
    /\ physLock = None /\ physLock' = Queue
    /\ op' = [op EXCEPT !.authorized = FALSE, !.mode = "READY"]
    /\ queue' = [queue EXCEPT !.handoff = FALSE, !.running = TRUE]
    /\ Start(Queue, <<"park", "rested_late">>)
    /\ UNCHANGED <<arm, action, used>>

\* _return_to_rest has come back: an exception reaches the loop, which pauses.
Rested == ~queue.cancel /\ queue.parked /\ out[Queue] # "interrupted"

RestedLate ==
    /\ At(Queue, "rested_late")
    /\ queue' = [queue EXCEPT !.running = FALSE]
    /\ \/ Rested /\ Finish(Queue)
       \/ Rested /\ Go(Queue, <<"pause">>)
       \/ ~Rested /\ Jump(Queue, <<"pause">>) /\ physLock' = None /\ UNCHANGED action
    /\ UNCHANGED <<op, arm, used>>

\* A start from the parked station, or the continuation of a finished run.
TickStart ==
    /\ Ticks /\ ~Faulted /\ ~queue.handoff /\ physLock = None
    /\ \E claim \in {"claim_launch", "claim_next", "claim_scene"} :
         /\ IF claim = "claim_launch"
              THEN ~CompletionEligible /\ queue.enabled /\ queue.parked /\ Eligible
              ELSE CompletionEligible /\ (claim = "claim_scene" <=> queue.completion = "scene")
         /\ Start(Queue, <<claim>>)
    /\ physLock' = Queue
    /\ queue' = [queue EXCEPT !.running = TRUE, !.cancel = FALSE,
                              !.completion = "none"]
    /\ UNCHANGED <<op, arm, action, used>>

Rest == <<"park", "rested">>

Claim ==
    /\ \E l \in {"claim_launch", "claim_next", "claim_scene"} :
         /\ At(Queue, l)
         /\ \E waiting \in BOOLEAN, saves \in BOOLEAN :
              /\ Save([queue EXCEPT !.parked = FALSE], saves)
              /\ Go(Queue,
                    CASE ~saves -> <<"start_failed">>
                      [] l = "claim_launch" -> <<"launch", "seek">>
                      [] l = "claim_scene"  -> <<"home", "scene">>
                      [] OTHER -> IF waiting /\ queue.enabled /\ op.connected
                                  THEN <<"seek">> ELSE Rest)
    /\ UNCHANGED <<op, arm>>

\* _check between two steps: cancelled, failed, or on to one of nexts.
Checked(nexts) ==
    IF queue.cancel \/ out[Queue] = "interrupted" THEN Go(Queue, <<"cancelled">>)
    ELSE IF ~op.connected \/ out[Queue] \in {"failed", "raised"} THEN Go(Queue, <<"start_failed">>)
    ELSE \E ls \in nexts : Go(Queue, ls)

\* Launched, or continuing: the queue is read again, or cannot be read.
Seek ==
    /\ At(Queue, "seek") /\ Prompt(Queue)
    /\ Checked({Rest, <<"start_failed">>, <<"home", "at_home">>})
    /\ UNCHANGED <<queue, op, arm, used>>

SeekHome ==
    /\ At(Queue, "at_home") /\ Prompt(Queue)
    /\ Checked(IF AtHome THEN {Rest, <<"start_failed">>, <<"grant">>} ELSE {<<"start_failed">>})
    /\ UNCHANGED <<queue, op, arm, used>>

SceneHome ==
    /\ At(Queue, "scene")
    /\ Checked(IF AtHome THEN {Rest} ELSE {<<"start_failed">>})
    /\ UNCHANGED <<queue, op, arm, used>>

\* OperatorSimulator.action("run_policy")
MayAuthorize(o) == o.launched /\ o.mode = "READY" /\ arm.pose = "home" /\ o.connected
Authorize(o) == IF MayAuthorize(o) THEN [o EXCEPT !.mode = "API_WAITING", !.authorized = TRUE]
                ELSE o

\* auto_queue.lock protects both Stop's cancellation and the grant.
Grant ==
    /\ At(Queue, "grant")
    /\ Checked(IF arm.state = "STOPPED" /\ MayAuthorize(op)
               THEN {<<"tick_end">>} ELSE {<<"start_failed">>})
    /\ IF Head(stack'[Queue]) = "tick_end"
         THEN op' = Authorize(op) /\ queue' = [queue EXCEPT !.handoff = TRUE]
         ELSE UNCHANGED <<op, queue>>
    /\ UNCHANGED <<arm, used>>

RestedEarly ==
    /\ At(Queue, "rested")
    /\ Go(Queue, IF Rested THEN <<"tick_end">>
                 ELSE IF queue.cancel \/ out[Queue] = "interrupted" THEN <<"cancelled">>
                 ELSE <<"start_failed">>)
    /\ UNCHANGED <<queue, op, arm, used>>

\* The two exception handlers: a failure also pauses; both hold arms that are on.
StartFailed ==
    /\ At(Queue, "start_failed")
    /\ Go(Queue, <<"pause_clear", "cancelled">>)
    /\ UNCHANGED <<queue, op, arm, used>>

StartCancelled ==
    /\ At(Queue, "cancelled")
    /\ Go(Queue, IF arm.state \in Held THEN <<"hold", "tick_end">> ELSE <<"tick_end">>)
    /\ UNCHANGED <<queue, op, arm, used>>

TickEnd ==
    /\ At(Queue, "tick_end")
    /\ queue' = [queue EXCEPT !.running = FALSE]
    /\ IF out[Queue] = "raised" THEN Jump(Queue, <<"pause">>) /\ physLock' = None /\ UNCHANGED action
       ELSE Finish(Queue)
    /\ UNCHANGED <<op, arm, used>>

QueueStep ==
    \/ TickFault \/ HandoffEnds \/ RestedLate \/ TickStart \/ Claim \/ Seek \/ SeekHome
    \/ SceneHome \/ Grant \/ RestedEarly \/ StartFailed \/ StartCancelled \/ TickEnd

----------------------------------------------------------------------------
(* PhysicalOperator.action and waypath_action: the panel.                  *)

Pressed(p, o) == /\ o \in Orders /\ Idle(p) /\ MayHappen /\ used.orders < MaxOrders
                 /\ used' = [used EXCEPT !.orders = @ + 1]

PressStop(p) ==
    /\ \/ Pressed(p, "stop") /\ Start(p, <<"pause_clear", "stop">>)
       \/ Pressed(p, "hold") /\ Start(p, <<"hold">>)
       \/ Pressed(p, "off")  /\ Start(p, <<"pause">>)
    /\ UNCHANGED <<queue, op, arm, physLock, action>>

\* enable(): a park is needed first, and a file that cannot be written refuses.
PressOn(p) ==
    /\ "on" \in Orders /\ Idle(p) /\ MayHappen /\ used.orders < MaxOrders
    /\ ~queue.running /\ (queue.parked \/ queue.enabled)
    /\ \E failures \in 0 .. 1 :
         /\ used.faults + failures <= MaxFaults
         /\ used' = [used EXCEPT !.orders = @ + 1, !.faults = @ + failures]
         /\ queue' = IF failures = 0 THEN Saved(Set(queue, TRUE, queue.parked))
                     ELSE Set(queue, FALSE, queue.parked)
    /\ UNCHANGED <<op, arm, stack, out, physLock, action>>

\* Everything else waits for _physical_lock, after it has paused the queue.
PressMove(p) ==
    /\ \E o \in {"launch", "home", "park", "run_policy", "wrist", "waypath"} :
         /\ Pressed(p, o) /\ ~queue.running
         /\ Start(p, IF o \in {"wrist", "waypath"} THEN <<"enter", o>> ELSE <<"pause", "enter", o>>)
    /\ UNCHANGED <<queue, op, arm, physLock, action>>

PolicyReady == /\ op.mode \in {"READY", "STOPPED"} /\ arm.state = "STOPPED" /\ arm.pose = "home"
               /\ op.pending = None /\ op.connected /\ ~op.authorized /\ op.lease = None

Enter(p) ==
    /\ At(p, "enter") /\ physLock = None
    /\ LET o == stack[p][2]
           refused == \/ o = "launch" /\ arm.state \in {"EXECUTING", "INITIALIZING"}
                      \/ o = "run_policy" /\ ~PolicyReady
       IN /\ stack' = [stack EXCEPT ![p] = IF refused THEN <<>>
                                           ELSE IF o = "launch" THEN <<o, "launch_result">> ELSE <<o>>]
          /\ physLock' = IF refused THEN None ELSE p
    /\ UNCHANGED <<queue, op, arm, out, action, used>>

LaunchResult(p) ==
    /\ At(p, "launch_result")
    /\ op' = IF out[p] = "ok" THEN op
             ELSE [op EXCEPT !.mode = "FAULT", !.launched = FALSE, !.ok = FALSE,
                             !.authorized = FALSE]
    /\ Finish(p)
    /\ UNCHANGED <<queue, arm, used>>

\* The status that policy_ready judged may have changed since.
RunPolicy(p) ==
    /\ At(p, "run_policy")
    /\ op' = Authorize([op EXCEPT !.mode = "READY"])
    /\ Finish(p)
    /\ UNCHANGED <<queue, arm, used>>

WristTest(p) ==
    /\ At(p, "wrist")
    /\ IF op.mode = "READY" /\ op.lease = None /\ ~op.authorized /\ arm.state = "STOPPED"
         THEN op' = [op EXCEPT !.mode = "WRIST_TEST"] /\ Go(p, <<"move", "wrist_end">>)
         ELSE UNCHANGED op /\ Finish(p)
    /\ UNCHANGED <<queue, arm, used>>

WristEnd(p) ==
    /\ At(p, "wrist_end")
    /\ op' = [op EXCEPT !.mode = IF out[p] = "reached" THEN "STOPPED" ELSE "FAULT"]
    /\ Finish(p)
    /\ UNCHANGED <<queue, arm, used>>

\* The waypath runs on a thread of its own, without _physical_lock.
StartWaypath(p) ==
    /\ At(p, "waypath")
    /\ LET may == /\ ~queue.enabled /\ ~queue.running /\ Idle(Waypath)
                  /\ arm.state = "STOPPED" /\ arm.pose = "home"
                  /\ ~op.authorized /\ op.lease = None /\ op.pending = None
       IN /\ op' = IF may THEN [op EXCEPT !.mode = "WAYPATH"] ELSE op
          /\ stack' = [stack EXCEPT ![p] = <<>>,
                         ![Waypath] = IF may THEN <<"move", "waypath_end">> ELSE @]
    /\ physLock' = None
    /\ UNCHANGED <<queue, arm, out, action, used>>

WaypathEnd ==
    /\ At(Waypath, "waypath_end")
    /\ op' = CASE out[Waypath] = "reached" -> [op EXCEPT !.mode = "READY"]
               [] out[Waypath] = "interrupted" -> [op EXCEPT !.mode = "STOPPED"]
               [] OTHER -> op
    /\ IF out[Waypath] \in {"reached", "interrupted"} THEN Finish(Waypath)
       ELSE Go(Waypath, <<"holding", "waypath_held">>)
    /\ UNCHANGED <<queue, arm, used>>

WaypathHeld ==
    /\ At(Waypath, "waypath_held")
    /\ op' = [op EXCEPT !.mode = IF arm.state = "STOPPED" THEN "STOPPED" ELSE "FAULT",
                        !.ok = (arm.state = "STOPPED")]
    /\ Finish(Waypath)
    /\ UNCHANGED <<queue, arm, used>>

PanelStep(p) ==
    \/ PressStop(p) \/ PressOn(p) \/ PressMove(p) \/ Enter(p)
    \/ LaunchResult(p) \/ RunPolicy(p) \/ WristTest(p) \/ WristEnd(p) \/ StartWaypath(p)

----------------------------------------------------------------------------
(* The watchdog of a run.                                                  *)

\* Mutant: a run with nothing pending is taken for one that has ended.
WatchEndsEarly(w) ==
    /\ At(w, "watch") /\ (op.deadline # w \/ op.pending = None)
    /\ Finish(w)
    /\ UNCHANGED <<queue, op, arm, used>>

WatchEnds(w) ==
    /\ At(w, "watch") /\ op.deadline # w
    /\ Finish(w)
    /\ UNCHANGED <<queue, op, arm, used>>

\* Mutant: the end of a run does not wait for _physical_lock.
ExpireUnlocked(w) ==
    /\ At(w, "watch") /\ op.deadline = w
    /\ op' = [op EXCEPT !.deadline = None]
    /\ Go(w, <<"hold", "expired">>)
    /\ UNCHANGED <<queue, arm, used>>

\* _expire_policy_runtime, on the watchdog or for a server that has timed out.
Expire(w) ==
    /\ At(w, "watch") /\ op.deadline = w
    /\ physLock = None /\ physLock' = w
    /\ op' = [op EXCEPT !.deadline = None]
    /\ Jump(w, <<"hold", "expired">>) /\ UNCHANGED action
    /\ UNCHANGED <<queue, arm, used>>

\* _park_after_policy_timeout waits for the executor to notice.
Expired(w) ==
    /\ At(w, "expired")
    /\ \/ out[w] = "raised" /\ Finish(w)
       \/ out[w] # "raised" /\ arm.state # "EXECUTING" /\ Go(w, <<"park">>)
    /\ UNCHANGED <<queue, op, arm, used>>

WatchStep(w) == WatchEnds(w) \/ Expire(w) \/ Expired(w)

----------------------------------------------------------------------------
(* The executor of an accepted action: _execute_api_command and            *)
(* _execute_api_trajectory.                                                *)

\* A trajectory knows its action by its id, a command takes what is pending.
Execute(e) ==
    /\ \/ At(e, "trajectory") /\ (IF op.pending = e THEN Go(e, <<"move", "played">>) ELSE Finish(e))
       \/ At(e, "command") /\ (IF op.pending # None THEN Go(e, <<"move", "acted">>) ELSE Finish(e))
    /\ UNCHANGED <<queue, op, arm, used>>

\* Executed, or stopped before an unsafe waypoint.
Acted(e) ==
    /\ At(e, "acted") \/ At(e, "played")
    /\ out[e] \in {"reached", "rejected", "interrupted"}
    /\ LET mine == IF At(e, "played") THEN op.pending = e ELSE op.pending # None
       IN op' = IF out[e] # "interrupted" /\ mine THEN [op EXCEPT !.pending = None] ELSE op
    /\ Finish(e)
    /\ UNCHANGED <<queue, arm, used>>

\* _return_settle_to_model: a missed target may be given back to the model.
Replan(e) ==
    /\ At(e, "played") /\ out[e] = "missed"
    /\ IF op.pending # e \/ action[e].cancelled \/ ~op.authorized \/ arm.state # "STOPPED" \/ arm.halt
         THEN Finish(e) /\ UNCHANGED op /\ NoFault
         ELSE \/ Finish(e) /\ op' = [op EXCEPT !.pending = None] /\ NoFault
              \/ Go(e, <<"act_failed">>) /\ UNCHANGED op /\ Fail
    /\ UNCHANGED <<queue, arm>>

TrajectoryFailed(e) ==
    /\ \/ At(e, "act_failed")
       \/ At(e, "played") /\ out[e] \in {"servo", "failed"}
    /\ IF op.pending = e
         THEN /\ op' = [op EXCEPT !.pending = None, !.mode = "FAULT", !.ok = FALSE,
                                  !.authorized = FALSE]
              /\ Go(e, <<"holding">>)
         ELSE UNCHANGED op /\ Finish(e)
    /\ UNCHANGED <<queue, arm, used>>

CommandFailed(e) ==
    /\ At(e, "acted") /\ out[e] \in {"missed", "servo", "failed"}
    /\ op' = [op EXCEPT !.pending = None, !.mode = "FAULT", !.ok = FALSE]
    /\ IF out[e] = "missed" THEN Go(e, <<"recover">>) ELSE Finish(e)
    /\ UNCHANGED <<queue, arm, used>>

\* _recover_joint_settle_fault: hold, then park the arms that still hold.
Recover(e) ==
    /\ At(e, "recover") /\ physLock = None
    /\ IF op.mode = "FAULT" /\ arm.state = "STOPPED"
         THEN /\ op' = [op EXCEPT !.recovery = "armed"] /\ physLock' = e
              /\ Jump(e, <<"pause_clear", "hold", "recovering">>) /\ UNCHANGED action
         ELSE UNCHANGED op /\ Finish(e)
    /\ UNCHANGED <<queue, arm, used>>

Recovering(e) ==
    /\ At(e, "recovering")
    /\ Go(e, CASE out[e] = "raised" -> <<"stop", "recovered">>
               [] op.recovery = "set" -> <<"recovered">>
               [] arm.state # "STOPPED" -> <<"stop", "recovered">>
               [] OTHER -> <<"park", "parked_or_not">>)
    /\ UNCHANGED <<queue, op, arm, used>>

ParkedOrNot(e) ==
    /\ At(e, "parked_or_not")
    /\ Go(e, IF out[e] = "raised" THEN <<"stop", "recovered">> ELSE <<"recovered">>)
    /\ UNCHANGED <<queue, op, arm, used>>

Recovered(e) ==
    /\ At(e, "recovered")
    /\ op' = [op EXCEPT !.recovery = "none"] /\ Finish(e)
    /\ UNCHANGED <<queue, arm, used>>

ExecutorStep(e) ==
    \/ Execute(e) \/ Acted(e) \/ Replan(e) \/ TrajectoryFailed(e) \/ CommandFailed(e)
    \/ Recover(e) \/ Recovering(e) \/ ParkedOrNot(e) \/ Recovered(e)

----------------------------------------------------------------------------
(* The Session API client's thread: one message at a time.                 *)

FreshRun(w) == Idle(w) /\ w \notin {op.lease, op.deadline}
               /\ \A e \in Executors : action[e].run # w

\* api_prepare_session: the lease is taken under all three locks ...
Prepare ==
    /\ Idle(Client) /\ physLock = None
    /\ op.authorized /\ op.mode = "API_WAITING" /\ ~(queue.handoff /\ queue.cancel)
    /\ \E w \in Watchdogs :
         /\ FreshRun(w)
         /\ op' = [op EXCEPT !.lease = w, !.offer = w, !.mode = "API_ACTIVE"]
    /\ queue' = [queue EXCEPT !.handoff = FALSE]
    /\ physLock' = Client /\ Start(Client, <<"prepared">>)
    /\ UNCHANGED <<arm, action, used>>

\* ... and the deadline set after that, whatever has become of the lease, unless the
\* link to the motor process is lost: then the setter of recovery_allowed raises.
Prepared ==
    /\ At(Client, "prepared")
    /\ op' = [op EXCEPT !.deadline = IF arm.link THEN op.offer ELSE @, !.offer = None]
    /\ stack' = [stack EXCEPT ![Client] = <<>>,
                             ![op.offer] = IF arm.link THEN <<"watch">> ELSE @]
    /\ physLock' = None
    /\ UNCHANGED <<queue, arm, out, action, used>>

\* api_handle_joint_command and api_handle_joint_trajectory up to the validation,
\* which releases op.lock and needs the kinematic model.
Receive ==
    /\ Idle(Client) /\ Prompt(Client)
    /\ op.mode = "API_ACTIVE" /\ op.lease # None /\ op.pending = None
    /\ op' = [op EXCEPT !.offer = op.lease]
    /\ Start(Client, <<"validate">>)
    /\ UNCHANGED <<queue, arm, physLock, action, used>>

Validate ==
    /\ At(Client, "validate") /\ physLock = None
    /\ \/ Go(Client, <<"accept">>) /\ UNCHANGED op /\ NoFault
       \/ Finish(Client) /\ op' = [op EXCEPT !.offer = None] /\ NoFault
       \/ /\ Fail   \* validation is unavailable: motors off, no pause
          /\ op' = [op EXCEPT !.mode = "FAULT", !.ok = FALSE, !.authorized = FALSE,
                              !.offer = None]
          /\ Go(Client, <<"stopping">>)
    /\ UNCHANGED <<queue, arm>>

\* Mutant: the authority is not looked at again.
StillAuthorizedUnchecked == op.offer # None

\* Authority may have been revoked during the validation.
StillAuthorized == op.mode = "API_ACTIVE" /\ op.lease = op.offer
Accept ==
    /\ At(Client, "accept")
    /\ IF ~StillAuthorized
         THEN Finish(Client) /\ op' = [op EXCEPT !.offer = None]
         ELSE \E e \in Executors, k \in {"trajectory", "command"} :
                /\ Idle(e) /\ \A x \in Executors : ~At(x, "trajectory") /\ ~At(x, "command")
                /\ op' = [op EXCEPT !.pending = e, !.offer = None]
                /\ action' = [action EXCEPT ![e] = [run |-> op.offer, cancelled |-> FALSE]]
                /\ stack' = [stack EXCEPT ![Client] = <<>>, ![e] = <<k>>]
                /\ UNCHANGED <<out, physLock>>
    /\ UNCHANGED <<queue, arm, used>>

\* api_handle_stop for the run that has the lease.
StopSession ==
    /\ Idle(Client) /\ op.lease # None
    /\ Start(Client, IF Faulted THEN <<"pause_clear", "close">> ELSE <<"hold", "ended">>)
    /\ UNCHANGED <<queue, op, arm, physLock, action, used>>

CloseFaulted ==
    /\ At(Client, "close")
    /\ op' = [Revoke(op) EXCEPT !.deadline = None]
    /\ Finish(Client)
    /\ UNCHANGED <<queue, arm, used>>

\* Completed as asked, or ended for another reason: the queue takes over.
Ended ==
    /\ At(Client, "ended") /\ Finish(Client)
    /\ \E capture \in BOOLEAN :
         IF out[Client] # "raised" /\ (queue.enabled \/ capture)
         THEN /\ op' = [op EXCEPT !.deadline = None]
              /\ queue' = [queue EXCEPT !.completion = IF capture /\ HasScene THEN "scene" ELSE "rest",
                                        !.handoff = FALSE]
         ELSE UNCHANGED <<op, queue>>
    /\ UNCHANGED <<arm, used>>

\* api_connection_changed and api_transport_paused.
Connects ==
    /\ Idle(Client) /\ ~op.connected
    /\ op.lease # None => arm.state \in Held /\ op.ok /\ op.authorized
    /\ op' = [op EXCEPT !.connected = TRUE]
    /\ UNCHANGED <<queue, arm, stack, out, physLock, action, used>>

\* The lease outlives a pause, but not the grace of the server.
TransportPauses ==
    /\ Idle(Client) /\ op.connected /\ op.lease # None /\ Fail
    /\ op' = [op EXCEPT !.connected = FALSE]
    /\ UNCHANGED <<queue, arm, stack, out, physLock, action>>

Disconnects ==
    /\ Idle(Client)
    /\ op.connected \/ op.lease # None
    /\ IF op.connected THEN Fail ELSE NoFault
    /\ op' = IF op.lease = None THEN [op EXCEPT !.connected = FALSE]
             ELSE [Revoke(op) EXCEPT !.connected = FALSE, !.mode = "FAULT", !.ok = FALSE]
    /\ IF op.lease # None \/ op.pending # None THEN Start(Client, <<"hold">>)
       ELSE UNCHANGED <<stack, out>>
    /\ UNCHANGED <<queue, arm, physLock, action>>

ClientStep == \/ Prepare \/ Prepared \/ Receive \/ Validate \/ Accept \/ StopSession
              \/ CloseFaulted \/ Ended \/ Connects \/ Disconnects \/ TransportPauses

----------------------------------------------------------------------------
(* The environment: the poll that finds a servo fault while nothing is     *)
(* executing (_report_idle_servo_fault), motors, link, crashes.            *)

\* Mutant: the poll cancels the deadline of the run and leaves it its lease.
PollFindsFaultKeepsLease ==
    /\ Idle(Poller) /\ arm.state = "FAULT" /\ op.pending = None
    /\ op.mode # "FAULT" /\ (op.lease # None => arm.link)
    /\ op' = [op EXCEPT !.deadline = None]
    /\ Start(Poller, <<"pause_clear", "fault">>)
    /\ UNCHANGED <<queue, arm, physLock, action, used>>

PollFindsFault ==
    /\ Idle(Poller) /\ arm.state = "FAULT" /\ op.pending = None
    /\ op.mode # "FAULT" /\ (op.lease # None => arm.link)
    /\ op' = IF op.lease = None THEN op ELSE [Revoke(op) EXCEPT !.deadline = None]
    /\ Start(Poller, <<"pause_clear", "fault">>)
    /\ UNCHANGED <<queue, arm, physLock, action, used>>

ServoFault ==
    /\ arm.state = "STOPPED" /\ Fail
    /\ arm' = [arm EXCEPT !.state = "FAULT", !.halt = TRUE]
    /\ UNCHANGED <<queue, op, stack, out, physLock, action>>

\* The motor process or the pipe to it is gone, for as long as the operator runs.
LinkLost ==
    /\ arm.link /\ Dies
    /\ arm' = [arm EXCEPT !.link = FALSE, !.state = "FAULT", !.verified = FALSE]
    /\ UNCHANGED <<queue, op, stack, out, physLock, action>>

\* The operator's process dies.  The next one gets the motors once the old motor
\* process has been ended by hand; after a reboot the receipt does not count.
Crash ==
    /\ Dies
    /\ \E reboot \in BOOLEAN :
         queue' = FreshQueue(IF reboot THEN [enabled |-> FALSE, parked |-> FALSE]
                             ELSE queue.disk)
    /\ op' = FreshOp
    /\ arm' = FreshArm(FALSE, IF arm.torque THEN "away" ELSE arm.pose)
    /\ stack' = [t \in Threads |-> <<>>] /\ out' = [t \in Threads |-> "none"]
    /\ physLock' = None
    /\ action' = [e \in Executors |-> NoAction]

Environment == PollFindsFault \/ ServoFault \/ LinkLost \/ Crash

----------------------------------------------------------------------------

\* The procedures of a thread that has begun, by where it is.
Moves == {"move", "moving"}
Holds == {"pause", "pause_clear", "pause_handoff", "hold", "holding", "hold_wait", "held", "fault"}
Stops == {"stop", "torque_off", "stopping", "release", "releasing", "stopped"}
Procedure(t) ==
    /\ ~Idle(t)
    /\ \/ /\ Head(stack[t]) \in Moves
          /\ MoveRefused(t) \/ MoveBegin(t) \/ MoveEnd(t) \/ MoveInterrupted(t) \/ MoveFailed(t)
       \/ /\ Head(stack[t]) \in Holds
          /\ \/ PauseQueue(t) \/ PauseHandoff(t) \/ Fault(t)
             \/ Hold(t) \/ HoldRequest(t) \/ HoldDone(t) \/ HoldEnd(t)
       \/ /\ Head(stack[t]) \in Stops
          /\ Stop(t) \/ TorqueOff(t) \/ StopRequest(t) \/ Release(t) \/ Released(t) \/ StopEnd(t)
       \/ /\ Head(stack[t]) \notin Moves \cup Holds \cup Stops
          /\ \/ Launch(t) \/ LaunchBegin(t) \/ LaunchEnd(t) \/ Launched(t)
             \/ Home(t) \/ Homing(t) \/ Homed(t) \/ HoldMeasured(t) \/ Remeasured(t)
             \/ Park(t) \/ Parking(t) \/ AtZero(t) \/ Receipt(t)

Step(t) ==
    \/ Procedure(t)
    \/ t = Queue /\ QueueStep
    \/ t = Client /\ ClientStep
    \/ t = Waypath /\ (WaypathEnd \/ WaypathHeld)
    \/ t \in Panel /\ PanelStep(t)
    \/ t \in Watchdogs /\ ~Idle(t) /\ WatchStep(t)
    \/ t \in Executors /\ ~Idle(t) /\ ExecutorStep(t)

Next == (\E t \in Threads : Step(t)) \/ Environment

Spec == Init /\ [][Next]_vars

\* Threads that have begun are scheduled, and get the locks they wait for: nothing
\* holds _physical_lock for good, and between its polls the queue loop sleeps.  The
\* loop itself polls for ever.  Orders, messages and the environment are free.
Fairness == /\ \A t \in Threads \ Watchdogs : WF_vars(~Idle(t) /\ Step(t))
            /\ \A w \in Watchdogs : SF_vars(Step(w))
            /\ WF_vars(TickFault \/ HandoffEnds \/ TickStart)
FairSpec == Spec /\ Fairness

----------------------------------------------------------------------------
(* Properties.                                                             *)

\* Where a thread can be, and what a procedure can leave in out.
Labels == Moves \cup Holds \cup Stops \cup
    {"launch", "launching", "initializing", "launched", "home", "homing", "homed",
     "hold_measured", "remeasured", "park", "parking", "at_zero", "receipt",
     "claim_launch", "claim_next", "claim_scene", "seek", "at_home", "scene", "grant", "rested",
     "rested_late", "start_failed", "cancelled", "tick_end", "enter", "launch_result",
     "run_policy", "wrist", "wrist_end", "waypath", "waypath_end", "waypath_held", "watch",
     "expired", "trajectory", "command", "acted", "played", "act_failed", "recover",
     "recovering", "parked_or_not", "recovered", "prepared", "validate", "accept", "close",
     "ended"}
Results == {"none", "ok", "blocked", "failed", "interrupted", "missed", "parked", "raised",
            "reached", "rejected", "servo"}

\* Every variable has its type; the operator is in one of OPERATOR_MODES.
TypeOK ==
    /\ queue \in [enabled : BOOLEAN, parked : BOOLEAN, running : BOOLEAN,
                  completion : {"none", "rest", "scene"}, handoff : BOOLEAN,
                  cancel : BOOLEAN, disk : [enabled : BOOLEAN, parked : BOOLEAN]]
    /\ op \in [mode : Modes, ok : BOOLEAN, launched : BOOLEAN, connected : BOOLEAN,
               authorized : BOOLEAN, lease : Watchdogs \cup {None},
               deadline : Watchdogs \cup {None}, pending : Executors \cup {None},
               offer : Watchdogs \cup {None}, recovery : {"none", "armed", "set"}]
    /\ arm \in [state : ArmStates, verified : BOOLEAN, halt : BOOLEAN, link : BOOLEAN,
                torque : BOOLEAN, pose : {"zero", "home", "away"}]
    /\ stack \in [Threads -> Seq(Labels)] /\ out \in [Threads -> Results]
    /\ physLock \in Threads \cup {None}
    /\ action \in [Executors -> [run : Watchdogs \cup {None}, cancelled : BOOLEAN]]
    /\ used \in [faults : 0 .. MaxFaults, crashes : 0 .. MaxCrashes, orders : 0 .. MaxOrders]

\* A receipt, in memory or on disk, is about arms that are off and at zero, and stays
\* so over crashes, failed saves, Stop and the next launch: the automatic queue
\* launches on it, after a restart too (auto_queue.py).
ReceiptIsTrue ==
    queue.parked \/ queue.disk.parked => ~arm.torque /\ arm.pose = "zero"

\* What an executor moves, it moves for the run that has the lease: an action that was
\* validated before a revocation is not accepted after it, one of an old run does not
\* move in the next, and whoever revokes the lease has cancelled the action with it.  But
\* the loss of a connection is noted before the client's thread holds, and the end of a
\* run in a fault closes the lease and the deadline and leaves the action
\* (api_handle_joint_trajectory, api_handle_stop, _hold_physical, api_connection_changed).
Closed(e) == op.lease = None /\ op.deadline = None /\ op.pending = e
SessionMotionIsLeased ==
    \A e \in Executors : Moving(e) /\ stack[e][2] \in {"acted", "played"}
        => op.lease = action[e].run \/ Closed(e) \/ At(Client, "hold")

\* While the automatic queue moves the arms, or anyone parks them, no run has the
\* lease: a late prepare cannot acquire it during a park, of a watchdog either
\* (tick, api_prepare_session, _park_after_policy_timeout).
ParkingExcludesRuns ==
    \A t \in Threads : Moving(t) /\ (stack[t][2] = "at_zero" \/ t = Queue)
                       => op.lease = None

\* A run that has the lease has its deadline running, whatever the server, the poll,
\* a fault or the watchdog of the run before does; only the thread that is taking the
\* run away, or is still granting it, may be between the two.  With the link to the
\* motor process lost the lease can stay behind: hold and stop raise at once.
Ending == \E t \in Threads :
    \E l \in {"hold", "holding", "held", "stopping", "stopped", "close"} : Within(t, l)
RunHasDeadline ==
    op.lease # None /\ arm.link => op.deadline = op.lease \/ At(Client, "prepared") \/ Ending

\* A station that waits for a run, its arms held, holds them at Home, whoever has
\* authorized it and whatever was ordered since (_authorize_automatic_policy,
\* action("run_policy"), _move_home).
GrantIsAtHome ==
    op.mode = "API_WAITING" /\ op.authorized /\ physLock = None /\ arm.state \in Held /\ Idle(Waypath)
    => arm.pose = "home" /\ arm.state = "STOPPED"

\* Every run loses its lease: at the latest its watchdog takes it, though the queue,
\* the panel and the executors contend for _physical_lock (_watch_policy_runtime).
RunsEnd == \A w \in Watchdogs : op.lease = w ~> op.lease # w \/ ~arm.link

\* Readiness does not stay armed: it is taken by a run, times out or is withdrawn by
\* the pause that ends the polling (AutoQueue.pause, tick).
HandoffEnded == queue.handoff ~> ~queue.handoff

\* Stop is the last word: without another order the arms end up released for good,
\* or in a retained fault, though a start, a Home, a run or a park was under way
\* (_stop_physical, AutoQueue.pause, tick).
StopIsLast == \A p \in Panel :
    At(p, "stop") /\ used.orders = MaxOrders ~> [](~arm.torque \/ arm.state = "FAULT")

\* "Stop cancellation must not be overwritten by a late park completion"
\* (zero_control.py): once Stop has cleared the receipt, nothing writes it again.
\* A park of a watchdog, or of the panel, has no cancel_event and does.
StopBeatsLatePark == \A p \in Panel : Within(p, "stopped") => ~queue.parked
=============================================================================
