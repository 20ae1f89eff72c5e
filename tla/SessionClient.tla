--------------------------- MODULE SessionClient ---------------------------
(***************************************************************************)
(* The connection of a YAM station to the Session API: the client's thread *)
(* (session_api_sim_client.py), the API half of the operator that it calls *)
(* (yam_operator_sim_web.py, yam_operator_hardware_web.py) and the server  *)
(* (external, as the client relies on it), over a socket that breaks.      *)
(*                                                                         *)
(* The client connects, offers to resume the run it has a lease for, sends *)
(* what other threads put in its outbox and hands every message it         *)
(* receives to the operator.  The outbox outlives a connection; the        *)
(* message in hand when send() raises is sent again.  Trajectories are the *)
(* commands here: one has an id <<session, step>>, and the operator keeps  *)
(* a record of those it has accepted, for the server that asks again.      *)
(*                                                                         *)
(* Other threads of the operator speak too: the executor of a trajectory   *)
(* and whoever enforces the deadline of a run.  They build a message under *)
(* the operator's lock and put it in the outbox after they have released   *)
(* it; much may happen in between.                                         *)
(*                                                                         *)
(* Abstracted: heartbeats and status reports, to an unregistered server's  *)
(* answer to them; the content of a trajectory, to whether it passes       *)
(* validation; its completion or abort, to its being settled; progress and *)
(* the observation that goes with a result, to the result; a hold of the   *)
(* motors, to one step; motion, the park that follows a deadline and the   *)
(* report of an idle servo fault (YamOperator).                            *)
(***************************************************************************)
EXTENDS Integers, Sequences, FiniteSets

CONSTANTS None,
          Grace,          \* whether the server keeps the session of a broken connection
          MaxSessions,    \* bound: sessions that the server begins
          MaxSteps,       \* bound: trajectories of a session
          Requesting,     \* bound: sessions that request an execution
          MaxRecords,     \* accepted trajectories that the operator remembers
          MaxBreaks,      \* bound: broken connections, and raising handlers
          MaxOrders,      \* bound: what else happens to the operator
          MaxEvents,      \* bound: both together
          MaxBacklog,     \* bound: messages in one direction of the socket
          MaxReporting    \* bound: executors that have something to send

ASSUME BoundsPositive == /\ MaxSessions \in Nat \ {0} /\ MaxSteps \in Nat \ {0}
                         /\ MaxRecords \in Nat \ {0} /\ MaxBacklog \in Nat \ {0}
                         /\ MaxReporting \in Nat \ {0}
                         /\ MaxBreaks \in Nat /\ MaxOrders \in Nat /\ MaxEvents \in Nat
ASSUME NoneIsNoSession == None \notin 1 .. MaxSessions
ASSUME RequestingSessions == Requesting \subseteq 1 .. MaxSessions
ASSUME GraceIsBoolean == Grace \in BOOLEAN

Sessions == 1 .. MaxSessions
Steps    == 1 .. MaxSteps
Ids      == Sessions \X Steps

VARIABLES
    client,    \* SessionApiSimClient
    outbox,    \* its queue, outbound
    robot,     \* the operator
    socket,    \* the connection: up to the server, down to the robot
    server,    \* the Session API
    used       \* the bounded counters: breaks, orders

vars == <<client, outbox, robot, socket, server, used>>

Ready          == [type |-> "ready"]
About(type, s) == [type |-> type, session |-> s]
Trajectory(id) == [type |-> "trajectory", id |-> id]
Result(id, s, status) == [type |-> "result", id |-> id, session |-> s, status |-> status]

Init ==
    /\ client = [pc |-> "connect", pending |-> None, resume |-> None, message |-> None,
                 replies |-> <<>>, grace |-> FALSE, paused |-> "no", tasks |-> {},
                 overtaken |-> {}]
    /\ outbox = <<>>
    /\ robot = [mode |-> "STOPPED", authorized |-> FALSE, ok |-> TRUE, connected |-> FALSE,
                lease |-> None, step |-> 0, pending |-> None, records |-> <<>>, link |-> TRUE,
                deadline |-> "none", expiring |-> "no", notice |-> <<>>,
                reports |-> [id \in Ids |-> <<>>]]
    /\ socket = [open |-> FALSE, up |-> <<>>, down |-> <<>>]
    /\ server = [registered |-> FALSE, ready |-> FALSE, session |-> None, begun |-> 0,
                 step |-> 0, requested |-> FALSE, refused |-> {}]
    /\ used = [breaks |-> 0, orders |-> 0]

----------------------------------------------------------------------------
(* The operator.                                                           *)

Goto(l) == client' = [client EXCEPT !.pc = l]
MayHappen == used.breaks + used.orders < MaxEvents
Breaks == MayHappen /\ used.breaks < MaxBreaks /\ used' = [used EXCEPT !.breaks = @ + 1]
Orders == MayHappen /\ used.orders < MaxOrders /\ used' = [used EXCEPT !.orders = @ + 1]
Post(ms) == outbox' = outbox \o ms

\* _hold_physical, when the link to the motor process lets it.
Holding(r) == [r EXCEPT !.lease = None, !.authorized = FALSE, !.pending = None,
                        !.mode = "STOPPED", !.ok = TRUE]

\* What became of a trajectory that was accepted.
Settled(records, id) ==
    [i \in DOMAIN records |-> IF records[i].id = id THEN [id |-> id, status |-> "settled"]
                              ELSE records[i]]
\* Mutant: one record too many.
AcceptedOneMore(records, id) ==
    LET all == Append(records, [id |-> id, status |-> "accepted"])
    IN IF Len(all) > MaxRecords + 1 THEN Tail(all) ELSE all

Accepted(records, id) ==
    LET all == Append(records, [id |-> id, status |-> "accepted"])
    IN IF Len(all) > MaxRecords THEN Tail(all) ELSE all
Recorded(id) == { robot.records[i] : i \in DOMAIN robot.records }
                \cap { [id |-> id, status |-> st] : st \in {"accepted", "settled"} }

\* _physical_lock, with the thread that enforces a deadline.
PhysicalLockFree == robot.expiring = "no"

\* run_policy at Home: announced as ready.
Authorize ==
    /\ PhysicalLockFree
    /\ robot.mode = "STOPPED" /\ robot.connected /\ robot.lease = None
    /\ server.begun < MaxSessions
    /\ robot' = [robot EXCEPT !.mode = "API_WAITING", !.authorized = TRUE]
    /\ Post(<<Ready>>)
    /\ UNCHANGED <<client, socket, server, used>>

\* Hold or Stop at the panel; a fault is cleared so too.  Only a Stop ends the deadline.
Withdraw ==
    /\ robot.mode # "STOPPED" \/ robot.lease # None
    /\ robot.link /\ Orders
    /\ \E deadline \in {robot.deadline, "none"} :
         robot' = [Holding(robot) EXCEPT !.deadline = deadline]
    /\ UNCHANGED <<client, outbox, socket, server>>

\* _policy_watchdog: a thread is to expire the run.  A run that ended in another way may
\* still have its deadline.  (A thread whose deadline is gone when it has the physical
\* lock returns: it is left out.)
DeadlinePasses ==
    /\ robot.deadline = "set" /\ Orders
    /\ robot' = [robot EXCEPT !.deadline = "passed"]
    /\ UNCHANGED <<client, outbox, socket, server>>

\* _expire_policy_runtime, with the physical lock: the abort is built, ...
ExpireRun ==
    /\ robot.deadline = "passed" /\ PhysicalLockFree
    /\ robot' = [robot EXCEPT !.deadline = "none", !.expiring = "hold",
                              !.notice = IF robot.lease = None THEN <<>>
                                         ELSE <<About("safety_abort", robot.lease)>>]
    /\ UNCHANGED <<client, outbox, socket, server, used>>

\* ... the motors are held, which revokes the lease, or that raises and ends the thread, ...
ExpireHolds ==
    /\ robot.expiring = "hold"
    /\ robot' = IF robot.link THEN [Holding(robot) EXCEPT !.expiring = "report"]
                ELSE [robot EXCEPT !.expiring = "no", !.notice = <<>>]
    /\ UNCHANGED <<client, outbox, socket, server, used>>

\* ... and only then it is sent.
ExpireReports ==
    /\ robot.expiring = "report"
    /\ Post(robot.notice)
    /\ robot' = [robot EXCEPT !.expiring = "no", !.notice = <<>>]
    /\ UNCHANGED <<client, socket, server, used>>

ExpiryStep == ExpireRun \/ ExpireHolds \/ ExpireReports

LinkLost ==
    /\ robot.link /\ Orders
    /\ robot' = [robot EXCEPT !.link = FALSE]
    /\ UNCHANGED <<client, outbox, socket, server>>

MayReport == Cardinality({ id \in Ids : robot.reports[id] # <<>> }) < MaxReporting
SettledWith(ms) == [robot EXCEPT !.pending = None, !.records = Settled(@, robot.pending),
                                 !.reports[robot.pending] = @ \o ms]

\* The executor's result, if the trajectory is still pending: executed, or stopped
\* where the model may revise it ...
Completes ==
    /\ robot.pending # None /\ MayReport
    /\ robot' = SettledWith(<<Result(robot.pending, robot.lease, "settled")>>)
    /\ UNCHANGED <<client, outbox, socket, server, used>>

\* ... or failed: the lease outlives the fault.
Fails ==
    /\ robot.pending # None /\ MayReport
    /\ robot' = [SettledWith(<<Result(robot.pending, robot.lease, "settled"),
                               About("safety_abort", robot.lease)>>)
                    EXCEPT !.mode = "FAULT", !.ok = FALSE, !.authorized = FALSE]
    /\ UNCHANGED <<client, outbox, socket, server, used>>

\* The executor's thread sends what it built: after the lock, and the hold of a failure.
Reports(id) ==
    /\ robot.reports[id] # <<>>
    /\ Post(<<Head(robot.reports[id])>>)
    /\ robot' = [robot EXCEPT !.reports[id] = Tail(@)]
    /\ UNCHANGED <<client, socket, server, used>>

OperatorStep ==
    \/ Authorize \/ Withdraw \/ DeadlinePasses \/ ExpiryStep \/ LinkLost
    \/ Completes \/ Fails \/ \E id \in Ids : Reports(id)

----------------------------------------------------------------------------
(* _connect_once, up to the registration.                                  *)

\* The server may be out of reach for as long as it likes.
ConnectFails ==
    /\ client.pc = "connect"
    /\ Goto("except")
    /\ UNCHANGED <<outbox, robot, socket, server, used>>

\* The lease is read before the server is asked.
Connect ==
    /\ client.pc = "connect"
    /\ client' = [client EXCEPT !.pc = "register", !.resume = robot.lease]
    /\ socket' = [open |-> TRUE, up |-> <<>>, down |-> <<>>]
    /\ server' = [server EXCEPT !.registered = FALSE]
    /\ UNCHANGED <<outbox, robot, used>>

\* The server resumes the session it still has; a registration that does not
\* resume one ends it.
Register ==
    /\ client.pc = "register" /\ socket.open
    /\ LET resumed == client.resume # None /\ server.session = client.resume IN
       /\ client' = [client EXCEPT !.grace = Grace,
                       !.pc = IF client.resume = None THEN "announce"
                              ELSE IF resumed THEN "resume" ELSE "refused"]
       /\ server' = [server EXCEPT
                       !.registered = TRUE, !.ready = FALSE,
                       !.session = IF resumed THEN @ ELSE None,
                       !.step = IF resumed THEN @ ELSE 0,
                       !.requested = resumed /\ @,
                       !.refused = IF client.resume = None \/ resumed THEN @
                                   ELSE @ \cup {client.resume}]
    /\ UNCHANGED <<outbox, robot, socket, used>>

\* api_connection_changed(False): a lease is revoked, and what may move is held.
\* With the link to the motor process lost the hold raises.
Disconnected(r) ==
    LET active == r.lease # None \/ r.pending # None
        revoked == IF r.lease = None THEN [r EXCEPT !.connected = FALSE]
                   ELSE [r EXCEPT !.connected = FALSE, !.lease = None, !.authorized = FALSE,
                                  !.mode = "FAULT", !.ok = FALSE]
    IN IF active /\ r.link THEN [Holding(revoked) EXCEPT !.connected = FALSE] ELSE revoked
HoldRaises(r) == (r.lease # None \/ r.pending # None) /\ ~r.link

\* Mutant: a session that was not resumed keeps its lease.
RefusedKeepsLease ==
    /\ client.pc = "refused"
    /\ robot' = [robot EXCEPT !.connected = FALSE]
    /\ Goto("drop")
    /\ UNCHANGED <<outbox, socket, server, used>>

Refused ==
    /\ client.pc = "refused"
    /\ robot' = Disconnected(robot)
    /\ Goto(IF HoldRaises(robot) THEN "except" ELSE "drop")
    /\ UNCHANGED <<outbox, socket, server, used>>

\* Of a run that the server has refused to resume.
OfARefusedRun(m) == m.type \notin {"ready", "execution_result"} /\ m.session \in server.refused

\* Built by other threads of the operator, and not in the outbox yet.
Elements(ms) == { ms[i] : i \in DOMAIN ms }
Unposted == Elements(robot.notice) \cup UNION { Elements(robot.reports[id]) : id \in Ids }
Overtaken == { m \in Unposted : OfARefusedRun(m) }

\* Mutant: the message in hand is kept.
DropOutboxOnly ==
    /\ client.pc = "drop"
    /\ outbox' = <<>>
    /\ client' = [client EXCEPT !.pc = "announce", !.overtaken = @ \cup Overtaken]
    /\ UNCHANGED <<robot, socket, server, used>>

\* client.overtaken (history): what comes after it all the same.
Drop ==
    /\ client.pc = "drop"
    /\ outbox' = <<>>
    /\ client' = [client EXCEPT !.pc = "announce", !.pending = None,
                                !.overtaken = @ \cup Overtaken]
    /\ UNCHANGED <<robot, socket, server, used>>

\* api_transport_resume: a fault is not cleared by a reconnect.
MayResume == robot.ok /\ robot.authorized /\ robot.mode \in {"API_ACTIVE", "API_WAITING"}

Resume ==
    /\ client.pc = "resume"
    /\ Goto(IF MayResume /\ robot.link THEN "announce" ELSE "except")
    /\ UNCHANGED <<outbox, robot, socket, server, used>>

\* Mutant: who was waiting when the connection broke is not announced again.
AnnounceOnce ==
    /\ client.pc = "announce"
    /\ client' = [client EXCEPT !.pc = "serve", !.paused = "no", !.resume = None]
    /\ robot' = [robot EXCEPT !.connected = TRUE]
    /\ UNCHANGED <<outbox, socket, server, used>>

Announce ==
    /\ client.pc = "announce"
    /\ client' = [client EXCEPT !.pc = "serve", !.paused = "no", !.resume = None]
    /\ robot' = [robot EXCEPT !.connected = TRUE]
    /\ Post(IF robot.authorized /\ robot.mode = "API_WAITING" THEN <<Ready>> ELSE <<>>)
    /\ UNCHANGED <<socket, server, used>>

----------------------------------------------------------------------------
(* _connect_once, from then on: send all there is, then receive.           *)

InHand == IF client.pending # None THEN <<client.pending>> \o outbox ELSE outbox

Send ==
    /\ client.pc = "serve" /\ socket.open
    /\ InHand # <<>> /\ Len(socket.up) < MaxBacklog
    /\ socket' = [socket EXCEPT !.up = Append(@, Head(InHand))]
    /\ outbox' = Tail(InHand)
    /\ client' = [client EXCEPT !.pending = None]
    /\ UNCHANGED <<robot, server, used>>

\* The message may have gone out all the same.
SendRaises ==
    /\ client.pc = "serve" /\ InHand # <<>> /\ socket.open
    /\ Breaks
    /\ \E up \in {socket.up, Append(socket.up, Head(InHand))} :
         socket' = [open |-> FALSE, up |-> up, down |-> <<>>]
    /\ outbox' = Tail(InHand)
    /\ client' = [client EXCEPT !.pc = "except", !.pending = Head(InHand)]
    /\ UNCHANGED <<robot, server>>

Receive ==
    /\ client.pc = "serve" /\ socket.open
    /\ InHand = <<>> /\ socket.down # <<>>
    /\ client' = [client EXCEPT !.pc = "handle", !.message = Head(socket.down)]
    /\ socket' = [socket EXCEPT !.down = Tail(@)]
    /\ UNCHANGED <<outbox, robot, server, used>>

\* recv() and send() raise on a closed socket.
FindsClosed ==
    /\ client.pc \in {"register", "serve"} /\ ~socket.open
    /\ Goto("except")
    /\ UNCHANGED <<outbox, robot, socket, server, used>>

Handles(type) == client.pc = "handle" /\ client.message.type = type
Served(l) == [client EXCEPT !.pc = l, !.message = None]

\* Ignored unless the operator waits for a session.  Something after the lease is
\* taken may raise: the connection is given up, the lease is not, and it has no
\* deadline of its own.
PrepareSession ==
    /\ Handles("prepare") /\ PhysicalLockFree
    /\ LET s == client.message.session
           taken == [robot EXCEPT !.lease = s, !.mode = "API_ACTIVE", !.step = 0]
       IN IF robot.authorized /\ robot.mode = "API_WAITING"
            THEN \/ /\ robot.link /\ UNCHANGED used
                    /\ robot' = [taken EXCEPT !.deadline = "set"]
                    /\ client' = [Served("reply") EXCEPT !.replies = <<About("observation", s)>>]
                 \/ /\ IF robot.link THEN Breaks ELSE UNCHANGED used
                    /\ robot' = taken
                    /\ client' = Served("except")
            ELSE UNCHANGED <<robot, used>> /\ client' = Served("serve")
    /\ UNCHANGED <<outbox, socket, server>>

Reply(status) == [Served("reply") EXCEPT
                    !.replies = <<Result(client.message.id, robot.lease, status)>>]

\* Mutant: the records are not looked at, the step numbers have to do.
KnownByStepOnly(id) == FALSE

Known(id) == Recorded(id) # {}

\* api_handle_joint_trajectory: lease and step are those of the run, a known id gets
\* its record, the step follows the last one.
Acceptable(id) == /\ robot.mode = "API_ACTIVE" /\ robot.lease = id[1]
                  /\ id[2] = robot.step + 1 /\ robot.pending = None

JointTrajectory ==
    /\ Handles("trajectory")
    /\ LET id == client.message.id IN
       \/ /\ robot.mode = "API_ACTIVE" /\ robot.lease = id[1] /\ Known(id)
          /\ \E r \in Recorded(id) : client' = Reply(r.status)
          /\ UNCHANGED <<outbox, robot>>
       \/ /\ Acceptable(id) /\ ~Known(id) /\ robot.link
          /\ robot' = [robot EXCEPT !.pending = id, !.step = id[2],
                                    !.records = Accepted(@, id)]
          /\ Post(<<Result(id, robot.lease, "accepted")>>)
          /\ client' = Served("serve")
       \/ /\ ~(robot.mode = "API_ACTIVE" /\ robot.lease = id[1] /\ Known(id))
          /\ Acceptable(id) => robot.link
          /\ client' = Reply("rejected")   \* refused, or found unsafe
          /\ UNCHANGED <<outbox, robot>>
    /\ UNCHANGED <<socket, server, used>>

\* It could not be validated: the motors are stopped, or that raises.
TrajectoryUnchecked ==
    /\ Handles("trajectory")
    /\ Acceptable(client.message.id) /\ ~Known(client.message.id)
    /\ IF robot.link THEN Orders ELSE UNCHANGED used
    /\ robot' = [robot EXCEPT !.mode = "FAULT", !.ok = FALSE, !.authorized = FALSE]
    /\ client' = IF ~robot.link THEN Served("except")
                 ELSE [Served("reply") EXCEPT
                         !.replies = <<Result(client.message.id, robot.lease, "rejected"),
                                       About("safety_abort", robot.lease)>>]
    /\ UNCHANGED <<outbox, socket, server>>

\* Mutant: the client waits for its executor.
ExecutionRequestInTurn ==
    /\ Handles("execution_request")
    /\ client' = [client EXCEPT !.tasks = @ \cup {client.message.session}]
    /\ UNCHANGED <<outbox, robot, socket, server, used>>

\* On a task of its own.
ExecutionRequest ==
    /\ Handles("execution_request")
    /\ client' = [Served("serve") EXCEPT !.tasks = @ \cup {client.message.session}]
    /\ UNCHANGED <<outbox, robot, socket, server, used>>

ExecutionEnds(s) ==
    /\ s \in client.tasks
    /\ client' = [client EXCEPT !.tasks = @ \ {s}]
    /\ Post(<<About("execution_result", s)>>)
    /\ UNCHANGED <<robot, socket, server, used>>

\* api_handle_stop: ignored for any other session than the operator's; a fault only
\* loses its lease; at the end of its time a run is left to a thread that expires it, as
\* the watchdog would; the completion of a run ends its deadline.
StopSession ==
    /\ Handles("stop")
    /\ \/ /\ robot.lease # client.message.session
          /\ client' = Served("serve") /\ UNCHANGED robot
       \/ /\ robot.lease = client.message.session /\ robot.mode = "FAULT"
          /\ robot' = [robot EXCEPT !.lease = None, !.authorized = FALSE, !.deadline = "none"]
          /\ client' = Served("serve")
       \/ /\ robot.lease = client.message.session /\ robot.mode # "FAULT"
          /\ robot.deadline # "none"
          /\ robot' = [robot EXCEPT !.deadline = "passed"]
          /\ client' = Served("serve")
       \/ /\ robot.lease = client.message.session /\ robot.mode # "FAULT"
          /\ IF robot.link
               THEN \E deadline \in {robot.deadline, "none"} :
                      robot' = [Holding(robot) EXCEPT !.deadline = deadline]
               ELSE UNCHANGED robot
          /\ client' = Served(IF robot.link THEN "serve" ELSE "except")
    /\ UNCHANGED <<outbox, socket, server, used>>

\* The server has lost the registration: register again.
NotConnected ==
    /\ Handles("error")
    /\ client' = Served("except")
    /\ socket' = [socket EXCEPT !.open = FALSE, !.down = <<>>]
    /\ UNCHANGED <<outbox, robot, server, used>>

Replies ==
    /\ client.pc = "reply"
    /\ Post(client.replies)
    /\ client' = [client EXCEPT !.pc = "serve", !.replies = <<>>]
    /\ UNCHANGED <<robot, socket, server, used>>

----------------------------------------------------------------------------
(* _reconnect_loop.  An exception ends the connection.                     *)

Except ==
    /\ client.pc = "except"
    /\ socket' = [socket EXCEPT !.open = FALSE, !.down = <<>>]
    /\ client' = IF ~client.grace \/ robot.lease = None THEN [client EXCEPT !.pc = "changed"]
                 ELSE IF client.paused = "expired" THEN [client EXCEPT !.pc = "grace_over"]
                 ELSE [client EXCEPT !.pc = "pause", !.paused = "within"]
    /\ UNCHANGED <<outbox, robot, server, used>>

\* api_transport_paused: the lease is kept.
TransportPaused ==
    /\ client.pc = "pause"
    /\ robot' = [robot EXCEPT !.connected = FALSE]
    /\ Goto("connect")
    /\ UNCHANGED <<outbox, socket, server, used>>

\* What the bridge raises here nobody catches: the client's thread ends.
ConnectionChanged ==
    /\ client.pc \in {"changed", "grace_over"}
    /\ robot' = Disconnected(robot)
    /\ client' = [client EXCEPT !.pc = IF HoldRaises(robot) THEN "dead" ELSE "connect",
                                !.paused = IF client.pc = "grace_over" THEN "no" ELSE @]
    /\ UNCHANGED <<outbox, socket, server, used>>

GraceElapses ==
    /\ client.paused = "within"
    /\ client' = [client EXCEPT !.paused = "expired"]
    /\ UNCHANGED <<outbox, robot, socket, server, used>>

ClientStep ==
    \/ ConnectFails \/ Connect \/ Register \/ Refused \/ Drop \/ Resume \/ Announce
    \/ Send \/ Receive \/ FindsClosed
    \/ PrepareSession \/ JointTrajectory \/ TrajectoryUnchecked \/ ExecutionRequest
    \/ StopSession \/ NotConnected \/ Replies \/ Except \/ TransportPaused \/ ConnectionChanged

----------------------------------------------------------------------------
(* The socket and the server (external).                                   *)

\* The server reads on what has arrived; what is on its way to the robot is lost.
Break ==
    /\ socket.open /\ Breaks
    /\ \E n \in 0 .. Len(socket.up) :
         socket' = [open |-> FALSE, up |-> SubSeq(socket.up, 1, n), down |-> <<>>]
    /\ UNCHANGED <<client, outbox, robot, server>>

\* A station announces itself once for every authorization: a ready that comes
\* during a session is not forgotten.
ServerReads ==
    /\ socket.up # <<>>
    /\ LET m == Head(socket.up)
           settled == /\ m.type = "result" /\ m.status = "settled"
                      /\ m.id = <<server.session, server.step + 1>>
       IN server' = [server EXCEPT !.ready = @ \/ m.type = "ready",
                                   !.step = IF settled THEN @ + 1 ELSE @]
    /\ socket' = [socket EXCEPT !.up = Tail(@)]
    /\ UNCHANGED <<client, outbox, robot, used>>

Down(m) == socket' = [socket EXCEPT !.down = IF socket.open THEN Append(@, m) ELSE @]
MaySend == server.registered /\ Len(socket.down) < MaxBacklog

ServerPrepares ==
    /\ MaySend /\ server.ready /\ server.session = None /\ server.begun < MaxSessions
    /\ server' = [server EXCEPT !.ready = FALSE, !.session = server.begun + 1,
                                !.begun = @ + 1]
    /\ Down(About("prepare", server.begun + 1))
    /\ UNCHANGED <<client, outbox, robot, used>>

\* The next trajectory, and again as long as its fate is not known.
ServerAsks ==
    /\ MaySend /\ server.session # None /\ server.step < MaxSteps
    /\ Down(Trajectory(<<server.session, server.step + 1>>))
    /\ UNCHANGED <<client, outbox, robot, server, used>>

\* One request in a session.
ServerRequests ==
    /\ MaySend /\ server.session \in Requesting /\ ~server.requested
    /\ server' = [server EXCEPT !.requested = TRUE]
    /\ Down(About("execution_request", server.session))
    /\ UNCHANGED <<client, outbox, robot, used>>

ServerEnds ==
    /\ server.session # None
    /\ server.registered => Len(socket.down) < MaxBacklog
    /\ server' = [server EXCEPT !.session = None, !.step = 0, !.requested = FALSE]
    /\ IF server.registered THEN Down(About("stop", server.session)) ELSE UNCHANGED socket
    /\ UNCHANGED <<client, outbox, robot, used>>

\* A server that has forgotten the robot, its socket open.
ServerForgets ==
    /\ server.registered /\ Breaks
    /\ server' = [server EXCEPT !.registered = FALSE, !.ready = FALSE, !.session = None,
                                !.step = 0, !.requested = FALSE]
    /\ UNCHANGED <<client, outbox, robot, socket>>

ServerObjects ==
    /\ ~server.registered /\ socket.open /\ client.pc \notin {"register"}
    /\ Len(socket.down) < MaxBacklog
    /\ Down([type |-> "error"])
    /\ UNCHANGED <<client, outbox, robot, server, used>>

ServerStep == \/ ServerReads \/ ServerPrepares \/ ServerAsks \/ ServerRequests
              \/ ServerEnds \/ ServerForgets \/ ServerObjects

Next ==
    \/ ClientStep \/ SendRaises \/ GraceElapses
    \/ \E s \in Sessions : ExecutionEnds(s)
    \/ OperatorStep \/ ServerStep \/ Break

Spec == Init /\ [][Next]_vars

\* The client's thread is scheduled, time passes, and the server reads and objects.
\* Whoever enforces a deadline gets the physical lock, for which nobody waits for long
\* (YamOperator).  Executors need not end; the server need not ever be reached.
Fairness == /\ WF_vars(ClientStep) /\ WF_vars(GraceElapses) /\ WF_vars(ExpiryStep)
            /\ WF_vars(ServerReads) /\ WF_vars(ServerObjects)
FairSpec == Spec /\ Fairness

----------------------------------------------------------------------------
(* Properties.                                                             *)

Messages == [type : {"ready"}]
    \cup [type : {"observation", "safety_abort", "execution_result"},
          session : Sessions \cup {None}]
    \cup [type : {"result"}, id : Ids, session : Sessions \cup {None},
          status : {"accepted", "rejected", "settled"}]
Commands == [type : {"error"}] \cup [type : {"trajectory"}, id : Ids]
    \cup [type : {"prepare", "execution_request", "stop"}, session : Sessions]

\* Every variable has its type; the records of trajectories are bounded.
TypeOK ==
    /\ client.pc \in {"connect", "register", "refused", "drop", "resume", "announce", "serve",
                      "handle", "reply", "except", "pause", "changed", "grace_over", "dead"}
    /\ client.pending \in Messages \cup {None}
    /\ client.message \in Commands \cup {None}
    /\ client.replies \in Seq(Messages)
    /\ client.resume \in Sessions \cup {None} /\ client.grace \in BOOLEAN
    /\ client.paused \in {"no", "within", "expired"} /\ client.tasks \subseteq Sessions
    /\ client.overtaken \subseteq Messages
    /\ outbox \in Seq(Messages)
    /\ robot.mode \in {"STOPPED", "API_WAITING", "API_ACTIVE", "FAULT"}
    /\ robot.lease \in Sessions \cup {None} /\ robot.pending \in Ids \cup {None}
    /\ robot.step \in 0 .. MaxSteps
    /\ robot.records \in Seq([id : Ids, status : {"accepted", "settled"}])
    /\ Len(robot.records) <= MaxRecords
    /\ robot.deadline \in {"none", "set", "passed"}
    /\ robot.expiring \in {"no", "hold", "report"} /\ robot.notice \in Seq(Messages)
    /\ robot.reports \in [Ids -> Seq(Messages)]
    /\ { robot.authorized, robot.ok, robot.connected, robot.link, socket.open } \subseteq BOOLEAN
    /\ socket.up \in Seq(Messages) /\ socket.down \in Seq(Commands)
    /\ server \in [registered : BOOLEAN, ready : BOOLEAN, session : Sessions \cup {None},
                   begun : 0 .. MaxSessions, step : 0 .. MaxSteps,
                   requested : BOOLEAN, refused : SUBSET Sessions]
    /\ used \in [breaks : 0 .. MaxBreaks, orders : 0 .. MaxOrders]

Serving == client.pc = "serve" /\ socket.open /\ server.registered

\* Its deadline is being enforced: a thread waits for the physical lock, or holds.
Expiring == robot.deadline = "passed" \/ robot.expiring = "hold"

\* While the connection serves, a lease of the operator is about the session that the
\* server runs, or the word of its end is on the way, or its deadline is being enforced:
\* whatever the breaks, lost and repeated messages and refused resumptions before
\* (_connect_once, _reconnect_loop, api_handle_stop).
ServedLeaseIsLive ==
    Serving /\ robot.lease # None /\ robot.link =>
        \/ robot.lease = server.session
        \/ \E i \in DOMAIN socket.down : socket.down[i] = About("stop", robot.lease)
        \/ Expiring

\* Of a run that the server has refused to resume it gets no observation, no result
\* and no abort any more, neither from the outbox nor from the message in hand; but for
\* what a thread had built before the outbox was emptied, and sent after that.  The
\* result of an executor comes when it comes (_connect_once, _execution_request,
\* _execute_api_trajectory, _expire_policy_runtime).
NothingAfterRefusal ==
    robot.link => \A i \in DOMAIN socket.up :
        OfARefusedRun(socket.up[i]) => socket.up[i] \in client.overtaken

\* Not so: that such a run is not heard of at all.
SilentAfterRefusal ==
    robot.link => \A i \in DOMAIN socket.up : ~OfARefusedRun(socket.up[i])

\* Not so: that a lease without a session ends as soon as its stop is handled.
StopEndsTheLease ==
    Serving /\ robot.lease # None /\ robot.link =>
        \/ robot.lease = server.session
        \/ \E i \in DOMAIN socket.down : socket.down[i] = About("stop", robot.lease)

\* A trajectory asked for again, after a reconnect or while it is executing, gets its
\* record, also when there is room for few: in a run, nothing is called rejected that
\* has been accepted (api_handle_joint_trajectory).
RejectedDidNotMove ==
    \A i \in DOMAIN client.replies :
        LET m == client.replies[i] IN
        /\ m.type = "result" /\ m.status = "rejected"
        /\ robot.mode = "API_ACTIVE" /\ robot.lease = m.id[1]
        => m.id[2] > robot.step

\* A session that the server has ended ends at the robot: by its stop, though an
\* executor is at work; by a refused resumption; by the server's objections; or, with
\* the server out of reach or the robot unfit to resume, by the end of the grace.
Orphaned == robot.lease # None /\ robot.lease # server.session /\ robot.link
EndedRunsEnd == Orphaned ~> ~Orphaned

\* A connected station that waits for a session is announced, though the first
\* announcement was lost with the connection (api_connection_changed).
Awaiting == /\ robot.mode = "API_WAITING" /\ socket.open /\ server.registered
            /\ client.pc \in {"serve", "handle", "reply"}
ReadinessAnnounced == Awaiting ~> ~Awaiting \/ server.ready \/ server.session # None
=============================================================================
