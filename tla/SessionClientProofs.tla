------------------------ MODULE SessionClientProofs ------------------------
(***************************************************************************)
(* What the client of the Session API and the server agree on holds for    *)
(* every number of sessions, trajectories, broken connections and messages *)
(* on their way: a lease that is served is live, a session that was        *)
(* refused is not spoken of, and what was accepted is not called rejected. *)
(*                                                                         *)
(* The inductive invariant follows the messages: what is on its way to the *)
(* operator, or in its hand, is in the order of the sessions, and what     *)
(* waits to go out, or is built to be sent, is of no session that was      *)
(* refused unless it was built before the outbox was emptied.              *)
(***************************************************************************)
EXTENDS SessionClient, SequenceTheorems, TLAPS

----------------------------------------------------------------------------
(* The invariant.                                                          *)

Records == [id : Ids, status : {"accepted", "settled"}]
Clients ==
    [pc : {"connect", "register", "refused", "drop", "resume", "announce", "serve",
           "handle", "reply", "except", "pause", "changed", "grace_over", "dead"},
     pending : Messages \cup {None}, resume : Sessions \cup {None},
     message : Commands \cup {None}, replies : Seq(Messages), grace : BOOLEAN,
     paused : {"no", "within", "expired"}, tasks : SUBSET Sessions,
     overtaken : SUBSET Messages]
Robots ==
    [mode : {"STOPPED", "API_WAITING", "API_ACTIVE", "FAULT"}, authorized : BOOLEAN,
     ok : BOOLEAN, connected : BOOLEAN, lease : Sessions \cup {None},
     step : 0 .. MaxSteps, pending : Ids \cup {None}, records : Seq(Records), link : BOOLEAN,
     deadline : {"none", "set", "passed"}, expiring : {"no", "hold", "report"},
     notice : Seq(Messages), reports : [Ids -> Seq(Messages)]]
Sockets == [open : BOOLEAN, up : Seq(Messages), down : Seq(Commands)]
Servers == [registered : BOOLEAN, ready : BOOLEAN, session : Sessions \cup {None},
            begun : 0 .. MaxSessions, step : 0 .. MaxSteps,
            requested : BOOLEAN, refused : SUBSET Sessions]
Counters == [breaks : 0 .. MaxBreaks, orders : 0 .. MaxOrders]

Typed ==
    /\ client \in Clients /\ outbox \in Seq(Messages) /\ robot \in Robots
    /\ socket \in Sockets /\ server \in Servers /\ used \in Counters
    /\ Len(robot.records) <= MaxRecords
    /\ client.pc = "handle" => client.message \in Commands
    /\ client.pc = "refused" => client.resume \in Sessions
    /\ client.pc # "reply" => client.replies = <<>>

\* What is on its way to the operator, or in its hand, is about a session that began.
OfBegun(m) ==
    /\ m.type \in {"prepare", "stop"} => m.session <= server.begun
    /\ m.type = "trajectory" => m.id[1] <= server.begun

Born ==
    /\ robot.lease # None => robot.lease <= server.begun
    /\ client.resume # None => client.resume <= server.begun
    /\ server.session # None => server.session <= server.begun
    /\ \A s \in server.refused : s <= server.begun
    /\ \A i \in DOMAIN socket.down : OfBegun(socket.down[i])
    /\ client.pc = "handle" => OfBegun(client.message)

\* A connection begins with nothing on its way; a closed one brings nothing.
Quiet ==
    /\ client.pc = "register" => ~server.registered /\ socket.up = <<>> /\ socket.down = <<>>
    /\ ~socket.open => socket.down = <<>>

\* From Connect to Announce the lease is the one that was offered, or none.
LeaseIsOffered ==
    client.pc \in {"register", "refused", "resume"} => robot.lease \in {None, client.resume}

InHandIs(m) == client.pc = "handle" /\ client.message = m

LeaseIsServed ==
    /\ client.pc \in {"resume", "announce", "serve", "handle", "reply"}
       /\ socket.open /\ server.registered /\ robot.link /\ robot.lease # None
       => \/ robot.lease = server.session
          \/ \E i \in DOMAIN socket.down : socket.down[i] = About("stop", robot.lease)
          \/ InHandIs(About("stop", robot.lease))
          \/ Expiring
    /\ client.pc = "drop" => robot.lease = None \/ ~robot.link

\* A session that was offered is on, or the word of its end comes after the offer.
PreparedIsServed ==
    socket.open /\ server.registered =>
        /\ \A i \in DOMAIN socket.down : socket.down[i].type = "prepare" =>
              \/ socket.down[i].session = server.session
              \/ \E j \in DOMAIN socket.down :
                    i < j /\ socket.down[j] = About("stop", socket.down[i].session)
        /\ client.pc = "handle" /\ client.message.type = "prepare" =>
              \/ client.message.session = server.session
              \/ \E j \in DOMAIN socket.down :
                    socket.down[j] = About("stop", client.message.session)

\* Nothing is said of a session that was refused, but for what had been built before.
Discreet(m) == OfARefusedRun(m) => m \in client.overtaken
NotOfRefused(m) == m.type = "prepare" => m.session \notin server.refused

RefusedIsOver ==
    /\ None \notin server.refused
    /\ \A i \in DOMAIN socket.down : NotOfRefused(socket.down[i])
    /\ client.pc = "handle" => NotOfRefused(client.message)
    /\ robot.link /\ client.pc # "refused" => robot.lease \notin server.refused
    /\ robot.link /\ client.pc \notin {"refused", "drop"} =>
          /\ \A i \in DOMAIN outbox : Discreet(outbox[i])
          /\ \A i \in DOMAIN client.replies : Discreet(client.replies[i])
          /\ client.pending # None => Discreet(client.pending)
          /\ \A m \in Unposted : Discreet(m)
    /\ robot.link => \A i \in DOMAIN socket.up : Discreet(socket.up[i])

\* Trajectories of a session are asked for in order; none is behind the run.
Asked(m) ==
    m.type = "trajectory" =>
        /\ m.id[1] = server.session => m.id[2] <= server.step + 1
        /\ robot.mode = "API_ACTIVE" /\ m.id[1] = robot.lease => robot.step <= m.id[2]
Precedes(m, n) ==
    m.type = "trajectory" /\ n.type = "trajectory" /\ m.id[1] = n.id[1] => m.id[2] <= n.id[2]

AskedInOrder ==
    /\ \A i \in DOMAIN socket.down : Asked(socket.down[i])
    /\ \A i, j \in DOMAIN socket.down : i < j => Precedes(socket.down[i], socket.down[j])
    /\ client.pc = "handle" =>
          /\ Asked(client.message)
          /\ \A i \in DOMAIN socket.down : Precedes(client.message, socket.down[i])
    /\ robot.mode = "API_ACTIVE" =>
          /\ robot.lease # None
          /\ robot.lease = server.session => robot.step <= server.step + 1
          /\ robot.step > 0 =>
                /\ Len(robot.records) > 0
                /\ robot.records[Len(robot.records)].id = <<robot.lease, robot.step>>
    /\ RejectedDidNotMove

SessionInv ==
    /\ Typed /\ Born /\ Quiet /\ LeaseIsOffered /\ LeaseIsServed /\ PreparedIsServed
    /\ RefusedIsOver /\ AskedInOrder

----------------------------------------------------------------------------
(* Messages and queues.                                                    *)

LEMMA SomeMessages ==
    /\ Ready \in Messages
    /\ \A s \in Sessions \cup {None} :
          /\ About("observation", s) \in Messages /\ About("safety_abort", s) \in Messages
          /\ About("execution_result", s) \in Messages
    /\ \A id \in Ids, s \in Sessions \cup {None},
          status \in {"accepted", "rejected", "settled"} :
              Result(id, s, status) \in Messages
BY DEF Messages, Ready, About, Result

LEMMA SomeCommands ==
    /\ [type |-> "error"] \in Commands
    /\ \A id \in Ids : Trajectory(id) \in Commands
    /\ \A s \in Sessions : /\ About("prepare", s) \in Commands
                           /\ About("execution_request", s) \in Commands
                           /\ About("stop", s) \in Commands
BY DEF Commands, Trajectory, About

LEMMA CommandFields ==
    ASSUME NEW m \in Commands
    PROVE  /\ m.type \in {"error", "trajectory", "prepare", "execution_request", "stop"}
           /\ m.type = "trajectory" => m.id \in Ids
           /\ m.type \in {"prepare", "execution_request", "stop"} => m.session \in Sessions
           /\ m.type = "stop" => m = About("stop", m.session)
BY DEF Commands, About

LEMMA PairOfMessages ==
    /\ <<>> \in Seq(Messages)
    /\ \A m \in Messages : <<m>> \in Seq(Messages)
    /\ \A m, n \in Messages : <<m, n>> \in Seq(Messages)
OBVIOUS

\* What is posted to the outbox.
LEMMA PostTyped ==
    ASSUME NEW q \in Seq(Messages), NEW r \in Seq(Messages)
    PROVE  q \o r \in Seq(Messages)
BY ConcatProperties

LEMMA InHandTyped ==
    ASSUME Typed
    PROVE  /\ InHand \in Seq(Messages)
           /\ InHand # <<>> => Head(InHand) \in Messages /\ Tail(InHand) \in Seq(Messages)
<1>1. /\ outbox \in Seq(Messages)
      /\ client.pending # None => client.pending \in Messages
  BY DEF Typed, Clients
<1>2. client.pending # None => <<client.pending>> \o outbox \in Seq(Messages)
  BY <1>1, PairOfMessages, PostTyped
<1>3. InHand \in Seq(Messages)
  BY <1>1, <1>2 DEF InHand
<1>4. QED
  BY <1>3, HeadTailProperties

\* The fields of the records.
LEMMA ClientFields ==
    ASSUME Typed
    PROVE  /\ client = [pc |-> client.pc, pending |-> client.pending, resume |-> client.resume,
                        message |-> client.message, replies |-> client.replies,
                        grace |-> client.grace, paused |-> client.paused,
                        tasks |-> client.tasks, overtaken |-> client.overtaken]
           /\ client.pending \in Messages \cup {None} /\ client.resume \in Sessions \cup {None}
           /\ client.message \in Commands \cup {None} /\ client.replies \in Seq(Messages)
           /\ client.grace \in BOOLEAN /\ client.paused \in {"no", "within", "expired"}
           /\ client.tasks \subseteq Sessions /\ client.overtaken \subseteq Messages
BY DEF Typed, Clients

LEMMA RobotFields ==
    ASSUME Typed
    PROVE  /\ robot = [mode |-> robot.mode, authorized |-> robot.authorized, ok |-> robot.ok,
                       connected |-> robot.connected, lease |-> robot.lease,
                       step |-> robot.step, pending |-> robot.pending,
                       records |-> robot.records, link |-> robot.link,
                       deadline |-> robot.deadline, expiring |-> robot.expiring,
                       notice |-> robot.notice, reports |-> robot.reports]
           /\ robot.mode \in {"STOPPED", "API_WAITING", "API_ACTIVE", "FAULT"}
           /\ robot.lease \in Sessions \cup {None} /\ robot.pending \in Ids \cup {None}
           /\ robot.records \in Seq(Records) /\ robot.step \in 0 .. MaxSteps
           /\ {robot.authorized, robot.ok, robot.connected, robot.link} \subseteq BOOLEAN
           /\ robot.deadline \in {"none", "set", "passed"}
           /\ robot.expiring \in {"no", "hold", "report"}
           /\ robot.notice \in Seq(Messages) /\ robot.reports \in [Ids -> Seq(Messages)]
BY DEF Typed, Robots

LEMMA ServerFields ==
    ASSUME Typed
    PROVE  /\ server.registered \in BOOLEAN /\ server.ready \in BOOLEAN
           /\ server.session \in Sessions \cup {None}
           /\ server.begun \in Nat /\ server.begun <= MaxSessions
           /\ server.step \in Nat /\ server.step <= MaxSteps
           /\ server.requested \in BOOLEAN /\ server.refused \subseteq Sessions
BY BoundsPositive DEF Typed, Servers

LEMMA SocketFields ==
    ASSUME Typed
    PROVE  /\ socket.open \in BOOLEAN /\ socket.up \in Seq(Messages)
           /\ socket.down \in Seq(Commands)
BY DEF Typed, Sockets

----------------------------------------------------------------------------
(* Types.                                                                  *)

LEMMA InitTyped == Init => Typed
<1> SUFFICES ASSUME Init PROVE Typed
  OBVIOUS
<1>1. client \in Clients /\ outbox \in Seq(Messages)
  BY DEF Init, Clients
<1>2. robot \in Robots /\ Len(robot.records) <= MaxRecords
  BY BoundsPositive DEF Init, Robots
<1>3. socket \in Sockets
  BY DEF Init, Sockets
<1>4. server \in Servers
  BY BoundsPositive DEF Init, Servers
<1>5. used \in Counters
  BY BoundsPositive DEF Init, Counters
<1>6. QED
  BY <1>1, <1>2, <1>3, <1>4, <1>5 DEF Init, Typed

LEMMA UsedTyped ==
    ASSUME Typed, Next
    PROVE  used' \in Counters
<1>1. /\ used = [breaks |-> used.breaks, orders |-> used.orders]
      /\ used.breaks \in 0 .. MaxBreaks /\ used.orders \in 0 .. MaxOrders
  BY DEF Typed, Counters
<1>2. ASSUME Breaks PROVE used' \in Counters
  BY <1>1, <1>2, BoundsPositive DEF Breaks, Counters
<1>3. ASSUME Orders PROVE used' \in Counters
  BY <1>1, <1>3, BoundsPositive DEF Orders, Counters
<1>4. ASSUME UNCHANGED used PROVE used' \in Counters
  BY <1>4 DEF Typed
<1>5. CASE ClientStep
  BY <1>2, <1>3, <1>4, <1>5
  DEF ClientStep, ConnectFails, Connect, Register, Refused, Drop, Resume, Announce, Send, Receive,
      FindsClosed, PrepareSession, JointTrajectory, TrajectoryUnchecked, ExecutionRequest,
      StopSession, NotConnected, Replies, Except, TransportPaused, ConnectionChanged
<1>6. CASE OperatorStep
  BY <1>3, <1>4, <1>6
  DEF OperatorStep, Authorize, Withdraw, DeadlinePasses, ExpiryStep, ExpireRun, ExpireHolds,
      ExpireReports, LinkLost, Completes, Fails, Reports
<1>7. CASE ServerStep
  BY <1>2, <1>4, <1>7
  DEF ServerStep, ServerReads, ServerPrepares, ServerAsks, ServerRequests, ServerEnds,
      ServerForgets, ServerObjects
<1>8. QED
  BY <1>2, <1>4, <1>5, <1>6, <1>7
  DEF Next, SendRaises, GraceElapses, ExecutionEnds, Break

LEMMA SettledTyped ==
    ASSUME NEW q \in Seq(Records), NEW id \in Ids
    PROVE  /\ Settled(q, id) \in Seq(Records)
           /\ Len(Settled(q, id)) = Len(q)
           /\ \A i \in 1 .. Len(q) : Settled(q, id)[i].id = q[i].id
<1> DEFINE r == Settled(q, id)
<1>1. Len(q) \in Nat /\ DOMAIN q = 1 .. Len(q) /\ \A i \in 1 .. Len(q) : q[i] \in Records
  BY LenProperties
<1>2. /\ r = [i \in DOMAIN q |-> IF q[i].id = id THEN [id |-> id, status |-> "settled"] ELSE q[i]]
      /\ DOMAIN r = 1 .. Len(q)
  BY <1>1 DEF Settled
<1>3. \A i \in 1 .. Len(q) : r[i] \in Records /\ r[i].id = q[i].id
  BY <1>1, <1>2 DEF Records
<1>4. r \in [1 .. Len(q) -> Records]
  BY <1>1, <1>2, <1>3
<1>5. r \in Seq(Records)
  BY <1>1, <1>4, SeqDef
<1>6. Len(r) = Len(q)
  BY <1>1, <1>2, <1>5, LenProperties
<1>7. QED
  BY <1>3, <1>5, <1>6

\* The record that was accepted last stays last; there are never too many.
LEMMA AcceptedTyped ==
    ASSUME NEW q \in Seq(Records), NEW id \in Ids, Len(q) <= MaxRecords
    PROVE  /\ Accepted(q, id) \in Seq(Records)
           /\ Len(Accepted(q, id)) <= MaxRecords /\ Len(Accepted(q, id)) > 0
           /\ Accepted(q, id)[Len(Accepted(q, id))].id = id
<1> DEFINE m == [id |-> id, status |-> "accepted"]
           all == Append(q, m)
<1>1. Len(q) \in Nat /\ MaxRecords \in Nat /\ MaxRecords > 0
  BY LenProperties, BoundsPositive
<1>2. m \in Records /\ m.id = id
  BY DEF Records
<1>3. /\ all \in Seq(Records) /\ Len(all) = Len(q) + 1 /\ all[Len(q) + 1] = m /\ all # <<>>
  BY <1>1, <1>2, AppendProperties
<1> HIDE DEF m, all
<1>4. CASE Len(all) > MaxRecords
  <2>1. /\ Tail(all) \in Seq(Records) /\ Len(Tail(all)) = Len(all) - 1
        /\ \A i \in 1 .. Len(Tail(all)) : Tail(all)[i] = all[i + 1]
    BY <1>3, HeadTailProperties
  <2>2. Len(Tail(all)) = Len(q) /\ Len(q) = MaxRecords
    BY <1>1, <1>3, <1>4, <2>1
  <2>3. Tail(all)[Len(q)] = m
    BY <1>1, <1>3, <2>1, <2>2
  <2>4. Accepted(q, id) = Tail(all)
    BY <1>4 DEF Accepted, all, m
  <2>5. QED
    BY <1>1, <1>2, <2>1, <2>2, <2>3, <2>4
<1>5. CASE ~(Len(all) > MaxRecords)
  <2>1. Accepted(q, id) = all
    BY <1>5 DEF Accepted, all, m
  <2>2. QED
    BY <1>1, <1>2, <1>3, <1>5, <2>1
<1>6. QED
  BY <1>4, <1>5

\* The end of an execution: a record settled, messages to send.
LEMMA SettledWithBy ==
    ASSUME Typed, robot.pending # None, NEW ms \in Seq(Messages)
    PROVE  /\ SettledWith(ms) \in Robots /\ Len(SettledWith(ms).records) <= MaxRecords
           /\ SettledWith(ms).records = Settled(robot.records, robot.pending)
           /\ SettledWith(ms).reports =
                 [robot.reports EXCEPT ![robot.pending] = robot.reports[robot.pending] \o ms]
           /\ \A f \in {"mode", "authorized", "ok", "connected", "lease", "step", "link",
                         "deadline", "expiring", "notice"} : SettledWith(ms)[f] = robot[f]
<1> DEFINE q == Settled(robot.records, robot.pending)
           r == [robot.reports EXCEPT ![robot.pending] = robot.reports[robot.pending] \o ms]
<1>1. robot \in Robots /\ Len(robot.records) <= MaxRecords /\ robot.pending \in Ids
  BY RobotFields DEF Typed
<1>2. q \in Seq(Records) /\ Len(q) <= MaxRecords
  BY <1>1, RobotFields, SettledTyped
<1>3. robot.reports[robot.pending] \o ms \in Seq(Messages)
  BY <1>1, RobotFields, PostTyped
<1>4. r \in [Ids -> Seq(Messages)]
  BY <1>1, <1>3, RobotFields
<1>5. SettledWith(ms) = [robot EXCEPT !.pending = None, !.records = q, !.reports = r]
  BY <1>1 DEF SettledWith, Robots
<1> HIDE DEF q, r
<1>6. SettledWith(ms) \in Robots
  BY <1>1, <1>2, <1>4, <1>5 DEF Robots
<1>7. SettledWith(ms).records = q /\ SettledWith(ms).reports = r
  BY <1>1, <1>5 DEF Robots
<1>8. \A f \in {"mode", "authorized", "ok", "connected", "lease", "step", "link",
                "deadline", "expiring", "notice"} : SettledWith(ms)[f] = robot[f]
  BY <1>1, <1>5 DEF Robots
<1>9. QED
  BY <1>2, <1>6, <1>7, <1>8 DEF q, r

\* What is said at the end of an execution is of the run.
LEMMA Endings ==
    ASSUME Typed, Completes \/ Fails
    PROVE  /\ robot.pending # None
           /\ \E ms \in Seq(Messages) :
                 /\ \A i \in DOMAIN ms : ms[i].session = robot.lease
                 /\ \/ robot' = SettledWith(ms)
                    \/ robot' = [SettledWith(ms) EXCEPT !.mode = "FAULT", !.ok = FALSE,
                                                        !.authorized = FALSE]
<1>1. robot.pending \in Ids /\ robot.lease \in Sessions \cup {None} /\ robot.pending # None
  BY RobotFields DEF Completes, Fails
<1> DEFINE m == Result(robot.pending, robot.lease, "settled")
           n == About("safety_abort", robot.lease)
<1>2. m \in Messages /\ n \in Messages /\ m.session = robot.lease /\ n.session = robot.lease
  BY <1>1, SomeMessages DEF Result, About
<1> HIDE DEF m, n
<1>3. /\ <<m>> \in Seq(Messages) /\ \A i \in DOMAIN <<m>> : <<m>>[i].session = robot.lease
      /\ <<m, n>> \in Seq(Messages)
      /\ \A i \in DOMAIN <<m, n>> : <<m, n>>[i].session = robot.lease
  BY <1>2
<1>4. CASE Completes
  BY <1>1, <1>3, <1>4 DEF Completes, m
<1>5. CASE Fails
  BY <1>1, <1>3, <1>5 DEF Fails, m, n
<1>6. QED
  BY <1>4, <1>5

LEMMA OutboxTyped ==
    ASSUME Typed, Next
    PROVE  outbox' \in Seq(Messages)
<1>1. outbox \in Seq(Messages)
  BY DEF Typed
<1>2. ASSUME NEW r \in Seq(Messages), Post(r) PROVE outbox' \in Seq(Messages)
  BY <1>1, <1>2, PostTyped DEF Post
<1>3. robot.lease \in Sessions \cup {None} /\ (robot.pending # None => robot.pending \in Ids)
  BY RobotFields
<1>4. <<Ready>> \in Seq(Messages) /\ <<>> \in Seq(Messages)
  BY SomeMessages, PairOfMessages
<1>6. CASE OperatorStep
  <2>1. CASE Authorize
    BY <1>2, <1>4, <2>1 DEF Authorize
  <2>2. CASE ExpireReports
    BY <1>2, <2>2, RobotFields DEF ExpireReports
  <2>3. ASSUME NEW id \in Ids, Reports(id) PROVE outbox' \in Seq(Messages)
    <3>1. robot.reports[id] \in Seq(Messages) /\ robot.reports[id] # <<>>
      BY <2>3, RobotFields DEF Reports
    <3>2. <<Head(robot.reports[id])>> \in Seq(Messages)
      BY <3>1, HeadTailProperties, PairOfMessages
    <3>3. QED
      BY <1>2, <2>3, <3>2 DEF Reports
  <2>4. QED
    BY <1>1, <1>6, <2>1, <2>2, <2>3
    DEF OperatorStep, Withdraw, DeadlinePasses, ExpiryStep, ExpireRun, ExpireHolds, LinkLost,
        Completes, Fails
<1>7. CASE ClientStep
  <2>1. CASE Drop
    BY <1>4, <2>1 DEF Drop
  <2>2. CASE Send
    BY <2>2, InHandTyped DEF Send
  <2>3. CASE Announce
    BY <1>2, <1>4, <2>3 DEF Announce
  <2>4. CASE JointTrajectory
    <3>1. CASE UNCHANGED outbox
      BY <1>1, <3>1
    <3>2. CASE Post(<<Result(client.message.id, robot.lease, "accepted")>>)
      <4>1. client.message.id \in Ids
        BY <2>4, CommandFields DEF JointTrajectory, Handles, Typed
      <4>2. <<Result(client.message.id, robot.lease, "accepted")>> \in Seq(Messages)
        BY <1>3, <4>1, SomeMessages, PairOfMessages
      <4>3. QED
        BY <1>2, <3>2, <4>2
    <3>3. QED
      BY <2>4, <3>1, <3>2 DEF JointTrajectory
  <2>5. CASE StopSession
    BY <1>1, <2>5 DEF StopSession
  <2>6. CASE Replies
    BY <1>2, <2>6, ClientFields DEF Replies
  <2>7. QED
    BY <1>1, <1>7, <2>1, <2>2, <2>3, <2>4, <2>5, <2>6
    DEF ClientStep, ConnectFails, Connect, Register, Refused, Resume, Receive,
        FindsClosed, PrepareSession, TrajectoryUnchecked, ExecutionRequest,
        NotConnected, Except, TransportPaused, ConnectionChanged
<1>8. CASE ServerStep
  BY <1>1, <1>8
  DEF ServerStep, ServerReads, ServerPrepares, ServerAsks, ServerRequests, ServerEnds,
      ServerForgets, ServerObjects
<1>9. CASE SendRaises
  BY <1>9, InHandTyped DEF SendRaises
<1>10. CASE \E s \in Sessions : ExecutionEnds(s)
  <2>1. PICK s \in Sessions : Post(<<About("execution_result", s)>>)
    BY <1>10 DEF ExecutionEnds
  <2>2. <<About("execution_result", s)>> \in Seq(Messages)
    BY SomeMessages, PairOfMessages
  <2>3. QED
    BY <1>2, <2>1, <2>2
<1>11. QED
  BY <1>1, <1>6, <1>7, <1>8, <1>9, <1>10 DEF Next, GraceElapses, Break

LEMMA SocketTyped ==
    ASSUME Typed, Next
    PROVE  socket' \in Sockets
<1>1. socket \in Sockets
  BY DEF Typed
<1>2. ASSUME NEW o \in BOOLEAN, NEW u \in Seq(Messages), NEW d \in Seq(Commands)
      PROVE  [open |-> o, up |-> u, down |-> d] \in Sockets
  BY DEF Sockets
<1>3. /\ socket = [open |-> socket.open, up |-> socket.up, down |-> socket.down]
      /\ socket.open \in BOOLEAN /\ socket.up \in Seq(Messages) /\ socket.down \in Seq(Commands)
  BY <1>1 DEF Sockets
<1>4. <<>> \in Seq(Messages) /\ <<>> \in Seq(Commands)
  OBVIOUS
<1>5. ASSUME NEW m \in Commands, Down(m) PROVE socket' \in Sockets
  <2>1. Append(socket.down, m) \in Seq(Commands)
    BY <1>3, AppendProperties
  <2>2. \/ socket' = [open |-> socket.open, up |-> socket.up,
                      down |-> Append(socket.down, m)]
        \/ socket' = socket
    BY <1>3, <1>5 DEF Down
  <2>3. QED
    BY <1>1, <1>2, <1>3, <2>1, <2>2
<1>6. CASE ServerStep
  <2>1. CASE ServerReads
    <3>1. Tail(socket.up) \in Seq(Messages)
      BY <1>3, <2>1, HeadTailProperties DEF ServerReads
    <3>2. socket' = [open |-> socket.open, up |-> Tail(socket.up), down |-> socket.down]
      BY <1>3, <2>1 DEF ServerReads
    <3>3. QED
      BY <1>2, <1>3, <3>1, <3>2
  <2>2. CASE ServerPrepares
    <3>1. server.begun + 1 \in Sessions
      BY <2>2, ServerFields, BoundsPositive DEF ServerPrepares, Sessions
    <3>2. QED
      BY <1>5, <2>2, <3>1, SomeCommands DEF ServerPrepares
  <2>3. CASE ServerAsks
    <3>1. <<server.session, server.step + 1>> \in Ids
      BY <2>3, ServerFields, BoundsPositive DEF ServerAsks, Ids, Steps
    <3>2. QED
      BY <1>5, <2>3, <3>1, SomeCommands DEF ServerAsks
  <2>4. CASE ServerRequests
    BY <1>5, <2>4, RequestingSessions, SomeCommands DEF ServerRequests, Sessions
  <2>5. CASE ServerEnds
    BY <1>1, <1>5, <2>5, ServerFields, SomeCommands DEF ServerEnds
  <2>6. CASE ServerForgets
    BY <1>1, <2>6 DEF ServerForgets
  <2>7. CASE ServerObjects
    BY <1>5, <2>7, SomeCommands DEF ServerObjects
  <2>8. QED
    BY <1>6, <2>1, <2>2, <2>3, <2>4, <2>5, <2>6, <2>7 DEF ServerStep
<1>7. CASE Send \/ SendRaises
  <2>1. Append(socket.up, Head(InHand)) \in Seq(Messages)
    BY <1>3, <1>7, InHandTyped, AppendProperties DEF Send, SendRaises
  <2>2. CASE Send
    <3>1. socket' = [open |-> socket.open, up |-> Append(socket.up, Head(InHand)),
                     down |-> socket.down]
      BY <1>3, <2>2 DEF Send
    <3>2. QED
      BY <1>2, <1>3, <2>1, <3>1
  <2>3. CASE SendRaises
    <3>1. PICK up \in {socket.up, Append(socket.up, Head(InHand))} :
             socket' = [open |-> FALSE, up |-> up, down |-> <<>>]
      BY <2>3 DEF SendRaises
    <3>2. up \in Seq(Messages)
      BY <1>3, <2>1, <3>1
    <3>3. QED
      BY <1>2, <1>4, <3>1, <3>2
  <2>4. QED
    BY <1>7, <2>2, <2>3
<1>8. CASE Receive
  <2>1. Tail(socket.down) \in Seq(Commands)
    BY <1>3, <1>8, HeadTailProperties DEF Receive
  <2>2. socket' = [open |-> socket.open, up |-> socket.up, down |-> Tail(socket.down)]
    BY <1>3, <1>8 DEF Receive
  <2>3. QED
    BY <1>2, <1>3, <2>1, <2>2
<1>9. CASE Break
  <2>1. PICK n \in 0 .. Len(socket.up) :
           socket' = [open |-> FALSE, up |-> SubSeq(socket.up, 1, n), down |-> <<>>]
    BY <1>9 DEF Break
  <2>2. SubSeq(socket.up, 1, n) \in Seq(Messages)
    <3>1. Len(socket.up) \in Nat /\ \A i \in 1 .. Len(socket.up) : socket.up[i] \in Messages
      BY <1>3, LenProperties
    <3>2. n \in Int /\ \A i \in 1 .. n : socket.up[i] \in Messages
      BY <3>1
    <3>3. QED
      BY <3>2, SubSeqProperties
  <2>3. QED
    BY <1>2, <1>4, <2>1, <2>2
<1>10. CASE Connect
  BY <1>2, <1>4, <1>10 DEF Connect
<1>11. CASE NotConnected \/ Except
  <2>1. socket' = [open |-> FALSE, up |-> socket.up, down |-> <<>>]
    BY <1>3, <1>11 DEF NotConnected, Except
  <2>2. QED
    BY <1>2, <1>3, <1>4, <2>1
<1>12. CASE UNCHANGED socket
  BY <1>1, <1>12
<1>13. QED
  BY <1>6, <1>7, <1>8, <1>9, <1>10, <1>11, <1>12
  DEF Next, ClientStep, ConnectFails, Register, Refused, Drop, Resume, Announce,
      FindsClosed, PrepareSession, JointTrajectory, TrajectoryUnchecked, ExecutionRequest,
      StopSession, Replies, TransportPaused, ConnectionChanged, GraceElapses, ExecutionEnds,
      OperatorStep, Authorize, Withdraw, DeadlinePasses, ExpiryStep, ExpireRun, ExpireHolds,
      ExpireReports, LinkLost, Completes, Fails, Reports

\* The lease of a session that is prepared.
LEMMA PreparedRobot ==
    ASSUME Typed, PrepareSession
    PROVE  \/ UNCHANGED robot
           \/ /\ robot' \in Robots /\ robot'.records = robot.records
              /\ robot'.link = robot.link /\ robot'.mode = "API_ACTIVE" /\ robot'.step = 0
              /\ robot'.lease = client.message.session
              /\ robot'.pending = robot.pending /\ robot'.expiring = robot.expiring
              /\ robot'.notice = robot.notice /\ robot'.reports = robot.reports
<1>1. client.message.session \in Sessions /\ 0 \in 0 .. MaxSteps
  BY CommandFields, BoundsPositive DEF PrepareSession, Handles, Typed
<1> DEFINE taken == [robot EXCEPT !.lease = client.message.session, !.mode = "API_ACTIVE",
                                  !.step = 0]
<1>2. UNCHANGED robot \/ robot' = taken \/ robot' = [taken EXCEPT !.deadline = "set"]
  BY DEF PrepareSession
<1>3. robot \in Robots
  BY DEF Typed
<1>4. /\ taken \in Robots /\ taken.records = robot.records /\ taken.link = robot.link
      /\ taken.mode = "API_ACTIVE" /\ taken.step = 0 /\ taken.lease = client.message.session
      /\ taken.pending = robot.pending /\ taken.expiring = robot.expiring
      /\ taken.notice = robot.notice /\ taken.reports = robot.reports
  BY <1>1, <1>3 DEF Robots
<1> HIDE DEF taken
<1>5. CASE robot' = [taken EXCEPT !.deadline = "set"]
  BY <1>4, <1>5 DEF Robots
<1>6. QED
  BY <1>2, <1>4, <1>5

LEMMA RobotTyped ==
    ASSUME Typed, Next
    PROVE  robot' \in Robots /\ Len(robot'.records) <= MaxRecords
<1>1. robot \in Robots /\ Len(robot.records) <= MaxRecords
  BY DEF Typed
<1>2. UNCHANGED robot => robot' \in Robots /\ Len(robot'.records) <= MaxRecords
  BY <1>1
<1>3. /\ Holding(robot) \in Robots /\ Holding(robot).records = robot.records
      /\ Disconnected(robot) \in Robots /\ Disconnected(robot).records = robot.records
  <2>1. \A r \in Robots : Holding(r) \in Robots /\ Holding(r).records = r.records
    BY DEF Robots, Holding
  <2> DEFINE revoked == IF robot.lease = None THEN [robot EXCEPT !.connected = FALSE]
                        ELSE [robot EXCEPT !.connected = FALSE, !.lease = None,
                                           !.authorized = FALSE, !.mode = "FAULT", !.ok = FALSE]
  <2>2. revoked \in Robots /\ revoked.records = robot.records
    BY <1>1 DEF Robots
  <2>3. /\ [Holding(revoked) EXCEPT !.connected = FALSE] \in Robots
        /\ [Holding(revoked) EXCEPT !.connected = FALSE].records = robot.records
    <3>1. \A r \in Robots : /\ [r EXCEPT !.connected = FALSE] \in Robots
                            /\ [r EXCEPT !.connected = FALSE].records = r.records
      BY DEF Robots
    <3>2. QED
      BY <2>1, <2>2, <3>1
  <2>4. Disconnected(robot) \in {revoked, [Holding(revoked) EXCEPT !.connected = FALSE]}
    BY DEF Disconnected
  <2>5. QED
    BY <1>1, <2>1, <2>2, <2>3, <2>4
<1>4. CASE OperatorStep
  <2>1. CASE Authorize \/ LinkLost
    BY <1>1, <2>1 DEF Authorize, LinkLost, Robots
  <2>2. CASE Withdraw
    <3>1. PICK d \in {robot.deadline, "none"} :
             robot' = [Holding(robot) EXCEPT !.deadline = d]
      BY <2>2 DEF Withdraw
    <3>2. d \in {"none", "set", "passed"}
      BY <3>1, RobotFields
    <3>3. QED
      BY <1>1, <1>3, <3>1, <3>2 DEF Robots
  <2>3. CASE DeadlinePasses
    BY <1>1, <2>3 DEF DeadlinePasses, Robots
  <2>4. CASE ExpireRun
    <3> DEFINE q == IF robot.lease = None THEN <<>> ELSE <<About("safety_abort", robot.lease)>>
    <3>1. q \in Seq(Messages)
      BY RobotFields, SomeMessages, PairOfMessages
    <3>2. robot' = [robot EXCEPT !.deadline = "none", !.expiring = "hold", !.notice = q]
      BY <2>4 DEF ExpireRun
    <3> HIDE DEF q
    <3>3. QED
      BY <1>1, <3>1, <3>2 DEF Robots
  <2>5. CASE ExpireHolds
    <3>1. \/ robot' = [Holding(robot) EXCEPT !.expiring = "report"]
          \/ robot' = [robot EXCEPT !.expiring = "no", !.notice = <<>>]
      BY <2>5 DEF ExpireHolds
    <3>2. QED
      BY <1>1, <1>3, <3>1, PairOfMessages DEF Robots
  <2>6. CASE ExpireReports
    BY <1>1, <2>6, PairOfMessages DEF ExpireReports, Robots
  <2>8. CASE Completes \/ Fails
    <3>1. /\ robot.pending # None
          /\ \E ms \in Seq(Messages) :
                \/ robot' = SettledWith(ms)
                \/ robot' = [SettledWith(ms) EXCEPT !.mode = "FAULT", !.ok = FALSE,
                                                    !.authorized = FALSE]
      BY <2>8, Endings
    <3>2. QED
      BY <3>1, SettledWithBy DEF Robots
  <2>9. ASSUME NEW id \in Ids, Reports(id)
        PROVE  robot' \in Robots /\ Len(robot'.records) <= MaxRecords
    <3> DEFINE q == [robot.reports EXCEPT ![id] = Tail(@)]
    <3>1. robot.reports[id] \in Seq(Messages) /\ robot.reports[id] # <<>>
      BY <2>9, RobotFields DEF Reports
    <3>2. Tail(robot.reports[id]) \in Seq(Messages)
      BY <3>1, HeadTailProperties
    <3>3. q \in [Ids -> Seq(Messages)]
      BY <3>2, RobotFields
    <3>4. robot' = [robot EXCEPT !.reports = q]
      BY <2>9, RobotFields DEF Reports
    <3> HIDE DEF q
    <3>5. QED
      BY <1>1, <3>3, <3>4 DEF Robots
  <2>10. QED
    BY <1>4, <2>1, <2>2, <2>3, <2>4, <2>5, <2>6, <2>8, <2>9 DEF OperatorStep, ExpiryStep
<1>5. CASE ClientStep
  <2>1. CASE Refused \/ ConnectionChanged
    BY <1>1, <1>3, <2>1 DEF Refused, ConnectionChanged
  <2>2. CASE Announce \/ TransportPaused
    BY <1>1, <2>2 DEF Announce, TransportPaused, Robots
  <2>3. CASE PrepareSession
    <3>1. QED
      BY <1>1, <1>2, <2>3, PreparedRobot
  <2>4. CASE JointTrajectory
    <3> DEFINE id == client.message.id
               q == Accepted(robot.records, id)
    <3>1. id \in Ids /\ id[2] \in 0 .. MaxSteps
      BY <2>4, CommandFields, BoundsPositive DEF JointTrajectory, Handles, Typed, Ids, Steps
    <3>2. q \in Seq(Records) /\ Len(q) <= MaxRecords
      BY <1>1, <3>1, AcceptedTyped, RobotFields
    <3>3. UNCHANGED robot \/ robot' = [robot EXCEPT !.pending = id, !.step = id[2],
                                                    !.records = q]
      BY <2>4, RobotFields DEF JointTrajectory
    <3> HIDE DEF q, id
    <3>4. QED
      BY <1>1, <1>2, <3>1, <3>2, <3>3 DEF Robots
  <2>5. CASE TrajectoryUnchecked
    BY <1>1, <2>5 DEF TrajectoryUnchecked, Robots
  <2>6. CASE StopSession
    <3>1. \/ UNCHANGED robot
          \/ \E d \in {robot.deadline, "none"} :
                robot' = [Holding(robot) EXCEPT !.deadline = d]
          \/ robot' = [robot EXCEPT !.lease = None, !.authorized = FALSE, !.deadline = "none"]
          \/ robot' = [robot EXCEPT !.deadline = "passed"]
      BY <2>6 DEF StopSession
    <3>2. robot.deadline \in {"none", "set", "passed"}
      BY RobotFields
    <3>3. QED
      BY <1>1, <1>2, <1>3, <3>1, <3>2 DEF Robots
  <2>7. CASE UNCHANGED robot
    BY <1>2, <2>7
  <2>8. QED
    BY <1>5, <2>1, <2>2, <2>3, <2>4, <2>5, <2>6, <2>7
    DEF ClientStep, ConnectFails, Connect, Register, Drop, Resume, Send, Receive,
        FindsClosed, ExecutionRequest, NotConnected, Replies, Except
<1>6. CASE ServerStep
  BY <1>2, <1>6
  DEF ServerStep, ServerReads, ServerPrepares, ServerAsks, ServerRequests, ServerEnds,
      ServerForgets, ServerObjects
<1>7. QED
  BY <1>2, <1>4, <1>5, <1>6 DEF Next, SendRaises, GraceElapses, ExecutionEnds, Break

LEMMA ServerTyped ==
    ASSUME Typed, Next
    PROVE  server' \in Servers
<1>1. server \in Servers
  BY DEF Typed
<1>2. CASE Connect \/ ServerRequests
  BY <1>1, <1>2 DEF Connect, ServerRequests, Servers
<1>3. CASE Register
  <2> DEFINE resumed == client.resume # None /\ server.session = client.resume
             session == IF resumed THEN server.session ELSE None
             step == IF resumed THEN server.step ELSE 0
             refused == IF client.resume = None \/ resumed THEN server.refused
                        ELSE server.refused \cup {client.resume}
  <2>1. /\ session \in Sessions \cup {None} /\ step \in 0 .. MaxSteps
        /\ refused \in SUBSET Sessions
    BY ServerFields, ClientFields, BoundsPositive
  <2>2. (resumed /\ server.requested) \in BOOLEAN
    OBVIOUS
  <2>3. server' = [server EXCEPT !.registered = TRUE, !.ready = FALSE, !.session = session,
                                 !.step = step, !.requested = resumed /\ server.requested,
                                 !.refused = refused]
    BY <1>1, <1>3 DEF Register, Servers
  <2> HIDE DEF session, step, refused, resumed
  <2>4. QED
    BY <1>1, <2>1, <2>2, <2>3 DEF Servers
<1>4. CASE ServerReads
  <2> DEFINE m == Head(socket.up)
             settled == /\ m.type = "result" /\ m.status = "settled"
                        /\ m.id = <<server.session, server.step + 1>>
             ready == server.ready \/ m.type = "ready"
             step == IF settled THEN server.step + 1 ELSE server.step
  <2>1. m \in Messages
    BY <1>4, SocketFields, HeadTailProperties DEF ServerReads
  <2>2. ASSUME settled PROVE server.step + 1 \in 0 .. MaxSteps
    <3>1. <<server.session, server.step + 1>> \in Ids
      BY <2>1, <2>2 DEF Messages
    <3>2. QED
      BY <3>1, BoundsPositive DEF Ids, Steps
  <2>3. step \in 0 .. MaxSteps /\ ready \in BOOLEAN
    BY <2>2, ServerFields, BoundsPositive
  <2>4. server' = [server EXCEPT !.ready = ready, !.step = step]
    BY <1>1, <1>4 DEF ServerReads, Servers
  <2> HIDE DEF ready, step
  <2>5. QED
    BY <1>1, <2>3, <2>4 DEF Servers
<1>5. CASE ServerPrepares
  <2>1. server.begun + 1 \in 0 .. MaxSessions /\ server.begun + 1 \in Sessions
    BY <1>5, ServerFields, BoundsPositive DEF ServerPrepares, Sessions
  <2>2. server' = [server EXCEPT !.ready = FALSE, !.session = server.begun + 1,
                                 !.begun = server.begun + 1]
    BY <1>1, <1>5 DEF ServerPrepares, Servers
  <2>3. QED
    BY <1>1, <2>1, <2>2 DEF Servers
<1>6. CASE ServerEnds \/ ServerForgets
  <2>1. 0 \in 0 .. MaxSteps
    BY BoundsPositive
  <2>2. QED
    BY <1>1, <1>6, <2>1 DEF ServerEnds, ServerForgets, Servers
<1>7. CASE UNCHANGED server
  BY <1>1, <1>7
<1>8. QED
  BY <1>2, <1>3, <1>4, <1>5, <1>6, <1>7
  DEF Next, ServerStep, ServerAsks, ServerObjects, ClientStep, ConnectFails, Refused, Drop,
      Resume, Announce, Send, Receive, FindsClosed, PrepareSession, JointTrajectory,
      TrajectoryUnchecked, ExecutionRequest, StopSession, NotConnected, Replies, Except,
      TransportPaused, ConnectionChanged, SendRaises, GraceElapses, ExecutionEnds, Break,
      OperatorStep, Authorize, Withdraw, DeadlinePasses, ExpiryStep, ExpireRun, ExpireHolds,
      ExpireReports, LinkLost, Completes, Fails, Reports

\* The client's thread is at one place, with what it needs there.
ClientIsReady == /\ client.pc = "handle" => client.message \in Commands
                 /\ client.pc = "refused" => client.resume \in Sessions
                 /\ client.pc # "reply" => client.replies = <<>>

LEMMA UnpostedTyped ==
    ASSUME Typed
    PROVE  Unposted \subseteq Messages
<1>1. \A q \in Seq(Messages) : Elements(q) \subseteq Messages
  BY ElementOfSeq DEF Elements
<1>2. QED
  BY <1>1, RobotFields DEF Unposted

LEMMA ClientTyped ==
    ASSUME Typed, Next
    PROVE  client' \in Clients /\ ClientIsReady'
<1>1. client \in Clients /\ ClientIsReady
  BY DEF Typed, ClientIsReady
<1>2. ASSUME UNCHANGED client PROVE client' \in Clients /\ ClientIsReady'
  BY <1>1, <1>2 DEF ClientIsReady
<1>3. /\ \A l \in {"serve", "except"} :
             Served(l) = [client EXCEPT !.pc = l, !.message = None]
      /\ Served("reply") = [client EXCEPT !.pc = "reply", !.message = None]
  BY DEF Served
<1>4. ASSUME NEW q \in Seq(Messages), client' = [Served("reply") EXCEPT !.replies = q]
      PROVE  client' \in Clients /\ ClientIsReady'
  BY <1>1, <1>4 DEF Served, Clients, ClientIsReady
<1>5. ASSUME client.pc # "reply", client' \in {Served("serve"), Served("except")}
      PROVE  client' \in Clients /\ ClientIsReady'
  BY <1>1, <1>5 DEF Served, Clients, ClientIsReady
<1>6. ASSUME NEW l \in {"drop", "announce", "serve", "except", "connect"},
             client.pc # "reply", Goto(l)
      PROVE  client' \in Clients /\ ClientIsReady'
  BY <1>1, <1>6 DEF Goto, Clients, ClientIsReady
<1>7. robot.lease \in Sessions \cup {None} /\ client.resume \in Sessions \cup {None}
  BY RobotFields, ClientFields
<1>8. CASE ClientStep
  <2>1. CASE ConnectFails \/ Refused \/ FindsClosed \/ TransportPaused
    BY <1>6, <2>1 DEF ConnectFails, Refused, FindsClosed, TransportPaused
  <2>2. CASE Resume
    BY <1>6, <2>2 DEF Resume
  <2>3. CASE Connect
    BY <1>1, <1>7, <2>3 DEF Connect, Clients, ClientIsReady
  <2>4. CASE Register
    BY <1>1, <1>7, <2>4, GraceIsBoolean DEF Register, Clients, ClientIsReady
  <2>5. CASE Drop \/ Announce
    BY <1>1, <2>5, UnpostedTyped DEF Drop, Announce, Clients, ClientIsReady, Overtaken
  <2>6. CASE Send
    BY <1>1, <2>6 DEF Send, Clients, ClientIsReady
  <2>7. CASE Receive
    <3>1. Head(socket.down) \in Commands
      BY <2>7, SocketFields, HeadTailProperties DEF Receive
    <3>2. QED
      BY <1>1, <2>7, <3>1 DEF Receive, Clients, ClientIsReady
  <2>8. CASE PrepareSession
    <3>1. client.message.session \in Sessions
      BY <2>8, <1>1, CommandFields DEF PrepareSession, Handles, ClientIsReady
    <3>2. <<About("observation", client.message.session)>> \in Seq(Messages)
      BY <3>1, SomeMessages, PairOfMessages
    <3>3. client.pc # "reply"
      BY <2>8 DEF PrepareSession, Handles
    <3>4. \/ client' = [Served("reply") EXCEPT
                           !.replies = <<About("observation", client.message.session)>>]
          \/ client' \in {Served("serve"), Served("except")}
      BY <2>8 DEF PrepareSession
    <3>5. QED
      BY <1>4, <1>5, <3>2, <3>3, <3>4
  <2>9. CASE JointTrajectory \/ TrajectoryUnchecked
    <3>1. client.message.id \in Ids /\ client.pc # "reply"
      BY <2>9, <1>1, CommandFields
      DEF JointTrajectory, TrajectoryUnchecked, Handles, ClientIsReady
    <3>2. ASSUME NEW status \in {"accepted", "rejected", "settled"},
                 client' = Reply(status)
          PROVE  client' \in Clients /\ ClientIsReady'
      <4>1. <<Result(client.message.id, robot.lease, status)>> \in Seq(Messages)
        BY <1>7, <3>1, SomeMessages, PairOfMessages
      <4>2. QED
        BY <1>4, <3>2, <4>1 DEF Reply
    <3>3. \A r \in Recorded(client.message.id) : r.status \in {"accepted", "settled"}
      BY DEF Recorded
    <3>4. CASE JointTrajectory
      BY <1>5, <2>9, <3>1, <3>2, <3>3, <3>4 DEF JointTrajectory
    <3>5. CASE TrajectoryUnchecked
      <4>1. <<Result(client.message.id, robot.lease, "rejected"),
              About("safety_abort", robot.lease)>> \in Seq(Messages)
        BY <1>7, <3>1, SomeMessages, PairOfMessages
      <4>2. QED
        BY <1>4, <1>5, <3>1, <3>5, <4>1 DEF TrajectoryUnchecked
    <3>6. QED
      BY <2>9, <3>4, <3>5
  <2>10. CASE ExecutionRequest
    <3>1. client.message.session \in Sessions
      BY <2>10, <1>1, CommandFields DEF ExecutionRequest, Handles, ClientIsReady
    <3>2. client' = [client EXCEPT !.pc = "serve", !.message = None,
                                   !.tasks = client.tasks \cup {client.message.session}]
      BY <1>1, <2>10 DEF ExecutionRequest, Served, Clients
    <3> DEFINE t == client.tasks \cup {client.message.session}
    <3>3. t \in SUBSET Sessions /\ client' = [client EXCEPT !.pc = "serve", !.message = None,
                                                            !.tasks = t]
      BY <3>1, <3>2, ClientFields
    <3> HIDE DEF t
    <3>4. client' \in Clients
      BY <1>1, <3>3 DEF Clients
    <3>5. QED
      BY <1>1, <2>10, <3>3, <3>4 DEF ExecutionRequest, Handles, Clients, ClientIsReady
  <2>11. CASE StopSession \/ NotConnected
    BY <1>5, <2>11 DEF StopSession, NotConnected, Handles
  <2>12. CASE Replies
    BY <1>1, <2>12, PairOfMessages DEF Replies, Clients, ClientIsReady
  <2>13. CASE Except
    BY <1>1, <2>13 DEF Except, Clients, ClientIsReady
  <2>14. CASE ConnectionChanged
    BY <1>1, <2>14 DEF ConnectionChanged, Clients, ClientIsReady
  <2>15. QED
    BY <1>8, <2>1, <2>2, <2>3, <2>4, <2>5, <2>6, <2>7, <2>8, <2>9, <2>10, <2>11, <2>12,
       <2>13, <2>14 DEF ClientStep
<1>9. CASE SendRaises
  BY <1>1, <1>9, InHandTyped DEF SendRaises, Clients, ClientIsReady
<1>10. CASE GraceElapses
  BY <1>1, <1>10 DEF GraceElapses, Clients, ClientIsReady
<1>11. CASE \E s \in Sessions : ExecutionEnds(s)
  BY <1>1, <1>11 DEF ExecutionEnds, Clients, ClientIsReady
<1>12. CASE UNCHANGED client
  BY <1>2, <1>12
<1>13. QED
  BY <1>8, <1>9, <1>10, <1>11, <1>12
  DEF Next, OperatorStep, Authorize, Withdraw, DeadlinePasses, ExpiryStep, ExpireRun, ExpireHolds,
      ExpireReports, LinkLost, Completes, Fails, Reports,
      ServerStep, ServerReads, ServerPrepares, ServerAsks, ServerRequests, ServerEnds,
      ServerForgets, ServerObjects, Break

LEMMA NextTyped ==
    ASSUME Typed, Next
    PROVE  Typed'
BY UsedTyped, OutboxTyped, SocketTyped, RobotTyped, ServerTyped, ClientTyped
   DEF Typed, ClientIsReady

----------------------------------------------------------------------------
(* What a step may do to a variable.                                       *)

\* What the server says in a step.
Says(m) ==
    \/ ServerObjects /\ m = [type |-> "error"]
    \/ ServerPrepares /\ m = About("prepare", server.begun + 1)
    \/ ServerAsks /\ m = Trajectory(<<server.session, server.step + 1>>)
    \/ ServerRequests /\ m = About("execution_request", server.session)
    \/ ServerEnds /\ server.registered /\ m = About("stop", server.session)

LEMMA DownBy ==
    ASSUME Typed, Next
    PROVE  \/ socket'.down = socket.down /\ socket'.open = socket.open
           \/ socket'.down = <<>> /\ (~socket'.open \/ Connect)
           \/ /\ Receive /\ socket.down # <<>>
              /\ socket'.down = Tail(socket.down) /\ socket'.open = socket.open
           \/ \E m \in Commands :
                 /\ socket.open /\ Says(m)
                 /\ socket'.down = Append(socket.down, m) /\ socket'.open = socket.open
<1>1. /\ socket = [open |-> socket.open, up |-> socket.up, down |-> socket.down]
  BY DEF Typed, Sockets
<1>2. ASSUME NEW m \in Commands, Down(m), Says(m)
      PROVE  \/ socket'.down = socket.down /\ socket'.open = socket.open
             \/ \E n \in Commands :
                   /\ socket.open /\ Says(n)
                   /\ socket'.down = Append(socket.down, n) /\ socket'.open = socket.open
  <2>1. /\ socket'.down = IF socket.open THEN Append(socket.down, m) ELSE socket.down
        /\ socket'.open = socket.open
    BY <1>1, <1>2 DEF Down
  <2>2. QED
    BY <1>2, <2>1
<1>3. CASE ServerStep
  <2>1. CASE ServerPrepares
    <3>1. server.begun + 1 \in Sessions
      BY <2>1, ServerFields, BoundsPositive DEF ServerPrepares, Sessions
    <3> DEFINE m == About("prepare", server.begun + 1)
    <3>2. m \in Commands /\ Down(m) /\ Says(m)
      BY <2>1, <3>1, SomeCommands DEF ServerPrepares, Says
    <3>3. QED
      BY <1>2, <3>2
  <2>2. CASE ServerAsks
    <3>1. <<server.session, server.step + 1>> \in Ids
      BY <2>2, ServerFields, BoundsPositive DEF ServerAsks, Ids, Steps
    <3> DEFINE m == Trajectory(<<server.session, server.step + 1>>)
    <3>2. m \in Commands /\ Down(m) /\ Says(m)
      BY <2>2, <3>1, SomeCommands DEF ServerAsks, Says
    <3>3. QED
      BY <1>2, <3>2
  <2>3. CASE ServerRequests
    <3> DEFINE m == About("execution_request", server.session)
    <3>1. m \in Commands /\ Down(m) /\ Says(m)
      BY <2>3, RequestingSessions, SomeCommands DEF ServerRequests, Says, Sessions
    <3>2. QED
      BY <1>2, <3>1
  <2>4. CASE ServerEnds
    <3> DEFINE m == About("stop", server.session)
    <3>1. m \in Commands
      BY <2>4, ServerFields, SomeCommands DEF ServerEnds
    <3>2. CASE server.registered
      <4>1. Down(m) /\ Says(m)
        BY <2>4, <3>2 DEF ServerEnds, Says
      <4>2. QED
        BY <1>2, <3>1, <4>1
    <3>3. CASE ~server.registered
      BY <2>4, <3>3 DEF ServerEnds
    <3>4. QED
      BY <3>2, <3>3
  <2>5. CASE ServerObjects
    <3> DEFINE m == [type |-> "error"]
    <3>1. m \in Commands /\ Down(m) /\ Says(m)
      BY <2>5, SomeCommands DEF ServerObjects, Says
    <3>2. QED
      BY <1>2, <3>1
  <2>6. CASE ServerReads \/ ServerForgets
    BY <1>1, <2>6 DEF ServerReads, ServerForgets
  <2>7. QED
    BY <1>3, <2>1, <2>2, <2>3, <2>4, <2>5, <2>6 DEF ServerStep
<1>4. CASE Receive
  BY <1>1, <1>4 DEF Receive
<1>5. CASE Send \/ SendRaises \/ Break \/ Connect \/ NotConnected \/ Except
  <2>1. CASE Send
    BY <1>1, <2>1 DEF Send
  <2>2. CASE SendRaises
    BY <2>2 DEF SendRaises
  <2>3. CASE Break
    BY <2>3 DEF Break
  <2>4. CASE Connect
    BY <2>4 DEF Connect
  <2>5. CASE NotConnected \/ Except
    BY <1>1, <2>5 DEF NotConnected, Except
  <2>6. QED
    BY <1>5, <2>1, <2>2, <2>3, <2>4, <2>5
<1>6. CASE UNCHANGED socket
  BY <1>6
<1>7. QED
  BY <1>3, <1>4, <1>5, <1>6
  DEF Next, ClientStep, ConnectFails, Register, Refused, Drop, Resume, Announce,
      FindsClosed, PrepareSession, JointTrajectory, TrajectoryUnchecked, ExecutionRequest,
      StopSession, Replies, TransportPaused, ConnectionChanged, GraceElapses, ExecutionEnds,
      OperatorStep, Authorize, Withdraw, DeadlinePasses, ExpiryStep, ExpireRun, ExpireHolds,
      ExpireReports, LinkLost, Completes, Fails, Reports

\* The queue to the robot, by its places.
LEMMA DownPlaces ==
    ASSUME Typed
    PROVE  /\ Len(socket.down) \in Nat /\ DOMAIN socket.down = 1 .. Len(socket.down)
           /\ \A i \in DOMAIN socket.down : socket.down[i] \in Commands
           /\ \A m \in Commands :
                 /\ DOMAIN Append(socket.down, m) = 1 .. (Len(socket.down) + 1)
                 /\ Append(socket.down, m)[Len(socket.down) + 1] = m
                 /\ \A i \in DOMAIN socket.down :
                       Append(socket.down, m)[i] = socket.down[i]
           /\ socket.down # <<>> =>
                 /\ 1 \in DOMAIN socket.down /\ Head(socket.down) = socket.down[1]
                 /\ DOMAIN Tail(socket.down) = 1 .. (Len(socket.down) - 1)
                 /\ \A i \in DOMAIN Tail(socket.down) :
                       Tail(socket.down)[i] = socket.down[i + 1]
<1>1. socket.down \in Seq(Commands)
  BY SocketFields
<1>2. Len(socket.down) \in Nat /\ DOMAIN socket.down = 1 .. Len(socket.down)
      /\ \A i \in DOMAIN socket.down : socket.down[i] \in Commands
  BY <1>1, LenProperties
<1>3. ASSUME NEW m \in Commands
      PROVE  /\ DOMAIN Append(socket.down, m) = 1 .. (Len(socket.down) + 1)
             /\ Append(socket.down, m)[Len(socket.down) + 1] = m
             /\ \A i \in DOMAIN socket.down : Append(socket.down, m)[i] = socket.down[i]
  <2>1. /\ Append(socket.down, m) \in Seq(Commands)
        /\ Len(Append(socket.down, m)) = Len(socket.down) + 1
        /\ \A i \in 1 .. Len(socket.down) : Append(socket.down, m)[i] = socket.down[i]
        /\ Append(socket.down, m)[Len(socket.down) + 1] = m
    BY <1>1, AppendProperties
  <2>2. DOMAIN Append(socket.down, m) = 1 .. Len(Append(socket.down, m))
    BY <2>1, LenProperties
  <2>3. QED
    BY <1>2, <2>1, <2>2
<1>4. ASSUME socket.down # <<>>
      PROVE  /\ 1 \in DOMAIN socket.down /\ Head(socket.down) = socket.down[1]
             /\ DOMAIN Tail(socket.down) = 1 .. (Len(socket.down) - 1)
             /\ \A i \in DOMAIN Tail(socket.down) : Tail(socket.down)[i] = socket.down[i + 1]
  <2>1. /\ Tail(socket.down) \in Seq(Commands)
        /\ Len(Tail(socket.down)) = Len(socket.down) - 1
        /\ \A i \in 1 .. Len(Tail(socket.down)) : Tail(socket.down)[i] = socket.down[i + 1]
    BY <1>1, <1>4, HeadTailProperties
  <2>2. DOMAIN Tail(socket.down) = 1 .. Len(Tail(socket.down))
    BY <2>1, LenProperties
  <2>3. Len(socket.down) > 0
    BY <1>1, <1>4, EmptySeq
  <2>4. QED
    BY <1>1, <1>2, <2>1, <2>2, <2>3
<1>5. QED
  BY <1>2, <1>3, <1>4

\* A message on its way was on its way before, or is said now.
LEMMA DownFrom ==
    ASSUME Typed, Next, NEW i \in DOMAIN socket'.down
    PROVE  \/ \E j \in DOMAIN socket.down : socket'.down[i] = socket.down[j]
           \/ Says(socket'.down[i]) /\ socket.open
<1>1. CASE socket'.down = socket.down
  BY <1>1
<1>2. CASE socket'.down = <<>>
  BY <1>2
<1>3. CASE socket.down # <<>> /\ socket'.down = Tail(socket.down)
  <2>1. i \in 1 .. (Len(socket.down) - 1) /\ socket'.down[i] = socket.down[i + 1]
    BY <1>3, DownPlaces
  <2>2. i + 1 \in DOMAIN socket.down
    BY <2>1, DownPlaces
  <2>3. QED
    BY <2>1, <2>2
<1>4. ASSUME NEW m \in Commands, socket.open, socket'.down = Append(socket.down, m), Says(m)
      PROVE  \/ \E j \in DOMAIN socket.down : socket'.down[i] = socket.down[j]
             \/ Says(socket'.down[i]) /\ socket.open
  <2>1. i \in 1 .. (Len(socket.down) + 1)
    BY <1>4, DownPlaces
  <2>2. CASE i = Len(socket.down) + 1
    BY <1>4, <2>2, DownPlaces
  <2>3. CASE i # Len(socket.down) + 1
    <3>1. i \in DOMAIN socket.down
      BY <2>1, <2>3, DownPlaces
    <3>2. QED
      BY <1>4, <3>1, DownPlaces
  <2>4. QED
    BY <2>2, <2>3
<1>5. QED
  BY <1>1, <1>2, <1>3, <1>4, DownBy

\* What is in hand was in hand before, or has just been received.
LEMMA HandBy ==
    ASSUME Typed, Next, client'.pc = "handle"
    PROVE  \/ client.pc = "handle" /\ client'.message = client.message /\ ~Receive
           \/ Receive /\ client'.message = Head(socket.down)
<1>1. CASE Receive
  BY <1>1, ClientFields DEF Receive
<1>2. CASE client' = client
  BY <1>2 DEF Receive
<1>3. CASE GraceElapses \/ \E s \in Sessions : ExecutionEnds(s)
  BY <1>3, ClientFields DEF GraceElapses, ExecutionEnds, Receive
<1>4. CASE SendRaises
  BY <1>4, ClientFields DEF SendRaises
<1>5. CASE ConnectFails \/ Connect \/ Register \/ Refused \/ Drop \/ Resume \/ Announce
           \/ FindsClosed \/ TransportPaused \/ ConnectionChanged \/ Except \/ Replies
  BY <1>5, ClientFields
  DEF ConnectFails, Connect, Register, Refused, Drop, Resume, Announce,
      FindsClosed, TransportPaused, ConnectionChanged, Except, Replies, Goto
<1>6. CASE Send
  BY <1>6, ClientFields DEF Send
<1>7. CASE PrepareSession \/ TrajectoryUnchecked \/ ExecutionRequest
           \/ StopSession \/ NotConnected
  BY <1>7, ClientFields
  DEF PrepareSession, TrajectoryUnchecked, ExecutionRequest, StopSession,
      NotConnected, Served, Reply
<1>8. CASE JointTrajectory
  <2>1. client' = Served("serve") \/ \E status : client' = Reply(status)
    BY <1>8 DEF JointTrajectory
  <2>2. client'.pc # "handle"
    BY <2>1, ClientFields DEF Served, Reply
  <2>3. QED
    BY <2>2
<1>9. QED
  BY <1>1, <1>2, <1>3, <1>4, <1>5, <1>6, <1>7, <1>8
  DEF Next, ClientStep, OperatorStep, Authorize, Withdraw, DeadlinePasses, ExpiryStep, ExpireRun, ExpireHolds,
      ExpireReports, LinkLost, Completes, Fails, Reports,
      ServerStep, ServerReads, ServerPrepares, ServerAsks, ServerRequests, ServerEnds,
      ServerForgets, ServerObjects, Break

\* Or: it was in hand or on its way.
LEMMA HandFrom ==
    ASSUME Typed, Next, client'.pc = "handle"
    PROVE  \/ client.pc = "handle" /\ client'.message = client.message
           \/ \E j \in DOMAIN socket.down : client'.message = socket.down[j]
<1>1. Receive => socket.down # <<>>
  BY DEF Receive
<1>2. QED
  BY <1>1, HandBy, DownPlaces

----------------------------------------------------------------------------

\* The run of the operator: as it was, over, begun, or a trajectory further.
LEMMA RobotBy ==
    ASSUME Typed, Next
    PROVE  /\ robot'.link => robot.link
           /\ \/ /\ robot'.lease = robot.lease /\ robot'.step = robot.step
                 /\ robot'.mode = robot.mode \/ robot'.mode # "API_ACTIVE"
                 /\ Len(robot'.records) = Len(robot.records)
                 /\ \A i \in 1 .. Len(robot.records) :
                       robot'.records[i].id = robot.records[i].id
              \/ robot'.lease = None /\ robot'.mode # "API_ACTIVE"
              \/ /\ PrepareSession /\ robot'.lease = client.message.session
                 /\ robot'.mode = "API_ACTIVE" /\ robot'.step = 0
              \/ /\ JointTrajectory /\ Acceptable(client.message.id)
                 /\ robot'.lease = robot.lease /\ robot'.mode = robot.mode
                 /\ robot'.step = client.message.id[2]
                 /\ robot'.records = Accepted(robot.records, client.message.id)
<1> DEFINE Same == /\ robot'.lease = robot.lease /\ robot'.step = robot.step
                   /\ robot'.mode = robot.mode \/ robot'.mode # "API_ACTIVE"
                   /\ Len(robot'.records) = Len(robot.records)
                   /\ \A i \in 1 .. Len(robot.records) :
                         robot'.records[i].id = robot.records[i].id
           Over == robot'.lease = None /\ robot'.mode # "API_ACTIVE"
<1>1. UNCHANGED robot => Same /\ (robot'.link => robot.link)
  OBVIOUS
<1>2. ASSUME robot' = Holding(robot) PROVE Over /\ (robot'.link => robot.link)
  BY <1>2, RobotFields DEF Holding
<1>3. ASSUME robot' = Disconnected(robot)
      PROVE  (Over \/ Same) /\ (robot'.link => robot.link)
  BY <1>3, RobotFields DEF Disconnected, Holding
<1>4. ASSUME robot.pending # None,
             robot'.records = Settled(robot.records, robot.pending),
             robot'.lease = robot.lease, robot'.step = robot.step, robot'.link = robot.link,
             robot'.mode = robot.mode \/ robot'.mode # "API_ACTIVE"
      PROVE  Same /\ (robot'.link => robot.link)
  <2>1. robot.pending \in Ids /\ robot.records \in Seq(Records)
    BY <1>4, RobotFields
  <2>2. QED
    BY <1>4, <2>1, SettledTyped
<1>5. CASE Completes \/ Fails
  <2>1. PICK ms \in Seq(Messages) :
           \/ robot' = SettledWith(ms)
           \/ robot' = [SettledWith(ms) EXCEPT !.mode = "FAULT", !.ok = FALSE,
                                               !.authorized = FALSE]
    BY <1>5, Endings
  <2>2. robot.pending # None /\ SettledWith(ms) \in Robots
    BY <1>5, Endings, SettledWithBy
  <2>3. /\ SettledWith(ms).lease = robot.lease /\ SettledWith(ms).step = robot.step
        /\ SettledWith(ms).link = robot.link /\ SettledWith(ms).mode = robot.mode
        /\ SettledWith(ms).records = Settled(robot.records, robot.pending)
    BY <2>2, SettledWithBy
  <2>4. /\ robot'.records = Settled(robot.records, robot.pending)
        /\ robot'.lease = robot.lease /\ robot'.step = robot.step /\ robot'.link = robot.link
        /\ robot'.mode = robot.mode \/ robot'.mode # "API_ACTIVE"
    BY <2>1, <2>2, <2>3 DEF Robots
  <2>5. QED
    BY <1>4, <2>2, <2>4
<1>6. ASSUME NEW d \in {"none", "set", "passed"}, robot' = [Holding(robot) EXCEPT !.deadline = d]
      PROVE  Over /\ (robot'.link => robot.link)
  BY <1>6, RobotFields DEF Holding
<1>7. CASE Authorize \/ LinkLost \/ Announce \/ TransportPaused \/ TrajectoryUnchecked
  BY <1>7, RobotFields
  DEF Authorize, LinkLost, Announce, TransportPaused, TrajectoryUnchecked
<1>8. CASE Withdraw
  <2>1. PICK d \in {robot.deadline, "none"} :
           robot' = [Holding(robot) EXCEPT !.deadline = d]
    BY <1>8 DEF Withdraw
  <2>2. d \in {"none", "set", "passed"}
    BY <2>1, RobotFields
  <2>3. QED
    BY <1>6, <2>1, <2>2
<1>15. CASE DeadlinePasses \/ ExpireRun \/ ExpireReports \/ \E id \in Ids : Reports(id)
  BY <1>15, RobotFields DEF DeadlinePasses, ExpireRun, ExpireReports, Reports
<1>16. CASE ExpireHolds
  <2>1. \/ robot' = [Holding(robot) EXCEPT !.expiring = "report"]
        \/ robot' = [robot EXCEPT !.expiring = "no", !.notice = <<>>]
    BY <1>16 DEF ExpireHolds
  <2>2. QED
    BY <2>1, RobotFields DEF Holding
<1>9. CASE Refused \/ ConnectionChanged
  BY <1>3, <1>9 DEF Refused, ConnectionChanged
<1>10. CASE StopSession
  <2>1. \/ UNCHANGED robot
        \/ \E d \in {robot.deadline, "none"} :
              robot' = [Holding(robot) EXCEPT !.deadline = d]
        \/ robot.mode = "FAULT" /\ robot' = [robot EXCEPT !.lease = None, !.authorized = FALSE,
                                                           !.deadline = "none"]
        \/ robot' = [robot EXCEPT !.deadline = "passed"]
    BY <1>10 DEF StopSession
  <2>2. QED
    BY <1>1, <1>6, <2>1, RobotFields
<1>11. CASE PrepareSession
  <2>1. \/ UNCHANGED robot
        \/ /\ robot'.link = robot.link /\ robot'.lease = client.message.session
           /\ robot'.mode = "API_ACTIVE" /\ robot'.step = 0
    BY <1>11, PreparedRobot
  <2>2. QED
    BY <1>1, <1>11, <2>1, RobotFields
<1>12. CASE JointTrajectory
  <2>1. \/ UNCHANGED robot
        \/ /\ Acceptable(client.message.id)
           /\ robot' = [robot EXCEPT !.pending = client.message.id,
                                     !.step = client.message.id[2],
                                     !.records = Accepted(@, client.message.id)]
    BY <1>12 DEF JointTrajectory
  <2>2. QED
    BY <1>1, <1>12, <2>1, RobotFields
<1>13. CASE UNCHANGED robot
  BY <1>1, <1>13
<1>17. QED
  BY <1>5, <1>7, <1>8, <1>9, <1>10, <1>11, <1>12, <1>13, <1>15, <1>16
  DEF Next, ClientStep, ConnectFails, Connect, Register, Drop, Resume, Send, Receive,
      FindsClosed, ExecutionRequest, NotConnected, Replies, Except, SendRaises,
      GraceElapses, ExecutionEnds, OperatorStep, ExpiryStep, ServerStep, ServerReads, ServerPrepares,
      ServerAsks, ServerRequests, ServerEnds, ServerForgets, ServerObjects, Break

LEMMA ServerBy ==
    ASSUME Typed, Next
    PROVE  /\ \/ server'.session \in {server.session, None} /\ server'.begun = server.begun
              \/ /\ ServerPrepares
                 /\ {server'.session, server'.begun} = {server.begun + 1}
                 /\ server'.step = server.step
           /\ server'.session # None /\ server'.session = server.session =>
                 server'.step >= server.step
           /\ \/ server'.refused = server.refused
              \/ /\ Register /\ client.resume # None
                 /\ server'.refused = server.refused \cup {client.resume}
                 /\ server'.session = None /\ client'.pc = "refused"
           /\ server'.registered => server.registered \/ Register
           /\ \/ server'.session = server.session
              \/ Register \/ ServerPrepares \/ ServerEnds
              \/ ServerForgets /\ ~server'.registered
<1>1. /\ server = [registered |-> server.registered, ready |-> server.ready,
                   session |-> server.session, begun |-> server.begun, step |-> server.step,
                   requested |-> server.requested, refused |-> server.refused]
      /\ server.step \in Nat /\ server.session \in Sessions \cup {None}
  BY ServerFields DEF Typed, Servers
<1>2. CASE Register
  <2>1. CASE client.resume # None /\ server.session = client.resume
    <3>1. /\ server'.session = server.session /\ server'.begun = server.begun
          /\ server'.refused = server.refused /\ server'.step = server.step
      BY <1>1, <1>2, <2>1 DEF Register
    <3>2. QED
      BY <1>1, <1>2, <3>1
  <2>2. CASE ~(client.resume # None /\ server.session = client.resume)
    <3>1. /\ server'.session = None /\ server'.begun = server.begun
          /\ server'.refused = IF client.resume = None THEN server.refused
                               ELSE server.refused \cup {client.resume}
      BY <1>1, <1>2, <2>2 DEF Register
    <3>2. client.resume # None => client'.pc = "refused"
      BY <1>2, <2>2, ClientFields DEF Register
    <3>3. QED
      BY <1>2, <3>1, <3>2
  <2>3. QED
    BY <2>1, <2>2
<1>3. CASE ServerReads
  <2>1. /\ server'.session = server.session /\ server'.begun = server.begun
        /\ server'.refused = server.refused /\ server'.registered = server.registered
        /\ server'.step \in {server.step, server.step + 1}
    BY <1>1, <1>3 DEF ServerReads
  <2>2. QED
    BY <1>1, <2>1
<1>4. CASE ServerPrepares
  <2>1. /\ server'.session = server.begun + 1 /\ server'.begun = server.begun + 1
        /\ server'.refused = server.refused /\ server'.registered = server.registered
        /\ server'.step = server.step
    BY <1>1, <1>4 DEF ServerPrepares
  <2>2. QED
    BY <1>1, <1>4, <2>1
<1>5. CASE Connect \/ ServerRequests \/ ServerEnds \/ ServerForgets
  <2>1. /\ server'.begun = server.begun /\ server'.refused = server.refused
        /\ server'.registered => server.registered
        /\ \/ server'.session = server.session /\ server'.step = server.step
           \/ server'.session = None /\ (ServerEnds \/ (ServerForgets /\ ~server'.registered))
    BY <1>1, <1>5 DEF Connect, ServerRequests, ServerEnds, ServerForgets
  <2>2. QED
    BY <1>1, <2>1
<1>6. CASE UNCHANGED server
  BY <1>1, <1>6
<1>7. QED
  BY <1>2, <1>3, <1>4, <1>5, <1>6
  DEF Next, ServerStep, ServerAsks, ServerObjects, ClientStep, ConnectFails, Refused, Drop,
      Resume, Announce, Send, Receive, FindsClosed, PrepareSession, JointTrajectory,
      TrajectoryUnchecked, ExecutionRequest, StopSession, NotConnected, Replies, Except,
      TransportPaused, ConnectionChanged, SendRaises, GraceElapses, ExecutionEnds, Break,
      OperatorStep, Authorize, Withdraw, DeadlinePasses, ExpiryStep, ExpireRun, ExpireHolds,
      ExpireReports, LinkLost, Completes, Fails, Reports

LEMMA UpBy ==
    ASSUME Typed, Next
    PROVE  \/ socket'.up = socket.up
           \/ Connect /\ socket'.up = <<>>
           \/ ServerReads /\ socket.up # <<>> /\ socket'.up = Tail(socket.up)
           \/ Break /\ \E n \in 0 .. Len(socket.up) : socket'.up = SubSeq(socket.up, 1, n)
           \/ /\ client.pc = "serve" /\ InHand # <<>>
              /\ socket'.up = Append(socket.up, Head(InHand))
<1>1. socket = [open |-> socket.open, up |-> socket.up, down |-> socket.down]
  BY DEF Typed, Sockets
<1>2. CASE ServerStep
  BY <1>1, <1>2
  DEF ServerStep, ServerReads, ServerPrepares, ServerAsks, ServerRequests, ServerEnds,
      ServerForgets, ServerObjects, Down
<1>3. CASE Send
  BY <1>1, <1>3 DEF Send
<1>4. CASE SendRaises
  BY <1>4 DEF SendRaises
<1>5. CASE Break
  <2>1. PICK n \in 0 .. Len(socket.up) :
           socket' = [open |-> FALSE, up |-> SubSeq(socket.up, 1, n), down |-> <<>>]
    BY <1>5 DEF Break
  <2>2. socket'.up = SubSeq(socket.up, 1, n)
    BY <2>1
  <2>3. QED
    BY <1>5, <2>2
<1>6. CASE Connect
  BY <1>6 DEF Connect
<1>7. CASE Receive \/ NotConnected \/ Except
  BY <1>1, <1>7 DEF Receive, NotConnected, Except
<1>8. CASE UNCHANGED socket
  BY <1>8
<1>9. QED
  BY <1>2, <1>3, <1>4, <1>5, <1>6, <1>7, <1>8
  DEF Next, ClientStep, ConnectFails, Register, Refused, Drop, Resume, Announce,
      FindsClosed, PrepareSession, JointTrajectory, TrajectoryUnchecked, ExecutionRequest,
      StopSession, Replies, TransportPaused, ConnectionChanged, GraceElapses, ExecutionEnds,
      OperatorStep, Authorize, Withdraw, DeadlinePasses, ExpiryStep, ExpireRun, ExpireHolds,
      ExpireReports, LinkLost, Completes, Fails, Reports

LEMMA OpenBy ==
    ASSUME Typed, Next, socket'.open
    PROVE  socket.open \/ Connect
<1>1. CASE ServerStep
  BY <1>1, SocketFields
  DEF ServerStep, ServerReads, ServerPrepares, ServerAsks, ServerRequests, ServerEnds,
      ServerForgets, ServerObjects, Down, Typed, Sockets
<1>2. CASE Send
  BY <1>2 DEF Send
<1>3. CASE SendRaises \/ Break
  BY <1>3 DEF SendRaises, Break
<1>4. CASE Receive
  BY <1>4 DEF Receive
<1>5. CASE NotConnected \/ Except
  BY <1>5 DEF NotConnected, Except, Typed, Sockets
<1>6. CASE UNCHANGED socket
  BY <1>6
<1>7. QED
  BY <1>1, <1>2, <1>3, <1>4, <1>5, <1>6
  DEF Next, ClientStep, ConnectFails, Register, Refused, Drop, Resume, Announce,
      FindsClosed, PrepareSession, JointTrajectory, TrajectoryUnchecked, ExecutionRequest,
      StopSession, Replies, TransportPaused, ConnectionChanged, GraceElapses, ExecutionEnds,
      OperatorStep, Authorize, Withdraw, DeadlinePasses, ExpiryStep, ExpireRun, ExpireHolds,
      ExpireReports, LinkLost, Completes, Fails, Reports

\* From one place to the next.
LEMMA PlaceBy ==
    ASSUME Typed, Next
    PROVE  /\ client'.pc \in {"register", "refused", "resume"} =>
                 \/ Connect /\ client'.resume = robot.lease /\ robot' = robot
                 \/ /\ client.pc \in {"register", "refused", "resume"}
                    /\ client'.resume = client.resume
           /\ client'.pc = "register" => Connect \/ (client.pc = "register" /\ ~Register)
           /\ client'.pc \in {"resume", "announce", "serve", "handle", "reply"} =>
                 \/ client.pc \in {"resume", "announce", "serve", "handle", "reply"}
                 \/ Register
                 \/ Drop
           /\ client'.pc = "drop" => Refused \/ client.pc = "drop"
           /\ client'.resume \in {client.resume, robot.lease, None}
           /\ Connect => client.pc = "connect" /\ client'.pc = "register"
           /\ Register => client.pc = "register"
           /\ client'.pc = "reply" => client.pc \in {"reply", "handle"}
<1>1. CASE UNCHANGED client
  BY <1>1, ClientFields DEF Connect, Register
<1>2. CASE GraceElapses \/ \E s \in Sessions : ExecutionEnds(s)
  BY <1>2, ClientFields DEF GraceElapses, ExecutionEnds, Connect, Register
<1>3. CASE SendRaises
  BY <1>3, ClientFields DEF SendRaises, Connect, Register
<1>4. CASE ConnectFails \/ Connect \/ Register
  BY <1>4, ClientFields DEF ConnectFails, Connect, Register, Goto
<1>5. CASE Refused \/ Drop \/ Resume \/ Announce
  BY <1>5, ClientFields DEF Refused, Drop, Resume, Announce, Goto, Connect, Register
<1>6. CASE FindsClosed \/ TransportPaused \/ ConnectionChanged \/ Except \/ Replies
  BY <1>6, ClientFields
  DEF FindsClosed, TransportPaused, ConnectionChanged, Except, Replies, Goto, Connect, Register
<1>7. CASE Send \/ Receive
  BY <1>7, ClientFields DEF Send, Receive, Connect, Register
<1>8. ASSUME client.pc = "handle", client'.resume = client.resume,
             client'.pc \in {"serve", "except", "reply"}
      PROVE  /\ client.pc # "register" /\ client.pc # "connect"
             /\ client'.pc \notin {"register", "refused", "resume", "drop"}
             /\ ~Connect /\ ~Register
  BY <1>8 DEF Connect, Register
<1>9. CASE PrepareSession \/ TrajectoryUnchecked \/ ExecutionRequest
           \/ StopSession \/ NotConnected \/ JointTrajectory
  <2>1. client.pc = "handle"
    BY <1>9 DEF PrepareSession, TrajectoryUnchecked, ExecutionRequest, StopSession,
                NotConnected, JointTrajectory, Handles
  <2>2. /\ client'.resume = client.resume
        /\ client'.pc \in {"serve", "except", "reply"}
    <3>1. CASE JointTrajectory
      <4>1. client' = Served("serve") \/ \E status : client' = Reply(status)
        BY <3>1 DEF JointTrajectory
      <4>2. QED
        BY <4>1, ClientFields DEF Served, Reply
    <3>2. CASE PrepareSession \/ TrajectoryUnchecked \/ ExecutionRequest
      BY <3>2, ClientFields
      DEF PrepareSession, TrajectoryUnchecked, ExecutionRequest, Served, Reply
    <3>3. CASE StopSession \/ NotConnected
      BY <3>3, ClientFields DEF StopSession, NotConnected, Served
    <3>4. QED
      BY <1>9, <3>1, <3>2, <3>3
  <2>3. QED
    BY <1>8, <2>1, <2>2
<1>10. QED
  BY <1>1, <1>2, <1>3, <1>4, <1>5, <1>6, <1>7, <1>9
  DEF Next, ClientStep, OperatorStep, Authorize, Withdraw, DeadlinePasses, ExpiryStep, ExpireRun, ExpireHolds,
      ExpireReports, LinkLost, Completes, Fails, Reports,
      ServerStep, ServerReads, ServerPrepares, ServerAsks, ServerRequests, ServerEnds,
      ServerForgets, ServerObjects, Break

----------------------------------------------------------------------------
(* The sessions that began.                                                *)

LEMMA InitInv == Init => SessionInv
<1> SUFFICES ASSUME Init PROVE SessionInv
  OBVIOUS
<1>1. Typed
  BY InitTyped
<1>2. Born /\ Quiet /\ LeaseIsOffered /\ LeaseIsServed /\ PreparedIsServed
  BY DEF Init, Born, Quiet, LeaseIsOffered, LeaseIsServed, PreparedIsServed
<1>3. RefusedIsOver
  <2>1. Unposted = {}
    BY DEF Init, Unposted, Elements
  <2>2. QED
    BY <2>1 DEF Init, RefusedIsOver
<1>4. AskedInOrder
  BY DEF Init, AskedInOrder, RejectedDidNotMove
<1>5. QED
  BY <1>1, <1>2, <1>3, <1>4 DEF SessionInv

LEMMA NextBorn ==
    ASSUME Typed, Born, Next
    PROVE  Born'
<1>1. /\ server.begun \in Nat /\ server'.begun \in Nat
      /\ server'.begun \in {server.begun, server.begun + 1}
      /\ ServerPrepares => server'.begun = server.begun + 1
  <2>1. ServerPrepares => server'.begun = server.begun + 1
    BY ServerFields DEF ServerPrepares, Typed, Servers
  <2>2. QED
    BY <2>1, ServerFields, ServerBy
<1>2. server.begun <= server'.begun
  BY <1>1
<1>3. ASSUME NEW s \in Sessions, s <= server.begun PROVE s <= server'.begun
  BY <1>1, <1>2, <1>3 DEF Sessions
<1>4. ASSUME NEW m \in Commands, OfBegun(m) PROVE OfBegun(m)'
  <2>1. m.type = "trajectory" => m.id[1] \in Sessions
    BY CommandFields DEF Ids
  <2>2. QED
    BY <1>3, <1>4, <2>1, CommandFields DEF OfBegun
<1>5. ASSUME client.pc = "handle" PROVE OfBegun(client.message) /\ client.message \in Commands
  BY <1>5 DEF Born, Typed
<1>6. ASSUME robot'.lease # None PROVE robot'.lease <= server'.begun
  <2>1. CASE robot'.lease = robot.lease
    <3>1. robot.lease \in Sessions /\ robot.lease <= server.begun
      BY <1>6, <2>1, RobotFields DEF Born
    <3>2. QED
      BY <1>3, <2>1, <3>1
  <2>2. CASE PrepareSession /\ robot'.lease = client.message.session
    <3>1. client.pc = "handle" /\ client.message.type = "prepare"
      BY <2>2 DEF PrepareSession, Handles
    <3>2. client.message.session \in Sessions /\ client.message.session <= server.begun
      BY <1>5, <3>1, CommandFields DEF OfBegun
    <3>3. QED
      BY <1>3, <2>2, <3>2
  <2>3. QED
    BY <1>6, <2>1, <2>2, RobotBy
<1>7. ASSUME client'.resume # None PROVE client'.resume <= server'.begun
  <2>1. \/ client'.resume = client.resume /\ client.resume \in Sessions
        \/ client'.resume = robot.lease /\ robot.lease \in Sessions
    BY <1>7, PlaceBy, ClientFields, RobotFields
  <2>2. QED
    BY <1>3, <1>7, <2>1 DEF Born
<1>8. ASSUME server'.session # None PROVE server'.session <= server'.begun
  <2>1. \/ server'.session = server.session /\ server.session \in Sessions
        \/ server'.session = server.begun + 1 /\ server'.begun = server.begun + 1
    BY <1>8, ServerBy, ServerFields
  <2>2. QED
    BY <1>1, <1>3, <1>8, <2>1 DEF Born
<1>9. ASSUME NEW s \in server'.refused PROVE s <= server'.begun
  <2>1. CASE s \in server.refused
    BY <1>3, <2>1, ServerFields DEF Born
  <2>2. CASE client.resume # None /\ s = client.resume
    BY <1>3, <2>2, ClientFields DEF Born
  <2>3. QED
    BY <2>1, <2>2, ServerBy
<1>10. ASSUME NEW i \in DOMAIN socket'.down PROVE OfBegun(socket.down[i])'
  <2>1. CASE \E j \in DOMAIN socket.down : socket'.down[i] = socket.down[j]
    <3>1. PICK j \in DOMAIN socket.down : socket'.down[i] = socket.down[j]
      BY <2>1
    <3>2. PICK m : m = socket.down[j]
      OBVIOUS
    <3>3. m \in Commands /\ OfBegun(m)
      BY <3>2, DownPlaces DEF Born
    <3>4. OfBegun(m)'
      BY <1>4, <3>3
    <3>5. QED
      BY <3>1, <3>2, <3>4 DEF OfBegun
  <2>2. CASE Says(socket'.down[i])
    <3>1. PICK m : m = socket'.down[i]
      OBVIOUS
    <3>2. Says(m)
      BY <2>2, <3>1
    <3>3. OfBegun(m)'
      <4>1. CASE ServerObjects /\ m = [type |-> "error"]
        BY <4>1 DEF OfBegun
      <4>2. CASE ServerPrepares /\ m = About("prepare", server.begun + 1)
        BY <1>1, <4>2 DEF OfBegun, About
      <4>3. CASE ServerAsks /\ m = Trajectory(<<server.session, server.step + 1>>)
        <5>1. server.session # None
          BY <4>3 DEF ServerAsks
        <5>2. server.session \in Sessions /\ server.session <= server.begun
          BY <5>1, ServerFields DEF Born
        <5>3. QED
          BY <1>3, <4>3, <5>2 DEF OfBegun, Trajectory
      <4>4. CASE ServerRequests /\ m = About("execution_request", server.session)
        BY <4>4 DEF OfBegun, About
      <4>5. CASE ServerEnds /\ m = About("stop", server.session)
        <5>1. server.session # None
          BY <4>5 DEF ServerEnds
        <5>2. server.session \in Sessions /\ server.session <= server.begun
          BY <5>1, ServerFields DEF Born
        <5>3. QED
          BY <1>3, <4>5, <5>2 DEF OfBegun, About
      <4>6. QED
        BY <3>2, <4>1, <4>2, <4>3, <4>4, <4>5 DEF Says
    <3>4. QED
      BY <3>1, <3>3 DEF OfBegun
  <2>3. QED
    BY <2>1, <2>2, DownFrom
<1>11. ASSUME client'.pc = "handle" PROVE OfBegun(client.message)'
  <2>1. PICK m : m = client'.message
    OBVIOUS
  <2>2. m \in Commands /\ OfBegun(m)
    BY <1>5, <1>11, <2>1, HandFrom, DownPlaces DEF Born
  <2>3. QED
    BY <1>4, <2>1, <2>2 DEF OfBegun
<1>12. QED
  BY <1>6, <1>7, <1>8, <1>9, <1>10, <1>11 DEF Born, OfBegun

----------------------------------------------------------------------------
(* The connection.                                                         *)

LEMMA NextQuiet ==
    ASSUME Typed, Quiet, Next
    PROVE  Quiet'
<1>1. ASSUME client'.pc = "register"
      PROVE  ~server'.registered /\ socket'.up = <<>> /\ socket'.down = <<>>
  <2>1. CASE Connect
    <3>1. ~server'.registered
      BY <2>1, ServerFields DEF Connect, Typed, Servers
    <3>2. QED
      BY <2>1, <3>1 DEF Connect
  <2>2. CASE client.pc = "register" /\ ~Register
    <3>1. ~server.registered /\ socket.up = <<>> /\ socket.down = <<>>
      BY <2>2 DEF Quiet
    <3>2. ~server'.registered
      BY <2>2, <3>1, ServerBy
    <3>3. socket'.up = <<>>
      <4>1. ASSUME NEW n \in 0 .. Len(socket.up), socket'.up = SubSeq(socket.up, 1, n)
            PROVE  socket'.up = <<>>
        <5>1. n = 0
          BY <3>1, <4>1
        <5>2. QED
          BY <4>1, <5>1, SubSeqEmpty
      <4>2. QED
        BY <2>2, <3>1, <4>1, UpBy
    <3>4. ASSUME NEW m, Says(m) PROVE FALSE
      BY <2>2, <3>1, <3>4
      DEF Says, ServerObjects, ServerPrepares, ServerAsks, ServerRequests, MaySend
    <3>5. ~Receive
      BY <3>1 DEF Receive
    <3>6. QED
      BY <3>1, <3>2, <3>3, <3>4, <3>5, DownBy
  <2>3. QED
    BY <1>1, <2>1, <2>2, PlaceBy
<1>2. ASSUME ~socket'.open PROVE socket'.down = <<>>
  BY <1>2, DownBy DEF Quiet, Receive
<1>3. QED
  BY <1>1, <1>2 DEF Quiet

LEMMA NextOffered ==
    ASSUME Typed, LeaseIsOffered, Next
    PROVE  LeaseIsOffered'
<1> SUFFICES ASSUME client'.pc \in {"register", "refused", "resume"}
             PROVE  robot'.lease \in {None, client'.resume}
  BY DEF LeaseIsOffered
<1>1. CASE Connect /\ client'.resume = robot.lease /\ robot' = robot
  BY <1>1
<1>2. CASE client.pc \in {"register", "refused", "resume"} /\ client'.resume = client.resume
  <2>1. ~PrepareSession
    BY <1>2 DEF PrepareSession, Handles
  <2>2. robot'.lease \in {robot.lease, None}
    BY <2>1, RobotBy
  <2>3. QED
    BY <1>2, <2>2 DEF LeaseIsOffered
<1>3. QED
  BY <1>1, <1>2, PlaceBy

----------------------------------------------------------------------------
(* Leases.                                                                 *)

Sent(m) == \E i \in DOMAIN socket.down : socket.down[i] = m

\* What is on its way stays so, or has been received, or the connection is over.
LEMMA SentStays ==
    ASSUME Typed, Next, NEW m, Sent(m), socket'.open, ~Connect
    PROVE  Sent(m)' \/ (client'.pc = "handle" /\ client'.message = m)
<1>1. PICK i \in DOMAIN socket.down : socket.down[i] = m
  BY DEF Sent
<1>2. CASE socket'.down = socket.down
  BY <1>1, <1>2 DEF Sent
<1>3. ASSUME socket'.down = <<>>, ~socket'.open \/ Connect PROVE FALSE
  BY <1>3
<1>4. CASE Receive /\ socket.down # <<>> /\ socket'.down = Tail(socket.down)
  <2>1. CASE i = 1
    BY <1>1, <1>4, <2>1, ClientFields, DownPlaces DEF Receive
  <2>2. CASE i # 1
    <3>1. i - 1 \in DOMAIN socket'.down /\ socket'.down[i - 1] = socket.down[i]
      BY <1>1, <1>4, <2>2, DownPlaces
    <3>2. QED
      BY <1>1, <3>1 DEF Sent
  <2>3. QED
    BY <2>1, <2>2
<1>5. ASSUME NEW c \in Commands, socket'.down = Append(socket.down, c)
      PROVE  Sent(m)'
  <2>1. i \in DOMAIN socket'.down /\ socket'.down[i] = m
    BY <1>1, <1>5, DownPlaces
  <2>2. QED
    BY <2>1 DEF Sent
<1>6. QED
  BY <1>2, <1>3, <1>4, <1>5, DownBy

\* What the server says when it ends a session.
LEMMA EndIsSent ==
    ASSUME Typed, ServerEnds, server.registered, socket.open,
           NEW s, s = server.session
    PROVE  /\ socket'.down = Append(socket.down, About("stop", s))
           /\ Sent(About("stop", s))' /\ server'.session = None
           /\ s \in Sessions /\ client' = client
<1>1. s \in Sessions /\ About("stop", s) \in Commands
  BY ServerFields, SomeCommands DEF ServerEnds
<1>2. socket'.down = Append(socket.down, About("stop", s))
  BY SocketFields DEF ServerEnds, Down, Typed, Sockets
<1>3. server'.session = None /\ client' = client
  BY DEF ServerEnds, Typed, Servers
<1>4. Sent(About("stop", s))'
  <2> DEFINE n == Len(socket.down) + 1
  <2>1. n \in DOMAIN socket'.down /\ socket'.down[n] = About("stop", s)
    BY <1>1, <1>2, DownPlaces
  <2>2. QED
    BY <2>1 DEF Sent
<1>5. QED
  BY <1>1, <1>2, <1>3, <1>4

\* A handler is for one type of message.
LEMMA StopIsHandled ==
    ASSUME Typed, Next, client.pc = "handle", client.message.type = "stop"
    PROVE  \/ client'.pc = "handle" /\ client'.message = client.message
           \/ StopSession
<1>1. CASE GraceElapses \/ \E s \in Sessions : ExecutionEnds(s)
  BY <1>1, ClientFields DEF GraceElapses, ExecutionEnds
<1>2. CASE UNCHANGED client
  BY <1>2
<1>3. ~SendRaises /\ (ClientStep => StopSession)
  BY DEF SendRaises, ClientStep, ConnectFails, Connect, Register, Refused, Drop, Resume, Announce,
         Send, Receive, FindsClosed, PrepareSession, JointTrajectory, TrajectoryUnchecked,
         ExecutionRequest, NotConnected, Replies, Except, TransportPaused, ConnectionChanged,
         Handles
<1>4. QED
  BY <1>1, <1>2, <1>3
  DEF Next, OperatorStep, Authorize, Withdraw, DeadlinePasses, ExpiryStep, ExpireRun, ExpireHolds,
      ExpireReports, LinkLost, Completes, Fails, Reports,
      ServerStep, ServerReads, ServerPrepares, ServerAsks, ServerRequests, ServerEnds,
      ServerForgets, ServerObjects, Break

\* A stop is obeyed, or left to who enforces the deadline, unless the link to the motors
\* is lost.
LEMMA StopIsObeyed ==
    ASSUME Typed, StopSession, robot'.link, robot.lease = client.message.session
    PROVE  robot'.lease = None \/ Expiring'
<1>1. CASE robot' = [robot EXCEPT !.deadline = "passed"]
  BY <1>1, RobotFields DEF Expiring
<1>2. CASE robot' = [robot EXCEPT !.lease = None, !.authorized = FALSE, !.deadline = "none"]
  BY <1>2, RobotFields
<1>3. CASE IF robot.link
             THEN \E deadline \in {robot.deadline, "none"} :
                    robot' = [Holding(robot) EXCEPT !.deadline = deadline]
             ELSE UNCHANGED robot
  BY <1>3, RobotFields DEF Holding
<1>4. QED
  BY <1>1, <1>2, <1>3 DEF StopSession

\* Who enforces a deadline ends the lease.
LEMMA ExpiringStays ==
    ASSUME Typed, Next, Expiring, robot.lease # None, robot'.lease = robot.lease,
           robot'.link, ~PrepareSession
    PROVE  Expiring'
<1>1. CASE robot'.deadline = robot.deadline /\ robot'.expiring = robot.expiring
  BY <1>1 DEF Expiring
<1>2. CASE DeadlinePasses \/ ExpireRun \/ ExpireReports
  BY <1>2, RobotFields DEF DeadlinePasses, ExpireRun, ExpireReports, PhysicalLockFree, Expiring
<1>3. CASE ExpireHolds
  BY <1>3, RobotFields DEF ExpireHolds, Holding
<1>4. CASE Withdraw
  <2>1. PICK d \in {robot.deadline, "none"} :
           robot' = [Holding(robot) EXCEPT !.deadline = d]
    BY <1>4 DEF Withdraw
  <2>2. robot'.lease = None
    BY <2>1, RobotFields DEF Holding
  <2>3. QED
    BY <2>2
<1>5. CASE StopSession
  <2>1. CASE robot.lease = client.message.session
    BY <1>5, <2>1, StopIsObeyed
  <2>2. CASE robot.lease # client.message.session
    BY <1>5, <2>2, <1>1 DEF StopSession
  <2>3. QED
    BY <2>1, <2>2
<1>6. CASE Completes \/ Fails
  <2>1. PICK ms \in Seq(Messages) :
           \/ robot' = SettledWith(ms)
           \/ robot' = [SettledWith(ms) EXCEPT !.mode = "FAULT", !.ok = FALSE,
                                                !.authorized = FALSE]
    BY <1>6, Endings
  <2>2. /\ SettledWith(ms).deadline = robot.deadline
        /\ SettledWith(ms).expiring = robot.expiring /\ SettledWith(ms) \in Robots
    BY <1>6, Endings, SettledWithBy
  <2>3. robot'.deadline = robot.deadline /\ robot'.expiring = robot.expiring
    BY <2>1, <2>2 DEF Robots
  <2>4. QED
    BY <1>1, <2>3
<1>7. CASE Refused \/ ConnectionChanged
  BY <1>7, <1>1, RobotFields DEF Refused, ConnectionChanged, Disconnected, Holding
<1>8. CASE \E id \in Ids : Reports(id)
  BY <1>8, <1>1, RobotFields DEF Reports
<1>9. CASE Authorize \/ LinkLost \/ Announce \/ TransportPaused
  BY <1>9, <1>1, RobotFields DEF Authorize, LinkLost, Announce, TransportPaused
<1>10. CASE JointTrajectory \/ TrajectoryUnchecked
  BY <1>10, <1>1, RobotFields DEF JointTrajectory, TrajectoryUnchecked
<1>11. CASE UNCHANGED robot
  BY <1>1, <1>11
<1>12. QED
  BY <1>2, <1>3, <1>4, <1>5, <1>6, <1>7, <1>8, <1>9, <1>10, <1>11
  DEF Next, ClientStep, ConnectFails, Connect, Register, Drop, Resume, Send, Receive,
      FindsClosed, ExecutionRequest, NotConnected, Replies, Except, SendRaises,
      GraceElapses, ExecutionEnds, OperatorStep, ExpiryStep, ServerStep, ServerReads,
      ServerPrepares, ServerAsks, ServerRequests, ServerEnds, ServerForgets, ServerObjects,
      Break

\* The server knows the robot, as far as the robot knows.
Joined == {"resume", "announce", "serve", "handle", "reply"}

LEMMA NextLeaseIsServed ==
    ASSUME Typed, Quiet, LeaseIsOffered, LeaseIsServed, PreparedIsServed, Next
    PROVE  LeaseIsServed'
<1>1. ASSUME client'.pc \in Joined, socket'.open, server'.registered, robot'.link,
             robot'.lease # None
      PROVE  \/ robot'.lease = server'.session
             \/ Sent(About("stop", robot.lease))'
             \/ InHandIs(About("stop", robot.lease))'
             \/ Expiring'
  <2>1. CASE Register
    <3>1. robot' = robot /\ client.pc = "register"
      BY <2>1 DEF Register
    <3>2. robot.lease = client.resume
      BY <1>1, <3>1 DEF LeaseIsOffered
    <3>3. server.session = client.resume
      BY <1>1, <2>1, <3>1, <3>2, ClientFields DEF Register, Joined
    <3>4. server'.session = server.session
      BY <1>1, <2>1, <3>1, <3>2, <3>3 DEF Register, Typed, Servers
    <3>5. QED
      BY <3>1, <3>2, <3>3, <3>4
  <2>2. CASE Drop
    BY <1>1, <2>2 DEF Drop, LeaseIsServed
  <2>3. CASE client.pc \in Joined /\ ~Register
    <3>1. ~Connect /\ socket.open /\ server.registered /\ robot.link
      <4>1. ~Connect /\ server.registered /\ robot.link
        BY <1>1, <2>3, PlaceBy, ServerBy, RobotBy DEF Joined
      <4>2. socket.open
        BY <1>1, <4>1, OpenBy
      <4>3. QED
        BY <4>1, <4>2
    <3>2. PICK s : s = robot'.lease
      OBVIOUS
    <3>3. ASSUME Sent(About("stop", s))
          PROVE  Sent(About("stop", s))' \/ InHandIs(About("stop", s))'
      BY <1>1, <3>1, <3>3, SentStays DEF InHandIs
    <3>4. ASSUME s = server.session
          PROVE  s = server'.session \/ Sent(About("stop", s))'
      <4>1. CASE ServerEnds
        BY <3>1, <3>4, <4>1, EndIsSent
      <4>2. CASE ~ServerEnds
        <5>1. ~ServerPrepares
          BY <1>1, <3>2, <3>4 DEF ServerPrepares
        <5>2. QED
          BY <1>1, <2>3, <3>4, <4>2, <5>1, ServerBy
      <4>3. QED
        BY <4>1, <4>2
    <3>5. CASE PrepareSession /\ s = client.message.session
      <4>1. client.pc = "handle" /\ client.message.type = "prepare"
        BY <3>5 DEF PrepareSession, Handles
      <4>2. s = server.session \/ Sent(About("stop", s))
        BY <3>1, <3>5, <4>1 DEF PreparedIsServed, Sent
      <4>3. server' = server /\ socket' = socket
        BY <3>5 DEF PrepareSession
      <4>4. QED
        BY <3>2, <4>2, <4>3 DEF Sent
    <3>6. CASE s = robot.lease
      <4>1. \/ s = server.session \/ Sent(About("stop", s)) \/ InHandIs(About("stop", s))
            \/ Expiring
        BY <1>1, <2>3, <3>1, <3>2, <3>6 DEF LeaseIsServed, Sent, Joined
      <4>2. ASSUME InHandIs(About("stop", s))
            PROVE  InHandIs(About("stop", s))' \/ Expiring'
        <5>1. /\ client.pc = "handle" /\ client.message = About("stop", s)
              /\ client.message.type = "stop" /\ client.message.session = s
          BY <4>2 DEF InHandIs, About
        <5>2. StopSession => Expiring'
          BY <1>1, <3>2, <3>6, <5>1, StopIsObeyed
        <5>3. ~StopSession => client'.pc = "handle" /\ client'.message = client.message
          BY <5>1, StopIsHandled
        <5>4. QED
          BY <5>1, <5>2, <5>3 DEF InHandIs
      <4>3. CASE PrepareSession
        <5>1. CASE UNCHANGED robot
          <6>1. socket' = socket /\ server' = server /\ Expiring' = Expiring
            BY <4>3, <5>1 DEF PrepareSession, Expiring
          <6>2. ~InHandIs(About("stop", s))
            BY <4>3 DEF PrepareSession, Handles, InHandIs, About
          <6>3. QED
            BY <3>2, <4>1, <6>1, <6>2 DEF Sent
        <5>2. CASE robot'.lease = client.message.session
          BY <3>2, <3>5, <4>3, <5>2
        <5>3. QED
          BY <4>3, <5>1, <5>2, PreparedRobot
      <4>4. ASSUME Expiring, ~PrepareSession PROVE Expiring'
        BY <1>1, <3>2, <3>6, <4>4, ExpiringStays
      <4>5. QED
        BY <3>2, <3>3, <3>4, <4>1, <4>2, <4>3, <4>4 DEF Sent, InHandIs
    <3>7. QED
      BY <1>1, <3>2, <3>5, <3>6, RobotBy
  <2>4. QED
    BY <1>1, <2>1, <2>2, <2>3, PlaceBy DEF Joined
<1>2. ASSUME client'.pc = "drop" PROVE robot'.lease = None \/ ~robot'.link
  <2>1. CASE Refused
    BY <2>1, RobotFields DEF Refused, Disconnected, Holding
  <2>2. CASE client.pc = "drop"
    <3>1. ~PrepareSession
      BY <2>2 DEF PrepareSession, Handles
    <3>2. QED
      BY <2>2, <3>1, RobotBy DEF LeaseIsServed
  <2>3. QED
    BY <1>2, <2>1, <2>2, PlaceBy
<1>3. QED
  BY <1>1, <1>2 DEF LeaseIsServed, Sent, Joined

\* What the server offers or ends, it says so.
LEMMA SessionChanges ==
    ASSUME Typed, Next, server'.registered, ~Register, socket.open
    PROVE  \/ server'.session = server.session
           \/ ServerPrepares /\ server'.session = server.begun + 1
              /\ socket'.down = Append(socket.down, About("prepare", server.begun + 1))
              /\ About("prepare", server.begun + 1) \in Commands
           \/ ServerEnds /\ server.registered
<1>1. CASE ServerPrepares
  <2>1. server.begun + 1 \in Sessions
    BY <1>1, ServerFields, BoundsPositive DEF ServerPrepares, Sessions
  <2>2. server'.session = server.begun + 1
    BY <1>1 DEF ServerPrepares, Typed, Servers
  <2>3. socket'.down = Append(socket.down, About("prepare", server.begun + 1))
    BY <1>1 DEF ServerPrepares, Down, Typed, Sockets
  <2>4. QED
    BY <1>1, <2>1, <2>2, <2>3, SomeCommands
<1>2. CASE ServerEnds
  BY <1>2 DEF ServerEnds, Typed, Servers
<1>3. QED
  BY <1>1, <1>2, ServerBy

LEMMA NextPreparedIsServed ==
    ASSUME Typed, Quiet, PreparedIsServed, Next
    PROVE  PreparedIsServed'
<1> SUFFICES ASSUME socket'.open, server'.registered
             PROVE  /\ \A i \in DOMAIN socket'.down : socket'.down[i].type = "prepare" =>
                          \/ socket'.down[i].session = server'.session
                          \/ \E j \in DOMAIN socket'.down :
                                i < j /\ socket'.down[j] = About("stop", socket'.down[i].session)
                    /\ client'.pc = "handle" /\ client'.message.type = "prepare" =>
                          \/ client'.message.session = server'.session
                          \/ \E j \in DOMAIN socket'.down :
                                socket'.down[j] = About("stop", client'.message.session)
  BY DEF PreparedIsServed
<1>1. CASE Connect
  <2>1. socket'.down = <<>> /\ client'.pc # "handle"
    BY <1>1, PlaceBy DEF Connect
  <2>2. QED
    BY <2>1
<1>2. CASE Register
  <2>1. socket'.down = <<>> /\ client'.pc # "handle"
    <3>1. socket'.down = <<>>
      BY <1>2 DEF Register, Quiet
    <3>2. client'.pc # "handle"
      BY <1>2, ClientFields DEF Register
    <3>3. QED
      BY <3>1, <3>2
  <2>2. QED
    BY <2>1
<1>3. CASE ~Connect /\ ~Register
  <2>1. socket.open /\ server.registered
    BY <1>3, OpenBy, ServerBy
  <2> DEFINE n == Len(socket.down)
             On(s) == s = server.session
  <2>2. /\ \A i \in DOMAIN socket.down : socket.down[i].type = "prepare" =>
              \/ socket.down[i].session = server.session
              \/ \E j \in DOMAIN socket.down :
                    i < j /\ socket.down[j] = About("stop", socket.down[i].session)
        /\ client.pc = "handle" /\ client.message.type = "prepare" =>
              \/ client.message.session = server.session
              \/ \E j \in DOMAIN socket.down :
                    socket.down[j] = About("stop", client.message.session)
        /\ n \in Nat /\ DOMAIN socket.down = 1 .. n
        /\ \A i \in DOMAIN socket.down : socket.down[i] \in Commands
    BY <2>1, DownPlaces DEF PreparedIsServed
  <2>3. ASSUME client'.pc = "handle"
        PROVE  \/ client.pc = "handle" /\ client'.message = client.message
                  /\ client.message \in Commands
               \/ Receive /\ client'.message = Head(socket.down)
    BY <2>3, HandBy DEF Typed
  <2>4. CASE ServerEnds
    <3>1. PICK s : s = server.session
      OBVIOUS
    <3>2. /\ socket'.down = Append(socket.down, About("stop", s)) /\ client' = client
          /\ About("stop", s) \in Commands
      BY <2>1, <2>4, <3>1, EndIsSent, SomeCommands
    <3>3. /\ DOMAIN socket'.down = 1 .. (n + 1) /\ socket'.down[n + 1] = About("stop", s)
          /\ \A i \in 1 .. n : socket'.down[i] = socket.down[i]
      BY <2>2, <3>2, DownPlaces
    <3>4. ASSUME NEW i \in DOMAIN socket'.down, socket'.down[i].type = "prepare"
          PROVE  \E j \in DOMAIN socket'.down :
                    i < j /\ socket'.down[j] = About("stop", socket'.down[i].session)
      <4>1. i \in 1 .. n
        BY <2>2, <3>3, <3>4 DEF About
      <4>2. CASE socket.down[i].session = server.session
        <5>1. i < n + 1 /\ n + 1 \in DOMAIN socket'.down
          BY <2>2, <3>3, <4>1
        <5>2. QED
          BY <3>1, <3>3, <4>1, <4>2, <5>1
      <4>3. CASE \E j \in DOMAIN socket.down :
                    i < j /\ socket.down[j] = About("stop", socket.down[i].session)
        <5>1. PICK j \in 1 .. n :
                    i < j /\ socket.down[j] = About("stop", socket.down[i].session)
          BY <2>2, <4>3
        <5>2. j \in DOMAIN socket'.down
          BY <2>2, <3>3
        <5>3. QED
          BY <3>3, <4>1, <5>1, <5>2
      <4>4. QED
        BY <2>2, <3>3, <3>4, <4>1, <4>2, <4>3
    <3>5. ASSUME client'.pc = "handle", client'.message.type = "prepare"
          PROVE  \E j \in DOMAIN socket'.down :
                    socket'.down[j] = About("stop", client'.message.session)
      <4>1. CASE client.message.session = server.session
        <5>1. n + 1 \in DOMAIN socket'.down
          BY <2>2, <3>3
        <5>2. QED
          BY <3>1, <3>2, <3>3, <4>1, <5>1
      <4>2. CASE \E j \in DOMAIN socket.down :
                    socket.down[j] = About("stop", client.message.session)
        <5>1. PICK j \in 1 .. n : socket.down[j] = About("stop", client.message.session)
          BY <2>2, <4>2
        <5>2. j \in DOMAIN socket'.down
          BY <2>2, <3>3
        <5>3. QED
          BY <3>2, <3>3, <5>1, <5>2
      <4>3. QED
        BY <2>2, <3>2, <3>5, <4>1, <4>2
    <3>6. QED
      BY <3>4, <3>5
  <2>5. CASE ServerPrepares
    <3>1. /\ server'.session = server.begun + 1 /\ server.session = None
          /\ socket'.down = Append(socket.down, About("prepare", server.begun + 1))
          /\ About("prepare", server.begun + 1) \in Commands /\ client' = client
      <4>1. ~ServerEnds /\ server.session = None /\ client' = client
        BY <2>5 DEF ServerPrepares, ServerEnds
      <4>2. server'.session = server.begun + 1
        BY <2>5 DEF ServerPrepares, Typed, Servers
      <4>3. server.begun + 1 \in Sessions
        BY <2>5, ServerFields, BoundsPositive DEF ServerPrepares, Sessions
      <4>4. QED
        BY <1>3, <2>1, <4>1, <4>2, <4>3, SessionChanges, NoneIsNoSession DEF Sessions
    <3>2. /\ DOMAIN socket'.down = 1 .. (n + 1)
          /\ socket'.down[n + 1] = About("prepare", server.begun + 1)
          /\ \A i \in 1 .. n : socket'.down[i] = socket.down[i]
      BY <2>2, <3>1, DownPlaces
    <3>3. \A m \in Commands : m.type = "prepare" => m.session # server.session
      BY <3>1, CommandFields, NoneIsNoSession DEF Sessions
    <3>4. ASSUME NEW i \in DOMAIN socket'.down, socket'.down[i].type = "prepare"
          PROVE  \/ socket'.down[i].session = server'.session
                 \/ \E j \in DOMAIN socket'.down :
                       i < j /\ socket'.down[j] = About("stop", socket'.down[i].session)
      <4>1. CASE i = n + 1
        BY <3>1, <3>2, <4>1 DEF About
      <4>2. CASE i # n + 1
        <5>1. i \in 1 .. n
          BY <2>2, <3>2, <4>2
        <5>2. PICK j \in 1 .. n :
                    i < j /\ socket.down[j] = About("stop", socket.down[i].session)
          BY <2>2, <3>2, <3>3, <3>4, <5>1
        <5>3. j \in DOMAIN socket'.down
          BY <2>2, <3>2
        <5>4. QED
          BY <3>2, <5>1, <5>2, <5>3
      <4>3. QED
        BY <4>1, <4>2
    <3>5. ASSUME client'.pc = "handle", client'.message.type = "prepare"
          PROVE  \E j \in DOMAIN socket'.down :
                    socket'.down[j] = About("stop", client'.message.session)
      <4>1. client.message \in Commands
        BY <3>1, <3>5 DEF Typed
      <4>2. PICK j \in 1 .. n : socket.down[j] = About("stop", client.message.session)
        BY <2>2, <3>1, <3>3, <3>5, <4>1
      <4>3. j \in DOMAIN socket'.down
        BY <2>2, <3>2
      <4>4. QED
        BY <3>1, <3>2, <4>2, <4>3
    <3>6. QED
      BY <3>4, <3>5
  <2>6. CASE ~ServerEnds /\ ~ServerPrepares
    <3>1. server'.session = server.session
      BY <1>3, <2>1, <2>6, SessionChanges
    <3>2. CASE socket'.down = socket.down /\ ~Receive
      BY <2>2, <2>3, <3>1, <3>2
    <3>3. CASE Receive /\ socket.down # <<>> /\ socket'.down = Tail(socket.down)
      <4>1. /\ DOMAIN socket'.down = 1 .. (n - 1) /\ n > 0
            /\ \A i \in 1 .. (n - 1) : socket'.down[i] = socket.down[i + 1]
            /\ client'.message = socket.down[1]
        <5>1. client'.message = Head(socket.down)
          BY <3>3, ClientFields DEF Receive
        <5>2. QED
          BY <2>2, <3>3, <5>1, DownPlaces
      <4>2. ASSUME NEW i \in DOMAIN socket'.down, socket'.down[i].type = "prepare"
            PROVE  \/ socket'.down[i].session = server'.session
                   \/ \E j \in DOMAIN socket'.down :
                         i < j /\ socket'.down[j] = About("stop", socket'.down[i].session)
        <5>1. i + 1 \in 1 .. n /\ i \in 1 .. (n - 1)
          BY <2>2, <4>1
        <5>2. CASE socket.down[i + 1].session = server.session
          BY <3>1, <4>1, <5>1, <5>2
        <5>3. CASE \E j \in DOMAIN socket.down :
                      i + 1 < j /\ socket.down[j] = About("stop", socket.down[i + 1].session)
          <6>1. PICK j \in 1 .. n :
                      i + 1 < j /\ socket.down[j] = About("stop", socket.down[i + 1].session)
            BY <2>2, <5>3
          <6>2. j - 1 \in DOMAIN socket'.down /\ i < j - 1 /\ (j - 1) + 1 = j
            BY <2>2, <4>1, <5>1, <6>1
          <6>3. socket'.down[j - 1] = About("stop", socket'.down[i].session)
            BY <4>1, <5>1, <6>1, <6>2
          <6>4. QED
            BY <6>2, <6>3
        <5>4. QED
          BY <2>2, <4>1, <4>2, <5>1, <5>2, <5>3
      <4>3. ASSUME client'.pc = "handle", client'.message.type = "prepare"
            PROVE  \/ client'.message.session = server'.session
                   \/ \E j \in DOMAIN socket'.down :
                         socket'.down[j] = About("stop", client'.message.session)
        <5>1. CASE socket.down[1].session = server.session
          BY <3>1, <4>1, <5>1
        <5>2. CASE \E j \in DOMAIN socket.down :
                      1 < j /\ socket.down[j] = About("stop", socket.down[1].session)
          <6>1. PICK j \in 1 .. n :
                      1 < j /\ socket.down[j] = About("stop", socket.down[1].session)
            BY <2>2, <5>2
          <6>2. j - 1 \in DOMAIN socket'.down /\ (j - 1) + 1 = j
            BY <2>2, <4>1, <6>1
          <6>3. QED
            BY <4>1, <6>1, <6>2
        <5>3. QED
          BY <2>2, <4>1, <4>3, <5>1, <5>2
      <4>4. QED
        BY <4>2, <4>3
    <3>4. ASSUME NEW m \in Commands, Says(m), socket'.down = Append(socket.down, m)
          PROVE  /\ \A i \in DOMAIN socket'.down : socket'.down[i].type = "prepare" =>
                       \/ socket'.down[i].session = server'.session
                       \/ \E j \in DOMAIN socket'.down :
                           i < j /\ socket'.down[j] = About("stop", socket'.down[i].session)
                 /\ client'.pc = "handle" /\ client'.message.type = "prepare" =>
                       \/ client'.message.session = server'.session
                       \/ \E j \in DOMAIN socket'.down :
                             socket'.down[j] = About("stop", client'.message.session)
      <4>1. m.type # "prepare" /\ ~Receive
        <5>1. m.type # "prepare"
          BY <2>6, <3>4 DEF Says, About, Trajectory
        <5>2. client' = client
          BY <2>6, <3>4 DEF Says, ServerObjects, ServerAsks, ServerRequests
        <5>3. QED
          BY <5>1, <5>2, ClientFields DEF Receive
      <4>2. /\ DOMAIN socket'.down = 1 .. (n + 1) /\ socket'.down[n + 1] = m
            /\ \A i \in 1 .. n : socket'.down[i] = socket.down[i]
        BY <2>2, <3>4, DownPlaces
      <4>3. ASSUME NEW i \in DOMAIN socket'.down, socket'.down[i].type = "prepare"
            PROVE  \/ socket'.down[i].session = server'.session
                   \/ \E j \in DOMAIN socket'.down :
                         i < j /\ socket'.down[j] = About("stop", socket'.down[i].session)
        <5>1. i \in 1 .. n
          BY <2>2, <4>1, <4>2, <4>3
        <5>2. \A j \in 1 .. n : j \in DOMAIN socket'.down
          BY <2>2, <4>2
        <5>3. QED
          BY <2>2, <3>1, <4>2, <4>3, <5>1, <5>2
      <4>4. \A j \in 1 .. n : j \in DOMAIN socket'.down
        BY <2>2, <4>2
      <4>5. client'.pc = "handle" => client.pc = "handle" /\ client'.message = client.message
        BY <2>3, <4>1
      <4>6. QED
        BY <2>2, <3>1, <4>2, <4>3, <4>4, <4>5
    <3>5. Receive => socket.down # <<>> /\ socket'.down = Tail(socket.down)
      BY DEF Receive, Typed, Sockets
    <3>6. QED
      BY <1>3, <3>2, <3>3, <3>4, <3>5, DownBy
  <2>7. QED
    BY <2>4, <2>5, <2>6
<1>4. QED
  BY <1>1, <1>2, <1>3

----------------------------------------------------------------------------
(* What is said of a session that was refused.                             *)

LEMMA TailFrom ==
    ASSUME NEW S, NEW q \in Seq(S), q # <<>>, NEW i \in DOMAIN Tail(q)
    PROVE  \E j \in DOMAIN q : Tail(q)[i] = q[j]
<1>1. /\ Tail(q) \in Seq(S) /\ Len(Tail(q)) = Len(q) - 1
      /\ \A k \in 1 .. Len(Tail(q)) : Tail(q)[k] = q[k + 1]
  BY HeadTailProperties
<1>2. DOMAIN Tail(q) = 1 .. Len(Tail(q)) /\ DOMAIN q = 1 .. Len(q) /\ Len(q) \in Nat
  BY <1>1, LenProperties
<1>3. i + 1 \in DOMAIN q /\ Tail(q)[i] = q[i + 1]
  BY <1>1, <1>2
<1>4. QED
  BY <1>3

LEMMA ConcatFrom ==
    ASSUME NEW S, NEW q \in Seq(S), NEW r \in Seq(S), NEW i \in DOMAIN (q \o r)
    PROVE  \/ \E j \in DOMAIN q : (q \o r)[i] = q[j]
           \/ \E j \in DOMAIN r : (q \o r)[i] = r[j]
<1>1. /\ q \o r \in Seq(S) /\ Len(q \o r) = Len(q) + Len(r)
      /\ \A k \in 1 .. Len(q) + Len(r) : (q \o r)[k] =
            IF k <= Len(q) THEN q[k] ELSE r[k - Len(q)]
  BY ConcatProperties
<1>2. /\ Len(q) \in Nat /\ Len(r) \in Nat /\ DOMAIN q = 1 .. Len(q) /\ DOMAIN r = 1 .. Len(r)
      /\ DOMAIN (q \o r) = 1 .. Len(q) + Len(r)
  BY <1>1, LenProperties
<1>3. CASE i <= Len(q)
  BY <1>1, <1>2, <1>3
<1>4. CASE ~(i <= Len(q))
  <2>1. i - Len(q) \in DOMAIN r /\ (q \o r)[i] = r[i - Len(q)]
    BY <1>1, <1>2, <1>4
  <2>2. QED
    BY <2>1
<1>5. QED
  BY <1>3, <1>4

LEMMA AppendFrom ==
    ASSUME NEW S, NEW q \in Seq(S), NEW m \in S, NEW i \in DOMAIN Append(q, m)
    PROVE  Append(q, m)[i] = m \/ \E j \in DOMAIN q : Append(q, m)[i] = q[j]
<1>1. /\ Append(q, m) \in Seq(S) /\ Len(Append(q, m)) = Len(q) + 1
      /\ \A k \in 1 .. Len(q) : Append(q, m)[k] = q[k]
      /\ Append(q, m)[Len(q) + 1] = m
  BY AppendProperties
<1>2. /\ DOMAIN q = 1 .. Len(q) /\ Len(q) \in Nat
      /\ DOMAIN Append(q, m) = 1 .. (Len(q) + 1)
  BY <1>1, LenProperties
<1>3. QED
  BY <1>1, <1>2

LEMMA PrefixFrom ==
    ASSUME NEW S, NEW q \in Seq(S), NEW n \in 0 .. Len(q), NEW i \in DOMAIN SubSeq(q, 1, n)
    PROVE  \E j \in DOMAIN q : SubSeq(q, 1, n)[i] = q[j]
<1>1. Len(q) \in Nat /\ DOMAIN q = 1 .. Len(q) /\ \A k \in 1 .. Len(q) : q[k] \in S
  BY LenProperties
<1>2. n \in Int /\ 1 \in Int /\ \A k \in 1 .. n : q[k] \in S
  BY <1>1
<1>3. /\ SubSeq(q, 1, n) \in Seq(S)
      /\ Len(SubSeq(q, 1, n)) = IF 1 <= n THEN n - 1 + 1 ELSE 0
      /\ \A k \in 1 .. n - 1 + 1 : SubSeq(q, 1, n)[k] = q[1 + k - 1]
  BY <1>2, SubSeqProperties
<1>4. DOMAIN SubSeq(q, 1, n) = 1 .. Len(SubSeq(q, 1, n))
  BY <1>3, LenProperties
<1>5. i \in 1 .. n /\ i \in DOMAIN q
  BY <1>1, <1>3, <1>4
<1>6. SubSeq(q, 1, n)[i] = q[i]
  BY <1>3, <1>5
<1>7. QED
  BY <1>5, <1>6

LEMMA OneAndTwo ==
    /\ \A m : DOMAIN <<m>> = {1} /\ <<m>>[1] = m
    /\ \A m, n : DOMAIN <<m, n>> = {1, 2} /\ <<m, n>>[1] = m /\ <<m, n>>[2] = n
OBVIOUS

\* What goes out was posted, or was in hand when send() raised.
LEMMA InHandFrom ==
    ASSUME Typed, InHand # <<>>, NEW m, m = Head(InHand) \/ \E i \in DOMAIN Tail(InHand) : m = Tail(InHand)[i]
    PROVE  \/ client.pending # None /\ m = client.pending
           \/ \E j \in DOMAIN outbox : m = outbox[j]
<1>1. /\ outbox \in Seq(Messages)
      /\ client.pending # None => <<client.pending>> \in Seq(Messages)
  BY ClientFields, PairOfMessages DEF Typed
<1>2. InHand \in Seq(Messages)
  BY InHandTyped
<1>3. PICK k \in DOMAIN InHand : m = InHand[k]
  <2>1. CASE m = Head(InHand)
    <3>1. 1 \in DOMAIN InHand /\ Head(InHand) = InHand[1]
      BY <1>2, EmptySeq, LenProperties
    <3>2. QED
      BY <2>1, <3>1
  <2>2. QED
    BY <1>2, <2>1, TailFrom
<1>4. CASE client.pending = None
  BY <1>3, <1>4 DEF InHand
<1>5. CASE client.pending # None
  <2>1. InHand = <<client.pending>> \o outbox
    BY <1>5 DEF InHand
  <2>2. \/ \E j \in DOMAIN <<client.pending>> : m = <<client.pending>>[j]
        \/ \E j \in DOMAIN outbox : m = outbox[j]
    BY <1>1, <1>3, <1>5, <2>1, ConcatFrom
  <2>3. QED
    BY <1>5, <2>2, OneAndTwo
<1>6. QED
  BY <1>4, <1>5

OfTheRun(m) == m.type \in {"ready", "execution_result"} \/ m.session = robot.lease

\* A message that is built is of the run.
LEMMA UnpostedFrom ==
    ASSUME Typed, Next, NEW m, m \in Unposted'
    PROVE  m \in Unposted \/ OfTheRun(m)
<1>1. \A q : m \in Elements(q) <=> \E i \in DOMAIN q : m = q[i]
  BY DEF Elements
<1>2. /\ m \in Unposted <=> \/ m \in Elements(robot.notice)
                            \/ \E id \in Ids : m \in Elements(robot.reports[id])
      /\ m \in Unposted' <=> \/ m \in Elements(robot'.notice)
                             \/ \E id \in Ids : m \in Elements(robot'.reports[id])
  BY DEF Unposted, Elements
<1>3. CASE robot'.notice = robot.notice /\ robot'.reports = robot.reports
  BY <1>2, <1>3
<1>4. ASSUME NEW q, m \in Elements(<<q>>) PROVE m = q
  BY <1>1, <1>4, OneAndTwo
<1>5. m \notin Elements(<<>>)
  BY <1>1
<1>6. CASE ExpireRun
  <2>1. /\ robot'.reports = robot.reports
        /\ robot'.notice \in {<<>>, <<About("safety_abort", robot.lease)>>}
    BY <1>6, RobotFields DEF ExpireRun
  <2>2. OfTheRun(About("safety_abort", robot.lease))
    BY DEF OfTheRun, About
  <2>3. QED
    BY <1>2, <1>4, <1>5, <2>1, <2>2
<1>7. CASE ExpireHolds \/ ExpireReports
  <2>1. robot'.reports = robot.reports /\ robot'.notice \in {robot.notice, <<>>}
    BY <1>7, RobotFields DEF ExpireHolds, ExpireReports, Holding
  <2>2. QED
    BY <1>2, <1>5, <2>1
<1>8. ASSUME NEW id \in Ids, Reports(id) PROVE m \in Unposted
  <2>1. /\ robot'.notice = robot.notice
        /\ robot'.reports = [robot.reports EXCEPT ![id] = Tail(robot.reports[id])]
        /\ robot.reports[id] # <<>> /\ robot.reports \in [Ids -> Seq(Messages)]
    BY <1>8, RobotFields DEF Reports
  <2>2. ASSUME m \in Elements(Tail(robot.reports[id])) PROVE m \in Elements(robot.reports[id])
    <3>1. PICK i \in DOMAIN Tail(robot.reports[id]) : m = Tail(robot.reports[id])[i]
      BY <1>1, <2>2
    <3>2. \E j \in DOMAIN robot.reports[id] : Tail(robot.reports[id])[i] = robot.reports[id][j]
      BY <2>1, TailFrom
    <3>3. QED
      BY <1>1, <3>1, <3>2
  <2>3. ASSUME NEW k \in Ids, m \in Elements(robot'.reports[k])
        PROVE  m \in Elements(robot.reports[k])
    <3>1. CASE k = id
      BY <2>1, <2>2, <2>3, <3>1
    <3>2. CASE k # id
      BY <2>1, <2>3, <3>2
    <3>3. QED
      BY <3>1, <3>2
  <2>4. QED
    BY <1>2, <2>1, <2>3
<1>9. CASE Completes \/ Fails
  <2>1. PICK ms \in Seq(Messages) :
           /\ \A i \in DOMAIN ms : ms[i].session = robot.lease
           /\ \/ robot' = SettledWith(ms)
              \/ robot' = [SettledWith(ms) EXCEPT !.mode = "FAULT", !.ok = FALSE,
                                                  !.authorized = FALSE]
    BY <1>9, Endings
  <2> DEFINE p == robot.pending
             r == SettledWith(ms)
  <2>2. /\ r \in Robots /\ r.notice = robot.notice
        /\ r.reports = [robot.reports EXCEPT ![p] = robot.reports[p] \o ms]
        /\ p \in Ids /\ robot.reports \in [Ids -> Seq(Messages)]
    BY <1>9, Endings, SettledWithBy, RobotFields
  <2>3. robot'.notice = r.notice /\ robot'.reports = r.reports
    <3> HIDE DEF r
    <3>1. robot' = r \/ robot' = [r EXCEPT !.mode = "FAULT", !.ok = FALSE, !.authorized = FALSE]
      BY <2>1 DEF r
    <3>2. QED
      BY <2>2, <3>1 DEF Robots
  <2> HIDE DEF r, p
  <2>4. ASSUME m \in Elements(robot.reports[p] \o ms)
        PROVE  m \in Elements(robot.reports[p]) \/ OfTheRun(m)
    <3>1. PICK i \in DOMAIN (robot.reports[p] \o ms) : m = (robot.reports[p] \o ms)[i]
      BY <1>1, <2>4
    <3>2. \/ \E j \in DOMAIN robot.reports[p] : m = robot.reports[p][j]
          \/ \E j \in DOMAIN ms : m = ms[j]
      BY <2>2, <3>1, ConcatFrom
    <3>3. QED
      BY <1>1, <2>1, <3>2 DEF OfTheRun
  <2>5. ASSUME NEW k \in Ids, m \in Elements(robot'.reports[k])
        PROVE  m \in Elements(robot.reports[k]) \/ OfTheRun(m)
    <3>1. CASE k = p
      BY <2>2, <2>3, <2>4, <2>5, <3>1
    <3>2. CASE k # p
      BY <2>2, <2>3, <2>5, <3>2
    <3>3. QED
      BY <3>1, <3>2
  <2>6. QED
    BY <1>2, <2>2, <2>3, <2>5
<1>10. CASE Authorize \/ Withdraw \/ DeadlinePasses \/ LinkLost
  BY <1>10, <1>3, RobotFields DEF Authorize, Withdraw, DeadlinePasses, LinkLost, Holding
<1>11. CASE Refused \/ ConnectionChanged
  BY <1>11, <1>3, RobotFields DEF Refused, ConnectionChanged, Disconnected, Holding
<1>12. CASE Announce \/ TransportPaused
  BY <1>12, <1>3, RobotFields DEF Announce, TransportPaused
<1>13. CASE PrepareSession
  BY <1>13, <1>3, PreparedRobot
<1>14. CASE JointTrajectory \/ TrajectoryUnchecked
  BY <1>14, <1>3, RobotFields DEF JointTrajectory, TrajectoryUnchecked
<1>15. CASE StopSession
  <2>1. \/ UNCHANGED robot
        \/ \E d \in {robot.deadline, "none"} :
              robot' = [Holding(robot) EXCEPT !.deadline = d]
        \/ robot' = [robot EXCEPT !.lease = None, !.authorized = FALSE, !.deadline = "none"]
        \/ robot' = [robot EXCEPT !.deadline = "passed"]
    BY <1>15 DEF StopSession
  <2>2. QED
    BY <1>3, <2>1, RobotFields DEF Holding
<1>16. CASE UNCHANGED robot
  BY <1>16, <1>3
<1>17. QED
  BY <1>6, <1>7, <1>8, <1>9, <1>10, <1>11, <1>12, <1>13, <1>14, <1>15, <1>16
  DEF Next, ClientStep, ConnectFails, Connect, Register, Drop, Resume, Send, Receive,
      FindsClosed, ExecutionRequest, NotConnected, Replies, Except, SendRaises,
      GraceElapses, ExecutionEnds, OperatorStep, ExpiryStep, ServerStep, ServerReads,
      ServerPrepares, ServerAsks, ServerRequests, ServerEnds, ServerForgets, ServerObjects,
      Break

\* What was built stays when the outbox is emptied.
LEMMA OvertakenBy ==
    ASSUME Typed, Next
    PROVE  /\ client.overtaken \subseteq client'.overtaken
           /\ Drop => Overtaken \subseteq client'.overtaken /\ robot' = robot /\ server' = server
<1>1. CASE Drop
  <2>1. client'.overtaken = client.overtaken \cup Overtaken
    BY <1>1, ClientFields DEF Drop
  <2>2. QED
    BY <1>1, <2>1 DEF Drop
<1>2. CASE ~Drop
  <2>1. CASE ConnectFails \/ Connect \/ Register \/ Refused \/ Resume \/ Announce
             \/ FindsClosed \/ TransportPaused \/ ConnectionChanged \/ Except \/ Replies
    BY <1>2, <2>1, ClientFields
    DEF ConnectFails, Connect, Register, Refused, Resume, Announce,
        FindsClosed, TransportPaused, ConnectionChanged, Except, Replies, Goto
  <2>2. CASE Send \/ Receive \/ SendRaises
    BY <1>2, <2>2, ClientFields DEF Send, Receive, SendRaises
  <2>3. CASE StopSession \/ NotConnected \/ ExecutionRequest \/ PrepareSession
             \/ TrajectoryUnchecked
    BY <1>2, <2>3, ClientFields
    DEF StopSession, NotConnected, ExecutionRequest, PrepareSession, TrajectoryUnchecked, Served
  <2>4. CASE JointTrajectory
    <3>1. client' = Served("serve") \/ \E status : client' = Reply(status)
      BY <2>4 DEF JointTrajectory
    <3>2. QED
      BY <1>2, <3>1, ClientFields DEF Served, Reply
  <2>5. CASE GraceElapses \/ \E s \in Sessions : ExecutionEnds(s)
    BY <1>2, <2>5, ClientFields DEF GraceElapses, ExecutionEnds
  <2>6. CASE UNCHANGED client
    BY <1>2, <2>6
  <2>7. QED
    BY <1>2, <2>1, <2>2, <2>3, <2>4, <2>5, <2>6
    DEF Next, ClientStep, OperatorStep, Authorize, Withdraw, DeadlinePasses, ExpiryStep,
        ExpireRun, ExpireHolds, ExpireReports, LinkLost, Completes, Fails, Reports,
        ServerStep, ServerReads, ServerPrepares, ServerAsks, ServerRequests, ServerEnds,
        ServerForgets, ServerObjects, Break
<1>3. QED
  BY <1>1, <1>2

\* A message in the outbox was there, was in hand, is a reply, had been built, or is of
\* the run.
LEMMA OutboxFrom ==
    ASSUME Typed, Next, NEW i \in DOMAIN outbox'
    PROVE  \/ \E j \in DOMAIN outbox : outbox'[i] = outbox[j]
           \/ client.pending # None /\ outbox'[i] = client.pending
           \/ \E j \in DOMAIN client.replies : outbox'[i] = client.replies[j]
           \/ outbox'[i] \in Unposted \/ OfTheRun(outbox'[i])
<1>1. outbox \in Seq(Messages) /\ client.replies \in Seq(Messages)
  BY ClientFields DEF Typed
<1>2. ASSUME NEW r \in Seq(Messages), Post(r)
      PROVE  \/ \E j \in DOMAIN outbox : outbox'[i] = outbox[j]
             \/ \E j \in DOMAIN r : outbox'[i] = r[j]
  <2>1. outbox' = outbox \o r
    BY <1>2 DEF Post
  <2>2. i \in DOMAIN (outbox \o r)
    BY <2>1
  <2>3. \/ \E j \in DOMAIN outbox : (outbox \o r)[i] = outbox[j]
        \/ \E j \in DOMAIN r : (outbox \o r)[i] = r[j]
    BY <1>1, <2>2, ConcatFrom
  <2>4. QED
    BY <2>1, <2>3
<1>3. ASSUME NEW m \in Messages, Post(<<m>>), OfTheRun(m)
      PROVE  OfTheRun(outbox'[i]) \/ \E j \in DOMAIN outbox : outbox'[i] = outbox[j]
  <2>1. <<m>> \in Seq(Messages)
    BY PairOfMessages
  <2>2. \/ \E j \in DOMAIN outbox : outbox'[i] = outbox[j]
        \/ \E j \in DOMAIN <<m>> : outbox'[i] = <<m>>[j]
    BY <1>2, <1>3, <2>1
  <2>3. CASE \E j \in DOMAIN <<m>> : outbox'[i] = <<m>>[j]
    <3>1. outbox'[i] = m
      BY <2>3, OneAndTwo
    <3>2. QED
      BY <1>3, <3>1
  <2>4. QED
    BY <2>2, <2>3
<1>4. ASSUME Post(<<>>) PROVE \E j \in DOMAIN outbox : outbox'[i] = outbox[j]
  <2>1. outbox' = outbox
    BY <1>1, <1>4, ConcatEmptySeq DEF Post
  <2>2. QED
    BY <2>1
<1>5. robot.lease \in Sessions \cup {None} /\ (robot.pending # None => robot.pending \in Ids)
  BY RobotFields
<1>6. /\ Ready \in Messages /\ OfTheRun(Ready)
      /\ About("safety_abort", robot.lease) \in Messages
      /\ OfTheRun(About("safety_abort", robot.lease))
  BY <1>5, SomeMessages DEF OfTheRun, Ready, About
<1>7. ASSUME NEW id \in Ids, NEW status \in {"accepted", "rejected", "settled"}
      PROVE  /\ Result(id, robot.lease, status) \in Messages
             /\ OfTheRun(Result(id, robot.lease, status))
  BY <1>5, SomeMessages DEF OfTheRun, Result
<1>8. CASE OperatorStep
  <2>1. CASE Authorize
    BY <1>3, <1>6, <2>1 DEF Authorize
  <2>2. CASE ExpireReports
    <3>1. robot.notice \in Seq(Messages) /\ Post(robot.notice)
      BY <2>2, RobotFields DEF ExpireReports
    <3>2. \A j \in DOMAIN robot.notice : robot.notice[j] \in Unposted
      BY DEF Unposted, Elements
    <3>3. QED
      BY <1>2, <3>1, <3>2
  <2>3. ASSUME NEW id \in Ids, Reports(id)
        PROVE  outbox'[i] \in Unposted \/ \E j \in DOMAIN outbox : outbox'[i] = outbox[j]
    <3> DEFINE q == robot.reports[id]
               h == Head(q)
    <3>1. q \in Seq(Messages) /\ q # <<>> /\ Post(<<h>>)
      BY <2>3, RobotFields DEF Reports
    <3>2. h \in Messages /\ 1 \in DOMAIN q /\ h = q[1]
      BY <3>1, HeadTailProperties, EmptySeq, LenProperties
    <3>3. h \in Unposted
      BY <3>2 DEF Unposted, Elements
    <3> HIDE DEF h
    <3>4. <<h>> \in Seq(Messages)
      BY <3>2, PairOfMessages
    <3>5. \/ \E j \in DOMAIN outbox : outbox'[i] = outbox[j]
          \/ \E j \in DOMAIN <<h>> : outbox'[i] = <<h>>[j]
      BY <1>2, <3>1, <3>4
    <3>6. QED
      BY <3>3, <3>5, OneAndTwo
  <2>4. QED
    BY <1>8, <2>1, <2>2, <2>3
    DEF OperatorStep, Withdraw, DeadlinePasses, ExpiryStep, ExpireRun, ExpireHolds, LinkLost,
        Completes, Fails
<1>9. CASE ClientStep
  <2>1. CASE Drop
    BY <2>1 DEF Drop
  <2>2. CASE Send
    BY <2>2, InHandFrom DEF Send
  <2>3. CASE Announce
    BY <1>3, <1>4, <1>6, <2>3 DEF Announce
  <2>4. CASE JointTrajectory
    <3>1. CASE Post(<<Result(client.message.id, robot.lease, "accepted")>>)
      <4>1. client.message.id \in Ids
        BY <2>4, CommandFields DEF JointTrajectory, Handles, Typed
      <4>2. QED
        BY <1>3, <1>7, <3>1, <4>1
    <3>2. QED
      BY <2>4, <3>1 DEF JointTrajectory
  <2>5. CASE Replies
    BY <1>1, <1>2, <2>5 DEF Replies
  <2>6. QED
    BY <1>9, <2>1, <2>2, <2>3, <2>4, <2>5
    DEF ClientStep, ConnectFails, Connect, Register, Refused, Resume, Receive, StopSession,
        FindsClosed, PrepareSession, TrajectoryUnchecked, ExecutionRequest,
        NotConnected, Except, TransportPaused, ConnectionChanged
<1>10. CASE SendRaises
  BY <1>10, InHandFrom DEF SendRaises
<1>11. CASE \E s \in Sessions : ExecutionEnds(s)
  <2>1. PICK s \in Sessions : Post(<<About("execution_result", s)>>)
    BY <1>11 DEF ExecutionEnds
  <2>2. About("execution_result", s) \in Messages /\ OfTheRun(About("execution_result", s))
    BY SomeMessages DEF OfTheRun, About
  <2>3. QED
    BY <1>3, <2>1, <2>2
<1>12. CASE ServerStep
  BY <1>12
  DEF ServerStep, ServerReads, ServerPrepares, ServerAsks, ServerRequests, ServerEnds,
      ServerForgets, ServerObjects
<1>13. QED
  BY <1>8, <1>9, <1>10, <1>11, <1>12 DEF Next, GraceElapses, Break

\* A reply is of the run, or of the session that is prepared.
LEMMA RepliesFrom ==
    ASSUME Typed, Next, NEW i \in DOMAIN client'.replies
    PROVE  \/ client' = client \/ client'.replies = client.replies
           \/ client'.replies[i].session = robot.lease
           \/ PrepareSession /\ client'.replies[i].session = client.message.session
<1>1. CASE PrepareSession
  <2>1. \/ client' = [Served("reply") EXCEPT
                         !.replies = <<About("observation", client.message.session)>>]
        \/ client' = Served("serve") \/ client' = Served("except")
    BY <1>1 DEF PrepareSession
  <2>2. CASE client' = Served("serve") \/ client' = Served("except")
    BY <2>2, ClientFields DEF Served
  <2>3. CASE client' = [Served("reply") EXCEPT
                           !.replies = <<About("observation", client.message.session)>>]
    <3>1. client'.replies = <<About("observation", client.message.session)>>
      BY <2>3, ClientFields DEF Served
    <3>2. i = 1 /\ client'.replies[1] = About("observation", client.message.session)
      BY <3>1, OneAndTwo
    <3>3. QED
      BY <1>1, <3>2 DEF About
  <2>4. QED
    BY <2>1, <2>2, <2>3
<1>2. CASE JointTrajectory
  <2>1. client' = Served("serve") \/ \E status : client' = Reply(status)
    BY <1>2 DEF JointTrajectory
  <2>2. CASE client' = Served("serve")
    BY <2>2, ClientFields DEF Served
  <2>3. ASSUME NEW status, client' = Reply(status)
        PROVE  client'.replies[i].session = robot.lease
    <3>1. client'.replies = <<Result(client.message.id, robot.lease, status)>>
      BY <2>3, ClientFields DEF Reply, Served
    <3>2. QED
      BY <3>1, OneAndTwo DEF Result
  <2>4. QED
    BY <2>1, <2>2, <2>3
<1>3. CASE TrajectoryUnchecked
  <2>1. CASE client' = Served("except")
    BY <2>1, ClientFields DEF Served
  <2>2. CASE client' # Served("except")
    <3>1. client'.replies = <<Result(client.message.id, robot.lease, "rejected"),
                              About("safety_abort", robot.lease)>>
      BY <1>3, <2>2, ClientFields DEF TrajectoryUnchecked, Served
    <3>2. QED
      BY <3>1, OneAndTwo DEF Result, About
  <2>3. QED
    BY <2>1, <2>2
<1>4. CASE Replies
  BY <1>4, ClientFields DEF Replies
<1>5. CASE ConnectFails \/ Connect \/ Register \/ Refused \/ Drop \/ Resume \/ Announce
           \/ FindsClosed \/ TransportPaused \/ ConnectionChanged \/ Except
  BY <1>5, ClientFields
  DEF ConnectFails, Connect, Register, Refused, Drop, Resume, Announce,
      FindsClosed, TransportPaused, ConnectionChanged, Except, Goto
<1>6. CASE Send \/ Receive \/ SendRaises
  BY <1>6, ClientFields DEF Send, Receive, SendRaises
<1>7. CASE StopSession \/ NotConnected \/ ExecutionRequest
  BY <1>7, ClientFields DEF StopSession, NotConnected, ExecutionRequest, Served
<1>8. CASE GraceElapses \/ \E s \in Sessions : ExecutionEnds(s)
  BY <1>8, ClientFields DEF GraceElapses, ExecutionEnds
<1>9. QED
  BY <1>1, <1>2, <1>3, <1>4, <1>5, <1>6, <1>7, <1>8
  DEF Next, ClientStep, OperatorStep, Authorize, Withdraw, DeadlinePasses, ExpiryStep, ExpireRun, ExpireHolds,
      ExpireReports, LinkLost, Completes, Fails, Reports,
      ServerStep, ServerReads, ServerPrepares, ServerAsks, ServerRequests, ServerEnds,
      ServerForgets, ServerObjects, Break

LEMMA PendingBy ==
    ASSUME Typed, Next
    PROVE  /\ \/ client'.pending \in {client.pending, None}
              \/ InHand # <<>> /\ client'.pending = Head(InHand)
           /\ Drop => /\ client'.pending = None /\ client'.replies = client.replies
                      /\ outbox' = <<>>
           /\ client.pc = "refused" => client'.pc \in {"refused", "drop"} \/ Refused
           /\ client.pc = "drop" => client'.pc = "drop" \/ Drop
<1>1. CASE UNCHANGED client
  BY <1>1, ClientFields DEF Drop
<1>2. CASE SendRaises
  BY <1>2, ClientFields DEF SendRaises, Drop
<1>3. CASE ConnectFails \/ Connect \/ Register \/ Refused \/ Drop \/ Resume \/ Announce
           \/ FindsClosed \/ TransportPaused \/ ConnectionChanged \/ Except \/ Replies
  BY <1>3, ClientFields
  DEF ConnectFails, Connect, Register, Refused, Drop, Resume, Announce,
      FindsClosed, TransportPaused, ConnectionChanged, Except, Replies, Goto
<1>4. CASE Send \/ Receive
  BY <1>4, ClientFields DEF Send, Receive, Drop
<1>5. CASE StopSession \/ NotConnected \/ ExecutionRequest \/ PrepareSession
           \/ TrajectoryUnchecked
  BY <1>5, ClientFields
  DEF StopSession, NotConnected, ExecutionRequest, PrepareSession, TrajectoryUnchecked,
      Served, Reply, Handles, Drop
<1>6. CASE JointTrajectory
  <2>1. client' = Served("serve") \/ \E status : client' = Reply(status)
    BY <1>6 DEF JointTrajectory
  <2>2. client.pc = "handle"
    BY <1>6 DEF JointTrajectory, Handles
  <2>3. QED
    BY <2>1, <2>2, ClientFields DEF Served, Reply, Drop
<1>7. CASE GraceElapses \/ \E s \in Sessions : ExecutionEnds(s)
  BY <1>7, ClientFields DEF GraceElapses, ExecutionEnds, Drop
<1>8. QED
  BY <1>1, <1>2, <1>3, <1>4, <1>5, <1>6, <1>7
  DEF Next, ClientStep, OperatorStep, Authorize, Withdraw, DeadlinePasses, ExpiryStep, ExpireRun, ExpireHolds,
      ExpireReports, LinkLost, Completes, Fails, Reports,
      ServerStep, ServerReads, ServerPrepares, ServerAsks, ServerRequests, ServerEnds,
      ServerForgets, ServerObjects, Break

\* A new offer is of a new session.
LEMMA NewIsNotRefused ==
    ASSUME Typed, Born, RefusedIsOver, NEW m, Says(m)
    PROVE  NotOfRefused(m)
<1>1. server.begun + 1 \notin server.refused
  BY ServerFields DEF Born
<1>2. QED
  BY <1>1 DEF Says, NotOfRefused, About, Trajectory

LEMMA RefusedRobot ==
    ASSUME Typed, Refused
    PROVE  robot'.lease = None /\ (robot'.link => client'.pc = "drop")
BY RobotFields, ClientFields DEF Refused, Disconnected, Holding, HoldRaises, Goto

LEMMA NextRefusedIsOver ==
    ASSUME Typed, Born, Quiet, RefusedIsOver, Next
    PROVE  RefusedIsOver'
<1>1. None \notin server'.refused
  BY ServerBy DEF RefusedIsOver
<1>2. server'.refused = server.refused \/ (Register /\ client'.pc = "refused")
  BY ServerBy
<1>3. ASSUME NEW m, Discreet(m), server'.refused = server.refused PROVE Discreet(m)'
  BY <1>3, OvertakenBy DEF Discreet, OfARefusedRun
<1>4. ASSUME NEW i \in DOMAIN socket'.down PROVE NotOfRefused(socket.down[i])'
  <2>1. CASE Register
    BY <1>4, <2>1 DEF Register, Quiet
  <2>2. CASE server'.refused = server.refused
    BY <2>2, DownFrom, NewIsNotRefused DEF RefusedIsOver, NotOfRefused
  <2>3. QED
    BY <1>2, <2>1, <2>2
<1>5. ASSUME client'.pc = "handle" PROVE NotOfRefused(client.message)'
  <2>1. server'.refused = server.refused
    BY <1>2, <1>5
  <2>2. QED
    BY <1>5, <2>1, HandFrom DEF RefusedIsOver, NotOfRefused
<1>6. ASSUME robot'.link, client'.pc # "refused" PROVE robot'.lease \notin server'.refused
  <2>1. server'.refused = server.refused /\ robot.link
    BY <1>2, <1>6, RobotBy
  <2>2. CASE Refused
    BY <1>1, <2>2, RefusedRobot
  <2>3. CASE ~Refused
    <3>1. client.pc # "refused" \/ client'.pc = "drop"
      BY <1>6, <2>3, PendingBy
    <3>2. client.pc # "refused"
      BY <2>3, <3>1, PlaceBy
    <3>3. robot.lease \notin server.refused
      BY <2>1, <3>2 DEF RefusedIsOver
    <3>4. PrepareSession => client.message.session \notin server.refused
      BY DEF PrepareSession, Handles, RefusedIsOver, NotOfRefused
    <3>5. QED
      BY <1>1, <2>1, <3>3, <3>4, RobotBy
  <2>4. QED
    BY <2>2, <2>3
<1>7. ASSUME robot'.link, client'.pc \notin {"refused", "drop"}
      PROVE  /\ \A i \in DOMAIN outbox' : Discreet(outbox[i])'
             /\ \A i \in DOMAIN client'.replies : Discreet(client.replies[i])'
             /\ client'.pending # None => Discreet(client.pending)'
             /\ \A m \in Unposted' : Discreet(m)'
  <2>1. server'.refused = server.refused /\ robot.link
    BY <1>2, <1>7, RobotBy
  <2>2. CASE Drop
    <3>1. client.replies = <<>>
      BY <2>2 DEF Drop, Typed
    <3>2. outbox' = <<>> /\ client'.replies = <<>> /\ client'.pending = None
      BY <2>2, <3>1, PendingBy
    <3>3. ASSUME NEW m, m \in Unposted' PROVE Discreet(m)'
      <4>1. m \in Unposted /\ (OfARefusedRun(m)' => OfARefusedRun(m))
        BY <2>2, <3>3, OvertakenBy DEF Unposted, OfARefusedRun
      <4>2. QED
        BY <2>2, <4>1, OvertakenBy DEF Discreet, Overtaken
    <3>4. QED
      BY <3>2, <3>3
  <2>3. CASE ~Drop
    <3>1. client.pc \notin {"refused", "drop"}
      BY <1>7, <2>1, <2>3, PendingBy, RefusedRobot
    <3>2. /\ \A i \in DOMAIN outbox : Discreet(outbox[i])
          /\ \A i \in DOMAIN client.replies : Discreet(client.replies[i])
          /\ client.pending # None => Discreet(client.pending)
          /\ \A m \in Unposted : Discreet(m)
          /\ robot.lease \notin server.refused
      BY <2>1, <3>1 DEF RefusedIsOver
    <3>3. ASSUME NEW i \in DOMAIN outbox' PROVE Discreet(outbox[i])'
      <4>1. PICK m : m = outbox'[i]
        OBVIOUS
      <4>2. OfTheRun(m) => Discreet(m)
        BY <3>2 DEF OfTheRun, Discreet, OfARefusedRun
      <4>3. Discreet(m)
        BY <3>2, <3>3, <4>1, <4>2, OutboxFrom
      <4>4. QED
        BY <1>3, <2>1, <4>1, <4>3 DEF Discreet, OfARefusedRun
    <3>4. ASSUME NEW i \in DOMAIN client'.replies PROVE Discreet(client.replies[i])'
      <4>1. PrepareSession => client.message.session \notin server.refused
        BY DEF PrepareSession, Handles, RefusedIsOver, NotOfRefused
      <4>2. CASE client'.replies = client.replies
        BY <1>3, <2>1, <3>2, <3>4, <4>2 DEF Discreet, OfARefusedRun
      <4>3. CASE client'.replies[i].session \notin server.refused
        BY <2>1, <4>3 DEF Discreet, OfARefusedRun
      <4>4. QED
        BY <3>2, <3>4, <4>1, <4>2, <4>3, RepliesFrom
    <3>5. ASSUME client'.pending # None PROVE Discreet(client.pending)'
      <4>1. PICK m : m = client'.pending
        OBVIOUS
      <4>2. CASE client'.pending = client.pending
        BY <1>3, <2>1, <3>2, <3>5, <4>2 DEF Discreet, OfARefusedRun
      <4>3. CASE InHand # <<>> /\ client'.pending = Head(InHand)
        <5>1. Discreet(m)
          BY <3>2, <4>1, <4>3, InHandFrom
        <5>2. QED
          BY <1>3, <2>1, <4>1, <5>1 DEF Discreet, OfARefusedRun
      <4>4. QED
        BY <3>5, <4>2, <4>3, PendingBy
    <3>6. ASSUME NEW m, m \in Unposted' PROVE Discreet(m)'
      <4>1. OfTheRun(m) => Discreet(m)
        BY <3>2 DEF OfTheRun, Discreet, OfARefusedRun
      <4>2. QED
        BY <1>3, <2>1, <3>2, <3>6, <4>1, UnpostedFrom
    <3>7. QED
      BY <3>3, <3>4, <3>5, <3>6
  <2>4. QED
    BY <2>2, <2>3
<1>8. ASSUME robot'.link, NEW i \in DOMAIN socket'.up PROVE Discreet(socket.up[i])'
  <2>1. robot.link /\ socket.up \in Seq(Messages)
    BY <1>8, RobotBy, SocketFields
  <2>2. CASE Register
    BY <1>8, <2>2 DEF Register, Quiet
  <2>3. CASE server'.refused = server.refused
    <3>1. ASSUME \E j \in DOMAIN socket.up : socket'.up[i] = socket.up[j]
          PROVE  Discreet(socket.up[i])'
      BY <1>3, <2>1, <2>3, <3>1 DEF RefusedIsOver, Discreet, OfARefusedRun
    <3>2. CASE socket'.up = socket.up
      BY <1>8, <3>1, <3>2
    <3>3. CASE socket'.up = <<>>
      BY <1>8, <3>3
    <3>4. CASE socket.up # <<>> /\ socket'.up = Tail(socket.up)
      BY <1>8, <2>1, <3>1, <3>4, TailFrom
    <3>5. ASSUME NEW n \in 0 .. Len(socket.up), socket'.up = SubSeq(socket.up, 1, n)
          PROVE  Discreet(socket.up[i])'
      <4>1. \E j \in DOMAIN socket.up : SubSeq(socket.up, 1, n)[i] = socket.up[j]
        BY <1>8, <2>1, <3>5, PrefixFrom
      <4>2. QED
        BY <3>1, <3>5, <4>1
    <3>6. CASE /\ client.pc = "serve" /\ InHand # <<>>
               /\ socket'.up = Append(socket.up, Head(InHand))
      <4>1. PICK m : m = Head(InHand)
        OBVIOUS
      <4>2. m \in Messages /\ Discreet(m)
        <5>1. m \in Messages
          BY <3>6, <4>1, InHandTyped
        <5>2. \/ client.pending # None /\ m = client.pending
              \/ \E j \in DOMAIN outbox : m = outbox[j]
          BY <3>6, <4>1, InHandFrom
        <5>3. QED
          BY <2>1, <3>6, <5>1, <5>2 DEF RefusedIsOver
      <4>3. i \in DOMAIN Append(socket.up, m) /\ socket'.up = Append(socket.up, m)
        BY <1>8, <3>6, <4>1
      <4>4. Append(socket.up, m)[i] = m
            \/ \E j \in DOMAIN socket.up : Append(socket.up, m)[i] = socket.up[j]
        BY <2>1, <4>2, <4>3, AppendFrom
      <4>5. QED
        BY <1>3, <2>3, <3>1, <4>2, <4>3, <4>4 DEF Discreet, OfARefusedRun
    <3>7. QED
      BY <3>2, <3>3, <3>4, <3>5, <3>6, UpBy
  <2>4. QED
    BY <1>2, <2>2, <2>3
<1>9. QED
  BY <1>1, <1>4, <1>5, <1>6, <1>7, <1>8 DEF RefusedIsOver

----------------------------------------------------------------------------
(* Trajectories.                                                           *)

LEMMA TrajectoryHandled ==
    ASSUME Typed, JointTrajectory
    PROVE  /\ client.pc = "handle" /\ client.message.type = "trajectory"
           /\ client.message \in Commands /\ client.message.id \in Ids
           /\ client'.pc # "handle" /\ server' = server /\ socket' = socket
<1>1. /\ client.pc = "handle" /\ client.message.type = "trajectory"
      /\ server' = server /\ socket' = socket
  BY DEF JointTrajectory, Handles
<1>2. client.message \in Commands /\ client.message.id \in Ids
  BY <1>1, CommandFields DEF Typed
<1>3. client' = Served("serve") \/ \E status : client' = Reply(status)
  BY DEF JointTrajectory
<1>4. QED
  BY <1>1, <1>2, <1>3, ClientFields DEF Served, Reply

LEMMA AskedStays ==
    ASSUME Typed, Born, AskedInOrder, Next, NEW m \in Commands, OfBegun(m), Asked(m),
           JointTrajectory => Precedes(client.message, m)
    PROVE  Asked(m)'
<1> SUFFICES ASSUME m.type = "trajectory"
             PROVE  /\ m.id[1] = server'.session => m.id[2] <= server'.step + 1
                    /\ robot'.mode = "API_ACTIVE" /\ m.id[1] = robot'.lease =>
                          robot'.step <= m.id[2]
  BY DEF Asked
<1>1. /\ m.id \in Ids /\ m.id[1] \in Sessions /\ m.id[2] \in Nat /\ m.id[1] # None
      /\ m.id[1] <= server.begun
  BY CommandFields, NoneIsNoSession, BoundsPositive DEF Ids, Sessions, Steps, OfBegun
<1>2. ASSUME m.id[1] = server'.session PROVE m.id[2] <= server'.step + 1
  <2>1. server'.step \in Nat /\ server.step \in Nat /\ server.begun \in Nat
    BY NextTyped, ServerFields DEF Typed, Servers
  <2>2. server'.session # server.begun + 1
    BY <1>1, <1>2, <2>1 DEF Sessions
  <2>3. server'.session = server.session
    BY <1>1, <1>2, <2>2, ServerBy
  <2>4. server'.step >= server.step
    BY <1>1, <1>2, <2>3, ServerBy
  <2>5. m.id[2] <= server.step + 1
    BY <1>2, <2>3 DEF Asked
  <2>6. QED
    BY <1>1, <2>1, <2>4, <2>5
<1>3. ASSUME robot'.mode = "API_ACTIVE", m.id[1] = robot'.lease PROVE robot'.step <= m.id[2]
  <2>1. CASE robot'.lease = robot.lease /\ robot'.step = robot.step /\ robot.mode = "API_ACTIVE"
    BY <1>3, <2>1 DEF Asked
  <2>2. CASE robot'.step = 0
    BY <1>1, <2>2
  <2>3. CASE /\ JointTrajectory /\ Acceptable(client.message.id)
             /\ robot'.lease = robot.lease /\ robot'.step = client.message.id[2]
    BY <1>3, <2>3, TrajectoryHandled DEF Acceptable, Precedes
  <2>4. QED
    BY <1>3, <2>1, <2>2, <2>3, RobotBy
<1>4. QED
  BY <1>2, <1>3

\* What the server asks for comes after all that it asked for before.
LEMMA NewIsAsked ==
    ASSUME Typed, AskedInOrder, Next, NEW m, Says(m)
    PROVE  /\ Asked(m)'
           /\ \A n \in Commands : Asked(n) => Precedes(n, m)
           /\ ~JointTrajectory /\ client' = client
<1>1. client' = client
  BY DEF Says, ServerObjects, ServerPrepares, ServerAsks, ServerRequests, ServerEnds
<1>2. ~JointTrajectory
  BY <1>1, TrajectoryHandled
<1>3. CASE m.type # "trajectory"
  BY <1>1, <1>2, <1>3 DEF Asked, Precedes
<1>4. CASE m.type = "trajectory"
  <2>1. ServerAsks /\ m = Trajectory(<<server.session, server.step + 1>>)
    BY <1>4 DEF Says, About, Trajectory
  <2>2. server' = server /\ robot' = robot /\ server.session # None
    BY <2>1 DEF ServerAsks
  <2>3. m.id[1] = server.session /\ m.id[2] = server.step + 1
    BY <2>1 DEF Trajectory
  <2>4. server.step + 1 <= server.step + 1
    BY ServerFields
  <2>5. Asked(m)'
    BY <2>2, <2>3, <2>4 DEF Asked, AskedInOrder
  <2>6. \A n \in Commands : Asked(n) => Precedes(n, m)
    BY <2>3 DEF Asked, Precedes
  <2>7. QED
    BY <1>1, <1>2, <2>5, <2>6
<1>5. QED
  BY <1>3, <1>4

LEMMA NextDownAsked ==
    ASSUME Typed, Born, AskedInOrder, Next
    PROVE  /\ \A i \in DOMAIN socket'.down : Asked(socket.down[i])'
           /\ \A i, j \in DOMAIN socket'.down :
                 i < j => Precedes(socket.down[i], socket.down[j])'
<1>1. /\ \A i \in DOMAIN socket.down : Asked(socket.down[i]) /\ OfBegun(socket.down[i])
      /\ \A i, j \in DOMAIN socket.down : i < j => Precedes(socket.down[i], socket.down[j])
      /\ JointTrajectory => \A i \in DOMAIN socket.down : Precedes(client.message, socket.down[i])
  BY TrajectoryHandled DEF AskedInOrder, Born
<1>2. ASSUME NEW i \in DOMAIN socket'.down PROVE Asked(socket.down[i])'
  <2>1. PICK m : m = socket'.down[i]
    OBVIOUS
  <2>2. CASE \E j \in DOMAIN socket.down : m = socket.down[j]
    <3>1. m \in Commands /\ OfBegun(m) /\ Asked(m) /\ (JointTrajectory => Precedes(client.message, m))
      BY <1>1, <2>2, DownPlaces
    <3>2. Asked(m)'
      BY <3>1, AskedStays
    <3>3. QED
      BY <2>1, <3>2 DEF Asked
  <2>3. CASE Says(m)
    <3>1. Asked(m)'
      BY <2>3, NewIsAsked
    <3>2. QED
      BY <2>1, <3>1 DEF Asked
  <2>4. QED
    BY <1>2, <2>1, <2>2, <2>3, DownFrom
<1>3. ASSUME NEW i \in DOMAIN socket'.down, NEW j \in DOMAIN socket'.down, i < j
      PROVE  Precedes(socket'.down[i], socket'.down[j])
  <2> DEFINE n == Len(socket.down)
  <2>1. n \in Nat /\ DOMAIN socket.down = 1 .. n
    BY DownPlaces
  <2>2. CASE socket'.down = socket.down
    BY <1>1, <1>3, <2>2
  <2>3. CASE socket'.down = <<>>
    BY <1>3, <2>3
  <2>4. CASE socket.down # <<>> /\ socket'.down = Tail(socket.down)
    <3>1. /\ DOMAIN socket'.down = 1 .. (n - 1)
          /\ \A k \in 1 .. (n - 1) : socket'.down[k] = socket.down[k + 1]
      BY <2>1, <2>4, DownPlaces
    <3>2. i + 1 \in 1 .. n /\ j + 1 \in 1 .. n /\ i + 1 < j + 1
      BY <1>3, <2>1, <3>1
    <3>3. QED
      BY <1>1, <1>3, <2>1, <3>1, <3>2
  <2>5. ASSUME NEW m \in Commands, Says(m), socket'.down = Append(socket.down, m)
        PROVE  Precedes(socket'.down[i], socket'.down[j])
    <3>1. /\ DOMAIN socket'.down = 1 .. (n + 1) /\ socket'.down[n + 1] = m
          /\ \A k \in 1 .. n : socket'.down[k] = socket.down[k]
      BY <2>1, <2>5, DownPlaces
    <3>2. i \in 1 .. n /\ (j \in 1 .. n \/ j = n + 1)
      BY <1>3, <2>1, <3>1
    <3>3. CASE j \in 1 .. n
      BY <1>1, <1>3, <2>1, <3>1, <3>2, <3>3
    <3>4. CASE j = n + 1
      <4>1. socket.down[i] \in Commands /\ Asked(socket.down[i])
        BY <1>1, <2>1, <3>2, DownPlaces
      <4>2. Precedes(socket.down[i], m)
        BY <2>5, <4>1, NewIsAsked
      <4>3. QED
        BY <3>1, <3>2, <3>4, <4>2
    <3>5. QED
      BY <3>2, <3>3, <3>4
  <2>6. QED
    BY <2>2, <2>3, <2>4, <2>5, DownBy
<1>4. QED
  BY <1>2, <1>3 DEF Precedes

LEMMA NextHandAsked ==
    ASSUME Typed, Born, AskedInOrder, Next, client'.pc = "handle"
    PROVE  /\ Asked(client.message)'
           /\ \A i \in DOMAIN socket'.down : Precedes(client.message, socket.down[i])'
<1> DEFINE n == Len(socket.down)
<1>1. PICK m : m = client'.message
  OBVIOUS
<1>2. ~JointTrajectory
  BY TrajectoryHandled
<1>3. m \in Commands /\ OfBegun(m) /\ Asked(m)
  BY <1>1, HandFrom, DownPlaces DEF Typed, Born, AskedInOrder
<1>4. Asked(m)'
  BY <1>2, <1>3, AskedStays
<1>5. ASSUME NEW i \in DOMAIN socket'.down PROVE Precedes(m, socket'.down[i])
  <2>1. CASE Receive
    <3>1. /\ socket.down # <<>> /\ socket'.down = Tail(socket.down)
          /\ m = Head(socket.down)
      BY <1>1, <2>1, ClientFields DEF Receive, Typed, Sockets
    <3>2. /\ DOMAIN socket'.down = 1 .. (n - 1) /\ DOMAIN socket.down = 1 .. n /\ n \in Nat
          /\ socket'.down[i] = socket.down[i + 1] /\ m = socket.down[1]
          /\ 1 \in DOMAIN socket.down
      BY <1>5, <3>1, DownPlaces
    <3>3. i + 1 \in DOMAIN socket.down /\ 1 < i + 1
      BY <1>5, <3>2
    <3>4. QED
      BY <3>2, <3>3 DEF AskedInOrder
  <2>2. CASE ~Receive
    <3>1. client.pc = "handle" /\ m = client.message
      BY <1>1, <2>2, HandBy
    <3>2. CASE \E j \in DOMAIN socket.down : socket'.down[i] = socket.down[j]
      BY <3>1, <3>2 DEF AskedInOrder
    <3>3. CASE Says(socket'.down[i])
      BY <1>3, <3>3, NewIsAsked
    <3>4. QED
      BY <1>5, <3>2, <3>3, DownFrom
  <2>3. QED
    BY <2>1, <2>2
<1>6. QED
  BY <1>1, <1>4, <1>5 DEF Asked, Precedes

LEMMA NextRunAsked ==
    ASSUME Typed, Born, AskedInOrder, Next, robot'.mode = "API_ACTIVE"
    PROVE  /\ robot'.lease # None
           /\ robot'.lease = server'.session => robot'.step <= server'.step + 1
           /\ robot'.step > 0 =>
                 /\ Len(robot'.records) > 0
                 /\ robot'.records[Len(robot'.records)].id = <<robot'.lease, robot'.step>>
<1>1. /\ server'.step \in Nat /\ server.step \in Nat /\ server.begun \in Nat
      /\ robot.step \in Nat
  BY NextTyped, ServerFields, RobotFields, BoundsPositive DEF Typed, Servers
<1>2. CASE /\ robot'.lease = robot.lease /\ robot'.step = robot.step
           /\ robot.mode = "API_ACTIVE" /\ Len(robot'.records) = Len(robot.records)
           /\ \A i \in 1 .. Len(robot.records) : robot'.records[i].id = robot.records[i].id
  <2>1. /\ robot.lease # None /\ robot.lease <= server.begun /\ robot.lease \in Nat
        /\ robot.lease = server.session => robot.step <= server.step + 1
        /\ robot.step > 0 =>
              /\ Len(robot.records) > 0
              /\ robot.records[Len(robot.records)].id = <<robot.lease, robot.step>>
    <3>1. robot.lease # None /\ robot.lease <= server.begun
      BY <1>2 DEF AskedInOrder, Born
    <3>2. robot.lease \in Nat
      BY <3>1, RobotFields DEF Sessions
    <3>3. QED
      BY <1>2, <3>1, <3>2 DEF AskedInOrder
  <2>2. ASSUME robot'.lease = server'.session PROVE robot'.step <= server'.step + 1
    <3> DEFINE s == robot.lease
    <3>a. s # None /\ s \in Nat /\ s <= server.begun /\ s = server'.session
      BY <1>2, <2>1, <2>2
    <3>b. server'.session # None /\ server'.session # server.begun + 1
      BY <1>1, <3>a
    <3>1. server'.session = server.session
      BY <3>b, ServerBy
    <3>2. server'.step >= server.step
      BY <1>2, <2>1, <2>2, <3>1, ServerBy
    <3>3. QED
      BY <1>1, <1>2, <2>1, <2>2, <3>1, <3>2
  <2>3. Len(robot.records) \in Nat
    BY RobotFields, LenProperties
  <2>4. ASSUME robot'.step > 0
        PROVE  /\ Len(robot'.records) > 0
               /\ robot'.records[Len(robot'.records)].id = <<robot'.lease, robot'.step>>
    <3>1. Len(robot.records) \in 1 .. Len(robot.records)
      BY <1>2, <2>1, <2>3, <2>4
    <3>2. QED
      BY <1>2, <2>1, <2>4, <3>1
  <2>5. QED
    BY <1>2, <2>1, <2>2, <2>4
<1>3. CASE PrepareSession /\ robot'.lease = client.message.session /\ robot'.step = 0
  <2>1. client.message.session \in Sessions
    BY <1>3, CommandFields DEF PrepareSession, Handles, Typed
  <2>2. robot'.lease # None
    BY <1>3, <2>1, NoneIsNoSession DEF Sessions
  <2>3. QED
    BY <1>1, <1>3, <2>2
<1>4. CASE /\ JointTrajectory /\ Acceptable(client.message.id)
           /\ robot'.lease = robot.lease /\ robot'.step = client.message.id[2]
           /\ robot'.records = Accepted(robot.records, client.message.id)
  <2>1. PICK id : id = client.message.id
    OBVIOUS
  <2>2. id \in Ids /\ id = <<robot.lease, id[2]>> /\ robot.lease \in Sessions
    BY <1>4, <2>1, TrajectoryHandled DEF Acceptable, Ids
  <2>3. robot.lease = server.session => id[2] <= server.step + 1
    BY <1>4, <2>1, <2>2, TrajectoryHandled DEF AskedInOrder, Asked, Acceptable
  <2>4. /\ Len(robot'.records) > 0
        /\ robot'.records[Len(robot'.records)].id = id
    BY <1>4, <2>1, <2>2, AcceptedTyped, RobotFields DEF Typed
  <2>5. robot.lease # None
    BY <2>2, NoneIsNoSession DEF Sessions
  <2>6. QED
    BY <1>4, <2>1, <2>2, <2>3, <2>4, <2>5, TrajectoryHandled
<1>5. QED
  BY <1>2, <1>3, <1>4, RobotBy

\* A trajectory that is asked for and is not known has not been accepted.
LEMMA UnknownIsNew ==
    ASSUME Typed, AskedInOrder, NEW id \in Ids, robot.mode = "API_ACTIVE",
           robot.lease = id[1], robot.step <= id[2], ~Known(id)
    PROVE  robot.step < id[2]
<1> SUFFICES ASSUME robot.step = id[2] PROVE FALSE
  BY RobotFields, BoundsPositive DEF Ids, Steps
<1>1. id = <<robot.lease, robot.step>> /\ robot.step > 0
  BY DEF Ids, Steps
<1> DEFINE k == Len(robot.records)
<1>2. k > 0 /\ robot.records[k].id = id
  BY <1>1 DEF AskedInOrder
<1>3. k \in DOMAIN robot.records /\ robot.records[k] \in Records
  BY <1>2, RobotFields, LenProperties
<1>4. robot.records[k] \in Recorded(id)
  <2>1. robot.records[k] = [id |-> id, status |-> robot.records[k].status]
        /\ robot.records[k].status \in {"accepted", "settled"}
    BY <1>2, <1>3 DEF Records
  <2>2. QED
    BY <1>3, <2>1 DEF Recorded
<1>5. QED
  BY <1>4 DEF Known

LEMMA RepliesStay ==
    ASSUME Typed, Next, client.pc = "reply", client'.pc = "reply"
    PROVE  client'.replies = client.replies
<1>1. CASE UNCHANGED client
  BY <1>1
<1>2. CASE GraceElapses \/ \E s \in Sessions : ExecutionEnds(s)
  BY <1>2, ClientFields DEF GraceElapses, ExecutionEnds
<1>3. ~SendRaises /\ ~ClientStep
  <2>1. ~Replies
    BY ClientFields DEF Replies
  <2>2. QED
    BY <2>1
    DEF SendRaises, ClientStep, ConnectFails, Connect, Register, Refused, Drop, Resume, Announce,
        Send, Receive, FindsClosed, PrepareSession, JointTrajectory, TrajectoryUnchecked,
        ExecutionRequest, StopSession, NotConnected, Except, TransportPaused,
        ConnectionChanged, Handles
<1>4. QED
  BY <1>1, <1>2, <1>3
  DEF Next, OperatorStep, Authorize, Withdraw, DeadlinePasses, ExpiryStep, ExpireRun, ExpireHolds,
      ExpireReports, LinkLost, Completes, Fails, Reports,
      ServerStep, ServerReads, ServerPrepares, ServerAsks, ServerRequests, ServerEnds,
      ServerForgets, ServerObjects, Break

\* Who replies.
LEMMA ReplyBy ==
    ASSUME Typed, Next, client.pc = "handle", client'.pc = "reply"
    PROVE  PrepareSession \/ JointTrajectory \/ TrajectoryUnchecked
<1>1. ~GraceElapses /\ ~(\E s \in Sessions : ExecutionEnds(s)) /\ ~(UNCHANGED client)
  BY ClientFields DEF GraceElapses, ExecutionEnds
<1>2. ~ExecutionRequest /\ ~StopSession /\ ~NotConnected
  BY ClientFields DEF ExecutionRequest, StopSession, NotConnected, Served
<1>3. QED
  BY <1>1, <1>2
  DEF Next, SendRaises, ClientStep, ConnectFails, Connect, Register, Refused, Drop, Resume,
      Announce, Send, Receive, FindsClosed, Replies, Except, TransportPaused,
      ConnectionChanged, OperatorStep, Authorize, Withdraw, DeadlinePasses, ExpiryStep, ExpireRun, ExpireHolds,
      ExpireReports, LinkLost, Completes, Fails, Reports, ServerStep, ServerReads, ServerPrepares, ServerAsks, ServerRequests, ServerEnds,
      ServerForgets, ServerObjects, Break

LEMMA NextRejected ==
    ASSUME Typed, AskedInOrder, Next
    PROVE  RejectedDidNotMove'
<1> SUFFICES ASSUME NEW i \in DOMAIN client'.replies, NEW m, m = client'.replies[i],
                    m.type = "result", m.status = "rejected",
                    robot'.mode = "API_ACTIVE", robot'.lease = m.id[1]
             PROVE  m.id[2] > robot'.step
  BY DEF RejectedDidNotMove
<1>1. client'.pc = "reply"
  BY NextTyped DEF Typed
<1>2. CASE client.pc = "reply"
  <2>1. client'.replies = client.replies
    BY <1>1, <1>2, RepliesStay
  <2>2. ~PrepareSession /\ ~JointTrajectory
    BY <1>2 DEF PrepareSession, JointTrajectory, Handles
  <2>3. robot.mode = "API_ACTIVE" /\ robot'.lease = robot.lease /\ robot'.step = robot.step
    BY <2>2, RobotBy
  <2>4. QED
    BY <2>1, <2>3 DEF AskedInOrder, RejectedDidNotMove
<1>3. CASE PrepareSession
  <2>1. client' = [Served("reply") EXCEPT
                      !.replies = <<About("observation", client.message.session)>>]
    BY <1>1, <1>3, ClientFields DEF PrepareSession, Served
  <2>2. client'.replies = <<About("observation", client.message.session)>>
    BY <2>1, ClientFields DEF Served
  <2>3. m.type = "observation"
    BY <2>2, OneAndTwo DEF About
  <2>4. QED
    BY <2>3
<1>4. CASE TrajectoryUnchecked
  BY <1>4, RobotFields DEF TrajectoryUnchecked
<1>5. CASE JointTrajectory
  <2>1. PICK id : id = client.message.id
    OBVIOUS
  <2>2. id \in Ids /\ client.pc = "handle"
    BY <1>5, <2>1, TrajectoryHandled
  <2>3. ASSUME NEW status, client' = Reply(status)
        PROVE  m = Result(id, robot.lease, status)
    <3>1. client'.replies = <<Result(id, robot.lease, status)>>
      BY <2>1, <2>3, ClientFields DEF Reply, Served
    <3>2. QED
      BY <3>1, OneAndTwo
  <2>4. CASE client' = Reply("rejected") /\ robot' = robot
               /\ ~(robot.mode = "API_ACTIVE" /\ robot.lease = id[1] /\ Known(id))
    <3>0. m = Result(id, robot.lease, "rejected")
      BY <2>3, <2>4
    <3>1. m.id = id
      BY <3>0 DEF Result
    <3>2. ~Known(id) /\ robot.mode = "API_ACTIVE" /\ robot.lease = id[1]
      BY <2>4, <3>1
    <3>3. robot.step <= id[2]
      BY <1>5, <2>1, <2>2, <3>2, TrajectoryHandled DEF AskedInOrder, Asked
    <3>4. robot.step < id[2]
      BY <2>2, <3>2, <3>3, UnknownIsNew
    <3>5. robot.step \in Nat /\ id[2] \in Nat
      BY <2>2, RobotFields, BoundsPositive DEF Ids, Steps
    <3>6. QED
      BY <2>4, <3>1, <3>4, <3>5
  <2>5. ASSUME NEW r \in Recorded(id), client' = Reply(r.status) PROVE FALSE
    <3>1. r.status \in {"accepted", "settled"}
      BY <2>5 DEF Recorded
    <3>0. m = Result(id, robot.lease, r.status)
      BY <2>3, <2>5
    <3>2. m.status = r.status
      BY <3>0 DEF Result
    <3>3. QED
      BY <3>1, <3>2
  <2>6. client' # Served("serve")
    BY <1>1, ClientFields DEF Served
  <2>7. QED
    BY <1>5, <2>1, <2>4, <2>5, <2>6 DEF JointTrajectory
<1>6. QED
  BY <1>1, <1>2, <1>3, <1>4, <1>5, PlaceBy, ReplyBy

LEMMA NextAskedInOrder ==
    ASSUME Typed, Born, AskedInOrder, Next
    PROVE  AskedInOrder'
BY NextDownAsked, NextHandAsked, NextRunAsked, NextRejected DEF AskedInOrder

----------------------------------------------------------------------------
(* The theorems.                                                           *)

LEMMA NextSessionInv ==
    ASSUME SessionInv, [Next]_vars
    PROVE  SessionInv'
<1>1. CASE Next
  <2>1. Typed' /\ Born' /\ Quiet' /\ LeaseIsOffered'
    BY <1>1, NextTyped, NextBorn, NextQuiet, NextOffered DEF SessionInv
  <2>2. LeaseIsServed' /\ PreparedIsServed' /\ RefusedIsOver' /\ AskedInOrder'
    BY <1>1, NextLeaseIsServed, NextPreparedIsServed, NextRefusedIsOver, NextAskedInOrder
    DEF SessionInv
  <2>3. QED
    BY <2>1, <2>2 DEF SessionInv
<1>2. CASE UNCHANGED vars
  <2>1. /\ client' = client /\ outbox' = outbox /\ robot' = robot /\ socket' = socket
        /\ server' = server /\ used' = used
    BY <1>2 DEF vars
  <2>2. Typed' /\ Born' /\ Quiet' /\ LeaseIsOffered'
    BY <2>1 DEF SessionInv, Typed, Born, OfBegun, Quiet, LeaseIsOffered
  <2>3. LeaseIsServed' /\ PreparedIsServed'
    BY <2>1 DEF SessionInv, LeaseIsServed, InHandIs, PreparedIsServed, Expiring
  <2>4. RefusedIsOver'
    BY <2>1 DEF SessionInv, RefusedIsOver, NotOfRefused, Discreet, OfARefusedRun, Unposted
  <2>5. AskedInOrder'
    BY <2>1 DEF SessionInv, AskedInOrder, Asked, Precedes, RejectedDidNotMove
  <2>6. QED
    BY <2>2, <2>3, <2>4, <2>5 DEF SessionInv
<1>3. QED
  BY <1>1, <1>2

\* Whatever breaks, is lost, comes twice or comes late between the client and the
\* server (session_api_sim_client.py, _connect_once and _reconnect_loop), what they hold
\* and what is on its way stay in the order of the sessions.
THEOREM SessionInvariant == Spec => []SessionInv
<1>1. Init => SessionInv
  BY InitInv
<1>2. SessionInv /\ [Next]_vars => SessionInv'
  BY NextSessionInv
<1>3. QED
  BY <1>1, <1>2, PTL DEF Spec

\* Every field of the client, its outbox, the robot, the socket and the server keeps its
\* kind, and the records of trajectories stay within their bound (_remember_trajectory).
THEOREM ClientTypeCorrect == Spec => []TypeOK
<1>1. SessionInv => TypeOK
  <2> SUFFICES ASSUME Typed PROVE TypeOK
    BY DEF SessionInv
  <2>1. client \in Clients /\ robot \in Robots /\ socket \in Sockets /\ server \in Servers
        /\ outbox \in Seq(Messages) /\ used \in Counters /\ Len(robot.records) <= MaxRecords
    BY DEF Typed
  <2>2. /\ client.pc \in {"connect", "register", "refused", "drop", "resume", "announce",
                          "serve", "handle", "reply", "except", "pause", "changed",
                          "grace_over", "dead"}
        /\ client.pending \in Messages \cup {None}
        /\ client.message \in Commands \cup {None}
        /\ client.replies \in Seq(Messages)
        /\ client.resume \in Sessions \cup {None} /\ client.grace \in BOOLEAN
        /\ client.paused \in {"no", "within", "expired"} /\ client.tasks \subseteq Sessions
        /\ client.overtaken \subseteq Messages
    BY <2>1 DEF Clients
  <2>3. /\ robot.mode \in {"STOPPED", "API_WAITING", "API_ACTIVE", "FAULT"}
        /\ robot.lease \in Sessions \cup {None} /\ robot.pending \in Ids \cup {None}
        /\ robot.step \in 0 .. MaxSteps
        /\ robot.records \in Seq(Records)
        /\ robot.authorized \in BOOLEAN /\ robot.ok \in BOOLEAN
        /\ robot.connected \in BOOLEAN /\ robot.link \in BOOLEAN
        /\ robot.deadline \in {"none", "set", "passed"}
        /\ robot.expiring \in {"no", "hold", "report"} /\ robot.notice \in Seq(Messages)
        /\ robot.reports \in [Ids -> Seq(Messages)]
    BY <2>1 DEF Robots
  <2>4. socket.open \in BOOLEAN /\ socket.up \in Seq(Messages) /\ socket.down \in Seq(Commands)
    BY <2>1 DEF Sockets
  <2>5. QED
    BY <2>1, <2>2, <2>3, <2>4 DEF TypeOK, Records, Servers, Counters
<1>2. QED
  BY <1>1, SessionInvariant, PTL

\* While a connection serves, the operator's lease is of the session that the server
\* runs, or the word of its end is on the way to it, or a thread of the operator is about
\* to end it: after any breaks and any refused resumptions (_connect_once,
\* _reconnect_loop, api_handle_stop, _expire_policy_runtime).
THEOREM LeaseIsLive == Spec => []ServedLeaseIsLive
<1>1. SessionInv => ServedLeaseIsLive
  <2> SUFFICES ASSUME LeaseIsServed, Serving, robot.lease # None, robot.link
               PROVE  \/ robot.lease = server.session
                      \/ \E i \in DOMAIN socket.down : socket.down[i] = About("stop", robot.lease)
                      \/ Expiring
    BY DEF SessionInv, ServedLeaseIsLive
  <2>1. ~InHandIs(About("stop", robot.lease))
    BY DEF Serving, InHandIs
  <2>2. QED
    BY <2>1 DEF LeaseIsServed, Serving
<1>2. QED
  BY <1>1, SessionInvariant, PTL

\* The server gets no word of a run that it has refused to resume, but what a thread of
\* the operator had built when the outbox was emptied, and the result of an executor that
\* was at work (_connect_once, _execute_api_trajectory, _expire_policy_runtime,
\* _execution_request).
THEOREM RefusalIsFinal == Spec => []NothingAfterRefusal
<1>1. SessionInv => NothingAfterRefusal
  BY DEF SessionInv, RefusedIsOver, Discreet, NothingAfterRefusal
<1>2. QED
  BY <1>1, SessionInvariant, PTL

\* A trajectory that is called rejected in a run is one that the arm has not been given:
\* the record of the last one accepted outlasts any number of others
\* (api_handle_joint_trajectory).
THEOREM RejectionIsHonest == Spec => []RejectedDidNotMove
<1>1. SessionInv => RejectedDidNotMove
  BY DEF SessionInv, AskedInOrder
<1>2. QED
  BY <1>1, SessionInvariant, PTL
=============================================================================
