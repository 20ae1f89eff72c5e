------------------------- MODULE YamOperatorProofs -------------------------
(***************************************************************************)
(* What the operator of the YAM arms promises, for every number of panel   *)
(* requests, runs, actions, orders and failures: a receipt is true, parks  *)
(* and the automatic queue exclude runs, and every run has its deadline.   *)
(*                                                                         *)
(* The inductive invariant says where a thread can be (what may stand      *)
(* above what in its stack), that it is there with _physical_lock, and     *)
(* what is true of the arms and the lease meanwhile.                       *)
(***************************************************************************)
EXTENDS YamOperator, SequenceTheorems, TLAPS

----------------------------------------------------------------------------
(* The invariant.                                                          *)

Pausing     == {"pause_clear", "pause_handoff"}
Holding     == {"hold", "holding", "hold_wait", "held"}
Waiting     == {"holding", "hold_wait"}
Releasing   == {"torque_off", "stopping", "release", "releasing", "stopped"}
LaunchSteps == {"launch", "launching", "initializing", "launched"}
HomeSteps   == {"home", "homing", "homed", "hold_measured", "remeasured", "fault"}
               \cup Moves \cup Pausing \cup Stops
ParkSteps   == {"park", "parking", "at_zero", "receipt", "fault"}
               \cup Moves \cup Pausing \cup Holding \cup Releasing
MoveOrders  == {"launch", "home", "park", "run_policy", "wrist", "waypath"}
MoveEnds    == {"homed", "at_zero", "played", "acted", "wrist_end", "waypath_end"}

\* h may stand above l in a stack: l waits for what h belongs to.
Above(h, l) ==
    \/ l \in MoveEnds /\ h \in Moves
    \/ l = "stopped" /\ h \in {"stopping", "release", "releasing"}
    \/ l \in {"held", "waypath_held"} /\ h \in {"holding", "hold_wait"}
    \/ l \in {"torque_off", "fault", "cancelled", "stop", "hold", "close"} /\ h \in Pausing
    \/ l = "remeasured" /\ h = "hold_measured"
    \/ l = "receipt" /\ h \in Releasing
    \/ l \in {"launch_result", "seek"} /\ h \in LaunchSteps
    \/ l \in {"at_home", "scene"} /\ h \in HomeSteps
    \/ l \in {"rested", "rested_late", "parked_or_not"} /\ h \in ParkSteps
    \/ l \in {"tick_end", "expired", "ended"} /\ h \in Holding
    \/ l = "recovering" /\ h \in Pausing \cup Holding
    \/ l = "recovered" /\ h \in Pausing \cup Stops
    \/ l = "enter" /\ h \in {"pause", "pause_handoff"}
    \/ l \in MoveOrders /\ h \in {"pause", "pause_handoff", "enter"}

Stacked(s) ==
    \A i, j \in DOMAIN s :
        /\ i < j => Above(s[i], s[j])
        /\ s[i] \in Moves => i < Len(s) /\ s[i + 1] \in MoveEnds
        /\ s[i] \in Waiting /\ i < Len(s) => s[i + 1] \in {"held", "waypath_held"}
        /\ s[i] = "enter" => i < Len(s)
Ordered == \A t \in Threads : Stacked(stack[t])

\* Labels that only one kind of thread comes to.
OfKind(t, l) ==
    /\ l \in {"trajectory", "command", "played", "acted", "act_failed", "recover",
              "recovering", "parked_or_not", "recovered"} => t \in Executors
    /\ l \in {"enter", "wrist", "wrist_end", "waypath", "run_policy", "launch_result"}
          => t \in Panel
    /\ l \in {"waypath_end", "waypath_held"} => t = Waypath
    /\ l \in {"watch", "expired"} => t \in Watchdogs
    /\ l \in {"prepared", "validate", "accept", "close", "ended"} => t = Client
    /\ l \in {"claim_launch", "claim_next", "claim_scene", "seek", "at_home", "scene",
              "grant", "rested", "rested_late", "start_failed", "cancelled", "tick_end"}
          => t = Queue
Kinds == \A t \in Threads : \A i \in DOMAIN stack[t] : OfKind(t, stack[t][i])

Outcomes ==
    \A t \in Threads :
        /\ At(t, "homed") \/ At(t, "at_zero") =>
              out[t] \in {"reached", "interrupted", "missed", "servo", "failed"}
        /\ At(t, "remeasured") => out[t] \in {"ok", "interrupted", "servo"}

\* What a thread does only with _physical_lock.
Locked == LaunchSteps \cup MoveOrders \cup
    {"homing", "homed", "hold_measured", "remeasured", "parking", "at_zero", "receipt",
     "launch_result", "wrist_end", "expired", "recovering", "parked_or_not", "recovered",
     "prepared", "claim_launch", "claim_next", "claim_scene", "seek", "at_home", "scene",
     "grant", "rested", "rested_late", "start_failed", "cancelled", "tick_end"}
Free(s) == (\E i \in DOMAIN s : s[i] \in Locked) => \E i \in DOMAIN s : s[i] = "enter"
Mutex == \A t \in Threads : physLock = t \/ Free(stack[t])

Parked == queue.parked \/ queue.disk.parked
Receipted ==
    /\ Parked => ~arm.torque /\ arm.pose = "zero" /\ arm.state \in {"DISABLED", "STOPPING", "FAULT"}
    /\ \A t \in Threads : At(t, "launching") => ~Parked
    /\ arm.verified => ~arm.torque /\ arm.state \in {"DISABLED", "FAULT"}

\* Nobody is about to begin a motion, or to be given one, without _physical_lock.
Arriving(t) == (At(t, "at_zero") /\ out[t] = "reached") \/ Within(t, "receipt")
Arrived ==
    \A t \in Threads : Arriving(t) =>
        /\ arm.pose = "zero" /\ arm.state \notin {"EXECUTING", "INITIALIZING"}
        /\ \A x \in Threads :
              \A l \in {"move", "trajectory", "command", "accept"} : ~At(x, l)

LeaseIsFree ==
    /\ physLock = Queue => op.lease = None
    /\ \A t \in Threads : Within(t, "at_zero") => op.lease = None

Granting ==
    /\ At(Client, "prepared") => op.offer \in Watchdogs /\ Idle(op.offer) /\ op.lease \in {None, op.offer}
    /\ At(Client, "ended") /\ out[Client] # "raised" => op.lease = None
Timed ==
    op.lease # None /\ arm.link =>
        \/ op.deadline = op.lease \/ At(Client, "prepared")
        \/ \E t \in Threads : \E l \in {"hold", "held", "stopped", "close"} : Within(t, l)

YamInv == /\ TypeOK /\ Ordered /\ Kinds /\ Outcomes /\ Mutex /\ Receipted /\ Arrived
          /\ LeaseIsFree /\ Granting /\ Timed

----------------------------------------------------------------------------
(* The types.                                                              *)

Queues == [enabled : BOOLEAN, parked : BOOLEAN, running : BOOLEAN,
           completion : {"none", "rest", "scene"}, handoff : BOOLEAN,
           cancel : BOOLEAN, disk : [enabled : BOOLEAN, parked : BOOLEAN]]
Ops == [mode : Modes, ok : BOOLEAN, launched : BOOLEAN, connected : BOOLEAN,
        authorized : BOOLEAN, lease : Watchdogs \cup {None},
        deadline : Watchdogs \cup {None}, pending : Executors \cup {None},
        offer : Watchdogs \cup {None}, recovery : {"none", "armed", "set"}]
Arms == [state : ArmStates, verified : BOOLEAN, halt : BOOLEAN, link : BOOLEAN,
         torque : BOOLEAN, pose : {"zero", "home", "away"}]
Actions == [Executors -> [run : Watchdogs \cup {None}, cancelled : BOOLEAN]]
Counters == [faults : 0 .. MaxFaults, crashes : 0 .. MaxCrashes, orders : 0 .. MaxOrders]

LEMMA Types ==
    TypeOK <=> /\ queue \in Queues /\ op \in Ops /\ arm \in Arms
               /\ stack \in [Threads -> Seq(Labels)] /\ out \in [Threads -> Results]
               /\ physLock \in Threads \cup {None} /\ action \in Actions /\ used \in Counters
BY DEF TypeOK, Queues, Ops, Arms, Actions, Counters

LEMMA TypesPrime ==
    TypeOK' <=> /\ queue' \in Queues /\ op' \in Ops /\ arm' \in Arms
                /\ stack' \in [Threads -> Seq(Labels)] /\ out' \in [Threads -> Results]
                /\ physLock' \in Threads \cup {None} /\ action' \in Actions
                /\ used' \in Counters
BY DEF TypeOK, Queues, Ops, Arms, Actions, Counters

LEMMA InitTyped == Init => TypeOK
<1> SUFFICES ASSUME Init PROVE TypeOK
  OBVIOUS
<1>1. queue \in Queues /\ arm \in Arms
  BY DEF Init, FreshQueue, FreshArm, Queues, Arms, ArmStates
<1>2. op \in Ops
  BY DEF Init, FreshOp, Ops, Modes
<1>3. stack \in [Threads -> Seq(Labels)] /\ out \in [Threads -> Results]
  BY EmptySeq DEF Init, Results
<1>4. action \in Actions /\ used \in Counters
  BY BoundsNat DEF Init, NoAction, Actions, Counters
<1>5. QED
  BY <1>1, <1>2, <1>3, <1>4, Types DEF Init

----------------------------------------------------------------------------
(* Where a step takes a thread.                                            *)

\* From the label h on top of its stack a thread goes on to ls.
Leads(h, ls) ==
    \/ h \in {"pause", "pause_clear"} /\ ls = <<"pause_handoff">>
    \/ /\ h \in {"pause_handoff", "held", "stopped", "releasing", "moving", "hold_wait",
              "fault", "hold_measured", "launched", "receipt", "launch_result",
              "run_policy", "wrist_end", "waypath_held", "recovered", "close", "ended",
              "accept"}
       /\ ls = <<>>
    \/ h = "move" /\ ls \in {<<>>, <<"moving">>}
    \/ h = "hold" /\ ls \in {<<>>, <<"holding", "held">>}
    \/ h = "holding" /\ ls = <<"hold_wait">>
    \/ h = "stop" /\ ls \in {<<>>, <<"pause_clear", "torque_off">>}
    \/ h = "torque_off" /\ ls \in {<<>>, <<"stopping", "stopped">>}
    \/ h = "stopping" /\ ls = <<"release">>
    \/ h = "release" /\ ls \in {<<>>, <<"releasing">>}
    \/ h = "launch" /\ ls \in {<<>>, <<"launching">>}
    \/ h = "launching" /\ ls \in {<<>>, <<"initializing">>, <<"launched">>}
    \/ h = "initializing" /\ ls \in {<<>>, <<"launched">>}
    \/ h = "home" /\ ls \in {<<>>, <<"homing">>}
    \/ h = "homing" /\ ls = <<"move", "homed">>
    \/ /\ h = "homed"
       /\ ls \in {<<>>, <<"hold_measured", "remeasured">>, <<"pause_clear", "fault">>, <<"stop">>}
    \/ h = "remeasured" /\ ls \in {<<>>, <<"pause_clear", "fault">>}
    \/ h = "park" /\ ls \in {<<>>, <<"parking">>}
    \/ h = "parking" /\ ls \in {<<>>, <<"move", "at_zero">>}
    \/ /\ h = "at_zero"
       /\ ls \in {<<>>, <<"torque_off", "receipt">>, <<"hold">>, <<"pause_clear", "fault">>}
    \/ h = "rested_late" /\ ls \in {<<>>, <<"pause">>}
    \/ h = "claim_launch" /\ ls \in {<<"start_failed">>, <<"launch", "seek">>}
    \/ h = "claim_scene" /\ ls \in {<<"start_failed">>, <<"home", "scene">>}
    \/ h = "claim_next" /\ ls \in {<<"start_failed">>, <<"seek">>, <<"park", "rested">>}
    \/ /\ h = "seek"
       /\ ls \in {<<"cancelled">>, <<"start_failed">>, <<"park", "rested">>, <<"home", "at_home">>}
    \/ /\ h = "at_home"
       /\ ls \in {<<"cancelled">>, <<"start_failed">>, <<"park", "rested">>, <<"grant">>}
    \/ h = "scene" /\ ls \in {<<"cancelled">>, <<"start_failed">>, <<"park", "rested">>}
    \/ h \in {"grant", "rested"} /\ ls \in {<<"cancelled">>, <<"start_failed">>, <<"tick_end">>}
    \/ h = "start_failed" /\ ls = <<"pause_clear", "cancelled">>
    \/ h = "cancelled" /\ ls \in {<<"tick_end">>, <<"hold", "tick_end">>}
    \/ h = "tick_end" /\ ls \in {<<>>, <<"pause">>}
    \/ h = "wrist" /\ ls \in {<<>>, <<"move", "wrist_end">>}
    \/ h = "waypath_end" /\ ls \in {<<>>, <<"holding", "waypath_held">>}
    \/ h = "watch" /\ ls \in {<<>>, <<"hold", "expired">>}
    \/ h = "expired" /\ ls \in {<<>>, <<"park">>}
    \/ h = "trajectory" /\ ls \in {<<>>, <<"move", "played">>}
    \/ h = "command" /\ ls \in {<<>>, <<"move", "acted">>}
    \/ h = "acted" /\ ls \in {<<>>, <<"recover">>}
    \/ h = "played" /\ ls \in {<<>>, <<"act_failed">>, <<"holding">>}
    \/ h = "act_failed" /\ ls \in {<<>>, <<"holding">>}
    \/ h = "recover" /\ ls \in {<<>>, <<"pause_clear", "hold", "recovering">>}
    \/ /\ h = "recovering"
       /\ ls \in {<<"recovered">>, <<"stop", "recovered">>, <<"park", "parked_or_not">>}
    \/ h = "parked_or_not" /\ ls \in {<<"recovered">>, <<"stop", "recovered">>}
    \/ h = "validate" /\ ls \in {<<>>, <<"accept">>, <<"stopping">>}

LEMMA LeadsTyped == ASSUME NEW h, NEW ls, Leads(h, ls) PROVE ls \in Seq(Labels)
<1>1. /\ <<>> \in Seq(Labels) /\ \A a \in Labels : <<a>> \in Seq(Labels)
      /\ \A a, b \in Labels : <<a, b>> \in Seq(Labels)
      /\ \A a, b, c \in Labels : <<a, b, c>> \in Seq(Labels)
  OBVIOUS
<1>2. {"pause", "pause_clear", "pause_handoff", "hold", "holding", "hold_wait", "held", "fault",
       "stop", "torque_off", "stopping", "release", "releasing", "stopped", "move",
       "moving"} \subseteq Labels
  BY DEF Labels, Moves, Holds, Stops
<1>3. {"launch", "launching", "initializing", "launched", "home", "homing", "homed",
       "hold_measured", "remeasured", "park", "parking", "at_zero", "receipt", "seek", "at_home",
       "scene", "grant", "rested", "start_failed", "cancelled", "tick_end"} \subseteq Labels
  BY DEF Labels
<1>4. {"wrist_end", "waypath_held", "expired", "acted", "played", "act_failed", "recover",
       "recovering", "parked_or_not", "recovered", "accept"} \subseteq Labels
  BY DEF Labels
<1>5. {<<"pause_handoff">>, <<"moving">>, <<"hold_wait">>, <<"release">>, <<"releasing">>,
       <<"launching">>, <<"initializing">>, <<"launched">>, <<"homing">>, <<"stop">>,
       <<"parking">>, <<"hold">>, <<"pause">>, <<"start_failed">>, <<"seek">>,
       <<"cancelled">>, <<"grant">>, <<"tick_end">>, <<"park">>, <<"recover">>,
       <<"act_failed">>, <<"holding">>, <<"recovered">>, <<"accept">>, <<"stopping">>} \subseteq Seq(Labels)
  BY <1>1, <1>2, <1>3, <1>4
<1>6. {<<"holding", "held">>, <<"pause_clear", "torque_off">>, <<"stopping", "stopped">>,
       <<"move", "homed">>, <<"hold_measured", "remeasured">>, <<"pause_clear", "fault">>,
       <<"move", "at_zero">>, <<"torque_off", "receipt">>, <<"launch", "seek">>,
       <<"home", "scene">>, <<"park", "rested">>, <<"home", "at_home">>,
       <<"pause_clear", "cancelled">>, <<"hold", "tick_end">>, <<"move", "wrist_end">>,
       <<"holding", "waypath_held">>, <<"hold", "expired">>, <<"move", "played">>,
       <<"move", "acted">>, <<"stop", "recovered">>, <<"park", "parked_or_not">>} \subseteq Seq(Labels)
  BY <1>1, <1>2, <1>3, <1>4
<1>7. {<<>>, <<"pause_clear", "hold", "recovering">>} \subseteq Seq(Labels)
  BY <1>1, <1>2, <1>3, <1>4
<1>8. QED
  BY <1>5, <1>6, <1>7 DEF Leads

LEMMA Table ==
    /\ Leads("pause", <<"pause_handoff">>)
    /\ Leads("pause_clear", <<"pause_handoff">>)
    /\ Leads("pause_handoff", <<>>)
    /\ Leads("held", <<>>)
    /\ Leads("stopped", <<>>)
    /\ Leads("releasing", <<>>)
    /\ Leads("moving", <<>>)
    /\ Leads("hold_wait", <<>>)
    /\ Leads("fault", <<>>)
    /\ Leads("hold_measured", <<>>)
    /\ Leads("launched", <<>>)
    /\ Leads("receipt", <<>>)
    /\ Leads("launch_result", <<>>)
    /\ Leads("run_policy", <<>>)
    /\ Leads("wrist_end", <<>>)
    /\ Leads("waypath_held", <<>>)
    /\ Leads("recovered", <<>>)
    /\ Leads("close", <<>>)
    /\ Leads("ended", <<>>)
    /\ Leads("accept", <<>>)
    /\ Leads("move", <<>>) /\ Leads("move", <<"moving">>)
    /\ Leads("hold", <<>>) /\ Leads("hold", <<"holding", "held">>)
    /\ Leads("holding", <<"hold_wait">>)
    /\ Leads("stop", <<>>) /\ Leads("stop", <<"pause_clear", "torque_off">>)
    /\ Leads("torque_off", <<>>) /\ Leads("torque_off", <<"stopping", "stopped">>)
    /\ Leads("stopping", <<"release">>)
    /\ Leads("release", <<>>) /\ Leads("release", <<"releasing">>)
    /\ Leads("launch", <<>>) /\ Leads("launch", <<"launching">>)
    /\ Leads("launching", <<>>) /\ Leads("launching", <<"initializing">>)
    /\ Leads("launching", <<"launched">>)
    /\ Leads("initializing", <<>>) /\ Leads("initializing", <<"launched">>)
    /\ Leads("home", <<>>) /\ Leads("home", <<"homing">>)
    /\ Leads("homing", <<"move", "homed">>)
    /\ Leads("homed", <<>>) /\ Leads("homed", <<"hold_measured", "remeasured">>)
    /\ Leads("homed", <<"pause_clear", "fault">>) /\ Leads("homed", <<"stop">>)
    /\ Leads("remeasured", <<>>) /\ Leads("remeasured", <<"pause_clear", "fault">>)
    /\ Leads("park", <<>>) /\ Leads("park", <<"parking">>)
    /\ Leads("parking", <<>>) /\ Leads("parking", <<"move", "at_zero">>)
    /\ Leads("at_zero", <<>>) /\ Leads("at_zero", <<"torque_off", "receipt">>)
    /\ Leads("at_zero", <<"hold">>) /\ Leads("at_zero", <<"pause_clear", "fault">>)
    /\ Leads("rested_late", <<>>) /\ Leads("rested_late", <<"pause">>)
    /\ Leads("claim_launch", <<"start_failed">>) /\ Leads("claim_launch", <<"launch", "seek">>)
    /\ Leads("claim_scene", <<"start_failed">>) /\ Leads("claim_scene", <<"home", "scene">>)
    /\ Leads("claim_next", <<"start_failed">>) /\ Leads("claim_next", <<"seek">>)
    /\ Leads("claim_next", <<"park", "rested">>)
    /\ Leads("seek", <<"cancelled">>) /\ Leads("seek", <<"start_failed">>)
    /\ Leads("seek", <<"park", "rested">>) /\ Leads("seek", <<"home", "at_home">>)
    /\ Leads("at_home", <<"cancelled">>) /\ Leads("at_home", <<"start_failed">>)
    /\ Leads("at_home", <<"park", "rested">>) /\ Leads("at_home", <<"grant">>)
    /\ Leads("scene", <<"cancelled">>) /\ Leads("scene", <<"start_failed">>)
    /\ Leads("scene", <<"park", "rested">>)
    /\ Leads("grant", <<"cancelled">>) /\ Leads("grant", <<"start_failed">>)
    /\ Leads("grant", <<"tick_end">>)
    /\ Leads("rested", <<"cancelled">>) /\ Leads("rested", <<"start_failed">>)
    /\ Leads("rested", <<"tick_end">>)
    /\ Leads("start_failed", <<"pause_clear", "cancelled">>)
    /\ Leads("cancelled", <<"tick_end">>) /\ Leads("cancelled", <<"hold", "tick_end">>)
    /\ Leads("tick_end", <<>>) /\ Leads("tick_end", <<"pause">>)
    /\ Leads("wrist", <<>>) /\ Leads("wrist", <<"move", "wrist_end">>)
    /\ Leads("waypath_end", <<>>) /\ Leads("waypath_end", <<"holding", "waypath_held">>)
    /\ Leads("watch", <<>>) /\ Leads("watch", <<"hold", "expired">>)
    /\ Leads("expired", <<>>) /\ Leads("expired", <<"park">>)
    /\ Leads("trajectory", <<>>) /\ Leads("trajectory", <<"move", "played">>)
    /\ Leads("command", <<>>) /\ Leads("command", <<"move", "acted">>)
    /\ Leads("acted", <<>>) /\ Leads("acted", <<"recover">>)
    /\ Leads("played", <<>>) /\ Leads("played", <<"act_failed">>)
    /\ Leads("played", <<"holding">>)
    /\ Leads("act_failed", <<>>) /\ Leads("act_failed", <<"holding">>)
    /\ Leads("recover", <<>>) /\ Leads("recover", <<"pause_clear", "hold", "recovering">>)
    /\ Leads("recovering", <<"recovered">>) /\ Leads("recovering", <<"stop", "recovered">>)
    /\ Leads("recovering", <<"park", "parked_or_not">>)
    /\ Leads("parked_or_not", <<"recovered">>) /\ Leads("parked_or_not", <<"stop", "recovered">>)
    /\ Leads("validate", <<>>) /\ Leads("validate", <<"accept">>)
    /\ Leads("validate", <<"stopping">>)
BY ZenonT(60) DEF Leads

\* The stack s after its top has been replaced by ls.
LEMMA Push ==
    ASSUME NEW s \in Seq(Labels), s # <<>>, NEW ls \in Seq(Labels)
    PROVE  /\ Len(s) \in Nat \ {0} /\ Len(ls) \in Nat /\ Head(s) = s[1]
           /\ DOMAIN s = 1 .. Len(s) /\ DOMAIN ls = 1 .. Len(ls)
           /\ ls \o Tail(s) \in Seq(Labels) /\ Len(ls \o Tail(s)) = Len(ls) + Len(s) - 1
           /\ DOMAIN (ls \o Tail(s)) = 1 .. (Len(ls) + Len(s) - 1)
           /\ \A i \in 1 .. Len(ls) : (ls \o Tail(s))[i] = ls[i]
           /\ \A i \in (Len(ls) + 1) .. (Len(ls) + Len(s) - 1) :
                 (ls \o Tail(s))[i] = s[i - Len(ls) + 1]
           /\ Tail(s) \in Seq(Labels) /\ <<>> \o Tail(s) = Tail(s)
<1>1. Len(s) \in Nat \ {0} /\ Len(ls) \in Nat /\ Head(s) = s[1] /\ Tail(s) \in Seq(Labels)
      /\ Len(Tail(s)) = Len(s) - 1 /\ \A i \in 1 .. Len(Tail(s)) : Tail(s)[i] = s[i + 1]
      /\ DOMAIN s = 1 .. Len(s) /\ DOMAIN ls = 1 .. Len(ls)
  BY HeadTailProperties, LenProperties, EmptySeq
<1>2. /\ ls \o Tail(s) \in Seq(Labels) /\ Len(ls \o Tail(s)) = Len(ls) + Len(s) - 1
      /\ \A i \in 1 .. (Len(ls) + Len(s) - 1) : (ls \o Tail(s))[i] =
            IF i <= Len(ls) THEN ls[i] ELSE Tail(s)[i - Len(ls)]
  BY <1>1, ConcatProperties
<1>3. DOMAIN (ls \o Tail(s)) = 1 .. (Len(ls) + Len(s) - 1)
  BY <1>2, LenProperties
<1>4. ASSUME NEW i \in (Len(ls) + 1) .. (Len(ls) + Len(s) - 1)
      PROVE  (ls \o Tail(s))[i] = s[i - Len(ls) + 1]
  <2>1. i - Len(ls) \in 1 .. Len(Tail(s)) /\ i \in 1 .. (Len(ls) + Len(s) - 1) /\ ~(i <= Len(ls))
    BY <1>1
  <2>2. QED
    BY <1>1, <1>2, <2>1
<1>5. \A i \in 1 .. Len(ls) : (ls \o Tail(s))[i] = ls[i]
  BY <1>1, <1>2
<1>6. <<>> \o Tail(s) = Tail(s)
  BY <1>1, ConcatEmptySeq
<1>7. QED
  BY <1>1, <1>2, <1>3, <1>4, <1>5, <1>6

\* What a thread does, or knows, when it goes on from h to ls.
Duties == {"watch", "recover", "validate", "parking", "launch", "hold", "held", "stopped", "close",
           "move", "moving", "hold_measured", "at_zero"}
Duly(t, h, ls) ==
    /\ h \in {"watch", "recover"} => ls = <<>> \/ physLock' = t
    /\ h = "validate" => physLock = None
    /\ h = "parking" => ls = <<>> \/ op'.lease = None
    /\ h = "launch" => ls = <<>> \/ ~Parked'
    /\ h \in {"held", "stopped", "close"} => op'.lease = None
    /\ h = "hold" => \/ op'.lease = None
                     \/ ~arm'.link /\ (stack'[t] = <<>> \/ out'[t] = "raised")
    /\ h \in Moves => \/ ls = <<"moving">> \/ stack'[t] = <<>> \/ stack[t][2] = "played"
                      \/ out'[t] \in {"reached", "interrupted", "missed", "servo", "failed"}
    /\ h \in Moves /\ stack[t][2] = "at_zero" /\ out'[t] = "reached" =>
          arm'.pose = "zero" /\ arm'.state = "STOPPED" /\ Prompt(t)
    /\ h = "hold_measured" => stack'[t] = <<>> \/ out'[t] \in {"ok", "interrupted", "servo"}
    /\ h = "at_zero" /\ ls = <<"torque_off", "receipt">> => out[t] = "reached"

\* Thread t goes on, and keeps _physical_lock, takes it or leaves it at its end.
Locking(t) ==
    \/ physLock' = physLock
    \/ physLock = t /\ physLock' = None /\ stack'[t] \in {<<>>, <<"pause">>}
    \/ physLock = None /\ physLock' = t /\ t # Queue
Goes(t) ==
    /\ ~Idle(t) /\ Locking(t) /\ action' \in Actions
    /\ \E ls \in Seq(Labels) :
          /\ Leads(Head(stack[t]), ls) /\ Duly(t, Head(stack[t]), ls)
          /\ stack' = [stack EXCEPT ![t] = ls \o Tail(@)]
    /\ \E r \in Results : out' = [out EXCEPT ![t] = r]

LEMMA JumpDuly ==
    ASSUME TypeOK, NEW t \in Threads, NEW h, At(t, h), NEW ls, Leads(h, ls), Jump(t, ls),
           Duly(t, h, ls), Locking(t), action' \in Actions
    PROVE  Goes(t)
<1>1. "none" \in Results
  BY DEF Results
<1>2. QED
  BY <1>1, LeadsTyped DEF At, Jump, Goes, Idle

LEMMA GoDuly ==
    ASSUME TypeOK, NEW t \in Threads, NEW h, At(t, h), NEW ls, Leads(h, ls), Go(t, ls),
           Duly(t, h, ls)
    PROVE  Goes(t)
BY JumpDuly, Types DEF Go, Locking

LEMMA GoPlain ==
    ASSUME TypeOK, NEW t \in Threads, NEW h, At(t, h), h \notin Duties, NEW ls, Leads(h, ls),
           Go(t, ls)
    PROVE  Goes(t)
<1>1. Duly(t, h, ls)
  BY DEF Duties, Duly, Moves
<1>2. QED
  BY <1>1, GoDuly

LEMMA ReturnDuly ==
    ASSUME TypeOK, NEW t \in Threads, NEW h, At(t, h), Leads(h, <<>>), NEW r \in Results,
           Return(t, r), Duly(t, h, <<>>)
    PROVE  Goes(t)
<1>1. stack[t] \in Seq(Labels) /\ stack[t] # <<>> /\ <<>> \in Seq(Labels) /\ "none" \in Results
  BY EmptySeq DEF TypeOK, At, Results
<1>2. Tail(stack[t]) = <<>> \o Tail(stack[t])
  BY <1>1, Push
<1>3. stack' = [stack EXCEPT ![t] = <<>> \o Tail(@)]
  BY <1>2 DEF Return
<1>4. \E x \in Results : out' = [out EXCEPT ![t] = x]
  BY <1>1 DEF Return
<1>5. Locking(t)
  BY <1>1, <1>2, <1>3 DEF Return, Locking, TypeOK
<1>6. action' \in Actions
  BY Types DEF Return, NoAction, Actions
<1>7. QED
  BY <1>1, <1>3, <1>4, <1>5, <1>6 DEF Goes, Idle, At

\* What a thread that returns leaves in out.
LEMMA Returned ==
    ASSUME TypeOK, NEW t \in Threads, NEW r, Return(t, r)
    PROVE  stack'[t] = <<>> \/ out'[t] = r
BY DEF TypeOK, Return

LEMMA ReturnPlain ==
    ASSUME TypeOK, NEW t \in Threads, NEW h, At(t, h), h \notin Duties, Leads(h, <<>>),
           NEW r \in Results, Return(t, r)
    PROVE  Goes(t)
<1>1. Duly(t, h, <<>>)
  BY DEF Duties, Duly, Moves
<1>2. QED
  BY <1>1, ReturnDuly


\* With what a thread begins.
Begins(t, ls) ==
    \/ /\ t = Queue
       /\ ls \in {<<"pause_clear">>, <<"park", "rested_late">>, <<"claim_launch">>,
                  <<"claim_next">>, <<"claim_scene">>}
    \/ t \in Panel /\ ls \in {<<"pause_clear", "stop">>, <<"hold">>, <<"pause">>}
    \/ t \in Panel /\ \E o \in MoveOrders : ls \in {<<"enter", o>>, <<"pause", "enter", o>>}
    \/ /\ t = Client
       /\ ls \in {<<"prepared">>, <<"validate">>, <<"pause_clear", "close">>,
                  <<"hold", "ended">>, <<"hold">>}
    \/ t = Poller /\ ls = <<"pause_clear", "fault">>
    \/ t \in Watchdogs /\ ls = <<"watch">>
    \/ t \in Executors /\ ls \in {<<"trajectory">>, <<"command">>}
    \/ t = Waypath /\ ls = <<"move", "waypath_end">>

LEMMA BeginsTyped == ASSUME NEW t, NEW ls, Begins(t, ls) PROVE ls \in Seq(Labels)
<1>1. /\ \A a \in Labels : <<a>> \in Seq(Labels)
      /\ \A a, b \in Labels : <<a, b>> \in Seq(Labels)
      /\ \A a, b, c \in Labels : <<a, b, c>> \in Seq(Labels)
  OBVIOUS
<1>2. {"pause_clear", "pause", "hold", "stop", "move", "fault"} \subseteq Labels
  BY DEF Labels, Moves, Holds, Stops
<1>3. {"park", "rested_late", "claim_launch", "claim_next", "claim_scene", "enter", "prepared",
       "validate", "close", "ended", "watch", "trajectory", "command", "waypath_end"}
      \subseteq Labels
  BY DEF Labels
<1>4. MoveOrders \subseteq Labels
  BY DEF MoveOrders, Labels
<1>5. {<<"pause_clear">>, <<"claim_launch">>, <<"claim_next">>, <<"claim_scene">>, <<"hold">>,
       <<"pause">>, <<"prepared">>, <<"validate">>, <<"watch">>, <<"trajectory">>,
       <<"command">>} \subseteq Seq(Labels)
  BY <1>1, <1>2, <1>3
<1>6. {<<"park", "rested_late">>, <<"pause_clear", "stop">>, <<"pause_clear", "close">>,
       <<"hold", "ended">>, <<"pause_clear", "fault">>, <<"move", "waypath_end">>}
      \subseteq Seq(Labels)
  BY <1>1, <1>2, <1>3
<1>7. \A o \in MoveOrders : <<"enter", o>> \in Seq(Labels) /\ <<"pause", "enter", o>> \in Seq(Labels)
  BY <1>1, <1>2, <1>3, <1>4
<1>8. QED
  BY <1>5, <1>6, <1>7 DEF Begins

\* Beginnings of a thread that takes _physical_lock.
Exclusive == {<<"park", "rested_late">>, <<"claim_launch">>, <<"claim_next">>, <<"claim_scene">>,
              <<"prepared">>}
\* Who lets a thread begin.
Called(t, ls) ==
    /\ ls \in Exclusive => physLock' = t /\ (t = Queue => op'.lease = None)
    /\ ls = <<"prepared">> => /\ op'.lease = op'.offer /\ op'.offer \in Watchdogs
                             /\ Idle(op'.offer) /\ stack'[op'.offer] = <<>>
    /\ t \in Executors => At(Client, "accept")
    /\ t \in Watchdogs => At(Client, "prepared") /\ stack'[Client] = <<>>
    /\ t = Waypath => \E p \in Panel : At(p, "waypath")

\* At "enter" a panel request goes on to its order, or is refused.
Enters(t, ls) ==
    /\ At(t, "enter") /\ t \in Panel
    /\ ls \in {<<>>, <<stack[t][2]>>, <<"launch", "launch_result">>}
    /\ stack[t][2] \in MoveOrders
    /\ ls = <<>> \/ physLock' = t

Gone(t) ==
    \/ Crash
    \/ At(t, "prepared") /\ (op'.deadline = op.offer \/ ~arm'.link)
    \/ At(t, "accept") \/ At(t, "waypath")

\* What a step does to thread t.
Moved(t) ==
    \/ stack'[t] = stack[t] /\ out'[t] = out[t]
    \/ stack'[t] = <<>> /\ Gone(t)
    \/ /\ ~Idle(t)
       /\ \E ls \in Seq(Labels) :
             /\ Leads(Head(stack[t]), ls) /\ Duly(t, Head(stack[t]), ls)
             /\ stack'[t] = ls \o Tail(stack[t])
    \/ Idle(t) /\ \E ls \in Seq(Labels) : Begins(t, ls) /\ Called(t, ls) /\ stack'[t] = ls
    \/ Enters(t, stack'[t])

\* Who has _physical_lock loses it only at its end.
Leaves(t) == physLock = t /\ physLock' # t => stack'[t] \in {<<>>, <<"pause">>}

AllMoved ==
    /\ stack' \in [Threads -> Seq(Labels)] /\ out' \in [Threads -> Results]
    /\ physLock' \in Threads \cup {None} /\ action' \in Actions
    /\ physLock' = Queue => physLock = Queue \/ op'.lease = None
    /\ \A t \in Threads : Moved(t) /\ Leaves(t)

LEMMA GoesMoved ==
    ASSUME TypeOK, NEW t \in Threads, Goes(t)
    PROVE  AllMoved
<1>1. stack \in [Threads -> Seq(Labels)] /\ stack[t] # <<>> /\ out \in [Threads -> Results]
      /\ physLock \in Threads \cup {None} /\ None \notin Threads
  BY ThreadsDistinct DEF TypeOK, Goes, Idle, Threads
<1>2. PICK ls \in Seq(Labels) :
          /\ Leads(Head(stack[t]), ls) /\ Duly(t, Head(stack[t]), ls)
          /\ stack' = [stack EXCEPT ![t] = ls \o Tail(@)]
  BY DEF Goes
<1>3. ls \o Tail(stack[t]) \in Seq(Labels)
  BY <1>1, Push
<1>4. PICK r \in Results : out' = [out EXCEPT ![t] = r]
  BY DEF Goes
<1>5. stack' \in [Threads -> Seq(Labels)] /\ out' \in [Threads -> Results]
  BY <1>1, <1>2, <1>3, <1>4
<1>6. \A x \in Threads : Moved(x)
  BY <1>1, <1>2, <1>4 DEF Moved, Goes
<1>7. /\ physLock' \in Threads \cup {None} /\ \A x \in Threads : Leaves(x)
      /\ physLock' = Queue => physLock = Queue
  BY <1>1, ThreadsDistinct DEF Leaves, Goes, Locking
<1>8. QED
  BY <1>5, <1>6, <1>7 DEF AllMoved, Goes

LEMMA StartMoved ==
    ASSUME TypeOK, NEW t \in Threads, NEW ls, Begins(t, ls), Start(t, ls), Called(t, ls),
           physLock' = physLock \/ (physLock = None /\ physLock' = t /\ ls \in Exclusive),
           action' = action
    PROVE  AllMoved
<1>1. stack \in [Threads -> Seq(Labels)] /\ ls \in Seq(Labels) /\ out \in [Threads -> Results]
      /\ physLock \in Threads \cup {None} /\ None \notin Threads
  BY BeginsTyped, ThreadsDistinct DEF TypeOK, Threads
<1>2. /\ Idle(t) /\ stack' = [stack EXCEPT ![t] = ls] /\ out' = out
  BY DEF Start
<1>3. \A x \in Threads : Moved(x)
  BY <1>1, <1>2 DEF Moved
<1>4. \A x \in Threads : Leaves(x)
  BY <1>1 DEF Leaves
<1>5. physLock' = Queue => physLock = Queue \/ op'.lease = None
  BY DEF Called
<1>6. QED
  BY <1>1, <1>2, <1>3, <1>4, <1>5, Types DEF AllMoved

\* A thread that begins without the lock, none of those the Client or a request starts.
LEMMA StartPlain ==
    ASSUME TypeOK, NEW t \in Threads, t \in Panel \cup {Queue, Client, Poller}, NEW ls,
           Begins(t, ls), ls \notin Exclusive, Start(t, ls), UNCHANGED <<physLock, action>>
    PROVE  AllMoved
<1>1. Called(t, ls)
  BY ThreadsDistinct DEF Called, Exclusive
<1>2. physLock' = physLock /\ action' = action
  OBVIOUS
<1>3. QED
  BY <1>1, <1>2, StartMoved

LEMMA StillMoved ==
    ASSUME TypeOK, UNCHANGED <<stack, out, physLock, action>>
    PROVE  AllMoved
BY Types DEF TypeOK, AllMoved, Moved, Leaves

\* Who stands where only the owner of _physical_lock does, owns it.
LEMMA AtOwner ==
    ASSUME TypeOK, Ordered, Mutex, NEW t \in Threads, NEW l \in Locked, At(t, l)
    PROVE  physLock = t
<1>1. stack[t] \in Seq(Labels) /\ stack[t] # <<>> /\ Head(stack[t]) = l
  BY DEF TypeOK, At
<1>2. /\ Len(stack[t]) \in Nat \ {0} /\ stack[t][1] = l
      /\ DOMAIN stack[t] = 1 .. Len(stack[t])
  BY <1>1, Push
<1>3. ASSUME NEW i \in DOMAIN stack[t] PROVE stack[t][i] # "enter"
  <2>1. CASE i = 1
    BY <1>2, <2>1 DEF Locked, LaunchSteps, MoveOrders
  <2>2. CASE i # 1
    <3>1. 1 \in DOMAIN stack[t] /\ 1 < i
      BY <1>2, <2>2
    <3>2. Above(l, stack[t][i])
      BY <1>2, <3>1 DEF Ordered, Stacked
    <3>3. QED
      BY <3>2 DEF Above, Locked, LaunchSteps, MoveOrders, MoveEnds
  <2>3. QED
    BY <2>1, <2>2
<1>4. ~Free(stack[t])
  BY <1>2, <1>3 DEF Free
<1>5. QED
  BY <1>4 DEF Mutex

\* What a move may come to.
LEMMA MoveReturns ==
    ASSUME TypeOK, NEW t \in Threads, NEW h \in Moves, At(t, h), NEW r, Return(t, r),
           \/ r \in {"reached", "interrupted", "missed", "servo", "failed"}
           \/ r = "rejected" /\ stack[t][2] = "played",
           r = "reached" /\ stack[t][2] = "at_zero" =>
              arm'.pose = "zero" /\ arm'.state = "STOPPED" /\ Prompt(t)
    PROVE  Goes(t)
<1>1. Leads(h, <<>>) /\ r \in Results
  BY Table DEF Moves, Results
<1>2. (stack'[t] = <<>> \/ out'[t] = r) /\ out'[t] \in {r, "none"}
  BY Returned DEF Return, TypeOK
<1>3. Duly(t, h, <<>>)
  BY <1>2 DEF Duly, Moves
<1>4. QED
  BY <1>1, <1>3, ReturnDuly

LEMMA MovesGo ==
    ASSUME TypeOK, NEW t \in Threads,
           MoveRefused(t) \/ MoveBegin(t) \/ MoveEnd(t) \/ MoveInterrupted(t) \/ MoveFailed(t)
    PROVE  Goes(t)
<1>1. CASE MoveRefused(t)
  BY <1>1, MoveReturns DEF MoveRefused, Moves
<1>2. CASE MoveBegin(t)
  <2>1. Duly(t, "move", <<"moving">>)
    BY <1>2 DEF Duly, Moves, MoveBegin, Go, Jump, TypeOK
  <2>2. QED
    BY <1>2, <2>1, GoDuly, Table DEF MoveBegin
<1>3. CASE MoveEnd(t)
  <2>1. PICK r \in {"reached", "missed", "rejected"} :
            /\ At(t, "moving") /\ Return(t, r) /\ Prompt(t)
            /\ r = "rejected" => stack[t][2] = "played"
            /\ arm' = [arm EXCEPT !.state = "STOPPED",
                                  !.pose = IF r = "reached" THEN Goal(t) ELSE "away"]
    BY <1>3 DEF MoveEnd
  <2>2. /\ r = "reached" /\ stack[t][2] = "at_zero" =>
              arm'.pose = "zero" /\ arm'.state = "STOPPED" /\ Prompt(t)
        /\ \/ r \in {"reached", "interrupted", "missed", "servo", "failed"}
           \/ r = "rejected" /\ stack[t][2] = "played"
    BY <2>1, Types DEF Goal, Arms
  <2>3. QED
    BY <2>1, <2>2, MoveReturns DEF Moves
<1>4. CASE MoveInterrupted(t)
  BY <1>4, MoveReturns DEF MoveInterrupted, Moves
<1>5. CASE MoveFailed(t)
  BY <1>5, MoveReturns DEF MoveFailed, Moves
<1>6. QED
  BY <1>1, <1>2, <1>3, <1>4, <1>5

LEMMA RevokeLease ==
    ASSUME op \in Ops
    PROVE  Revoke(op) \in Ops /\ Revoke(op).lease = None
BY DEF Revoke, Ops

LEMMA HoldsGo ==
    ASSUME TypeOK, NEW t \in Threads,
           \/ PauseQueue(t) \/ PauseHandoff(t) \/ Fault(t)
           \/ Hold(t) \/ HoldRequest(t) \/ HoldDone(t) \/ HoldEnd(t)
    PROVE  Goes(t)
<1>1. CASE PauseQueue(t)
  BY <1>1, GoPlain, Table DEF PauseQueue, Duties
<1>2. CASE PauseHandoff(t)
  <2>1. At(t, "pause_handoff") /\ Return(t, "none")
    BY <1>2 DEF PauseHandoff, Finish
  <2>2. "none" \in Results /\ "pause_handoff" \notin Duties /\ Leads("pause_handoff", <<>>)
    BY Table DEF Duties, Results
  <2>3. QED
    BY <2>1, <2>2, ReturnPlain
<1>3. CASE Fault(t)
  <2>1. At(t, "fault") /\ Return(t, "none")
    BY <1>3 DEF Fault, Finish
  <2>2. "none" \in Results /\ "fault" \notin Duties /\ Leads("fault", <<>>)
    BY Table DEF Duties, Results
  <2>3. QED
    BY <2>1, <2>2, ReturnPlain
<1>4. CASE Hold(t)
  <2>1. At(t, "hold") /\ op \in Ops /\ arm' = arm
    BY <1>4, Types DEF Hold
  <2>2. CASE arm.link
    <3>1. op'.lease = None
      BY <1>4, <2>1, <2>2, RevokeLease DEF Hold
    <3>2. Duly(t, "hold", <<"holding", "held">>)
      BY <3>1 DEF Duly, Moves
    <3>3. Jump(t, <<"holding", "held">>) /\ Locking(t)
      BY <1>4, <2>2 DEF Hold, Locking
    <3>4. action' \in Actions
      <4>1. /\ action' = [e \in Executors |->
                              [action[e] EXCEPT !.cancelled = @ \/ op.pending = e]]
            /\ action \in Actions
        BY <1>4, <2>2, Types DEF Hold
      <4>2. ASSUME NEW e \in Executors, NEW b \in BOOLEAN
            PROVE  [action[e] EXCEPT !.cancelled = b]
                       \in [run : Watchdogs \cup {None}, cancelled : BOOLEAN]
        BY <4>1 DEF Actions
      <4>3. ASSUME NEW e \in Executors
            PROVE  [action[e] EXCEPT !.cancelled = @ \/ op.pending = e]
                       \in [run : Watchdogs \cup {None}, cancelled : BOOLEAN]
        <5>1. CASE op.pending = e
          <6>1. [action[e] EXCEPT !.cancelled = @ \/ op.pending = e]
                    = [action[e] EXCEPT !.cancelled = TRUE]
            BY <4>1, <5>1 DEF Actions
          <6>2. QED
            BY <4>2, <6>1
        <5>2. CASE op.pending # e
          <6>1. [action[e] EXCEPT !.cancelled = @ \/ op.pending = e]
                    = [action[e] EXCEPT !.cancelled = action[e].cancelled]
            BY <4>1, <5>2 DEF Actions
          <6>2. action[e].cancelled \in BOOLEAN
            BY <4>1 DEF Actions
          <6>3. QED
            BY <4>2, <6>1, <6>2
        <5>3. QED
          BY <5>1, <5>2
      <4>4. QED
        BY <4>1, <4>3 DEF Actions
    <3>5. QED
      BY <2>1, <3>2, <3>3, <3>4, JumpDuly, Table
  <2>3. CASE ~arm.link
    <3>1. Return(t, "raised") /\ "raised" \in Results
      BY <1>4, <2>3 DEF Hold, Results
    <3>2. stack'[t] = <<>> \/ out'[t] = "raised"
      BY <3>1, Returned
    <3>3. Duly(t, "hold", <<>>)
      BY <2>1, <2>3, <3>2 DEF Duly, Moves
    <3>4. QED
      BY <2>1, <3>1, <3>3, ReturnDuly, Table
  <2>4. QED
    BY <2>2, <2>3
<1>5. CASE HoldRequest(t)
  BY <1>5, GoPlain, Table DEF HoldRequest, Duties
<1>6. CASE HoldDone(t)
  <2>1. PICK r \in {"ok", "raised"} : At(t, "hold_wait") /\ Return(t, r)
    BY <1>6 DEF HoldDone
  <2>2. r \in Results /\ "hold_wait" \notin Duties /\ Leads("hold_wait", <<>>)
    BY <2>1, Table DEF Duties, Results
  <2>3. QED
    BY <2>1, <2>2, ReturnPlain
<1>7. CASE HoldEnd(t)
  <2>1. op'.lease = None
    BY <1>7, Types, RevokeLease DEF HoldEnd, Ops
  <2>2. Duly(t, "held", <<>>)
    BY <2>1 DEF Duly, Moves
  <2>3. QED
    BY <1>7, <2>2, ReturnDuly, Table DEF HoldEnd, Results
<1>8. QED
  BY <1>1, <1>2, <1>3, <1>4, <1>5, <1>6, <1>7

LEMMA StopsGo ==
    ASSUME TypeOK, NEW t \in Threads,
           \/ Stop(t) \/ TorqueOff(t) \/ StopRequest(t) \/ Release(t) \/ Released(t)
           \/ StopEnd(t)
    PROVE  Goes(t)
<1>1. CASE Stop(t)
  BY <1>1, ReturnPlain, GoPlain, Table DEF Stop, Duties, Results
<1>2. CASE TorqueOff(t)
  BY <1>2, ReturnPlain, GoPlain, Table DEF TorqueOff, Duties, Results
<1>3. CASE StopRequest(t)
  BY <1>3, GoPlain, Table DEF StopRequest, Duties
<1>4. CASE Release(t)
  BY <1>4, ReturnPlain, GoPlain, Table DEF Release, Duties, Results
<1>5. CASE Released(t)
  <2>1. PICK r \in {"ok", "raised"} : At(t, "releasing") /\ Return(t, r)
    BY <1>5 DEF Released
  <2>2. r \in Results /\ "releasing" \notin Duties /\ Leads("releasing", <<>>)
    BY <2>1, Table DEF Duties, Results
  <2>3. QED
    BY <2>1, <2>2, ReturnPlain
<1>6. CASE StopEnd(t)
  <2>1. op'.lease = None
    BY <1>6, Types, RevokeLease DEF StopEnd, Ops
  <2>2. Duly(t, "stopped", <<>>)
    BY <2>1 DEF Duly, Moves
  <2>3. QED
    BY <1>6, <2>2, ReturnDuly, Table DEF StopEnd, Results
<1>7. QED
  BY <1>1, <1>2, <1>3, <1>4, <1>5, <1>6

LEMMA RestGo ==
    ASSUME TypeOK, Outcomes, NEW t \in Threads,
           \/ Launch(t) \/ LaunchBegin(t) \/ LaunchEnd(t) \/ Launched(t)
           \/ Home(t) \/ Homing(t) \/ Homed(t) \/ HoldMeasured(t) \/ Remeasured(t)
           \/ Park(t) \/ Parking(t) \/ AtZero(t) \/ Receipt(t)
    PROVE  Goes(t)
<1>1. CASE Launch(t)
  <2>1. At(t, "launch") /\ queue \in Queues
    BY <1>1, Types DEF Launch
  <2>2. PICK saves \in BOOLEAN :
            /\ Save([queue EXCEPT !.parked = FALSE], saves)
            /\ IF saves THEN Go(t, <<"launching">>) ELSE Return(t, "failed")
    BY <1>1 DEF Launch, InvalidatePark
  <2>3. CASE saves
    <3>1. ~Parked'
      BY <2>1, <2>2, <2>3 DEF Save, Saved, Parked, Queues
    <3>2. Duly(t, "launch", <<"launching">>)
      BY <3>1 DEF Duly, Moves
    <3>3. QED
      BY <2>1, <2>2, <2>3, <3>2, GoDuly, Table
  <2>4. CASE ~saves
    <3>1. Duly(t, "launch", <<>>)
      BY DEF Duly, Moves
    <3>2. QED
      BY <2>1, <2>2, <2>4, <3>1, ReturnDuly, Table DEF Results
  <2>5. QED
    BY <2>3, <2>4
<1>2. CASE LaunchBegin(t)
  BY <1>2, ReturnPlain, GoPlain, Table DEF LaunchBegin, Duties, Results
<1>3. CASE LaunchEnd(t)
  BY <1>3, ReturnPlain, GoPlain, Table DEF LaunchEnd, Duties, Results
<1>4. CASE Launched(t)
  <2>1. PICK r \in {"ok", "failed"} : At(t, "launched") /\ Return(t, r)
    BY <1>4 DEF Launched
  <2>2. r \in Results /\ "launched" \notin Duties /\ Leads("launched", <<>>)
    BY <2>1, Table DEF Duties, Results
  <2>3. QED
    BY <2>1, <2>2, ReturnPlain
<1>5. CASE Home(t)
  BY <1>5, ReturnPlain, GoPlain, Table DEF Home, Duties, Results
<1>6. CASE Homing(t)
  BY <1>6, GoPlain, Table DEF Homing, Duties
<1>7. CASE Homed(t)
  <2>1. At(t, "homed") /\ out[t] \in {"reached", "interrupted", "missed", "servo", "failed"}
    BY <1>7 DEF Homed, Outcomes
  <2>2. \/ \E r \in {"ok", "interrupted"} : Return(t, r)
        \/ \E ls \in {<<"hold_measured", "remeasured">>, <<"pause_clear", "fault">>, <<"stop">>} :
              Go(t, ls)
    BY <1>7, <2>1 DEF Homed
  <2>3. QED
    BY <2>1, <2>2, ReturnPlain, GoPlain, Table DEF Duties, Results
<1>8. CASE HoldMeasured(t)
  <2>1. PICK r \in {"ok", "interrupted", "servo"} : At(t, "hold_measured") /\ Return(t, r)
    BY <1>8 DEF HoldMeasured
  <2>2. Duly(t, "hold_measured", <<>>)
    BY <2>1, Returned DEF Duly, Moves
  <2>3. QED
    BY <2>1, <2>2, ReturnDuly, Table DEF Results
<1>9. CASE Remeasured(t)
  <2>1. At(t, "remeasured") /\ out[t] \in {"ok", "interrupted", "servo"}
    BY <1>9 DEF Remeasured, Outcomes
  <2>2. (\E r \in {"blocked", "interrupted"} : Return(t, r)) \/ Go(t, <<"pause_clear", "fault">>)
    BY <1>9, <2>1 DEF Remeasured
  <2>3. QED
    BY <2>1, <2>2, ReturnPlain, GoPlain, Table DEF Duties, Results
<1>10. CASE Park(t)
  BY <1>10, ReturnPlain, GoPlain, Table DEF Park, Duties, Results
<1>11. CASE Parking(t)
  <2>1. At(t, "parking") /\ op \in Ops
    BY <1>11, Types DEF Parking
  <2>2. CASE MayPark(t)
    <3>1. op'.lease = None /\ Go(t, <<"move", "at_zero">>)
      BY <1>11, <2>1, <2>2 DEF Parking, MayPark, Ops
    <3>2. Duly(t, "parking", <<"move", "at_zero">>)
      BY <3>1 DEF Duly, Moves
    <3>3. QED
      BY <2>1, <3>1, <3>2, GoDuly, Table
  <2>3. CASE ~MayPark(t)
    <3>1. Return(t, "blocked") /\ Duly(t, "parking", <<>>)
      BY <1>11, <2>3 DEF Parking, Duly, Moves
    <3>2. QED
      BY <2>1, <3>1, ReturnDuly, Table DEF Results
  <2>4. QED
    BY <2>2, <2>3
<1>12. CASE AtZero(t)
  <2>1. At(t, "at_zero") /\ out[t] \in {"reached", "interrupted", "missed", "servo", "failed"}
    BY <1>12 DEF AtZero, Outcomes
  <2>2. \/ \E r \in {"blocked", "interrupted"} : Return(t, r)
        \/ \E ls \in {<<"torque_off", "receipt">>, <<"pause_clear", "fault">>, <<"hold">>} :
              Go(t, ls) /\ (ls = <<"torque_off", "receipt">> => out[t] = "reached")
    BY <1>12, <2>1 DEF AtZero
  <2>3. CASE \E r \in {"blocked", "interrupted"} : Return(t, r)
    <3>1. Duly(t, "at_zero", <<>>)
      BY DEF Duly, Moves
    <3>2. QED
      BY <2>1, <2>3, <3>1, ReturnDuly, Table DEF Results
  <2>4. ASSUME NEW ls \in {<<"torque_off", "receipt">>, <<"pause_clear", "fault">>, <<"hold">>},
               Go(t, ls), ls = <<"torque_off", "receipt">> => out[t] = "reached"
        PROVE  Goes(t)
    <3>1. Duly(t, "at_zero", ls) /\ Leads("at_zero", ls)
      BY <2>4, Table DEF Duly, Moves
    <3>2. QED
      BY <2>1, <2>4, <3>1, GoDuly
  <2>5. QED
    BY <2>2, <2>3, <2>4
<1>13. CASE Receipt(t)
  <2>1. PICK r \in {"parked", "raised", "blocked"} : At(t, "receipt") /\ Return(t, r)
    BY <1>13 DEF Receipt
  <2>2. r \in Results /\ "receipt" \notin Duties /\ Leads("receipt", <<>>)
    BY <2>1, Table DEF Duties, Results
  <2>3. QED
    BY <2>1, <2>2, ReturnPlain
<1>14. QED
  BY <1>1, <1>2, <1>3, <1>4, <1>5, <1>6, <1>7, <1>8, <1>9, <1>10, <1>11, <1>12, <1>13

LEMMA ProcedureGo ==
    ASSUME TypeOK, Outcomes, NEW t \in Threads, Procedure(t)
    PROVE  Goes(t)
BY MovesGo, HoldsGo, StopsGo, RestGo DEF Procedure

\* The queue loop begins with _physical_lock.
LEMMA QueueStarts ==
    ASSUME TypeOK, NEW ls \in Exclusive, Begins(Queue, ls), Start(Queue, ls),
           physLock = None, physLock' = Queue, op'.lease = None, action' = action
    PROVE  AllMoved
<1>1. Queue \in Threads /\ ls # <<"prepared">>
  BY ThreadsDistinct DEF Threads, Begins
<1>3. Called(Queue, ls)
  BY <1>1, ThreadsDistinct DEF Called
<1>4. QED
  BY <1>1, <1>3, StartMoved

\* A tick that pauses the queue has left _physical_lock before it.
LEMMA QueuePauses ==
    ASSUME TypeOK, Ordered, Mutex, NEW l \in {"rested_late", "tick_end"}, At(Queue, l),
           Jump(Queue, <<"pause">>), physLock' = None, UNCHANGED action
    PROVE  Goes(Queue)
<1>1. Queue \in Threads /\ l \in Locked
  BY DEF Threads, Locked
<1>2. physLock = Queue
  BY <1>1, AtOwner
<1>3. /\ Leads(l, <<"pause">>) /\ Duly(Queue, l, <<"pause">>)
  BY Table DEF Duly, Moves
<1>4. stack[Queue] \in Seq(Labels) /\ stack[Queue] # <<>> /\ Head(stack[Queue]) = l
  BY <1>1 DEF TypeOK, At
<1>5. Tail(stack[Queue]) = <<>>
  <2>1. /\ Len(stack[Queue]) \in Nat \ {0} /\ stack[Queue][1] = l
        /\ DOMAIN stack[Queue] = 1 .. Len(stack[Queue])
    BY <1>4, Push, EmptySeq
  <2>2. CASE Len(stack[Queue]) > 1
    <3>1. 1 \in DOMAIN stack[Queue] /\ 2 \in DOMAIN stack[Queue] /\ 1 < 2
      BY <2>1, <2>2
    <3>2. Above(l, stack[Queue][2])
      BY <1>1, <2>1, <3>1 DEF Ordered, Stacked
    <3>3. QED
      BY <3>2 DEF Above, Moves, Pausing, Holding, Releasing, LaunchSteps, HomeSteps, ParkSteps, Stops
  <2>3. CASE Len(stack[Queue]) = 1
    <3>1. Tail(stack[Queue]) \in Seq(Labels) /\ Len(Tail(stack[Queue])) = 0
      BY <1>4, <2>3, HeadTailProperties
    <3>2. QED
      BY <3>1, EmptySeq
  <2>4. QED
    BY <2>1, <2>2, <2>3
<1>6. stack' = [stack EXCEPT ![Queue] = <<"pause">> \o <<>>]
  BY <1>5 DEF Jump
<1>7. stack'[Queue] = <<"pause">>
  BY <1>1, <1>6, ConcatEmptySeq DEF TypeOK
<1>8. QED
  BY <1>1, <1>2, <1>3, <1>7, JumpDuly, Types DEF Locking

LEMMA QueueMoved ==
    ASSUME TypeOK, Ordered, Mutex, QueueStep
    PROVE  AllMoved
<1>1. Queue \in Threads /\ Queue \in Panel \cup {Queue, Client, Poller}
  BY DEF Threads
<1>2. CASE TickFault \/ HandoffEnds \/ TickStart
  <2>1. CASE TickFault
    BY <1>1, <2>1, StartPlain DEF TickFault, Begins, Exclusive
  <2>2. CASE HandoffEnds \/ TickStart
    <3>1. op'.lease = None /\ physLock = None /\ physLock' = Queue /\ action' = action
      BY <2>2, Types DEF HandoffEnds, TickStart, CompletionEligible, Eligible, Unowned, Ops
    <3>2. \E ls \in {<<"park", "rested_late">>, <<"claim_launch">>, <<"claim_next">>,
                    <<"claim_scene">>} : Start(Queue, ls)
      BY <2>2 DEF HandoffEnds, TickStart
    <3>3. QED
      BY <3>1, <3>2, QueueStarts DEF Begins, Exclusive
  <2>3. QED
    BY <1>2, <2>1, <2>2
<1>3. CASE RestedLate
  BY <1>1, <1>3, ReturnPlain, GoPlain, QueuePauses, Table, GoesMoved
  DEF RestedLate, Finish, Duties, Results
<1>4. CASE Claim
  <2>1. PICK l \in {"claim_launch", "claim_next", "claim_scene"} :
            /\ At(Queue, l)
            /\ \E waiting \in BOOLEAN, saves \in BOOLEAN :
                  Go(Queue, CASE ~saves -> <<"start_failed">>
                              [] l = "claim_launch" -> <<"launch", "seek">>
                              [] l = "claim_scene"  -> <<"home", "scene">>
                              [] OTHER -> IF waiting /\ queue.enabled /\ op.connected
                                          THEN <<"seek">> ELSE Rest)
    BY <1>4 DEF Claim
  <2>2. \E ls : Leads(l, ls) /\ Go(Queue, ls)
    <3>1. CASE l = "claim_launch"
      BY <2>1, <3>1, Table
    <3>2. CASE l = "claim_scene"
      BY <2>1, <3>2, Table
    <3>3. CASE l = "claim_next"
      BY <2>1, <3>3, Table DEF Rest
    <3>4. QED
      BY <2>1, <3>1, <3>2, <3>3
  <2>3. QED
    BY <1>1, <2>1, <2>2, GoPlain, GoesMoved DEF Duties
<1>5. CASE Seek
  BY <1>1, <1>5, GoPlain, Table, GoesMoved DEF Seek, Checked, Go, Rest, Duties
<1>6. CASE SeekHome
  BY <1>1, <1>6, GoPlain, Table, GoesMoved DEF SeekHome, Checked, Go, Rest, Duties
<1>7. CASE SceneHome
  BY <1>1, <1>7, GoPlain, Table, GoesMoved DEF SceneHome, Checked, Go, Rest, Duties
<1>8. CASE Grant
  BY <1>1, <1>8, GoPlain, Table, GoesMoved DEF Grant, Checked, Duties
<1>9. CASE RestedEarly
  BY <1>1, <1>9, GoPlain, Table, GoesMoved DEF RestedEarly, Duties
<1>10. CASE StartFailed
  BY <1>1, <1>10, GoPlain, Table, GoesMoved DEF StartFailed, Duties
<1>11. CASE StartCancelled
  BY <1>1, <1>11, GoPlain, Table, GoesMoved DEF StartCancelled, Duties
<1>12. CASE TickEnd
  BY <1>1, <1>12, ReturnPlain, QueuePauses, Table, GoesMoved DEF TickEnd, Finish, Duties, Results
<1>13. QED
  BY <1>2, <1>3, <1>4, <1>5, <1>6, <1>7, <1>8, <1>9, <1>10, <1>11, <1>12 DEF QueueStep

LEMMA WaypathMoved ==
    ASSUME TypeOK, WaypathEnd \/ WaypathHeld
    PROVE  AllMoved
<1>1. Waypath \in Threads
  BY DEF Threads
<1>2. QED
  BY <1>1, ReturnPlain, GoPlain, Table, GoesMoved DEF WaypathEnd, WaypathHeld, Finish, Duties, Results

LEMMA WatchMoved ==
    ASSUME TypeOK, NEW w \in Watchdogs, WatchStep(w)
    PROVE  AllMoved
<1>1. w \in Threads
  BY DEF Threads
<1>2. CASE WatchEnds(w)
  <2>1. Duly(w, "watch", <<>>)
    BY DEF Duly, Moves
  <2>2. QED
    BY <1>1, <1>2, <2>1, ReturnDuly, Table, GoesMoved DEF WatchEnds, Finish, Results
<1>3. CASE Expire(w)
  <2>1. physLock = None /\ physLock' = w /\ At(w, "watch") /\ Jump(w, <<"hold", "expired">>)
        /\ action' \in Actions
    BY <1>3, Types DEF Expire
  <2>2. Duly(w, "watch", <<"hold", "expired">>) /\ Locking(w)
    BY <2>1, ThreadsDistinct DEF Duly, Moves, Locking
  <2>3. QED
    BY <1>1, <2>1, <2>2, JumpDuly, Table, GoesMoved
<1>4. CASE Expired(w)
  BY <1>1, <1>4, ReturnPlain, GoPlain, Table, GoesMoved DEF Expired, Finish, Duties, Results
<1>5. QED
  BY <1>2, <1>3, <1>4 DEF WatchStep

LEMMA ExecutorMoved ==
    ASSUME TypeOK, NEW e \in Executors, ExecutorStep(e)
    PROVE  AllMoved
<1>1. e \in Threads
  BY DEF Threads
<1>2. CASE Execute(e)
  BY <1>1, <1>2, ReturnPlain, GoPlain, Table, GoesMoved DEF Execute, Finish, Duties, Results
<1>3. CASE Acted(e) \/ Replan(e)
  BY <1>1, <1>3, ReturnPlain, GoPlain, Table, GoesMoved DEF Acted, Replan, Finish, Duties, Results
<1>4. CASE TrajectoryFailed(e) \/ CommandFailed(e)
  <2>1. CASE TrajectoryFailed(e)
    <3>1. PICK h \in {"act_failed", "played"} :
              At(e, h) /\ (Go(e, <<"holding">>) \/ Return(e, "none"))
      BY <2>1 DEF TrajectoryFailed, Finish
    <3>2. h \notin Duties /\ Leads(h, <<>>) /\ Leads(h, <<"holding">>) /\ "none" \in Results
      BY <3>1, Table DEF Duties, Results
    <3>3. Goes(e)
      BY <1>1, <3>1, <3>2, ReturnPlain, GoPlain
    <3>4. QED
      BY <1>1, <3>3, GoesMoved
  <2>2. CASE CommandFailed(e)
    <3>1. At(e, "acted") /\ (Go(e, <<"recover">>) \/ Return(e, "none"))
      BY <2>2 DEF CommandFailed, Finish
    <3>2. /\ "acted" \notin Duties /\ Leads("acted", <<>>) /\ Leads("acted", <<"recover">>)
          /\ "none" \in Results
      BY Table DEF Duties, Results
    <3>3. Goes(e)
      BY <1>1, <3>1, <3>2, ReturnPlain, GoPlain
    <3>4. QED
      BY <1>1, <3>3, GoesMoved
  <2>3. QED
    BY <1>4, <2>1, <2>2
<1>5. CASE Recover(e)
  <2>1. /\ At(e, "recover") /\ physLock = None
        /\ \/ /\ physLock' = e /\ Jump(e, <<"pause_clear", "hold", "recovering">>)
              /\ action' \in Actions
           \/ Return(e, "none")
    BY <1>5, Types DEF Recover, Finish
  <2>2. /\ Duly(e, "recover", <<>>)
        /\ physLock' = e => /\ Duly(e, "recover", <<"pause_clear", "hold", "recovering">>)
                            /\ Locking(e)
    BY <2>1, ThreadsDistinct DEF Duly, Moves, Locking
  <2>3. QED
    BY <1>1, <2>1, <2>2, ReturnDuly, JumpDuly, Table, GoesMoved DEF Results
<1>6. CASE Recovering(e)
  BY <1>1, <1>6, GoPlain, Table, GoesMoved DEF Recovering, Duties
<1>7. CASE ParkedOrNot(e) \/ Recovered(e)
  BY <1>1, <1>7, ReturnPlain, GoPlain, Table, GoesMoved DEF ParkedOrNot, Recovered, Finish, Duties, Results
<1>8. QED
  BY <1>2, <1>3, <1>4, <1>5, <1>6, <1>7 DEF ExecutorStep

\* Under "enter" stands the order.
LEMMA EntersOrder ==
    ASSUME TypeOK, Ordered, NEW p \in Threads, At(p, "enter")
    PROVE  Len(stack[p]) >= 2 /\ stack[p][2] \in MoveOrders
<1>1. stack[p] \in Seq(Labels) /\ stack[p] # <<>> /\ Head(stack[p]) = "enter"
  BY DEF TypeOK, At
<1>2. /\ Len(stack[p]) \in Nat \ {0} /\ stack[p][1] = "enter"
      /\ DOMAIN stack[p] = 1 .. Len(stack[p])
  BY <1>1, Push
<1>3. Len(stack[p]) >= 2
  BY <1>2 DEF Ordered, Stacked
<1>4. 1 \in DOMAIN stack[p] /\ 2 \in DOMAIN stack[p] /\ 1 < 2
  BY <1>2, <1>3
<1>5. Above("enter", stack[p][2])
  BY <1>2, <1>4 DEF Ordered, Stacked
<1>6. QED
  BY <1>3, <1>5
  DEF Above, Moves, Pausing, Holding, Releasing, LaunchSteps, HomeSteps, ParkSteps, Stops

LEMMA PanelMoved ==
    ASSUME TypeOK, Ordered, Mutex, NEW p \in Panel, PanelStep(p)
    PROVE  AllMoved
<1>1. /\ p \in Threads /\ p \in Panel \cup {Queue, Client, Poller} /\ None \notin Threads
      /\ stack \in [Threads -> Seq(Labels)] /\ out \in [Threads -> Results]
      /\ physLock \in Threads \cup {None}
  BY ThreadsDistinct DEF Threads, TypeOK
<1>2. CASE PressStop(p)
  BY <1>1, <1>2, StartPlain DEF PressStop, Begins, Exclusive
<1>3. CASE PressOn(p)
  BY <1>3, StillMoved DEF PressOn
<1>4. CASE PressMove(p)
  BY <1>1, <1>4, StartPlain DEF PressMove, Begins, MoveOrders, Exclusive
<1>5. CASE Enter(p)
  <2>1. /\ stack[p][2] \in MoveOrders /\ At(p, "enter") /\ physLock = None
        /\ MoveOrders \subseteq Labels
    BY <1>1, <1>5, EntersOrder DEF Enter, MoveOrders, Labels
  <2>2. PICK ls \in {<<>>, <<stack[p][2]>>, <<"launch", "launch_result">>} :
            /\ stack' = [stack EXCEPT ![p] = ls] /\ out' = out /\ action' = action
            /\ \/ ls = <<>> /\ physLock' = None
               \/ physLock' = p
    BY <1>5 DEF Enter
  <2>3. ls \in Seq(Labels)
    <3>1. "launch" \in Labels /\ "launch_result" \in Labels
      BY DEF Labels
    <3>2. <<"launch", "launch_result">> \in Seq(Labels)
      BY <3>1
    <3>3. <<stack[p][2]>> \in Seq(Labels) /\ <<>> \in Seq(Labels)
      BY <2>1
    <3>4. QED
      BY <2>2, <3>2, <3>3
  <2>4. \A t \in Threads : Moved(t) /\ Leaves(t)
    BY <1>1, <2>1, <2>2 DEF Moved, Enters, Leaves
  <2>5. physLock' # Queue
    BY <1>1, <2>2, ThreadsDistinct DEF Threads
  <2>6. QED
    BY <1>1, <2>2, <2>3, <2>4, <2>5, Types DEF AllMoved
<1>6. CASE LaunchResult(p) \/ RunPolicy(p)
  <2>1. \/ At(p, "launch_result") /\ Return(p, "none")
        \/ At(p, "run_policy") /\ Return(p, "none")
    BY <1>6 DEF LaunchResult, RunPolicy, Finish
  <2>2. /\ "launch_result" \notin Duties /\ "run_policy" \notin Duties /\ "none" \in Results
        /\ Leads("launch_result", <<>>) /\ Leads("run_policy", <<>>)
    BY Table DEF Duties, Results
  <2>3. Goes(p)
    BY <1>1, <2>1, <2>2, ReturnPlain
  <2>4. QED
    BY <1>1, <2>3, GoesMoved
<1>7. CASE WristTest(p) \/ WristEnd(p)
  <2>1. PICK h \in {"wrist", "wrist_end"} :
            /\ At(p, h)
            /\ Return(p, "none") \/ (h = "wrist" /\ Go(p, <<"move", "wrist_end">>))
    BY <1>7 DEF WristTest, WristEnd, Finish
  <2>2. /\ h \notin Duties /\ Leads(h, <<>>) /\ "none" \in Results
        /\ Leads("wrist", <<"move", "wrist_end">>)
    BY <2>1, Table DEF Duties, Results
  <2>3. Goes(p)
    BY <1>1, <2>1, <2>2, ReturnPlain, GoPlain
  <2>4. QED
    BY <1>1, <2>3, GoesMoved
<1>8. CASE StartWaypath(p)
  <2>1. /\ \/ /\ stack' = [stack EXCEPT ![p] = <<>>, ![Waypath] = <<"move", "waypath_end">>]
              /\ Idle(Waypath)
           \/ stack' = [stack EXCEPT ![p] = <<>>, ![Waypath] = stack[Waypath]]
        /\ out' = out /\ physLock' = None /\ At(p, "waypath") /\ action' = action
    BY <1>8 DEF StartWaypath
  <2>2. /\ Waypath \in Threads /\ p # Waypath /\ <<>> \in Seq(Labels) /\ "waypath" \in Locked
        /\ <<"move", "waypath_end">> \in Seq(Labels) /\ Begins(Waypath, <<"move", "waypath_end">>)
    BY ThreadsDistinct, BeginsTyped, EmptySeq DEF Threads, Begins, Locked, MoveOrders
  <2>3. physLock = p
    BY <1>1, <2>1, <2>2, AtOwner
  <2>4. Called(Waypath, <<"move", "waypath_end">>)
    BY <2>1, ThreadsDistinct DEF Called, Exclusive
  <2>5. stack' \in [Threads -> Seq(Labels)]
    BY <1>1, <2>1, <2>2
  <2>6. \A t \in Threads : Moved(t)
    BY <1>1, <2>1, <2>2, <2>4 DEF Moved, Gone
  <2>7. \A t \in Threads : Leaves(t)
    BY <1>1, <2>1, <2>2, <2>3 DEF Leaves
  <2>8. QED
    BY <1>1, <2>1, <2>5, <2>6, <2>7, ThreadsDistinct, Types DEF AllMoved
<1>9. QED
  BY <1>2, <1>3, <1>4, <1>5, <1>6, <1>7, <1>8 DEF PanelStep

LEMMA ClientMoved ==
    ASSUME TypeOK, Ordered, Mutex, Granting, ClientStep
    PROVE  AllMoved
<1>1. /\ Client \in Threads /\ Client \in Panel \cup {Queue, Client, Poller}
      /\ stack \in [Threads -> Seq(Labels)] /\ out \in [Threads -> Results]
      /\ physLock \in Threads \cup {None} /\ None \notin Threads /\ <<>> \in Seq(Labels)
  BY ThreadsDistinct, EmptySeq DEF Threads, TypeOK
<1>2. CASE Prepare
  <2>1. PICK w \in Watchdogs : /\ FreshRun(w) /\ w # Client
                              /\ op' = [op EXCEPT !.lease = w, !.offer = w, !.mode = "API_ACTIVE"]
    BY <1>2, ThreadsDistinct DEF Prepare
  <2>2. /\ op'.lease = w /\ op'.offer = w /\ Idle(w) /\ stack' = [stack EXCEPT ![Client] = <<"prepared">>]
        /\ physLock' = Client /\ w \in Threads
    BY <1>2, <2>1, Types DEF Prepare, Start, FreshRun, Ops, Threads
  <2>3. Idle(op'.offer) /\ stack'[op'.offer] = <<>>
    BY <1>1, <2>1, <2>2 DEF Idle
  <2>4. Called(Client, <<"prepared">>)
    BY <2>2, <2>3, ThreadsDistinct DEF Called
  <2>5. QED
    BY <1>1, <1>2, <2>4, StartMoved DEF Prepare, Begins, Exclusive
<1>3. CASE Prepared
  <2>1. At(Client, "prepared") /\ op.offer \in Watchdogs /\ Idle(op.offer) /\ op \in Ops /\ arm' = arm
    BY <1>3, Types DEF Prepared, Granting
  <2>2. op.offer \in Threads /\ op.offer # Client /\ Begins(op.offer, <<"watch">>)
        /\ <<"watch">> \in Seq(Labels)
    BY <2>1, ThreadsDistinct, BeginsTyped DEF Threads, Begins
  <2>3. /\ stack' = [stack EXCEPT ![Client] = <<>>,
                                  ![op.offer] = IF arm.link THEN <<"watch">> ELSE @]
        /\ out' = out /\ physLock' = None /\ action' = action
        /\ stack'[Client] = <<>> /\ Called(op.offer, <<"watch">>)
    <3>1. /\ stack' = [stack EXCEPT ![Client] = <<>>,
                                    ![op.offer] = IF arm.link THEN <<"watch">> ELSE @]
          /\ out' = out /\ physLock' = None /\ action' = action
      BY <1>3 DEF Prepared
    <3>2. stack'[Client] = <<>>
      BY <1>1, <2>2, <3>1
    <3>3. QED
      BY <2>1, <3>1, <3>2, ThreadsDistinct DEF Called, Exclusive
  <2>4. Gone(Client)
    BY <1>3, <2>1 DEF Gone, Prepared, Ops
  <2>5. physLock = Client
    BY <1>1, <2>1, AtOwner DEF Locked
  <2>6. stack' \in [Threads -> Seq(Labels)]
    BY <1>1, <2>2, <2>3
  <2>7. \A t \in Threads : Moved(t)
    BY <1>1, <2>1, <2>2, <2>3, <2>4 DEF Moved
  <2>8. \A t \in Threads : Leaves(t)
    BY <1>1, <2>2, <2>3, <2>5 DEF Leaves
  <2>9. QED
    BY <1>1, <2>3, <2>6, <2>7, <2>8, ThreadsDistinct, Types DEF AllMoved
<1>4. CASE Receive
  BY <1>1, <1>4, StartPlain DEF Receive, Begins, Exclusive
<1>5. CASE Validate
  <2>1. /\ At(Client, "validate") /\ physLock = None
        /\ \/ Go(Client, <<"accept">>) \/ Go(Client, <<"stopping">>) \/ Return(Client, "none")
    BY <1>5 DEF Validate, Finish
  <2>2. \A ls : Duly(Client, "validate", ls)
    BY <2>1 DEF Duly, Moves
  <2>3. QED
    BY <1>1, <2>1, <2>2, ReturnDuly, GoDuly, Table, GoesMoved DEF Results
<1>6. CASE Accept
  <2>1. At(Client, "accept")
    BY <1>6 DEF Accept
  <2>2. CASE StillAuthorized
    <3>1. PICK e \in Executors, k \in {"trajectory", "command"} :
              /\ Idle(e) /\ stack' = [stack EXCEPT ![Client] = <<>>, ![e] = <<k>>]
              /\ out' = out /\ physLock' = physLock
              /\ action' = [action EXCEPT ![e] = [run |-> op.offer, cancelled |-> FALSE]]
      BY <1>6, <2>2 DEF Accept
    <3>2. e \in Threads /\ e # Client /\ Begins(e, <<k>>) /\ Called(e, <<k>>)
          /\ <<k>> \in Seq(Labels)
      BY <2>1, <3>1, ThreadsDistinct, BeginsTyped DEF Threads, Begins, Called, Exclusive
    <3>3. stack' \in [Threads -> Seq(Labels)]
      BY <1>1, <3>1, <3>2
    <3>4. \A t \in Threads : Moved(t)
      BY <1>1, <2>1, <3>1, <3>2 DEF Moved, Gone
    <3>5. action' \in Actions
      BY <3>1, Types DEF Actions, Ops
    <3>6. QED
      BY <1>1, <3>1, <3>3, <3>4, <3>5 DEF AllMoved, Leaves
  <2>3. CASE ~StillAuthorized
    <3>1. Return(Client, "none")
      BY <1>6, <2>3 DEF Accept, Finish
    <3>2. QED
      BY <1>1, <2>1, <3>1, ReturnPlain, Table, GoesMoved DEF Duties, Results
  <2>4. QED
    BY <2>2, <2>3
<1>7. CASE StopSession
  BY <1>1, <1>7, StartPlain DEF StopSession, Begins, Exclusive
<1>8. CASE CloseFaulted
  <2>1. op'.lease = None
    BY <1>8, Types, RevokeLease DEF CloseFaulted, Ops
  <2>2. Duly(Client, "close", <<>>)
    BY <2>1 DEF Duly, Moves
  <2>3. QED
    BY <1>1, <1>8, <2>2, ReturnDuly, Table, GoesMoved DEF CloseFaulted, Finish, Results
<1>9. CASE Ended
  BY <1>1, <1>9, ReturnPlain, Table, GoesMoved DEF Ended, Finish, Duties, Results
<1>10. CASE Connects \/ TransportPauses
  BY <1>10, StillMoved DEF Connects, TransportPauses
<1>11. CASE Disconnects
  BY <1>1, <1>11, StartPlain, StillMoved DEF Disconnects, Begins, Exclusive
<1>12. QED
  BY <1>2, <1>3, <1>4, <1>5, <1>6, <1>7, <1>8, <1>9, <1>10, <1>11 DEF ClientStep

LEMMA EnvironmentMoved ==
    ASSUME TypeOK, Environment
    PROVE  AllMoved
<1>1. CASE PollFindsFault
  <2>1. Poller \in Threads
    BY DEF Threads
  <2>2. QED
    BY <1>1, <2>1, StartPlain DEF PollFindsFault, Begins, Exclusive
<1>2. CASE ServoFault \/ LinkLost
  BY <1>2, StillMoved DEF ServoFault, LinkLost
<1>3. CASE Crash
  <2>1. /\ stack' = [t \in Threads |-> <<>>] /\ out' = [t \in Threads |-> "none"]
        /\ physLock' = None /\ <<>> \in Seq(Labels) /\ "none" \in Results /\ action' \in Actions
    BY <1>3, EmptySeq DEF Crash, Results, Actions, NoAction
  <2>2. QED
    BY <1>3, <2>1, ThreadsDistinct DEF AllMoved, Moved, Gone, Leaves
<1>4. QED
  BY <1>1, <1>2, <1>3 DEF Environment

LEMMA NextMoved ==
    ASSUME TypeOK, Ordered, Outcomes, Mutex, Granting, Next
    PROVE  AllMoved
<1>1. CASE Environment
  BY <1>1, EnvironmentMoved
<1>2. ASSUME NEW t \in Threads, Step(t) PROVE AllMoved
  BY <1>2, ProcedureGo, GoesMoved, QueueMoved, ClientMoved, WaypathMoved, PanelMoved, WatchMoved,
     ExecutorMoved
  DEF Step
<1>3. QED
  BY <1>1, <1>2 DEF Next

----------------------------------------------------------------------------
(* What stands above what.                                                 *)

LEMMA LeadsAbove ==
    ASSUME NEW h, NEW ls \in Seq(Labels), Leads(h, ls), NEW i \in DOMAIN ls, NEW l, Above(h, l)
    PROVE  Above(ls[i], l)
<1>1. CASE Len(ls) = 1
  BY <1>1 DEF Leads, Above, MoveEnds, Moves, Pausing, Holding, Releasing, LaunchSteps, HomeSteps,
              ParkSteps, Stops, MoveOrders
<1>2. CASE Len(ls) = 2
  <2>1. \/ h = "hold" /\ ls = <<"holding", "held">>
        \/ h = "stop" /\ ls = <<"pause_clear", "torque_off">>
        \/ h = "torque_off" /\ ls = <<"stopping", "stopped">>
        \/ h = "homing" /\ ls = <<"move", "homed">>
        \/ h \in {"homed", "remeasured", "at_zero"} /\ ls = <<"pause_clear", "fault">>
        \/ h = "homed" /\ ls = <<"hold_measured", "remeasured">>
        \/ h = "parking" /\ ls = <<"move", "at_zero">>
        \/ h = "at_zero" /\ ls = <<"torque_off", "receipt">>
        \/ h \in {"claim_launch", "claim_next", "claim_scene", "seek", "at_home", "scene",
                  "start_failed", "cancelled", "wrist", "waypath_end", "watch", "trajectory",
                  "command", "recovering", "parked_or_not"}
    <3>1. ls # <<>>
      BY <1>2
    <3>2. ASSUME NEW a PROVE ls # <<a>>
      BY <1>2
    <3>3. ASSUME NEW a, NEW b, NEW c PROVE ls # <<a, b, c>>
      BY <1>2
    <3>4. QED
      BY <3>1, <3>2, <3>3 DEF Leads
  <2>2. h \notin {"claim_launch", "claim_next", "claim_scene", "seek", "at_home", "scene",
                  "start_failed", "cancelled", "wrist", "waypath_end", "watch", "trajectory",
                  "command", "recovering", "parked_or_not"}
    BY DEF Above, Moves, Pausing, Holding, Releasing, LaunchSteps, HomeSteps, ParkSteps, Stops
  <2>3. \E a, b : ls = <<a, b>> /\ Above(a, l) /\ Above(b, l)
    BY <2>1, <2>2
    DEF Above, MoveEnds, Moves, Pausing, Holding, Releasing, LaunchSteps, HomeSteps, ParkSteps,
        Stops, MoveOrders
  <2>4. QED
    BY <2>3
<1>3. CASE Len(ls) \notin {1, 2}
  BY <1>3 DEF Leads, Above, MoveEnds, Moves, Pausing, Holding, Releasing, LaunchSteps, HomeSteps,
              ParkSteps, Stops, MoveOrders
<1>4. QED
  BY <1>1, <1>2, <1>3

LEMMA LeadsOrdered ==
    ASSUME NEW h, NEW ls \in Seq(Labels), Leads(h, ls), NEW i \in DOMAIN ls
    PROVE  /\ \A j \in DOMAIN ls : i < j => Above(ls[i], ls[j])
           /\ ls[i] \in Moves => \/ i + 1 \in DOMAIN ls /\ ls[i + 1] \in MoveEnds
                                 \/ h \in Moves /\ i = Len(ls)
           /\ ls[i] \in Waiting => \/ i + 1 \in DOMAIN ls /\ ls[i + 1] \in {"held", "waypath_held"}
                                   \/ h \in Waiting \cup {"played", "act_failed"} /\ i = Len(ls)
           /\ ls[i] # "enter"
<1>1. \A j \in DOMAIN ls : i < j => Above(ls[i], ls[j])
  BY DEF Leads, Above, MoveEnds, Moves, Pausing, Holding, Releasing, LaunchSteps, HomeSteps,
         ParkSteps, Stops, MoveOrders
<1>2. ls[i] \in Moves => \/ i + 1 \in DOMAIN ls /\ ls[i + 1] \in MoveEnds
                         \/ h \in Moves /\ i = Len(ls)
  BY DEF Leads, Moves, MoveEnds
<1>3. ls[i] # "enter"
  BY DEF Leads
<1>4. ls[i] \in Waiting => \/ i + 1 \in DOMAIN ls /\ ls[i + 1] \in {"held", "waypath_held"}
                           \/ h \in Waiting \cup {"played", "act_failed"} /\ i = Len(ls)
  BY DEF Leads, Waiting
<1>5. QED
  BY <1>1, <1>2, <1>3, <1>4

LEMMA BeginsStacked == ASSUME NEW t, NEW ls \in Seq(Labels), Begins(t, ls) PROVE Stacked(ls)
<1>1. CASE \E a : ls = <<a>> /\ a \notin Moves \cup Waiting /\ a # "enter"
  BY <1>1 DEF Stacked
<1>2. CASE \E a, b : /\ ls = <<a, b>> /\ Above(a, b) /\ (a \in Moves => b \in MoveEnds)
                     /\ a \notin Waiting /\ b \notin Moves \cup Waiting /\ b # "enter"
  BY <1>2 DEF Stacked
<1>3. CASE \E o \in MoveOrders : ls = <<"pause", "enter", o>>
  <2>1. PICK o \in MoveOrders : ls = <<"pause", "enter", o>>
    BY <1>3
  <2>2. Above("pause", "enter") /\ Above("pause", o) /\ Above("enter", o)
    BY DEF Above
  <2>3. /\ o \notin Moves \cup Waiting /\ o # "enter"
        /\ "pause" \notin Moves \cup Waiting /\ "enter" \notin Moves \cup Waiting
    BY DEF MoveOrders, Moves, Waiting
  <2>4. DOMAIN ls = 1 .. 3 /\ Len(ls) = 3 /\ ls[1] = "pause" /\ ls[2] = "enter" /\ ls[3] = o
    BY <2>1
  <2>5. QED
    BY <2>2, <2>3, <2>4 DEF Stacked
<1>4. Above("park", "rested_late") /\ Above("pause_clear", "stop") /\ Above("pause_clear", "close")
      /\ Above("hold", "ended") /\ Above("pause_clear", "fault") /\ Above("move", "waypath_end")
      /\ \A o \in MoveOrders : Above("enter", o) /\ o \notin Moves \cup Waiting /\ o # "enter"
  BY DEF Above, Moves, Waiting, Pausing, Holding, ParkSteps, MoveEnds, MoveOrders
<1>5. QED
  BY <1>1, <1>2, <1>3, <1>4 DEF Begins, Moves, Waiting, MoveEnds

LEMMA PushStacked ==
    ASSUME NEW s \in Seq(Labels), s # <<>>, Stacked(s), NEW ls \in Seq(Labels),
           Leads(Head(s), ls)
    PROVE  Stacked(ls \o Tail(s))
<1> DEFINE n == Len(ls)
           k == Len(s)
           r == ls \o Tail(s)
<1>1. /\ n \in Nat /\ k \in Nat \ {0} /\ Head(s) = s[1] /\ DOMAIN s = 1 .. k
      /\ DOMAIN ls = 1 .. n /\ DOMAIN r = 1 .. (n + k - 1) /\ Len(r) = n + k - 1
      /\ \A i \in 1 .. n : r[i] = ls[i]
      /\ \A i \in (n + 1) .. (n + k - 1) : r[i] = s[i - n + 1]
  BY Push
<1> HIDE DEF n, k, r
<1>2. ASSUME NEW i \in DOMAIN r, NEW j \in DOMAIN r, i < j PROVE Above(r[i], r[j])
  <2>1. CASE j <= n
    <3>1. i \in DOMAIN ls /\ j \in DOMAIN ls /\ r[i] = ls[i] /\ r[j] = ls[j]
      BY <1>1, <1>2, <2>1
    <3>2. QED
      BY <1>2, <3>1, LeadsOrdered
  <2>2. CASE i <= n /\ j > n
    <3>1. i \in DOMAIN ls /\ r[i] = ls[i]
      BY <1>1, <1>2, <2>2
    <3>2. j - n + 1 \in DOMAIN s /\ r[j] = s[j - n + 1] /\ 1 \in DOMAIN s /\ 1 < j - n + 1
      BY <1>1, <1>2, <2>2
    <3>3. Above(Head(s), r[j])
      BY <1>1, <3>2 DEF Stacked
    <3>4. QED
      BY <3>1, <3>3, LeadsAbove
  <2>3. CASE i > n
    <3>1. /\ i - n + 1 \in DOMAIN s /\ r[i] = s[i - n + 1]
          /\ j - n + 1 \in DOMAIN s /\ r[j] = s[j - n + 1] /\ i - n + 1 < j - n + 1
      BY <1>1, <1>2, <2>3
    <3>2. QED
      BY <3>1 DEF Stacked
  <2>4. QED
    BY <1>1, <1>2, <2>1, <2>2, <2>3
<1>3. ASSUME NEW i \in DOMAIN r, r[i] \in Moves PROVE i < Len(r) /\ r[i + 1] \in MoveEnds
  <2>1. CASE i <= n
    <3>1. i \in DOMAIN ls /\ r[i] = ls[i]
      BY <1>1, <1>3, <2>1
    <3>2. CASE i + 1 \in DOMAIN ls /\ ls[i + 1] \in MoveEnds
      BY <1>1, <3>1, <3>2
    <3>3. CASE Head(s) \in Moves /\ i = n
      <4>1. 1 < k /\ s[2] \in MoveEnds
        BY <1>1, <3>3 DEF Stacked
      <4>2. n + 1 \in (n + 1) .. (n + k - 1) /\ (n + 1) - n + 1 = 2
        BY <1>1, <4>1
      <4>3. QED
        BY <1>1, <3>3, <4>1, <4>2
    <3>4. QED
      BY <1>1, <1>3, <3>1, <3>2, <3>3, LeadsOrdered
  <2>2. CASE i > n
    <3>1. i - n + 1 \in DOMAIN s /\ r[i] = s[i - n + 1]
      <4>1. i \in (n + 1) .. (n + k - 1)
        BY <1>1, <1>3, <2>2
      <4>2. QED
        BY <1>1, <4>1
    <3>2. i - n + 1 < k /\ s[i - n + 2] \in MoveEnds
      BY <1>1, <1>3, <3>1 DEF Stacked
    <3>3. i \in Int /\ n \in Nat /\ k \in Nat
      BY <1>1, <1>3
    <3>4. i + 1 \in (n + 1) .. (n + k - 1) /\ (i + 1) - n + 1 = i - n + 2
      BY <2>2, <3>2, <3>3
    <3>5. QED
      BY <1>1, <3>2, <3>4
  <2>3. QED
    BY <1>1, <1>3, <2>1, <2>2
<1>4. ASSUME NEW i \in DOMAIN r, r[i] = "enter" PROVE i < Len(r)
  <2>1. CASE i <= n
    <3>1. i \in DOMAIN ls /\ ls[i] = "enter"
      BY <1>1, <1>4, <2>1
    <3>2. QED
      BY <3>1, LeadsOrdered
  <2>2. CASE i > n
    <3>1. i - n + 1 \in DOMAIN s /\ s[i - n + 1] = "enter"
      BY <1>1, <1>4, <2>2
    <3>2. QED
      BY <1>1, <2>2, <3>1 DEF Stacked
  <2>3. QED
    BY <1>1, <1>4, <2>1, <2>2
<1>5. ASSUME NEW i \in DOMAIN r, r[i] \in Waiting, i < Len(r)
      PROVE  r[i + 1] \in {"held", "waypath_held"}
  <2>1. CASE i <= n
    <3>1. i \in DOMAIN ls /\ ls[i] \in Waiting
      BY <1>1, <1>5, <2>1
    <3>2. CASE i + 1 \in DOMAIN ls /\ ls[i + 1] \in {"held", "waypath_held"}
      BY <1>1, <3>1, <3>2
    <3>3. CASE Head(s) \in Waiting \cup {"played", "act_failed"} /\ i = n
      <4>1. 1 < k /\ 1 \in DOMAIN s /\ 2 \in DOMAIN s /\ 1 < 2
        BY <1>1, <1>5, <3>3
      <4>2. Above(Head(s), s[2])
        BY <1>1, <4>1 DEF Stacked
      <4>3. Head(s) \notin {"played", "act_failed"}
        BY <4>2 DEF Above, Moves, Pausing, Holding, Releasing, LaunchSteps, HomeSteps, ParkSteps,
                    Stops
      <4>4. s[2] \in {"held", "waypath_held"}
        BY <1>1, <3>3, <4>1, <4>3 DEF Stacked
      <4>5. n + 1 \in (n + 1) .. (n + k - 1) /\ (n + 1) - n + 1 = 2
        BY <1>1, <4>1
      <4>6. QED
        BY <1>1, <3>3, <4>4, <4>5
    <3>4. \/ i + 1 \in DOMAIN ls /\ ls[i + 1] \in {"held", "waypath_held"}
          \/ Head(s) \in Waiting \cup {"played", "act_failed"} /\ i = Len(ls)
      BY <3>1, LeadsOrdered
    <3>5. QED
      BY <3>2, <3>3, <3>4 DEF n
  <2>2. CASE i > n
    <3>1. i \in (n + 1) .. (n + k - 1)
      BY <1>1, <1>5, <2>2
    <3>2. i - n + 1 \in DOMAIN s /\ s[i - n + 1] \in Waiting /\ i - n + 1 < k
      BY <1>1, <1>5, <3>1
    <3>3. (i - n + 1) + 1 = i - n + 2 /\ Len(s) = k
      BY <1>1, <1>5 DEF k
    <3>4. s[i - n + 2] \in {"held", "waypath_held"}
      BY <3>2, <3>3 DEF Stacked
    <3>5. i + 1 \in (n + 1) .. (n + k - 1) /\ (i + 1) - n + 1 = i - n + 2
      BY <1>1, <1>5, <3>1
    <3>6. QED
      BY <1>1, <3>4, <3>5
  <2>3. QED
    BY <1>1, <1>5, <2>1, <2>2
<1>6. Stacked(r)
  BY <1>2, <1>3, <1>4, <1>5 DEF Stacked
<1>7. QED
  BY <1>6 DEF r

LEMMA NextOrdered ==
    ASSUME TypeOK, Ordered, AllMoved
    PROVE  Ordered'
<1> SUFFICES ASSUME NEW t \in Threads PROVE Stacked(stack'[t])
  BY DEF Ordered, Stacked
<1>1. stack[t] \in Seq(Labels) /\ Stacked(stack[t]) /\ Moved(t)
  BY DEF TypeOK, Ordered, AllMoved
<1>2. CASE stack'[t] = <<>>
  BY <1>2 DEF Stacked
<1>3. CASE ~Idle(t) /\ \E ls \in Seq(Labels) : Leads(Head(stack[t]), ls)
                                              /\ stack'[t] = ls \o Tail(stack[t])
  BY <1>1, <1>3, PushStacked DEF Idle
<1>4. CASE \E ls \in Seq(Labels) : Begins(t, ls) /\ stack'[t] = ls
  BY <1>4, BeginsStacked
<1>5. CASE Enters(t, stack'[t])
  <2>1. CASE stack'[t] = <<"launch", "launch_result">>
    <3>1. Above("launch", "launch_result")
      BY DEF Above, LaunchSteps
    <3>2. QED
      BY <2>1, <3>1 DEF Stacked, Moves, Waiting
  <2>2. CASE \E o \in MoveOrders : stack'[t] = <<o>>
    BY <2>2 DEF Stacked, MoveOrders, Moves, Waiting
  <2>3. QED
    BY <1>2, <1>5, <2>1, <2>2 DEF Enters
<1>6. QED
  BY <1>1, <1>2, <1>3, <1>4, <1>5 DEF Moved

----------------------------------------------------------------------------
(* The stack of a thread, label by label.                                  *)

\* A label of the new stack was there, or the top has led to it.
LEMMA MovedTo ==
    ASSUME TypeOK, NEW t \in Threads, ~Idle(t), NEW ls \in Seq(Labels),
           stack'[t] = ls \o Tail(stack[t])
    PROVE  /\ \A i \in DOMAIN stack'[t] :
                 \/ \E j \in DOMAIN ls : stack'[t][i] = ls[j]
                 \/ \E j \in DOMAIN stack[t] : j > 1 /\ stack'[t][i] = stack[t][j]
           /\ \A j \in DOMAIN stack[t] :
                 j > 1 => \E i \in DOMAIN stack'[t] : stack'[t][i] = stack[t][j]
           /\ stack[t] \in Seq(Labels) /\ stack[t] # <<>> /\ 1 \in DOMAIN stack[t]
           /\ DOMAIN stack[t] = 1 .. Len(stack[t]) /\ Len(stack[t]) \in Nat
           /\ Head(stack[t]) = stack[t][1]
<1>1. stack[t] \in Seq(Labels) /\ stack[t] # <<>>
  BY DEF TypeOK, Idle
<1>2. /\ Len(stack[t]) \in Nat \ {0} /\ Len(ls) \in Nat /\ Head(stack[t]) = stack[t][1]
      /\ DOMAIN stack[t] = 1 .. Len(stack[t]) /\ DOMAIN ls = 1 .. Len(ls)
      /\ DOMAIN stack'[t] = 1 .. (Len(ls) + Len(stack[t]) - 1)
      /\ \A i \in 1 .. Len(ls) : stack'[t][i] = ls[i]
      /\ \A i \in (Len(ls) + 1) .. (Len(ls) + Len(stack[t]) - 1) :
            stack'[t][i] = stack[t][i - Len(ls) + 1]
  BY <1>1, Push
<1>3. ASSUME NEW i \in DOMAIN stack'[t]
      PROVE  \/ \E j \in DOMAIN ls : stack'[t][i] = ls[j]
             \/ \E j \in DOMAIN stack[t] : j > 1 /\ stack'[t][i] = stack[t][j]
  <2>1. CASE i \in 1 .. Len(ls)
    BY <1>2, <2>1
  <2>2. CASE i \in (Len(ls) + 1) .. (Len(ls) + Len(stack[t]) - 1)
    <3>1. i - Len(ls) + 1 \in DOMAIN stack[t] /\ i - Len(ls) + 1 > 1
      BY <1>2, <2>2
    <3>2. QED
      BY <1>2, <2>2, <3>1
  <2>3. i \in 1 .. Len(ls) \/ i \in (Len(ls) + 1) .. (Len(ls) + Len(stack[t]) - 1)
    BY <1>2
  <2>4. QED
    BY <2>1, <2>2, <2>3
<1>4. ASSUME NEW j \in DOMAIN stack[t], j > 1
      PROVE  \E i \in DOMAIN stack'[t] : stack'[t][i] = stack[t][j]
  <2>1. j \in Int /\ Len(ls) \in Nat /\ Len(stack[t]) \in Nat /\ j <= Len(stack[t])
    BY <1>2
  <2>2. /\ j + Len(ls) - 1 \in (Len(ls) + 1) .. (Len(ls) + Len(stack[t]) - 1)
        /\ j + Len(ls) - 1 \in 1 .. (Len(ls) + Len(stack[t]) - 1)
        /\ (j + Len(ls) - 1) - Len(ls) + 1 = j
    BY <1>4, <2>1
  <2>3. QED
    BY <1>2, <2>2
<1>5. 1 \in DOMAIN stack[t]
  BY <1>2
<1>6. /\ \A i \in DOMAIN stack'[t] :
            \/ \E j \in DOMAIN ls : stack'[t][i] = ls[j]
            \/ \E j \in DOMAIN stack[t] : j > 1 /\ stack'[t][i] = stack[t][j]
      /\ \A j \in DOMAIN stack[t] :
            j > 1 => \E i \in DOMAIN stack'[t] : stack'[t][i] = stack[t][j]
  BY <1>3, <1>4
<1>7. QED
  BY <1>1, <1>2, <1>5, <1>6

\* What thread t stands at, it has been led to, or has come back to.
LEMMA MovedAt ==
    ASSUME TypeOK, Ordered, NEW t \in Threads, ~Idle(t), NEW ls \in Seq(Labels),
           stack'[t] = ls \o Tail(stack[t]), stack'[t] # <<>>, stack'[t] \in Seq(Labels)
    PROVE  \/ ls # <<>> /\ Head(stack'[t]) = Head(ls)
           \/ /\ ls = <<>> /\ Len(stack[t]) > 1 /\ Head(stack'[t]) = stack[t][2]
              /\ Above(Head(stack[t]), stack[t][2])
              /\ Head(stack[t]) \in Moves => stack[t][2] \in MoveEnds
              /\ Head(stack[t]) \in Waiting => stack[t][2] \in {"held", "waypath_held"}
<1>1. stack[t] \in Seq(Labels) /\ stack[t] # <<>> /\ Stacked(stack[t])
  BY DEF TypeOK, Idle, Ordered
<1>2. /\ Len(stack[t]) \in Nat \ {0} /\ Len(ls) \in Nat /\ Head(stack[t]) = stack[t][1]
      /\ DOMAIN stack[t] = 1 .. Len(stack[t]) /\ DOMAIN ls = 1 .. Len(ls)
      /\ DOMAIN stack'[t] = 1 .. (Len(ls) + Len(stack[t]) - 1)
      /\ \A i \in 1 .. Len(ls) : stack'[t][i] = ls[i]
      /\ \A i \in (Len(ls) + 1) .. (Len(ls) + Len(stack[t]) - 1) :
            stack'[t][i] = stack[t][i - Len(ls) + 1]
  BY <1>1, Push
<1>3. Len(stack'[t]) \in Nat \ {0} /\ Head(stack'[t]) = stack'[t][1]
      /\ DOMAIN stack'[t] = 1 .. Len(stack'[t])
  BY Push
<1>4. CASE ls # <<>>
  <2>1. Len(ls) >= 1 /\ Head(ls) = ls[1]
    BY <1>4, Push
  <2>2. stack'[t][1] = ls[1]
    BY <1>2, <2>1
  <2>3. QED
    BY <1>3, <1>4, <2>1, <2>2
<1>5. CASE ls = <<>>
  <2>1. Len(ls) = 0
    BY <1>5
  <2>2. Len(stack[t]) > 1 /\ stack'[t][1] = stack[t][2]
    <3>1. 1 \in 1 .. (Len(stack[t]) - 1)
      BY <1>2, <1>3, <2>1
    <3>2. 1 \in (Len(ls) + 1) .. (Len(ls) + Len(stack[t]) - 1) /\ 1 - Len(ls) + 1 = 2
      BY <1>2, <2>1, <3>1
    <3>3. QED
      BY <1>2, <3>1, <3>2
  <2>3. 1 \in DOMAIN stack[t] /\ 2 \in DOMAIN stack[t] /\ 1 < 2 /\ 1 + 1 = 2
    BY <1>2, <2>2
  <2>4. QED
    BY <1>1, <1>2, <1>3, <1>5, <2>2, <2>3 DEF Stacked
<1>6. QED
  BY <1>4, <1>5

----------------------------------------------------------------------------
(* Who comes where.                                                        *)

LEMMA LeadsOfKind ==
    ASSUME NEW t, NEW h, NEW ls \in Seq(Labels), Leads(h, ls), OfKind(t, h), NEW i \in DOMAIN ls
    PROVE  OfKind(t, ls[i])
<1>1. CASE h \in {"trajectory", "command", "played", "acted", "act_failed", "recover",
                  "recovering", "parked_or_not", "recovered"}
  <2>1. /\ t \in Executors
        /\ ls[i] \notin {"enter", "wrist", "wrist_end", "waypath", "run_policy", "launch_result",
                         "waypath_end", "waypath_held", "watch", "expired",
                         "prepared", "validate", "accept", "close", "ended",
                         "claim_launch", "claim_next", "claim_scene", "seek", "at_home", "scene",
                         "grant", "rested", "rested_late", "start_failed", "cancelled", "tick_end"}
    BY <1>1 DEF OfKind, Leads
  <2>2. QED
    BY <2>1 DEF OfKind
<1>2. CASE h \in {"wrist", "waypath_end", "watch", "expired", "validate"}
  BY <1>2 DEF OfKind, Leads
<1>3. CASE h \in {"claim_launch", "claim_next", "claim_scene", "seek", "at_home", "scene",
                  "grant", "rested", "rested_late", "start_failed", "cancelled", "tick_end"}
  <2>1. /\ t = Queue
        /\ ls[i] \notin {"enter", "wrist", "wrist_end", "waypath", "run_policy", "launch_result",
                         "waypath_end", "waypath_held", "watch", "expired",
                         "prepared", "validate", "accept", "close", "ended",
                         "trajectory", "command", "played", "acted", "act_failed", "recover",
                         "recovering", "parked_or_not", "recovered"}
    BY <1>3 DEF OfKind, Leads
  <2>2. QED
    BY <2>1 DEF OfKind
<1>4. CASE h \notin {"trajectory", "command", "played", "acted", "act_failed", "recover",
                  "recovering", "parked_or_not", "recovered",
                  "wrist", "waypath_end", "watch", "expired", "validate",
                  "claim_launch", "claim_next", "claim_scene", "seek", "at_home", "scene",
                  "grant", "rested", "rested_late", "start_failed", "cancelled", "tick_end"}
  <2>1. ls[i] \notin {"trajectory", "command", "played", "acted", "act_failed", "recover",
                  "recovering", "parked_or_not", "recovered", "enter", "wrist", "wrist_end",
                  "waypath", "run_policy", "launch_result", "waypath_end", "waypath_held",
                  "watch", "expired", "prepared", "validate", "accept", "close", "ended",
                  "claim_launch", "claim_next", "claim_scene", "seek", "at_home", "scene",
                  "grant", "rested", "rested_late", "start_failed", "cancelled", "tick_end"}
    BY <1>4 DEF Leads
  <2>2. QED
    BY <2>1 DEF OfKind
<1>5. QED
  BY <1>1, <1>2, <1>3, <1>4

LEMMA BeginsOfKind ==
    ASSUME NEW t, NEW ls \in Seq(Labels), Begins(t, ls), NEW i \in DOMAIN ls
    PROVE  OfKind(t, ls[i])
BY DEF Begins, OfKind, MoveOrders

LEMMA NextKinds ==
    ASSUME TypeOK, Kinds, AllMoved
    PROVE  Kinds'
<1> SUFFICES ASSUME NEW t \in Threads, NEW i \in DOMAIN stack'[t] PROVE OfKind(t, stack'[t][i])
  BY DEF Kinds, OfKind
<1>1. /\ stack[t] \in Seq(Labels) /\ Moved(t)
      /\ \A j \in DOMAIN stack[t] : OfKind(t, stack[t][j])
  BY DEF TypeOK, Kinds, AllMoved
<1>2. CASE stack'[t] = stack[t]
  BY <1>1, <1>2
<1>3. CASE stack'[t] = <<>>
  BY <1>3
<1>4. CASE ~Idle(t) /\ \E ls \in Seq(Labels) : Leads(Head(stack[t]), ls)
                                              /\ stack'[t] = ls \o Tail(stack[t])
  <2>1. PICK ls \in Seq(Labels) : Leads(Head(stack[t]), ls) /\ stack'[t] = ls \o Tail(stack[t])
    BY <1>4
  <2>2. /\ \/ \E j \in DOMAIN ls : stack'[t][i] = ls[j]
           \/ \E j \in DOMAIN stack[t] : stack'[t][i] = stack[t][j]
        /\ 1 \in DOMAIN stack[t] /\ Head(stack[t]) = stack[t][1]
    <3>1. /\ \A k \in DOMAIN stack'[t] :
                 \/ \E j \in DOMAIN ls : stack'[t][k] = ls[j]
                 \/ \E j \in DOMAIN stack[t] : j > 1 /\ stack'[t][k] = stack[t][j]
          /\ 1 \in DOMAIN stack[t] /\ Head(stack[t]) = stack[t][1]
      BY <1>4, <2>1, MovedTo
    <3>2. QED
      BY <3>1
  <2>3. OfKind(t, Head(stack[t]))
    BY <1>1, <2>2
  <2>4. QED
    BY <1>1, <2>1, <2>2, <2>3, LeadsOfKind
<1>5. CASE \E ls \in Seq(Labels) : Begins(t, ls) /\ stack'[t] = ls
  BY <1>5, BeginsOfKind
<1>6. CASE Enters(t, stack'[t])
  BY <1>3, <1>6 DEF Enters, OfKind, MoveOrders
<1>7. QED
  BY <1>1, <1>2, <1>3, <1>4, <1>5, <1>6 DEF Moved

\* The top of a new stack has been led to, has begun, or was below the old top.
LEMMA NextOutcomes ==
    ASSUME TypeOK, Ordered, Outcomes, AllMoved
    PROVE  Outcomes'
<1> SUFFICES ASSUME NEW t \in Threads
             PROVE  /\ At(t, "homed")' \/ At(t, "at_zero")' =>
                          out'[t] \in {"reached", "interrupted", "missed", "servo", "failed"}
                    /\ At(t, "remeasured")' => out'[t] \in {"ok", "interrupted", "servo"}
  BY DEF Outcomes
<1> SUFFICES ASSUME stack'[t] # <<>>, Head(stack'[t]) \in {"homed", "at_zero", "remeasured"}
             PROVE  /\ Head(stack'[t]) # "remeasured" =>
                          out'[t] \in {"reached", "interrupted", "missed", "servo", "failed"}
                    /\ Head(stack'[t]) = "remeasured" => out'[t] \in {"ok", "interrupted", "servo"}
  BY DEF At
<1>1. stack[t] \in Seq(Labels) /\ stack'[t] \in Seq(Labels) /\ Moved(t)
  BY DEF TypeOK, AllMoved
<1>2. CASE stack'[t] = stack[t] /\ out'[t] = out[t]
  BY <1>2 DEF Outcomes, At
<1>3. CASE ~Idle(t) /\ \E ls \in Seq(Labels) :
                /\ Leads(Head(stack[t]), ls) /\ Duly(t, Head(stack[t]), ls)
                /\ stack'[t] = ls \o Tail(stack[t])
  <2>1. PICK ls \in Seq(Labels) : /\ Leads(Head(stack[t]), ls) /\ Duly(t, Head(stack[t]), ls)
                                 /\ stack'[t] = ls \o Tail(stack[t])
    BY <1>3
  <2>2. \/ ls # <<>> /\ Head(stack'[t]) = Head(ls)
        \/ /\ ls = <<>> /\ Head(stack'[t]) = stack[t][2]
           /\ Above(Head(stack[t]), stack[t][2])
    BY <1>1, <1>3, <2>1, MovedAt
  <2>3. ~(ls # <<>> /\ Head(stack'[t]) = Head(ls))
    BY <2>1 DEF Leads
  <2>4. /\ stack[t][2] # "remeasured" => Head(stack[t]) \in Moves
        /\ stack[t][2] = "remeasured" => Head(stack[t]) = "hold_measured"
    BY <2>2, <2>3 DEF Above, MoveEnds, MoveOrders
  <2>5. ls = <<>> /\ ls # <<"moving">> /\ Head(stack'[t]) = stack[t][2]
    BY <2>2, <2>3
  <2>6. CASE Head(stack[t]) \in Moves /\ stack[t][2] # "remeasured"
    BY <2>1, <2>5, <2>6 DEF Duly
  <2>7. CASE Head(stack[t]) = "hold_measured" /\ stack[t][2] = "remeasured"
    BY <2>1, <2>5, <2>7 DEF Duly
  <2>8. QED
    BY <2>4, <2>5, <2>6, <2>7
<1>4. CASE \E ls \in Seq(Labels) : Begins(t, ls) /\ stack'[t] = ls
  BY <1>4 DEF Begins, MoveOrders
<1>5. CASE Enters(t, stack'[t])
  BY <1>5 DEF Enters, MoveOrders
<1>6. QED
  BY <1>1, <1>2, <1>3, <1>4, <1>5 DEF Moved

----------------------------------------------------------------------------
(* The lock.                                                               *)

LEMMA LeadsLocked ==
    ASSUME NEW h, NEW ls \in Seq(Labels), Leads(h, ls), NEW i \in DOMAIN ls, ls[i] \in Locked
    PROVE  h \in Locked \cup {"watch", "recover"}
BY DEF Leads, Locked, LaunchSteps, MoveOrders

LEMMA BeginsFree ==
    ASSUME NEW t, NEW ls \in Seq(Labels), Begins(t, ls), ls \notin Exclusive
    PROVE  Free(ls)
<1>1. CASE \E o \in MoveOrders : ls \in {<<"enter", o>>, <<"pause", "enter", o>>}
  <2>1. \E i \in DOMAIN ls : ls[i] = "enter"
    BY <1>1
  <2>2. QED
    BY <2>1 DEF Free
<1>2. CASE \E a, b : ls \in {<<a>>, <<a, b>>} /\ a \notin Locked /\ b \notin Locked
  BY <1>2 DEF Free
<1>3. {"pause_clear", "stop", "hold", "pause", "validate", "close", "ended", "fault", "watch",
       "trajectory", "command", "move", "waypath_end"} \cap Locked = {}
  BY DEF Locked, LaunchSteps, MoveOrders
<1>4. QED
  BY <1>1, <1>2, <1>3 DEF Begins, Exclusive

LEMMA NextMutex ==
    ASSUME TypeOK, Ordered, Mutex, AllMoved
    PROVE  Mutex'
<1> SUFFICES ASSUME NEW t \in Threads, physLock' # t PROVE Free(stack'[t])
  BY DEF Mutex, Free
<1>1. /\ stack[t] \in Seq(Labels) /\ stack'[t] \in Seq(Labels) /\ Moved(t)
      /\ physLock = t \/ Free(stack[t])
      /\ physLock = t => stack'[t] \in {<<>>, <<"pause">>}
  BY DEF TypeOK, AllMoved, Mutex, Leaves
<1>2. CASE stack'[t] \in {<<>>, <<"pause">>}
  BY <1>2 DEF Free, Locked, LaunchSteps, MoveOrders
<1>3. CASE stack'[t] = stack[t]
  BY <1>1, <1>2, <1>3
<1>4. CASE physLock # t /\ ~Idle(t) /\ \E ls \in Seq(Labels) :
                /\ Leads(Head(stack[t]), ls) /\ Duly(t, Head(stack[t]), ls)
                /\ stack'[t] = ls \o Tail(stack[t])
  <2>1. PICK ls \in Seq(Labels) : /\ Leads(Head(stack[t]), ls) /\ Duly(t, Head(stack[t]), ls)
                                 /\ stack'[t] = ls \o Tail(stack[t])
    BY <1>4
  <2>2. /\ \A i \in DOMAIN stack'[t] :
                 \/ \E j \in DOMAIN ls : stack'[t][i] = ls[j]
                 \/ \E j \in DOMAIN stack[t] : j > 1 /\ stack'[t][i] = stack[t][j]
        /\ \A j \in DOMAIN stack[t] :
                 j > 1 => \E i \in DOMAIN stack'[t] : stack'[t][i] = stack[t][j]
        /\ 1 \in DOMAIN stack[t] /\ Head(stack[t]) = stack[t][1] /\ stack[t] # <<>>
        /\ DOMAIN stack[t] = 1 .. Len(stack[t]) /\ Len(stack[t]) \in Nat
    BY <1>4, <2>1, MovedTo
  <2>3. Head(stack[t]) # "enter"
    BY <2>1 DEF Leads
  <2>4. Head(stack[t]) \notin Locked
    BY <1>4, <2>2, AtOwner DEF At
  <2>5. ASSUME NEW i \in DOMAIN stack'[t], stack'[t][i] \in Locked
        PROVE  \E j \in DOMAIN stack'[t] : stack'[t][j] = "enter"
    <3>1. CASE \E j \in DOMAIN ls : stack'[t][i] = ls[j]
      <4>1. Head(stack[t]) \in {"watch", "recover"}
        BY <2>1, <2>4, <2>5, <3>1, LeadsLocked
      <4>2. ls = <<>>
        BY <2>1, <4>1 DEF Duly
      <4>3. QED
        BY <3>1, <4>2
    <3>2. CASE \E j \in DOMAIN stack[t] : stack'[t][i] = stack[t][j]
      <4>1. \E j \in DOMAIN stack[t] : stack[t][j] = "enter"
        BY <1>1, <1>4, <2>5, <3>2 DEF Free
      <4>2. PICK j \in DOMAIN stack[t] : stack[t][j] = "enter"
        BY <4>1
      <4>3. j > 1
        BY <2>2, <2>3, <4>2
      <4>4. QED
        BY <2>2, <4>2, <4>3
    <3>3. QED
      BY <2>2, <2>5, <3>1, <3>2
  <2>6. QED
    BY <2>5 DEF Free
<1>5. CASE \E ls \in Seq(Labels) : Begins(t, ls) /\ Called(t, ls) /\ stack'[t] = ls
  BY <1>5, BeginsFree DEF Called
<1>6. CASE Enters(t, stack'[t])
  BY <1>2, <1>6 DEF Enters
<1>7. QED
  BY <1>1, <1>2, <1>3, <1>4, <1>5, <1>6 DEF Moved

----------------------------------------------------------------------------
(* What a step may do to each variable.                                    *)

\* Which procedures change the queue, and which the arms.
LEMMA ProcedureKeeps ==
    ASSUME NEW t, Procedure(t)
    PROVE  /\ \/ UNCHANGED queue
              \/ PauseQueue(t) \/ PauseHandoff(t) \/ Launch(t) \/ Receipt(t)
           /\ \/ UNCHANGED arm
              \/ MoveBegin(t) \/ MoveEnd(t) \/ MoveInterrupted(t) \/ MoveFailed(t)
              \/ HoldRequest(t) \/ HoldDone(t) \/ StopRequest(t) \/ Release(t) \/ Released(t)
              \/ LaunchBegin(t) \/ LaunchEnd(t)
           /\ \/ UNCHANGED op
              \/ PauseHandoff(t) \/ Fault(t) \/ Hold(t) \/ HoldEnd(t) \/ Stop(t) \/ TorqueOff(t)
              \/ StopEnd(t) \/ Launched(t) \/ Home(t) \/ Homing(t) \/ Homed(t) \/ Remeasured(t)
              \/ Parking(t)
<1>1. CASE MoveRefused(t) \/ MoveBegin(t) \/ MoveEnd(t) \/ MoveInterrupted(t) \/ MoveFailed(t)
  BY <1>1 DEF MoveRefused, MoveBegin, MoveEnd, MoveInterrupted, MoveFailed
<1>2. CASE PauseQueue(t) \/ PauseHandoff(t) \/ Fault(t)
  BY <1>2 DEF PauseQueue, PauseHandoff, Fault
<1>3. CASE Hold(t) \/ HoldRequest(t) \/ HoldDone(t) \/ HoldEnd(t)
  BY <1>3 DEF Hold, HoldRequest, HoldDone, HoldEnd
<1>4. CASE Stop(t) \/ TorqueOff(t) \/ StopRequest(t) \/ Release(t) \/ Released(t) \/ StopEnd(t)
  BY <1>4 DEF Stop, TorqueOff, StopRequest, Release, Released, StopEnd
<1>5. CASE Launch(t) \/ LaunchBegin(t) \/ LaunchEnd(t) \/ Launched(t)
  BY <1>5 DEF Launch, LaunchBegin, LaunchEnd, Launched
<1>6. CASE Home(t) \/ Homing(t) \/ Homed(t) \/ HoldMeasured(t) \/ Remeasured(t)
  BY <1>6 DEF Home, Homing, Homed, HoldMeasured, Remeasured
<1>7. CASE Park(t) \/ Parking(t) \/ AtZero(t) \/ Receipt(t)
  BY <1>7 DEF Park, Parking, AtZero, Receipt
<1>8. QED
  BY <1>1, <1>2, <1>3, <1>4, <1>5, <1>6, <1>7 DEF Procedure

LEMMA OthersKeep ==
    ASSUME \/ QueueStep \/ ClientStep \/ WaypathEnd \/ WaypathHeld
           \/ \E p \in Panel : PanelStep(p)
           \/ \E w \in Watchdogs : WatchStep(w)
           \/ \E e \in Executors : ExecutorStep(e)
    PROVE  /\ UNCHANGED arm
           /\ \/ UNCHANGED queue
              \/ HandoffEnds \/ RestedLate \/ TickStart \/ Claim \/ Grant \/ TickEnd
              \/ Prepare \/ Ended \/ \E p \in Panel : PressOn(p)
<1>1. CASE QueueStep
  <2>1. CASE TickFault \/ HandoffEnds \/ RestedLate \/ TickStart \/ Claim
    BY <2>1 DEF TickFault, HandoffEnds, RestedLate, TickStart, Claim
  <2>2. CASE Seek \/ SeekHome \/ SceneHome \/ Grant
    BY <2>2 DEF Seek, SeekHome, SceneHome, Grant
  <2>3. CASE RestedEarly \/ StartFailed \/ StartCancelled \/ TickEnd
    BY <2>3 DEF RestedEarly, StartFailed, StartCancelled, TickEnd
  <2>4. QED
    BY <1>1, <2>1, <2>2, <2>3 DEF QueueStep
<1>2. CASE ClientStep
  <2>1. CASE Prepare \/ Prepared \/ Receive \/ Validate \/ Accept \/ StopSession
    BY <2>1 DEF Prepare, Prepared, Receive, Validate, Accept, StopSession
  <2>2. CASE CloseFaulted \/ Ended \/ Connects \/ Disconnects \/ TransportPauses
    BY <2>2 DEF CloseFaulted, Ended, Connects, Disconnects, TransportPauses
  <2>3. QED
    BY <1>2, <2>1, <2>2 DEF ClientStep
<1>3. CASE WaypathEnd \/ WaypathHeld
  BY <1>3 DEF WaypathEnd, WaypathHeld
<1>4. ASSUME NEW p \in Panel, PanelStep(p) PROVE UNCHANGED arm /\ (UNCHANGED queue \/ PressOn(p))
  BY <1>4 DEF PanelStep, PressStop, PressOn, PressMove, Enter, LaunchResult, RunPolicy, WristTest,
              WristEnd, StartWaypath
<1>5. ASSUME NEW w \in Watchdogs, WatchStep(w) PROVE UNCHANGED <<arm, queue>>
  BY <1>5 DEF WatchStep, WatchEnds, Expire, Expired
<1>6. ASSUME NEW e \in Executors, ExecutorStep(e) PROVE UNCHANGED <<arm, queue>>
  BY <1>6 DEF ExecutorStep, Execute, Acted, Replan, TrajectoryFailed, CommandFailed, Recover,
              Recovering, ParkedOrNot, Recovered
<1>7. QED
  BY <1>1, <1>2, <1>3, <1>4, <1>5, <1>6

QueueBy ==
    /\ queue' \in Queues
    /\ Parked' => \/ Parked
                  \/ arm.verified /\ arm' = arm /\ \E t \in Threads : At(t, "receipt")

LEMMA SaveParks ==
    ASSUME NEW q \in Queues, NEW saves \in BOOLEAN, Save(q, saves)
    PROVE  queue' \in Queues /\ (Parked' => q.parked \/ q.disk.parked)
BY DEF Save, Saved, Queues, Parked

LEMMA NextQueue ==
    ASSUME TypeOK, Next
    PROVE  QueueBy
<1>1. queue \in Queues
  BY Types
<1>2. CASE UNCHANGED queue
  BY <1>1, <1>2 DEF QueueBy, Parked
<1>3. ASSUME NEW t \in Threads, Procedure(t) PROVE QueueBy
  <2>1. CASE PauseQueue(t)
    <3>1. PICK l \in {"pause", "pause_clear"}, saves \in BOOLEAN :
              Save([Set(queue, FALSE, queue.parked /\ l = "pause")
                      EXCEPT !.completion = "none", !.cancel = TRUE], saves)
      BY <2>1 DEF PauseQueue
    <3> DEFINE q == [Set(queue, FALSE, queue.parked /\ l = "pause")
                       EXCEPT !.completion = "none", !.cancel = TRUE]
    <3>2. q \in Queues /\ (q.parked \/ q.disk.parked => Parked)
      BY <1>1 DEF Set, Queues, Parked
    <3>3. QED
      BY <3>1, <3>2, SaveParks DEF QueueBy
  <2>2. CASE PauseHandoff(t)
    BY <1>1, <2>2 DEF PauseHandoff, Queues, QueueBy, Parked
  <2>3. CASE Launch(t)
    <3>1. PICK saves \in BOOLEAN : Save([queue EXCEPT !.parked = FALSE], saves)
      BY <2>3 DEF Launch, InvalidatePark
    <3>2. /\ [queue EXCEPT !.parked = FALSE] \in Queues
          /\ [queue EXCEPT !.parked = FALSE].parked \/ [queue EXCEPT !.parked = FALSE].disk.parked
                => Parked
      BY <1>1 DEF Queues, Parked
    <3>3. QED
      BY <3>1, <3>2, SaveParks DEF QueueBy
  <2>4. CASE Receipt(t)
    <3>1. CASE out[t] = "ok" /\ op.mode = "DISABLED" /\ arm.verified /\ ~Cancelled(t)
      <4>1. PICK saves \in BOOLEAN : Save([queue EXCEPT !.parked = TRUE], saves)
        BY <2>4, <3>1 DEF Receipt
      <4>2. [queue EXCEPT !.parked = TRUE] \in Queues /\ At(t, "receipt") /\ arm' = arm
        BY <1>1, <2>4 DEF Queues, Receipt
      <4>3. QED
        BY <3>1, <4>1, <4>2, SaveParks DEF QueueBy
    <3>2. CASE ~(out[t] = "ok" /\ op.mode = "DISABLED" /\ arm.verified /\ ~Cancelled(t))
      BY <1>2, <2>4, <3>2 DEF Receipt
    <3>3. QED
      BY <3>1, <3>2
  <2>5. QED
    BY <1>2, <1>3, <2>1, <2>2, <2>3, <2>4, ProcedureKeeps
<1>4. CASE HandoffEnds \/ RestedLate \/ TickStart \/ Grant \/ TickEnd
  <2>1. CASE HandoffEnds \/ RestedLate \/ TickStart
    BY <1>1, <2>1 DEF HandoffEnds, RestedLate, TickStart, Queues, QueueBy, Parked
  <2>2. CASE Grant
    <3>1. queue' = queue \/ queue' = [queue EXCEPT !.handoff = TRUE]
      BY <2>2 DEF Grant
    <3>2. QED
      BY <1>1, <3>1 DEF Queues, QueueBy, Parked
  <2>3. CASE TickEnd
    BY <1>1, <2>3 DEF TickEnd, Queues, QueueBy, Parked
  <2>4. QED
    BY <1>4, <2>1, <2>2, <2>3
<1>5. CASE Claim
  <2>1. PICK saves \in BOOLEAN : Save([queue EXCEPT !.parked = FALSE], saves)
    BY <1>5 DEF Claim
  <2>2. /\ [queue EXCEPT !.parked = FALSE] \in Queues
        /\ [queue EXCEPT !.parked = FALSE].parked \/ [queue EXCEPT !.parked = FALSE].disk.parked
              => Parked
    BY <1>1 DEF Queues, Parked
  <2>3. QED
    BY <2>1, <2>2, SaveParks DEF QueueBy
<1>6. CASE Prepare
  BY <1>1, <1>6 DEF Prepare, Queues, QueueBy, Parked
<1>7. CASE Ended
  <2>1. PICK capture \in BOOLEAN :
            IF out[Client] # "raised" /\ (queue.enabled \/ capture)
            THEN queue' = [queue EXCEPT !.completion = IF capture /\ HasScene THEN "scene" ELSE "rest",
                                        !.handoff = FALSE]
            ELSE UNCHANGED queue
    BY <1>7 DEF Ended
  <2>2. QED
    BY <1>1, <1>2, <2>1 DEF Queues, QueueBy, Parked
<1>8. ASSUME NEW p \in Panel, PressOn(p) PROVE QueueBy
  <2>1. queue' = Saved(Set(queue, TRUE, queue.parked)) \/ queue' = Set(queue, FALSE, queue.parked)
    BY <1>8 DEF PressOn
  <2>2. CASE queue' = Set(queue, FALSE, queue.parked)
    BY <1>1, <2>2 DEF Set, Queues, QueueBy, Parked
  <2>3. CASE queue' = Saved(Set(queue, TRUE, queue.parked))
    <3>1. Set(queue, TRUE, queue.parked) \in Queues /\ Set(queue, TRUE, queue.parked).parked = queue.parked
      BY <1>1 DEF Set, Queues
    <3>2. /\ queue' \in Queues /\ queue'.parked = queue.parked
          /\ queue'.disk.parked = queue.parked
      BY <2>3, <3>1 DEF Saved, Queues
    <3>3. QED
      BY <3>2 DEF QueueBy, Parked
  <2>4. QED
    BY <2>1, <2>2, <2>3
<1>9. CASE Environment
  <2>1. CASE Crash
    <3>1. PICK reboot \in BOOLEAN :
              queue' = FreshQueue(IF reboot THEN [enabled |-> FALSE, parked |-> FALSE]
                                  ELSE queue.disk)
      BY <2>1 DEF Crash
    <3>2. QED
      BY <1>1, <3>1 DEF FreshQueue, Queues, QueueBy, Parked
  <2>2. QED
    BY <1>2, <1>9, <2>1 DEF Environment, PollFindsFault, ServoFault, LinkLost
<1>10. QED
  BY <1>2, <1>3, <1>4, <1>5, <1>6, <1>7, <1>8, <1>9, OthersKeep DEF Next, Step

ArmBy ==
    /\ arm' \in Arms
    /\ arm'.link => arm.link \/ op'.lease = None
    /\ \/ arm.state \in {"STOPPED", "EXECUTING", "INITIALIZING"}
       \/ \E t \in Threads : At(t, "launching")
       \/ /\ ~arm.torque => ~arm'.torque /\ arm'.pose = arm.pose
          /\ arm'.state \in {arm.state, "DISABLED", "STOPPING", "FAULT"}
    /\ arm'.verified =>
          \/ arm.verified /\ arm'.state = arm.state /\ arm'.torque = arm.torque
          \/ arm.verified /\ arm.state \notin {"DISABLED", "FAULT"}
          \/ ~arm'.torque /\ arm'.state \in {"DISABLED", "FAULT"}
    /\ \/ /\ arm'.pose = arm.pose
          /\ arm'.state = arm.state \/ arm'.state \notin {"EXECUTING", "INITIALIZING"}
       \/ arm.state = "EXECUTING" \/ Crash
       \/ \E t \in Threads : At(t, "move") \/ At(t, "launching")

LEMMA NextArm ==
    ASSUME TypeOK, Next
    PROVE  ArmBy
<1>1. arm \in Arms /\ ArmStates = {"DISABLED", "INITIALIZING", "STOPPED", "EXECUTING", "STOPPING",
                                   "FAULT"}
  BY Types DEF ArmStates
<1>2. CASE UNCHANGED arm
  BY <1>1, <1>2 DEF ArmBy, Arms
<1>3. ASSUME NEW t \in Threads, Procedure(t) PROVE ArmBy
  <2>1. CASE MoveBegin(t)
    BY <1>1, <2>1 DEF MoveBegin, ArmBy, Arms
  <2>2. CASE MoveEnd(t)
    <3>1. arm.state = "EXECUTING"
      BY <2>2 DEF MoveEnd, MayAdvance
    <3>2. PICK pose \in {"zero", "home", "away"} :
              arm' = [arm EXCEPT !.state = "STOPPED", !.pose = pose]
      BY <2>2 DEF MoveEnd, Goal
    <3>3. QED
      BY <1>1, <3>1, <3>2 DEF ArmBy, Arms
  <2>3. CASE MoveInterrupted(t)
    BY <1>1, <2>3 DEF MoveInterrupted, ArmBy, Arms
  <2>4. CASE MoveFailed(t)
    <3>1. arm.state = "EXECUTING"
      BY <2>4 DEF MoveFailed
    <3>2. PICK torque \in BOOLEAN :
              arm' = [arm EXCEPT !.state = "FAULT", !.halt = TRUE, !.torque = torque]
      BY <2>4 DEF MoveFailed
    <3>3. QED
      BY <1>1, <3>1, <3>2 DEF ArmBy, Arms
  <2>5. CASE HoldRequest(t) \/ StopRequest(t)
    BY <1>1, <2>5 DEF HoldRequest, StopRequest, ArmBy, Arms
  <2>6. CASE HoldDone(t)
    BY <1>1, <1>2, <2>6 DEF HoldDone, Held, ArmBy, Arms
  <2>7. CASE Release(t)
    BY <1>1, <1>2, <2>7 DEF Release, ArmBy, Arms
  <2>8. CASE Released(t)
    BY <1>1, <1>2, <2>8 DEF Released, ArmBy, Arms
  <2>9. CASE LaunchBegin(t)
    BY <1>1, <1>2, <2>9 DEF LaunchBegin, ArmBy, Arms
  <2>10. CASE LaunchEnd(t)
    <3>1. CASE arm.state = "INITIALIZING"
      <4>1. \/ arm' = [arm EXCEPT !.state = "STOPPED"]
            \/ arm' = [arm EXCEPT !.state = "FAULT", !.torque = FALSE, !.verified = TRUE]
            \/ \E s \in {"FAULT", "DISABLED"}, off \in BOOLEAN :
                  arm' = [arm EXCEPT !.state = s, !.torque = ~off, !.verified = off]
        BY <2>10, <3>1 DEF LaunchEnd
      <4>2. CASE arm' = [arm EXCEPT !.state = "STOPPED"]
        BY <1>1, <3>1, <4>2 DEF ArmBy, Arms
      <4>3. CASE arm' = [arm EXCEPT !.state = "FAULT", !.torque = FALSE, !.verified = TRUE]
        BY <1>1, <3>1, <4>3 DEF ArmBy, Arms
      <4>4. ASSUME NEW s \in {"FAULT", "DISABLED"}, NEW off \in BOOLEAN,
                   arm' = [arm EXCEPT !.state = s, !.torque = ~off, !.verified = off]
            PROVE  ArmBy
        <5>1. /\ arm' \in Arms /\ arm'.link = arm.link /\ arm'.pose = arm.pose /\ arm'.state = s
              /\ arm'.verified = off /\ arm'.torque = ~off
          BY <1>1, <4>4 DEF Arms
        <5>2. QED
          BY <3>1, <5>1 DEF ArmBy
      <4>5. QED
        BY <4>1, <4>2, <4>3, <4>4
    <3>2. CASE arm.state # "INITIALIZING"
      BY <1>2, <2>10, <3>2 DEF LaunchEnd
    <3>3. QED
      BY <3>1, <3>2
  <2>11. QED
    BY <1>2, <1>3, <2>1, <2>2, <2>3, <2>4, <2>5, <2>6, <2>7, <2>8, <2>9, <2>10, ProcedureKeeps
<1>4. CASE Environment
  <2>1. CASE PollFindsFault
    BY <1>2, <2>1 DEF PollFindsFault
  <2>2. CASE ServoFault
    BY <1>1, <2>2 DEF ServoFault, ArmBy, Arms
  <2>3. CASE LinkLost
    BY <1>1, <2>3 DEF LinkLost, ArmBy, Arms
  <2>4. CASE Crash
    <3>1. /\ arm' = FreshArm(FALSE, IF arm.torque THEN "away" ELSE arm.pose)
          /\ op'.lease = None
      BY <2>4 DEF Crash, FreshOp
    <3>2. /\ arm' \in Arms /\ ~arm'.torque /\ (~arm.torque => arm'.pose = arm.pose)
          /\ arm'.state = "DISABLED" /\ ~arm'.verified
      BY <1>1, <3>1 DEF FreshArm, Arms
    <3>3. QED
      BY <2>4, <3>1, <3>2 DEF ArmBy
  <2>5. QED
    BY <1>4, <2>1, <2>2, <2>3, <2>4 DEF Environment
<1>5. QED
  BY <1>2, <1>3, <1>4, OthersKeep DEF Next, Step

OpBy ==
    /\ op' \in Ops
    /\ \/ op'.lease \in {op.lease, None}
       \/ /\ Idle(Client) /\ stack'[Client] = <<"prepared">>
          /\ physLock = None /\ physLock' = Client
    /\ op'.offer = op.offer \/ ~At(Client, "prepared") \/ stack'[Client] = <<>>
    /\ \/ op'.deadline = op.deadline \/ op'.lease = None \/ At(Client, "prepared")
       \/ \E t \in Threads : Within(t, "hold")' \/ Within(t, "stopped")'

\* What most steps leave alone: the offer, and the deadline of a run that keeps its lease.
OpPlain ==
    /\ op' \in Ops /\ op'.lease \in {op.lease, None} /\ op'.offer = op.offer
    /\ op'.deadline = op.deadline \/ op'.lease = None

LEMMA PlainOp == OpPlain => OpBy
BY DEF OpPlain, OpBy

LEMMA JumpWithin ==
    ASSUME TypeOK, NEW t \in Threads, ~Idle(t), NEW a \in Labels, NEW b \in Labels, Jump(t, <<a, b>>)
    PROVE  Within(t, a)' /\ Within(t, b)'
<1>1. stack[t] \in Seq(Labels) /\ stack[t] # <<>> /\ <<a, b>> \in Seq(Labels)
      /\ stack'[t] = <<a, b>> \o Tail(stack[t])
  BY DEF TypeOK, Idle, Jump
<1>2. /\ DOMAIN stack'[t] = 1 .. (Len(<<a, b>>) + Len(stack[t]) - 1)
      /\ Len(stack[t]) \in Nat \ {0} /\ \A i \in 1 .. Len(<<a, b>>) : stack'[t][i] = <<a, b>>[i]
  BY <1>1, Push
<1>3. 1 \in DOMAIN stack'[t] /\ 2 \in DOMAIN stack'[t] /\ stack'[t][1] = a /\ stack'[t][2] = b
  BY <1>2
<1>4. QED
  BY <1>3 DEF Within

LEMMA ProcedureOp ==
    ASSUME TypeOK, NEW t \in Threads, Procedure(t)
    PROVE  OpBy
<1>1. op \in Ops
  BY Types
<1>2. CASE UNCHANGED op
  BY <1>1, <1>2, PlainOp DEF OpPlain
<1>3. CASE PauseHandoff(t)
  <2>1. OpPlain
    BY ZenonT(60), <1>1, <1>3 DEF PauseHandoff, OpPlain, Ops, Modes
  <2>2. QED
    BY <2>1, PlainOp
<1>4. CASE Fault(t) \/ Launched(t) \/ Homing(t)
  <2>1. OpPlain
    BY ZenonT(60), <1>1, <1>4 DEF Fault, Launched, Homing, OpPlain, Ops, Modes
  <2>2. QED
    BY <2>1, PlainOp
<1>5. CASE Hold(t)
  <2>1. OpPlain
    BY ZenonT(60), <1>1, <1>5 DEF Hold, Revoke, OpPlain, Ops, Modes
  <2>2. QED
    BY <2>1, PlainOp
<1>6. CASE HoldEnd(t)
  <2>1. PICK healthy \in BOOLEAN :
            op' = [Revoke(op) EXCEPT !.pending = None, !.launched = healthy, !.ok = healthy,
                                     !.mode = IF healthy THEN "STOPPED" ELSE "FAULT"]
    BY <1>6 DEF HoldEnd
  <2>2. OpPlain
    BY ZenonT(60), <1>1, <2>1 DEF Revoke, OpPlain, Ops, Modes
  <2>3. QED
    BY <2>2, PlainOp
<1>7. CASE Stop(t)
  <2>1. OpPlain
    BY ZenonT(60), <1>1, <1>7 DEF Stop, OpPlain, Ops, Modes
  <2>2. QED
    BY <2>1, PlainOp
<1>8. CASE TorqueOff(t)
  <2>1. CASE arm.link
    <3>1. op' = [op EXCEPT !.deadline = None] /\ Jump(t, <<"stopping", "stopped">>) /\ ~Idle(t)
      BY <1>8, <2>1 DEF TorqueOff, Go, At, Idle
    <3>2. Within(t, "stopped")'
      BY <3>1, JumpWithin DEF Labels, Stops
    <3>3. QED
      BY <1>1, <3>1, <3>2 DEF OpBy, Ops
  <2>2. CASE ~arm.link
    BY <1>2, <1>8, <2>2 DEF TorqueOff
  <2>3. QED
    BY <2>1, <2>2
<1>9. CASE StopEnd(t)
  <2>1. OpPlain
    BY ZenonT(60), <1>1, <1>9 DEF StopEnd, Revoke, OpPlain, Ops, Modes
  <2>2. QED
    BY <2>1, PlainOp
<1>10. CASE Home(t) \/ Homed(t) \/ Remeasured(t) \/ Parking(t)
  <2>1. UNCHANGED op \/ \E m \in {"STOPPED", "READY", "PARKING_ZERO"} : op' = [op EXCEPT !.mode = m]
    BY <1>10 DEF Home, Homed, Remeasured, Parking
  <2>2. CASE \E m \in {"STOPPED", "READY", "PARKING_ZERO"} : op' = [op EXCEPT !.mode = m]
    <3>1. OpPlain
      BY ZenonT(60), <1>1, <2>2 DEF OpPlain, Ops, Modes
    <3>2. QED
      BY <3>1, PlainOp
  <2>3. QED
    BY <1>2, <2>1, <2>2
<1>11. QED
  BY <1>2, <1>3, <1>4, <1>5, <1>6, <1>7, <1>8, <1>9, <1>10, ProcedureKeeps

LEMMA QueueOp ==
    ASSUME TypeOK, QueueStep
    PROVE  OpBy
<1>1. op \in Ops
  BY Types
<1>2. \/ UNCHANGED op \/ op' = Authorize(op)
      \/ op' = [op EXCEPT !.authorized = FALSE, !.mode = "READY"]
  <2>1. CASE TickFault \/ HandoffEnds \/ RestedLate \/ TickStart \/ Claim
    BY <2>1 DEF TickFault, HandoffEnds, RestedLate, TickStart, Claim
  <2>2. CASE Seek \/ SeekHome \/ SceneHome \/ Grant
    BY <2>2 DEF Seek, SeekHome, SceneHome, Grant
  <2>3. CASE RestedEarly \/ StartFailed \/ StartCancelled \/ TickEnd
    BY <2>3 DEF RestedEarly, StartFailed, StartCancelled, TickEnd
  <2>4. QED
    BY <2>1, <2>2, <2>3 DEF QueueStep
<1>3. OpPlain
  BY ZenonT(60), <1>1, <1>2 DEF Authorize, OpPlain, Ops, Modes
<1>4. QED
  BY <1>3, PlainOp

LEMMA ClientOp ==
    ASSUME TypeOK, Granting, ClientStep
    PROVE  OpBy
<1>1. op \in Ops
  BY Types
<1>2. CASE UNCHANGED op
  BY <1>1, <1>2, PlainOp DEF OpPlain
<1>3. CASE Prepare
  <2>1. /\ Idle(Client) /\ physLock = None /\ physLock' = Client /\ Client \in Threads
        /\ stack' = [stack EXCEPT ![Client] = <<"prepared">>] /\ ~At(Client, "prepared")
    BY <1>3 DEF Prepare, Start, Idle, At, Threads
  <2>2. PICK w \in Watchdogs :
            op' = [op EXCEPT !.lease = w, !.offer = w, !.mode = "API_ACTIVE"]
    BY <1>3 DEF Prepare
  <2>3. op' \in Ops /\ op'.deadline = op.deadline
    BY <1>1, <2>2 DEF Ops, Modes
  <2>4. stack'[Client] = <<"prepared">>
    BY <2>1 DEF TypeOK
  <2>5. QED
    BY <2>1, <2>3, <2>4 DEF OpBy
<1>4. CASE Prepared
  <2>1. /\ At(Client, "prepared") /\ op.offer \in Watchdogs /\ op.offer # Client /\ Client \in Threads
        /\ stack' = [stack EXCEPT ![Client] = <<>>,
                                  ![op.offer] = IF arm.link THEN <<"watch">> ELSE @]
    BY <1>4, ThreadsDistinct DEF Prepared, Granting, Threads
  <2>2. stack'[Client] = <<>>
    BY <2>1 DEF TypeOK
  <2>3. op' \in Ops /\ op'.lease = op.lease
    BY <1>1, <1>4 DEF Prepared, Ops
  <2>4. QED
    BY <2>1, <2>2, <2>3 DEF OpBy
<1>5. CASE Receive
  BY <1>1, <1>5 DEF Receive, Idle, At, OpBy, Ops
<1>6. CASE Validate
  <2>1. At(Client, "validate") /\ ~At(Client, "prepared")
    BY <1>6 DEF Validate, At
  <2>2. \/ op' = op \/ op' = [op EXCEPT !.offer = None]
        \/ op' = [op EXCEPT !.mode = "FAULT", !.ok = FALSE, !.authorized = FALSE, !.offer = None]
    BY <1>6 DEF Validate
  <2>3. op' \in Ops /\ op'.lease = op.lease /\ op'.deadline = op.deadline
    BY <1>1, <2>2 DEF Ops, Modes
  <2>4. QED
    BY <2>1, <2>3 DEF OpBy
<1>7. CASE Accept
  <2>1. At(Client, "accept") /\ ~At(Client, "prepared")
    BY <1>7 DEF Accept, At
  <2>2. \/ op' = [op EXCEPT !.offer = None]
        \/ \E e \in Executors : op' = [op EXCEPT !.pending = e, !.offer = None]
    BY <1>7 DEF Accept
  <2>3. op' \in Ops /\ op'.lease = op.lease /\ op'.deadline = op.deadline
    BY <1>1, <2>2 DEF Ops
  <2>4. QED
    BY <2>1, <2>3 DEF OpBy
<1>8. CASE StopSession
  BY <1>2, <1>8 DEF StopSession
<1>9. CASE CloseFaulted
  <2>1. OpPlain
    BY ZenonT(60), <1>1, <1>9 DEF CloseFaulted, Revoke, OpPlain, Ops
  <2>2. QED
    BY <2>1, PlainOp
<1>10. CASE Ended
  <2>1. \/ UNCHANGED op
        \/ op' = [op EXCEPT !.deadline = None] /\ At(Client, "ended") /\ out[Client] # "raised"
    BY <1>10 DEF Ended
  <2>2. CASE op' = [op EXCEPT !.deadline = None] /\ At(Client, "ended") /\ out[Client] # "raised"
    <3>1. op.lease = None
      BY <2>2 DEF Granting
    <3>2. OpPlain
      BY ZenonT(60), <1>1, <2>2, <3>1 DEF OpPlain, Ops
    <3>3. QED
      BY <3>2, PlainOp
  <2>3. QED
    BY <1>2, <2>1, <2>2
<1>11. CASE Connects \/ TransportPauses \/ Disconnects
  <2>1. \/ \E connected \in BOOLEAN : op' = [op EXCEPT !.connected = connected]
        \/ op' = [Revoke(op) EXCEPT !.connected = FALSE, !.mode = "FAULT", !.ok = FALSE]
    BY <1>11 DEF Connects, TransportPauses, Disconnects
  <2>2. OpPlain
    BY ZenonT(60), <1>1, <2>1 DEF Revoke, OpPlain, Ops, Modes
  <2>3. QED
    BY <2>2, PlainOp
<1>12. QED
  BY <1>3, <1>4, <1>5, <1>6, <1>7, <1>8, <1>9, <1>10, <1>11 DEF ClientStep

LEMMA PanelOp ==
    ASSUME TypeOK, NEW p \in Panel, PanelStep(p)
    PROVE  OpBy
<1>1. op \in Ops
  BY Types
<1>2. \/ UNCHANGED op
      \/ op' = [op EXCEPT !.mode = "FAULT", !.launched = FALSE, !.ok = FALSE, !.authorized = FALSE]
      \/ op' = Authorize([op EXCEPT !.mode = "READY"])
      \/ \E m \in {"WRIST_TEST", "STOPPED", "FAULT", "WAYPATH"} : op' = [op EXCEPT !.mode = m]
  <2>1. CASE PressStop(p) \/ PressOn(p) \/ PressMove(p) \/ Enter(p)
    BY <2>1 DEF PressStop, PressOn, PressMove, Enter
  <2>2. CASE LaunchResult(p) \/ RunPolicy(p)
    BY <2>2 DEF LaunchResult, RunPolicy
  <2>3. CASE WristTest(p) \/ WristEnd(p) \/ StartWaypath(p)
    BY <2>3 DEF WristTest, WristEnd, StartWaypath
  <2>4. QED
    BY <2>1, <2>2, <2>3 DEF PanelStep
<1>3. CASE op' = Authorize([op EXCEPT !.mode = "READY"])
  <2>1. \/ op' = [op EXCEPT !.mode = "READY"]
        \/ op' = [[op EXCEPT !.mode = "READY"] EXCEPT !.mode = "API_WAITING", !.authorized = TRUE]
    BY <1>3 DEF Authorize
  <2>2. OpPlain
    BY ZenonT(60), <1>1, <2>1 DEF OpPlain, Ops, Modes
  <2>3. QED
    BY <2>2, PlainOp
<1>4. CASE \E m \in {"WRIST_TEST", "STOPPED", "FAULT", "WAYPATH"} : op' = [op EXCEPT !.mode = m]
  <2>1. OpPlain
    BY ZenonT(60), <1>1, <1>4 DEF OpPlain, Ops, Modes
  <2>2. QED
    BY <2>1, PlainOp
<1>5. CASE \/ UNCHANGED op
           \/ op' = [op EXCEPT !.mode = "FAULT", !.launched = FALSE, !.ok = FALSE,
                              !.authorized = FALSE]
  <2>1. OpPlain
    BY ZenonT(60), <1>1, <1>5 DEF OpPlain, Ops, Modes
  <2>2. QED
    BY <2>1, PlainOp
<1>6. QED
  BY <1>2, <1>3, <1>4, <1>5

LEMMA WaypathOp ==
    ASSUME TypeOK, WaypathEnd \/ WaypathHeld
    PROVE  OpBy
<1>1. op \in Ops
  BY Types
<1>2. \/ UNCHANGED op
      \/ \E m \in {"READY", "STOPPED"} : op' = [op EXCEPT !.mode = m]
      \/ \E m \in {"FAULT", "STOPPED"}, ok \in BOOLEAN : op' = [op EXCEPT !.mode = m, !.ok = ok]
  BY DEF WaypathEnd, WaypathHeld
<1>3. OpPlain
  BY ZenonT(60), <1>1, <1>2 DEF OpPlain, Ops, Modes
<1>4. QED
  BY <1>3, PlainOp

LEMMA WatchOp ==
    ASSUME TypeOK, NEW w \in Watchdogs, WatchStep(w)
    PROVE  OpBy
<1>1. op \in Ops /\ w \in Threads
  BY Types DEF Threads
<1>2. CASE UNCHANGED op
  BY <1>1, <1>2, PlainOp DEF OpPlain
<1>3. CASE Expire(w)
  <2>1. /\ op' = [op EXCEPT !.deadline = None] /\ Jump(w, <<"hold", "expired">>) /\ ~Idle(w)
    BY <1>3 DEF Expire, At, Idle
  <2>2. Within(w, "hold")'
    BY <1>1, <2>1, JumpWithin DEF Labels, Holds
  <2>3. QED
    BY <1>1, <2>1, <2>2 DEF OpBy, Ops
<1>4. QED
  BY <1>2, <1>3 DEF WatchStep, WatchEnds, Expired

LEMMA ExecutorOp ==
    ASSUME TypeOK, NEW e \in Executors, ExecutorStep(e)
    PROVE  OpBy
<1>1. op \in Ops
  BY Types
<1>2. \/ UNCHANGED op
      \/ op' = [op EXCEPT !.pending = None]
      \/ op' = [op EXCEPT !.pending = None, !.mode = "FAULT", !.ok = FALSE]
      \/ op' = [op EXCEPT !.pending = None, !.mode = "FAULT", !.ok = FALSE, !.authorized = FALSE]
      \/ \E r \in {"none", "armed"} : op' = [op EXCEPT !.recovery = r]
  <2>1. CASE Execute(e) \/ Acted(e) \/ Replan(e)
    BY <2>1 DEF Execute, Acted, Replan
  <2>2. CASE TrajectoryFailed(e) \/ CommandFailed(e) \/ Recover(e)
    BY <2>2 DEF TrajectoryFailed, CommandFailed, Recover
  <2>3. CASE Recovering(e) \/ ParkedOrNot(e) \/ Recovered(e)
    BY <2>3 DEF Recovering, ParkedOrNot, Recovered
  <2>4. QED
    BY <2>1, <2>2, <2>3 DEF ExecutorStep
<1>3. OpPlain
  BY ZenonT(60), <1>1, <1>2 DEF OpPlain, Ops, Modes
<1>4. QED
  BY <1>3, PlainOp

LEMMA NextOp ==
    ASSUME TypeOK, Granting, Next
    PROVE  OpBy
<1>1. op \in Ops
  BY Types
<1>2. CASE Environment
  <2>1. CASE Crash
    <3>1. op' = FreshOp /\ stack'[Client] = <<>>
      BY <2>1 DEF Crash, Threads
    <3>2. op' \in Ops /\ op'.lease = None
      BY <3>1 DEF FreshOp, Ops, Modes
    <3>3. QED
      BY <3>1, <3>2 DEF OpBy
  <2>2. CASE PollFindsFault
    <3>1. OpPlain
      BY ZenonT(60), <1>1, <2>2 DEF PollFindsFault, Revoke, OpPlain, Ops
    <3>2. QED
      BY <3>1, PlainOp
  <2>3. CASE ServoFault \/ LinkLost
    BY <1>1, <2>3, PlainOp DEF ServoFault, LinkLost, OpPlain
  <2>4. QED
    BY <1>2, <2>1, <2>2, <2>3 DEF Environment
<1>3. QED
  BY <1>2, ProcedureOp, QueueOp, ClientOp, PanelOp, WaypathOp, WatchOp, ExecutorOp DEF Next, Step

LEMMA NextUsed ==
    ASSUME TypeOK, Next
    PROVE  used' \in Counters
<1>1. used \in Counters /\ MaxFaults \in Nat /\ MaxCrashes \in Nat /\ MaxOrders \in Nat
  BY Types, BoundsNat
<1>2. CASE NoFault
  BY <1>1, <1>2 DEF NoFault
<1>3. CASE Fail \/ Dies
  BY <1>1, <1>3 DEF Fail, Dies, Counters
<1>4. ASSUME NEW saves \in BOOLEAN, NEW q, Save(q, saves) PROVE NoFault \/ Fail
  BY <1>4 DEF Save
<1>5. ASSUME NEW t, Procedure(t) PROVE NoFault \/ Fail
  <2>1. CASE MoveRefused(t) \/ MoveBegin(t) \/ MoveEnd(t) \/ MoveInterrupted(t) \/ MoveFailed(t)
    BY <2>1 DEF MoveRefused, MoveBegin, MoveEnd, MoveInterrupted, MoveFailed, NoFault
  <2>2. CASE PauseQueue(t) \/ PauseHandoff(t) \/ Fault(t)
    BY <1>4, <2>2 DEF PauseQueue, PauseHandoff, Fault, NoFault
  <2>3. CASE Hold(t) \/ HoldRequest(t) \/ HoldDone(t) \/ HoldEnd(t)
    BY <2>3 DEF Hold, HoldRequest, HoldDone, HoldEnd, NoFault
  <2>4. CASE Stop(t) \/ TorqueOff(t) \/ StopRequest(t) \/ Release(t) \/ Released(t) \/ StopEnd(t)
    BY <2>4 DEF Stop, TorqueOff, StopRequest, Release, Released, StopEnd, NoFault
  <2>5. CASE Launch(t) \/ LaunchBegin(t) \/ LaunchEnd(t) \/ Launched(t)
    BY <1>4, <2>5 DEF Launch, InvalidatePark, LaunchBegin, LaunchEnd, Launched, NoFault
  <2>6. CASE Home(t) \/ Homing(t) \/ Homed(t) \/ HoldMeasured(t) \/ Remeasured(t)
    BY <2>6 DEF Home, Homing, Homed, HoldMeasured, Remeasured, NoFault
  <2>7. CASE Park(t) \/ Parking(t) \/ AtZero(t) \/ Receipt(t)
    BY <1>4, <2>7 DEF Park, Parking, AtZero, Receipt, NoFault
  <2>8. QED
    BY <1>5, <2>1, <2>2, <2>3, <2>4, <2>5, <2>6, <2>7 DEF Procedure
<1>6. ASSUME QueueStep PROVE NoFault \/ Fail
  <2>1. CASE TickFault \/ HandoffEnds \/ RestedLate \/ TickStart \/ Claim
    BY <1>4, <2>1 DEF TickFault, HandoffEnds, RestedLate, TickStart, Claim, NoFault
  <2>2. CASE Seek \/ SeekHome \/ SceneHome \/ Grant
    BY <2>2 DEF Seek, SeekHome, SceneHome, Grant, NoFault
  <2>3. CASE RestedEarly \/ StartFailed \/ StartCancelled \/ TickEnd
    BY <2>3 DEF RestedEarly, StartFailed, StartCancelled, TickEnd, NoFault
  <2>4. QED
    BY <1>6, <2>1, <2>2, <2>3 DEF QueueStep
<1>7. ASSUME ClientStep PROVE NoFault \/ Fail
  <2>1. CASE Prepare \/ Prepared \/ Receive \/ Validate \/ Accept \/ StopSession
    BY <2>1 DEF Prepare, Prepared, Receive, Validate, Accept, StopSession, NoFault
  <2>2. CASE CloseFaulted \/ Ended \/ Connects \/ Disconnects \/ TransportPauses
    BY <2>2 DEF CloseFaulted, Ended, Connects, Disconnects, TransportPauses, NoFault
  <2>3. QED
    BY <1>7, <2>1, <2>2 DEF ClientStep
<1>8. CASE WaypathEnd \/ WaypathHeld
  BY <1>2, <1>8 DEF WaypathEnd, WaypathHeld, NoFault
<1>9. ASSUME NEW p \in Panel, PanelStep(p) PROVE used' \in Counters
  <2>1. CASE PressStop(p) \/ PressMove(p)
    BY <1>1, <2>1 DEF PressStop, PressMove, Pressed, Counters
  <2>2. CASE PressOn(p)
    <3>1. PICK failures \in 0 .. 1 :
              /\ used.orders < MaxOrders /\ used.faults + failures <= MaxFaults
              /\ used' = [used EXCEPT !.orders = @ + 1, !.faults = @ + failures]
      BY <2>2 DEF PressOn
    <3>2. used.faults \in 0 .. MaxFaults /\ used.orders \in 0 .. MaxOrders
      BY <1>1 DEF Counters
    <3>3. used.faults + failures \in 0 .. MaxFaults /\ used.orders + 1 \in 0 .. MaxOrders
      BY <1>1, <3>1, <3>2
    <3>4. \A a \in 0 .. MaxFaults, b \in 0 .. MaxOrders :
              [used EXCEPT !.orders = b, !.faults = a] \in Counters
      BY <1>1 DEF Counters
    <3>5. used' = [used EXCEPT !.orders = used.orders + 1, !.faults = used.faults + failures]
      BY <3>1
    <3>6. QED
      BY <3>3, <3>4, <3>5
  <2>3. QED
    BY <1>2, <1>9, <2>1, <2>2 DEF PanelStep, Enter, LaunchResult, RunPolicy, WristTest, WristEnd,
                                  StartWaypath, NoFault
<1>10. ASSUME NEW w \in Watchdogs, WatchStep(w) PROVE NoFault
  BY <1>10 DEF WatchStep, WatchEnds, Expire, Expired, NoFault
<1>11. ASSUME NEW e \in Executors, ExecutorStep(e) PROVE NoFault \/ Fail
  BY <1>11 DEF ExecutorStep, Execute, Acted, Replan, TrajectoryFailed, CommandFailed, Recover,
               Recovering, ParkedOrNot, Recovered, NoFault
<1>12. CASE Environment
  BY <1>2, <1>3, <1>12 DEF Environment, PollFindsFault, ServoFault, LinkLost, Crash, NoFault
<1>13. QED
  BY <1>2, <1>3, <1>5, <1>6, <1>7, <1>8, <1>9, <1>10, <1>11, <1>12 DEF Next, Step

LEMMA NextTyped ==
    ASSUME TypeOK, Granting, AllMoved, Next
    PROVE  TypeOK'
<1>1. queue' \in Queues
  BY NextQueue DEF QueueBy
<1>2. arm' \in Arms
  BY NextArm DEF ArmBy
<1>3. op' \in Ops
  BY NextOp DEF OpBy
<1>4. QED
  BY <1>1, <1>2, <1>3, NextUsed, TypesPrime DEF AllMoved

----------------------------------------------------------------------------
(* The receipt.                                                            *)

\* A thread comes to "launching" when the receipt is gone.
LEMMA NextLaunching ==
    ASSUME TypeOK, Ordered, AllMoved, NEW t \in Threads, At(t, "launching")'
    PROVE  ~Parked' \/ (At(t, "launching") /\ stack'[t] = stack[t])
<1>1. stack[t] \in Seq(Labels) /\ stack'[t] \in Seq(Labels) /\ Moved(t) /\ stack'[t] # <<>>
      /\ Head(stack'[t]) = "launching"
  BY DEF TypeOK, AllMoved, At
<1>2. CASE stack'[t] = stack[t]
  BY <1>1, <1>2 DEF At
<1>3. CASE ~Idle(t) /\ \E ls \in Seq(Labels) :
                /\ Leads(Head(stack[t]), ls) /\ Duly(t, Head(stack[t]), ls)
                /\ stack'[t] = ls \o Tail(stack[t])
  <2>1. PICK ls \in Seq(Labels) : /\ Leads(Head(stack[t]), ls) /\ Duly(t, Head(stack[t]), ls)
                                 /\ stack'[t] = ls \o Tail(stack[t])
    BY <1>3
  <2>2. \/ ls # <<>> /\ Head(ls) = "launching"
        \/ ls = <<>> /\ Above(Head(stack[t]), "launching")
    BY <1>1, <1>3, <2>1, MovedAt
  <2>3. ~Above(Head(stack[t]), "launching")
    BY DEF Above, MoveEnds, MoveOrders
  <2>4. Head(stack[t]) = "launch"
    BY <2>1, <2>2, <2>3 DEF Leads
  <2>5. QED
    BY <2>1, <2>2, <2>3, <2>4 DEF Duly
<1>4. CASE \E ls \in Seq(Labels) : Begins(t, ls) /\ stack'[t] = ls
  BY <1>1, <1>4 DEF Begins, MoveOrders
<1>5. CASE Enters(t, stack'[t])
  BY <1>1, <1>5 DEF Enters, MoveOrders
<1>6. QED
  BY <1>1, <1>2, <1>3, <1>4, <1>5 DEF Moved

LEMMA NextReceipted ==
    ASSUME TypeOK, Ordered, Mutex, Receipted, Arrived, AllMoved, QueueBy, ArmBy
    PROVE  Receipted'
<1>1. arm \in Arms /\ arm' \in Arms
  BY Types DEF ArmBy
<1>2. ASSUME NEW t \in Threads, At(t, "receipt"), arm.verified, arm' = arm
      PROVE  /\ ~arm'.torque /\ arm'.pose = "zero" /\ arm'.state \in {"DISABLED", "FAULT"}
             /\ \A x \in Threads : ~At(x, "launching")
  <2>1. Within(t, "receipt")
    <3>1. stack[t] \in Seq(Labels) /\ stack[t] # <<>>
      BY <1>2 DEF At, TypeOK
    <3>2. 1 \in DOMAIN stack[t] /\ stack[t][1] = "receipt"
      BY <1>2, <3>1, Push, EmptySeq DEF At
    <3>3. QED
      BY <3>2 DEF Within
  <2>2. arm.pose = "zero"
    BY <1>2, <2>1 DEF Arrived, Arriving
  <2>3. ~arm.torque /\ arm.state \in {"DISABLED", "FAULT"}
    BY <1>2 DEF Receipted
  <2>4. physLock = t
    BY <1>2, AtOwner DEF Locked
  <2>5. \A x \in Threads : ~At(x, "launching")
    BY <1>2, <2>4, AtOwner DEF Locked, LaunchSteps, At
  <2>6. QED
    BY <1>2, <2>2, <2>3, <2>5
<1>3. Parked' => ~arm'.torque /\ arm'.pose = "zero" /\ arm'.state \in {"DISABLED", "STOPPING", "FAULT"}
  <2>1. CASE Parked
    <3>1. /\ ~arm.torque /\ arm.pose = "zero" /\ arm.state \in {"DISABLED", "STOPPING", "FAULT"}
          /\ \A t \in Threads : ~At(t, "launching")
      BY <2>1 DEF Receipted
    <3>2. QED
      BY <3>1 DEF ArmBy
  <2>2. QED
    BY <1>2, <2>1 DEF QueueBy
<1>4. ASSUME NEW t \in Threads, At(t, "launching")' PROVE ~Parked'
  <2>1. CASE At(t, "launching")
    <3>1. ~Parked
      BY <2>1 DEF Receipted
    <3>2. QED
      BY <1>2, <2>1, <3>1 DEF QueueBy
  <2>2. QED
    BY <1>4, <2>1, NextLaunching
<1>5. arm'.verified => ~arm'.torque /\ arm'.state \in {"DISABLED", "FAULT"}
  BY <1>1 DEF ArmBy, Receipted
<1>6. QED
  BY <1>3, <1>4, <1>5 DEF Receipted

----------------------------------------------------------------------------
(* What is somewhere in a stack.                                           *)

LEMMA WithinHead ==
    ASSUME TypeOK, Ordered, NEW t \in Threads, NEW l, Within(t, l)
    PROVE  /\ stack[t] \in Seq(Labels) /\ stack[t] # <<>>
           /\ Head(stack[t]) = l \/ Above(Head(stack[t]), l)
<1>1. PICK i \in DOMAIN stack[t] : stack[t][i] = l
  BY DEF Within
<1>2. stack[t] \in Seq(Labels) /\ stack[t] # <<>>
  BY <1>1 DEF TypeOK
<1>3. /\ Len(stack[t]) \in Nat \ {0} /\ Head(stack[t]) = stack[t][1]
      /\ DOMAIN stack[t] = 1 .. Len(stack[t])
  BY <1>2, Push, EmptySeq
<1>4. CASE i = 1
  BY <1>1, <1>2, <1>3, <1>4
<1>5. CASE i # 1
  <2>1. 1 \in DOMAIN stack[t] /\ 1 < i
    BY <1>3, <1>5
  <2>2. Above(stack[t][1], stack[t][i])
    BY <2>1 DEF Ordered, Stacked
  <2>3. QED
    BY <1>1, <1>2, <1>3, <2>2
<1>6. QED
  BY <1>4, <1>5

LEMMA WithinOwner ==
    ASSUME TypeOK, Ordered, Mutex, NEW t \in Threads, NEW l \in Locked \ MoveOrders, Within(t, l)
    PROVE  physLock = t
<1>1. PICK i \in DOMAIN stack[t] : stack[t][i] = l
  BY DEF Within
<1>2. stack[t] \in Seq(Labels) /\ DOMAIN stack[t] = 1 .. Len(stack[t]) /\ Len(stack[t]) \in Nat
  BY LenProperties DEF TypeOK
<1>3. ASSUME NEW j \in DOMAIN stack[t], stack[t][j] = "enter" PROVE FALSE
  <2>1. CASE i < j
    <3>1. Above(l, "enter")
      BY <1>1, <1>3, <2>1 DEF Ordered, Stacked
    <3>2. QED
      BY <3>1 DEF Above, Locked, LaunchSteps, MoveOrders, MoveEnds
  <2>2. CASE j < i
    <3>1. Above("enter", l)
      BY <1>1, <1>3, <2>2 DEF Ordered, Stacked
    <3>2. QED
      BY <3>1
      DEF Above, Moves, Pausing, Holding, Releasing, LaunchSteps, HomeSteps, ParkSteps, Stops
  <2>3. CASE i = j
    BY <1>1, <1>3, <2>3 DEF Locked, LaunchSteps, MoveOrders
  <2>4. QED
    BY <1>2, <2>1, <2>2, <2>3
<1>4. QED
  BY <1>1, <1>3 DEF Mutex, Free

\* How a label comes into a stack.
LEMMA WithinCame ==
    ASSUME TypeOK, AllMoved, NEW t \in Threads, NEW l, Within(t, l)'
    PROVE  \/ Within(t, l)
           \/ /\ ~Idle(t)
              /\ \E ls \in Seq(Labels) :
                    /\ Leads(Head(stack[t]), ls) /\ Duly(t, Head(stack[t]), ls)
                    /\ \E j \in DOMAIN ls : ls[j] = l
           \/ \E ls \in Seq(Labels) : Begins(t, ls) /\ \E j \in DOMAIN ls : ls[j] = l
           \/ l \in MoveOrders \cup {"launch_result"}
<1>1. stack[t] \in Seq(Labels) /\ stack'[t] \in Seq(Labels) /\ Moved(t)
  BY DEF TypeOK, AllMoved
<1>2. PICK i \in DOMAIN stack'[t] : stack'[t][i] = l
  BY DEF Within
<1>3. CASE stack'[t] = stack[t]
  BY <1>2, <1>3 DEF Within
<1>4. CASE ~Idle(t) /\ \E ls \in Seq(Labels) :
                /\ Leads(Head(stack[t]), ls) /\ Duly(t, Head(stack[t]), ls)
                /\ stack'[t] = ls \o Tail(stack[t])
  <2>1. PICK ls \in Seq(Labels) : /\ Leads(Head(stack[t]), ls) /\ Duly(t, Head(stack[t]), ls)
                                 /\ stack'[t] = ls \o Tail(stack[t])
    BY <1>4
  <2>2. \A k \in DOMAIN stack'[t] :
                 \/ \E j \in DOMAIN ls : stack'[t][k] = ls[j]
                 \/ \E j \in DOMAIN stack[t] : j > 1 /\ stack'[t][k] = stack[t][j]
    BY <1>4, <2>1, MovedTo
  <2>3. CASE \E j \in DOMAIN ls : stack'[t][i] = ls[j]
    BY <1>2, <1>4, <2>1, <2>3
  <2>4. CASE \E j \in DOMAIN stack[t] : stack'[t][i] = stack[t][j]
    BY <1>2, <2>4 DEF Within
  <2>5. QED
    BY <2>2, <2>3, <2>4
<1>5. CASE \E ls \in Seq(Labels) : Begins(t, ls) /\ stack'[t] = ls
  BY <1>2, <1>5
<1>6. CASE Enters(t, stack'[t])
  <2>1. CASE stack'[t] = <<>>
    BY <1>2, <2>1
  <2>2. CASE stack'[t] \in {<<stack[t][2]>>, <<"launch", "launch_result">>} /\ stack[t][2] \in MoveOrders
    BY <1>2, <2>2 DEF MoveOrders
  <2>3. QED
    BY <1>6, <2>1, <2>2 DEF Enters
<1>7. CASE stack'[t] = <<>>
  BY <1>2, <1>7
<1>8. QED
  BY <1>1, <1>3, <1>4, <1>5, <1>6, <1>7 DEF Moved

\* A label leaves a stack only from its top.
LEMMA WithinStays ==
    ASSUME TypeOK, Ordered, AllMoved, NEW t \in Threads,
           NEW l \in {"hold", "held", "stopped", "close"}, Within(t, l)
    PROVE  Within(t, l)' \/ Crash \/ \E ls : At(t, l) /\ Duly(t, l, ls)
<1>1. /\ stack[t] \in Seq(Labels) /\ stack[t] # <<>> /\ Moved(t)
      /\ Head(stack[t]) = l \/ Above(Head(stack[t]), l)
  BY WithinHead DEF AllMoved
<1>2. PICK i \in DOMAIN stack[t] : stack[t][i] = l
  BY DEF Within
<1>3. Head(stack[t]) \notin {"prepared", "accept", "waypath", "enter"}
  BY <1>1 DEF Above, Moves, Pausing, Holding, Releasing, LaunchSteps, HomeSteps, ParkSteps, Stops,
              MoveEnds, MoveOrders
<1>4. CASE stack'[t] = stack[t]
  BY <1>2, <1>4 DEF Within
<1>5. CASE Gone(t)
  BY <1>3, <1>5 DEF Gone, At
<1>6. CASE \E ls \in Seq(Labels) :
                /\ Leads(Head(stack[t]), ls) /\ Duly(t, Head(stack[t]), ls)
                /\ stack'[t] = ls \o Tail(stack[t])
  <2>1. PICK ls \in Seq(Labels) : /\ Duly(t, Head(stack[t]), ls)
                                 /\ stack'[t] = ls \o Tail(stack[t])
    BY <1>6
  <2>2. ~Idle(t)
    BY <1>1 DEF Idle
  <2>3. /\ \A j \in DOMAIN stack[t] :
              j > 1 => \E k \in DOMAIN stack'[t] : stack'[t][k] = stack[t][j]
        /\ Head(stack[t]) = stack[t][1] /\ DOMAIN stack[t] = 1 .. Len(stack[t])
        /\ Len(stack[t]) \in Nat
    BY <2>1, <2>2, MovedTo
  <2>4. CASE i = 1
    BY <1>1, <1>2, <2>1, <2>3, <2>4 DEF At
  <2>5. CASE i > 1
    BY <1>2, <2>3, <2>5 DEF Within
  <2>6. QED
    BY <2>3, <2>4, <2>5
<1>7. QED
  BY <1>1, <1>3, <1>4, <1>5, <1>6 DEF Moved, Idle, Enters, At

----------------------------------------------------------------------------
(* At zero.                                                                *)

Motions == {"move", "trajectory", "command", "accept"}

\* Who comes before a motion, or the acceptance of one.
LEMMA ComesToMotion ==
    ASSUME TypeOK, Ordered, Mutex, AllMoved, NEW x \in Threads, NEW l \in Motions, At(x, l)'
    PROVE  \/ \E m \in Motions : At(x, m)
           \/ At(Client, "accept") \/ physLock = None
           \/ \E y \in Threads, h \in {"homing", "parking", "wrist", "waypath"} :
                 physLock = y /\ At(y, h)
<1>1. /\ stack[x] \in Seq(Labels) /\ stack'[x] \in Seq(Labels) /\ Moved(x) /\ stack'[x] # <<>>
      /\ Head(stack'[x]) = l
  BY DEF TypeOK, AllMoved, At
<1>2. CASE stack'[x] = stack[x]
  BY <1>1, <1>2 DEF At
<1>3. CASE ~Idle(x) /\ \E ls \in Seq(Labels) :
                /\ Leads(Head(stack[x]), ls) /\ Duly(x, Head(stack[x]), ls)
                /\ stack'[x] = ls \o Tail(stack[x])
  <2>1. PICK ls \in Seq(Labels) : /\ Leads(Head(stack[x]), ls) /\ Duly(x, Head(stack[x]), ls)
                                 /\ stack'[x] = ls \o Tail(stack[x])
    BY <1>3
  <2>2. \/ ls # <<>> /\ Head(ls) = l
        \/ ls = <<>> /\ Above(Head(stack[x]), l)
    BY <1>1, <1>3, <2>1, MovedAt
  <2>3. ~Above(Head(stack[x]), l)
    BY DEF Above, MoveEnds, MoveOrders, Motions
  <2>4. Head(stack[x]) \in {"homing", "parking", "wrist", "trajectory", "command", "validate"}
    BY <2>1, <2>2, <2>3 DEF Leads, Motions
  <2>5. CASE Head(stack[x]) \in {"homing", "parking", "wrist"}
    <3>1. Head(stack[x]) \in Locked /\ At(x, Head(stack[x]))
      BY <1>3, <2>5 DEF Locked, MoveOrders, At, Idle
    <3>2. physLock = x
      BY <3>1, AtOwner
    <3>3. QED
      BY <2>5, <3>1, <3>2
  <2>6. CASE Head(stack[x]) \in {"trajectory", "command"}
    BY <1>3, <2>6 DEF At, Idle, Motions
  <2>7. CASE Head(stack[x]) = "validate"
    BY <2>1, <2>7 DEF Duly
  <2>8. QED
    BY <2>4, <2>5, <2>6, <2>7
<1>4. CASE \E ls \in Seq(Labels) : Begins(x, ls) /\ Called(x, ls) /\ stack'[x] = ls
  <2>1. x \in Executors \/ x = Waypath
    BY <1>1, <1>4 DEF Begins, MoveOrders, Motions
  <2>2. At(Client, "accept") \/ \E p \in Panel : At(p, "waypath")
    BY <1>4, <2>1 DEF Called
  <2>3. ASSUME NEW p \in Panel, At(p, "waypath") PROVE physLock = p /\ p \in Threads
    BY <2>3, AtOwner DEF Threads, Locked, MoveOrders
  <2>4. QED
    BY <2>2, <2>3
<1>5. CASE Enters(x, stack'[x])
  BY <1>1, <1>5 DEF Enters, MoveOrders, Motions
<1>6. QED
  BY <1>1, <1>2, <1>3, <1>4, <1>5 DEF Moved

LEMMA ArrivesBy ==
    ASSUME TypeOK, Ordered, AllMoved, NEW t \in Threads, Arriving(t)'
    PROVE  \/ Arriving(t)
           \/ /\ Within(t, "at_zero") /\ At(t, "at_zero")' /\ Prompt(t)
              /\ arm'.pose = "zero" /\ arm'.state = "STOPPED"
<1>1. stack[t] \in Seq(Labels) /\ stack'[t] \in Seq(Labels) /\ Moved(t)
  BY DEF TypeOK, AllMoved
<1>2. CASE At(t, "at_zero")' /\ out'[t] = "reached"
  <2>1. stack'[t] # <<>> /\ Head(stack'[t]) = "at_zero"
    BY <1>2 DEF At
  <2>2. CASE stack'[t] = stack[t] /\ out'[t] = out[t]
    BY <1>2, <2>2 DEF Arriving, At
  <2>3. CASE ~Idle(t) /\ \E ls \in Seq(Labels) :
                  /\ Leads(Head(stack[t]), ls) /\ Duly(t, Head(stack[t]), ls)
                  /\ stack'[t] = ls \o Tail(stack[t])
    <3>1. PICK ls \in Seq(Labels) : /\ Leads(Head(stack[t]), ls) /\ Duly(t, Head(stack[t]), ls)
                                   /\ stack'[t] = ls \o Tail(stack[t])
      BY <2>3
    <3>2. \/ ls # <<>> /\ Head(ls) = "at_zero"
          \/ /\ ls = <<>> /\ Len(stack[t]) > 1 /\ stack[t][2] = "at_zero"
             /\ Above(Head(stack[t]), "at_zero")
      BY <1>1, <2>1, <2>3, <3>1, MovedAt
    <3>3. ~(ls # <<>> /\ Head(ls) = "at_zero")
      BY <3>1 DEF Leads
    <3>4. Head(stack[t]) \in Moves
      BY <3>2, <3>3 DEF Above, MoveOrders
    <3>5. arm'.pose = "zero" /\ arm'.state = "STOPPED" /\ Prompt(t)
      BY <1>2, <3>1, <3>2, <3>3, <3>4 DEF Duly
    <3>6. DOMAIN stack[t] = 1 .. Len(stack[t]) /\ Len(stack[t]) \in Nat
      BY <1>1, LenProperties
    <3>7. Within(t, "at_zero")
      BY <3>2, <3>3, <3>6 DEF Within
    <3>8. QED
      BY <1>2, <3>5, <3>7
  <2>4. CASE \E ls \in Seq(Labels) : Begins(t, ls) /\ stack'[t] = ls
    BY <2>1, <2>4 DEF Begins, MoveOrders
  <2>5. CASE Enters(t, stack'[t])
    BY <2>1, <2>5 DEF Enters, MoveOrders
  <2>6. QED
    BY <1>1, <2>1, <2>2, <2>3, <2>4, <2>5 DEF Moved
<1>3. CASE Within(t, "receipt")'
  <2>1. CASE Within(t, "receipt")
    BY <2>1 DEF Arriving
  <2>2. ASSUME ~Idle(t), NEW ls \in Seq(Labels), Leads(Head(stack[t]), ls),
               Duly(t, Head(stack[t]), ls), NEW j \in DOMAIN ls, ls[j] = "receipt"
        PROVE  Arriving(t)
    <3>1. Head(stack[t]) = "at_zero" /\ ls = <<"torque_off", "receipt">>
      BY <2>2 DEF Leads
    <3>2. out[t] = "reached" /\ At(t, "at_zero")
      BY <2>2, <3>1 DEF Duly, At, Idle
    <3>3. QED
      BY <3>2 DEF Arriving
  <2>3. ASSUME NEW ls \in Seq(Labels), Begins(t, ls), NEW j \in DOMAIN ls, ls[j] = "receipt"
        PROVE  FALSE
    BY <2>3 DEF Begins, MoveOrders
  <2>4. QED
    BY <1>3, <2>1, <2>2, <2>3, WithinCame DEF MoveOrders
<1>4. QED
  BY <1>2, <1>3 DEF Arriving

LEMMA NextArrived ==
    ASSUME TypeOK, Ordered, Mutex, Arrived, AllMoved, ArmBy
    PROVE  Arrived'
<1> SUFFICES ASSUME NEW t \in Threads, Arriving(t)'
             PROVE  /\ arm'.pose = "zero" /\ arm'.state \notin {"EXECUTING", "INITIALIZING"}
                    /\ \A x \in Threads, l \in Motions : ~At(x, l)'
  BY DEF Arrived, Arriving, At, Within, Motions
<1>1. None \notin Threads /\ Client \in Threads
  BY ThreadsDistinct DEF Threads
<1>2. CASE Arriving(t)
  <2>1. /\ arm.pose = "zero" /\ arm.state \notin {"EXECUTING", "INITIALIZING"}
        /\ \A x \in Threads, m \in Motions : ~At(x, m)
    BY <1>2 DEF Arrived, Motions
  <2>2. physLock = t /\ Head(stack[t]) \notin {"homing", "parking", "wrist", "waypath", "launching"}
    <3>1. CASE At(t, "at_zero")
      BY <3>1, AtOwner DEF At, Locked
    <3>2. CASE Within(t, "receipt")
      <4>1. Head(stack[t]) = "receipt" \/ Above(Head(stack[t]), "receipt")
        BY <3>2, WithinHead
      <4>2. Head(stack[t]) = "receipt" \/ Head(stack[t]) \in Releasing
        BY <4>1 DEF Above, MoveEnds, MoveOrders
      <4>3. QED
        BY <3>2, <4>2, WithinOwner DEF Releasing, Locked, MoveOrders
    <3>3. QED
      BY <1>2, <3>1, <3>2 DEF Arriving
  <2>3. ASSUME NEW y \in Threads, At(y, "launching") PROVE FALSE
    <3>1. physLock = y
      BY <2>3, AtOwner DEF Locked, LaunchSteps
    <3>2. QED
      BY <2>2, <2>3, <3>1 DEF At
  <2>4. ~Crash
    <3>1. stack'[t] # <<>>
      <4>1. CASE stack'[t] = <<>>
        <5>1. DOMAIN stack'[t] = {}
          BY <4>1
        <5>2. QED
          BY <4>1, <5>1 DEF Arriving, At, Within
      <4>2. QED
        BY <4>1
    <3>2. QED
      BY <3>1 DEF Crash
  <2>5. ASSUME NEW x \in Threads, NEW l \in Motions, At(x, l)' PROVE FALSE
    BY <1>1, <2>1, <2>2, <2>5, ComesToMotion DEF At, Motions
  <2>6. QED
    BY <2>1, <2>3, <2>4, <2>5 DEF ArmBy, Motions
<1>3. CASE /\ Within(t, "at_zero") /\ At(t, "at_zero")' /\ Prompt(t)
           /\ arm'.pose = "zero" /\ arm'.state = "STOPPED"
  <2>1. physLock = t
    BY <1>3, WithinOwner DEF Locked, MoveOrders
  <2>2. \A y \in Threads \ {t}, m \in Motions : ~At(y, m)
    BY <1>3 DEF Prompt, Waits, Moving, Idle, At, Motions
  <2>3. Head(stack[t]) = "at_zero" \/ Head(stack[t]) \in Moves
    <3>1. Head(stack[t]) = "at_zero" \/ Above(Head(stack[t]), "at_zero")
      BY <1>3, WithinHead
    <3>2. QED
      BY <3>1 DEF Above, MoveOrders
  <2>4. ASSUME NEW x \in Threads, NEW l \in Motions, At(x, l)' PROVE FALSE
    <3>1. x # t
      BY <1>3, <2>4 DEF At, Motions
    <3>2. QED
      BY <1>1, <2>1, <2>2, <2>3, <2>4, <3>1, ComesToMotion DEF At, Motions, Moves
  <2>5. QED
    BY <1>3, <2>4
<1>4. QED
  BY <1>2, <1>3, ArrivesBy

----------------------------------------------------------------------------
(* The lease.                                                              *)

LEMMA NextLeaseIsFree ==
    ASSUME TypeOK, Ordered, Mutex, LeaseIsFree, AllMoved, OpBy
    PROVE  LeaseIsFree'
<1>1. None \notin Threads /\ Queue \in Threads
  BY ThreadsDistinct DEF Threads
<1>2. ASSUME physLock # None, op.lease = None PROVE op'.lease = None
  BY <1>2 DEF OpBy
<1>3. physLock' = Queue => op'.lease = None
  BY <1>1, <1>2 DEF AllMoved, LeaseIsFree
<1>4. ASSUME NEW t \in Threads, Within(t, "at_zero")' PROVE op'.lease = None
  <2>1. CASE Within(t, "at_zero")
    <3>1. physLock = t /\ op.lease = None
      BY <2>1, WithinOwner DEF LeaseIsFree, Locked, MoveOrders
    <3>2. QED
      BY <1>1, <1>2, <3>1
  <2>2. ASSUME ~Idle(t), NEW ls \in Seq(Labels), Leads(Head(stack[t]), ls),
               Duly(t, Head(stack[t]), ls), NEW j \in DOMAIN ls, ls[j] = "at_zero"
        PROVE  op'.lease = None
    <3>1. Head(stack[t]) = "parking" /\ ls # <<>>
      BY <2>2 DEF Leads
    <3>2. QED
      BY <2>2, <3>1 DEF Duly
  <2>3. ASSUME NEW ls \in Seq(Labels), Begins(t, ls), NEW j \in DOMAIN ls, ls[j] = "at_zero"
        PROVE  FALSE
    BY <2>3 DEF Begins, MoveOrders
  <2>4. QED
    BY <1>4, <2>1, <2>2, <2>3, WithinCame DEF MoveOrders
<1>5. QED
  BY <1>3, <1>4 DEF LeaseIsFree, Within

LEMMA NextGranting ==
    ASSUME TypeOK, Ordered, Granting, AllMoved, OpBy
    PROVE  Granting'
<1>1. /\ Client \in Threads /\ stack[Client] \in Seq(Labels) /\ stack'[Client] \in Seq(Labels)
      /\ Moved(Client) /\ Watchdogs \subseteq Threads /\ None \notin Watchdogs
  BY ThreadsDistinct DEF TypeOK, AllMoved, Threads
<1>2. ASSUME At(Client, "prepared")'
      PROVE  op'.offer \in Watchdogs /\ stack'[op'.offer] = <<>> /\ op'.lease \in {None, op'.offer}
  <2>1. stack'[Client] # <<>> /\ Head(stack'[Client]) = "prepared"
    BY <1>2 DEF At
  <2>2. CASE stack'[Client] = stack[Client]
    <3>1. At(Client, "prepared") /\ ~Idle(Client)
      BY <2>1, <2>2 DEF At, Idle
    <3>2. /\ op.offer \in Watchdogs /\ Idle(op.offer) /\ op.lease \in {None, op.offer}
          /\ op'.offer = op.offer /\ op'.lease \in {op.lease, None}
      BY <2>1, <3>1 DEF Granting, OpBy
    <3>3. Moved(op.offer) /\ op.offer \in Threads
      BY <1>1, <3>2 DEF AllMoved
    <3>4. stack'[op.offer] = <<>>
      <4>1. CASE Called(op.offer, <<"watch">>)
        BY <2>1, <3>2, <4>1 DEF Called
      <4>2. \A ls : Called(op.offer, ls) => stack'[Client] = <<>>
        BY <3>2 DEF Called
      <4>3. QED
        BY <2>1, <3>2, <3>3, <4>2 DEF Moved, Idle, Enters, At
    <3>5. QED
      BY <3>2, <3>4
  <2>3. CASE ~Idle(Client) /\ \E ls \in Seq(Labels) :
                  /\ Leads(Head(stack[Client]), ls) /\ Duly(Client, Head(stack[Client]), ls)
                  /\ stack'[Client] = ls \o Tail(stack[Client])
    <3>1. PICK ls \in Seq(Labels) : /\ Leads(Head(stack[Client]), ls)
                                   /\ stack'[Client] = ls \o Tail(stack[Client])
      BY <2>3
    <3>2. \/ ls # <<>> /\ Head(ls) = "prepared"
          \/ ls = <<>> /\ Above(Head(stack[Client]), "prepared")
      BY <1>1, <2>1, <2>3, <3>1, MovedAt
    <3>3. ~Above(Head(stack[Client]), "prepared")
      BY DEF Above, MoveEnds, MoveOrders
    <3>4. QED
      BY <3>1, <3>2, <3>3 DEF Leads
  <2>4. ASSUME NEW ls \in Seq(Labels), Begins(Client, ls), Called(Client, ls), stack'[Client] = ls
        PROVE  op'.offer \in Watchdogs /\ stack'[op'.offer] = <<>> /\ op'.lease \in {None, op'.offer}
    <3>1. ls = <<"prepared">>
      BY <2>1, <2>4 DEF Begins, MoveOrders
    <3>2. QED
      BY <2>4, <3>1 DEF Called
  <2>5. CASE Enters(Client, stack'[Client])
    BY <2>1, <2>5 DEF Enters, MoveOrders
  <2>6. QED
    BY <1>1, <2>1, <2>2, <2>3, <2>4, <2>5 DEF Moved
<1>3. ASSUME At(Client, "ended")', out'[Client] # "raised" PROVE op'.lease = None
  <2>1. stack'[Client] # <<>> /\ Head(stack'[Client]) = "ended"
    BY <1>3 DEF At
  <2>2. CASE stack'[Client] = stack[Client] /\ out'[Client] = out[Client]
    <3>1. op.lease = None /\ ~Idle(Client)
      BY <1>3, <2>1, <2>2 DEF Granting, At, Idle
    <3>2. QED
      BY <3>1 DEF OpBy
  <2>3. CASE ~Idle(Client) /\ \E ls \in Seq(Labels) :
                  /\ Leads(Head(stack[Client]), ls) /\ Duly(Client, Head(stack[Client]), ls)
                  /\ stack'[Client] = ls \o Tail(stack[Client])
    <3>1. PICK ls \in Seq(Labels) :
              /\ Leads(Head(stack[Client]), ls) /\ Duly(Client, Head(stack[Client]), ls)
              /\ stack'[Client] = ls \o Tail(stack[Client])
      BY <2>3
    <3>2. \/ ls # <<>> /\ Head(ls) = "ended"
          \/ /\ ls = <<>> /\ stack[Client][2] = "ended"
             /\ Above(Head(stack[Client]), "ended")
             /\ Head(stack[Client]) \in Waiting => stack[Client][2] \in {"held", "waypath_held"}
      BY <1>1, <2>1, <2>3, <3>1, MovedAt
    <3>3. ~(ls # <<>> /\ Head(ls) = "ended")
      BY <3>1 DEF Leads
    <3>4. Head(stack[Client]) \in {"hold", "held"}
      BY <3>2, <3>3 DEF Above, MoveEnds, MoveOrders, Holding, Waiting
    <3>5. QED
      BY <1>3, <2>1, <3>1, <3>4 DEF Duly
  <2>4. CASE \E ls \in Seq(Labels) : Begins(Client, ls) /\ stack'[Client] = ls
    BY <2>1, <2>4 DEF Begins, MoveOrders
  <2>5. CASE Enters(Client, stack'[Client])
    BY <2>1, <2>5 DEF Enters, MoveOrders
  <2>6. QED
    BY <1>1, <2>1, <2>2, <2>3, <2>4, <2>5 DEF Moved
<1>4. QED
  BY <1>2, <1>3 DEF Granting, At, Idle

LEMMA NextTimed ==
    ASSUME TypeOK, Ordered, Granting, Timed, AllMoved, OpBy, ArmBy, Crash => op'.lease = None
    PROVE  Timed'
<1> DEFINE Taken == \E t \in Threads : \E l \in {"hold", "held", "stopped", "close"} : Within(t, l)'
<1> SUFFICES ASSUME op'.lease # None, arm'.link
             PROVE  op'.deadline = op'.lease \/ At(Client, "prepared")' \/ Taken
  BY DEF Timed, At, Within
<1>1. /\ Client \in Threads /\ stack'[Client] \in Seq(Labels) /\ Moved(Client) /\ arm.link /\ ~Crash
  BY DEF AllMoved, Threads, ArmBy
<1>2. CASE /\ Idle(Client) /\ stack'[Client] = <<"prepared">>
           /\ physLock = None /\ physLock' = Client
  BY <1>2 DEF At
<1>3. CASE op'.lease = op.lease
  <2>1. CASE At(Client, "prepared")
    <3>1. op.lease = op.offer /\ stack[Client] # <<>> /\ Head(stack[Client]) = "prepared"
      BY <1>3, <2>1 DEF Granting, At
    <3>2. CASE stack'[Client] = stack[Client]
      BY <3>1, <3>2 DEF At
    <3>3. CASE Gone(Client)
      BY <1>1, <1>3, <3>1, <3>3 DEF Gone, At
    <3>4. \A ls : ~Leads(Head(stack[Client]), ls)
      BY <3>1 DEF Leads
    <3>5. QED
      BY <1>1, <3>1, <3>2, <3>3, <3>4 DEF Moved, Idle, Enters, At
  <2>2. CASE op.deadline = op.lease
    <3>1. \/ op'.deadline = op.deadline \/ At(Client, "prepared")
          \/ \E t \in Threads : Within(t, "hold")' \/ Within(t, "stopped")'
      BY DEF OpBy
    <3>2. QED
      BY <1>3, <2>1, <2>2, <3>1
  <2>3. ASSUME NEW t \in Threads, NEW l \in {"hold", "held", "stopped", "close"}, Within(t, l)
        PROVE  Taken
    <3>1. ASSUME NEW ls, Duly(t, l, ls) PROVE FALSE
      BY <2>3, <3>1 DEF Duly
    <3>2. Within(t, l)'
      BY <1>1, <2>3, <3>1, WithinStays
    <3>3. QED
      BY <2>3, <3>2
  <2>4. QED
    BY <1>1, <1>3, <2>1, <2>2, <2>3 DEF Timed
<1>4. QED
  BY <1>2, <1>3 DEF OpBy

----------------------------------------------------------------------------
(* Every step keeps the invariant.                                         *)

LEMMA InitHolds == Init => YamInv
<1> SUFFICES ASSUME Init PROVE YamInv
  OBVIOUS
<1>1. TypeOK
  BY InitTyped
<1>2. \A t \in Threads : stack[t] = <<>> /\ DOMAIN stack[t] = {}
  BY DEF Init
<1>3. Client \in Threads
  BY DEF Threads
<1>4. \A t \in Threads : \A l : ~At(t, l) /\ ~Within(t, l)
  BY <1>2 DEF At, Within
<1>5. Ordered /\ Kinds /\ Outcomes /\ Mutex
  BY <1>2, <1>4 DEF Ordered, Stacked, Kinds, Outcomes, Mutex, Free
<1>6. Receipted
  BY <1>4 DEF Init, FreshQueue, FreshArm, Receipted, Parked
<1>7. Arrived /\ Granting
  BY <1>3, <1>4 DEF Arrived, Arriving, Granting
<1>8. op.lease = None
  BY DEF Init, FreshOp
<1>9. LeaseIsFree /\ Timed
  BY <1>8 DEF LeaseIsFree, Timed
<1>10. QED
  BY <1>1, <1>5, <1>6, <1>7, <1>9 DEF YamInv

LEMMA NextHolds == ASSUME YamInv, Next PROVE YamInv'
<1>1. AllMoved
  BY NextMoved DEF YamInv
<1>2. OpBy /\ ArmBy /\ QueueBy
  BY NextOp, NextArm, NextQueue DEF YamInv
<1>3. TypeOK'
  BY <1>1, NextTyped DEF YamInv
<1>4. Ordered' /\ Kinds' /\ Outcomes' /\ Mutex'
  BY <1>1, NextOrdered, NextKinds, NextOutcomes, NextMutex DEF YamInv
<1>5. Receipted' /\ Arrived'
  BY <1>1, <1>2, NextReceipted, NextArrived DEF YamInv
<1>6. Crash => op'.lease = None
  BY DEF Crash, FreshOp
<1>7. LeaseIsFree' /\ Granting' /\ Timed'
  BY <1>1, <1>2, <1>6, NextLeaseIsFree, NextGranting, NextTimed DEF YamInv
<1>8. QED
  BY <1>3, <1>4, <1>5, <1>7 DEF YamInv

LEMMA StutterHolds == ASSUME YamInv, UNCHANGED vars PROVE YamInv'
<1>1. TypeOK'
  BY DEF YamInv, vars, TypeOK
<1>2. Ordered' /\ Kinds' /\ Outcomes' /\ Mutex'
  BY DEF YamInv, vars, Ordered, Stacked, Kinds, OfKind, Outcomes, At, Mutex, Free
<1>3. Receipted'
  BY DEF YamInv, vars, Receipted, Parked, At
<1>4. Arrived'
  BY DEF YamInv, vars, Arrived, Arriving, At, Within
<1>5. LeaseIsFree' /\ Granting' /\ Timed'
  BY DEF YamInv, vars, LeaseIsFree, Granting, Timed, At, Within, Idle
<1>6. QED
  BY <1>1, <1>2, <1>3, <1>4, <1>5 DEF YamInv

----------------------------------------------------------------------------
(* The theorems.                                                           *)

\* The invariant holds in every state that the operator can reach.
THEOREM YamInvariant == Spec => []YamInv
<1>1. YamInv /\ [Next]_vars => YamInv'
  BY NextHolds, StutterHolds
<1>2. QED
  BY InitHolds, <1>1, PTL DEF Spec

\* Every variable has its type, and a thread is always at a label the program has: in
\* particular the mode is always one of OPERATOR_MODES, whatever is pressed, ordered or
\* lost meanwhile (yam_operator_sim_web.py).
THEOREM YamTypeCorrect == Spec => []TypeOK
<1>1. YamInv => TypeOK
  BY DEF YamInv
<1>2. QED
  BY YamInvariant, <1>1, PTL

\* A receipt, in memory or on disk, is about arms that are off and at zero: no crash,
\* failed save, Stop, launch or late park makes it a lie (mark_parked, invalidate_park,
\* park_zero_and_stop).
THEOREM ReceiptsTrue == Spec => []ReceiptIsTrue
<1>1. YamInv => ReceiptIsTrue
  BY DEF YamInv, Receipted, Parked, ReceiptIsTrue
<1>2. QED
  BY YamInvariant, <1>1, PTL

\* No run has the lease while a park moves the arms to zero, of a watchdog or of the panel
\* too, or while the automatic queue moves them: api_prepare_session cannot come between
\* the admission of a park and its end (park_zero_and_stop, tick).
THEOREM ParkingIsExclusive == Spec => []ParkingExcludesRuns
<1>1. ASSUME YamInv, NEW t \in Threads, Moving(t), stack[t][2] = "at_zero" \/ t = Queue
      PROVE  op.lease = None
  <2>1. TypeOK /\ Ordered /\ Kinds /\ Mutex /\ LeaseIsFree
    BY <1>1 DEF YamInv
  <2>2. /\ stack[t] \in Seq(Labels) /\ stack[t] # <<>> /\ Head(stack[t]) = "moving"
        /\ Stacked(stack[t])
    BY <1>1, <2>1 DEF Moving, At, TypeOK, Ordered
  <2>3. /\ Len(stack[t]) \in Nat \ {0} /\ stack[t][1] = "moving"
        /\ DOMAIN stack[t] = 1 .. Len(stack[t])
    BY <2>2, Push, EmptySeq
  <2>4. 1 \in DOMAIN stack[t] /\ 1 < Len(stack[t]) /\ stack[t][2] \in MoveEnds
    BY <2>2, <2>3 DEF Stacked, Moves
  <2>5. 2 \in DOMAIN stack[t]
    BY <2>3, <2>4
  <2>6. CASE stack[t][2] = "at_zero"
    BY <2>1, <2>5, <2>6 DEF Within, LeaseIsFree
  <2>7. CASE t = Queue
    <3>1. OfKind(t, stack[t][2]) /\ t \notin Executors \cup Panel /\ t # Waypath
      BY <1>1, <2>1, <2>5, <2>7, ThreadsDistinct DEF Kinds
    <3>2. stack[t][2] \in {"homed", "at_zero"}
      BY <2>4, <3>1 DEF OfKind, MoveEnds
    <3>3. Within(t, stack[t][2]) /\ stack[t][2] \in Locked \ MoveOrders
      BY <2>5, <3>2 DEF Within, Locked, MoveOrders
    <3>4. physLock = Queue
      BY <2>1, <2>7, <3>3, WithinOwner
    <3>5. QED
      BY <2>1, <3>4 DEF LeaseIsFree
  <2>8. QED
    BY <1>1, <2>6, <2>7
<1>2. YamInv => ParkingExcludesRuns
  BY <1>1 DEF ParkingExcludesRuns
<1>3. QED
  BY YamInvariant, <1>2, PTL

\* A run that has the lease has its deadline running, unless the thread that is taking
\* the run away, or is still granting it, is between the two: no poll, fault, Stop or
\* watchdog leaves a run that would never expire (_watch_policy_runtime,
\* api_prepare_session, _stop_physical).
THEOREM RunsHaveDeadlines == Spec => []RunHasDeadline
<1>1. YamInv => RunHasDeadline
  BY DEF YamInv, Timed, RunHasDeadline, Ending
<1>2. QED
  BY YamInvariant, <1>1, PTL
=============================================================================
