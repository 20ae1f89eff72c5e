------------------------- MODULE MotorSafetyProofs -------------------------
(***************************************************************************)
(* What the motor process guarantees an operator who launches and moves    *)
(* the arms one call at a time (~Overlap), for any number of arms, calls,  *)
(* launches, breakdowns and link pauses: WorkerInv is an invariant, and    *)
(* with it, that torque is off when it is said to be, that a powered arm   *)
(* has an owner who can release it, that held arms are powered, and that   *)
(* every waypoint goes out under the conditions that authorised the first. *)
(*                                                                         *)
(* Most steps are of one of four shapes, which have a lemma each: a motion *)
(* goes on, a call without drivers returns, an alarm stops what moves, a   *)
(* cancellation.  The steps that hand drivers over have a lemma of theirs. *)
(***************************************************************************)
EXTENDS MotorWorkerProofs

\* What the latch of a link fault is about, and what is known of the power.
latch == <<linkFault, monitor, slipped>>
power == <<torque, abandoned>>

USE DEF control, signals, locks, report, locals, motors, linkVars, adapterVars,
        workerVars, latch, power

\* The threads of the other calls stay where they are.
OthersStay(c) ==
    \A d \in Calls \ {c} : pc'[d] = pc[d] /\ cancel'[d] = cancel[d] /\ drivers'[d] = drivers[d]

\* What the two ways a thread moves on do to it.
LEMMA ThreadStep ==
    ASSUME TypeOK, NEW c \in Calls
    PROVE  /\ \A l : Goto(c, l) /\ cancel' = cancel /\ drivers' = drivers =>
                 /\ pc'[c] = l /\ OthersStay(c)
                 /\ cancel'[c] = cancel[c] /\ drivers'[c] = drivers[c]
           /\ Return(c) => /\ pc'[c] = "idle" /\ drivers'[c] = NoDrivers
                           /\ OthersStay(c)
  BY DEF Goto, Return, TypeOK, AdapterTypeOK, OthersStay

\* The places of a motion are none of the other places.
LEMMA InMotionPlaces ==
    ASSUME NEW l \in InMotion
    PROVE  /\ l \in Cancellable /\ l \in Alone
           /\ l \notin StopPcs \cup Stopping \cup Releasing \cup LaunchPcs
           /\ l \notin {"idle", "launch", "initializing"}
  BY DEF InMotion, Cancellable, Alone, StopPcs, Stopping, Releasing, LaunchPcs, ExecutePcs

\* A motion goes on, from one place to another.
LEMMA MotionGoesOn ==
    ASSUME WorkerInv, NEW c \in Calls, pc[c] \in InMotion, pc'[c] \in InMotion,
           cancel'[c] = cancel[c], drivers'[c] = drivers[c], OthersStay(c),
           UNCHANGED <<control, robots, stopRequested, power, latch, lock, launches>>
    PROVE  TypeOK' => WorkerInv'
<1> USE InMotionPlaces DEF OthersStay
<1>1. OneMotion'
  BY DEF WorkerInv, OneMotion
<1>2. MotionHeedsStop'
  BY DEF WorkerInv, MotionHeedsStop
<1>3. MotionOwnsArms'
  BY DEF WorkerInv, MotionOwnsArms, Cancelled
<1>4. OneOwner'
  BY DEF WorkerInv, OneOwner, Has, Owned
<1>5. CallsBeginEmptyHanded'
  BY DEF WorkerInv, CallsBeginEmptyHanded, Owned
<1>6. OwnersAreOfPoweredArms'
  BY DEF WorkerInv, OwnersAreOfPoweredArms
<1>7. PoweredArmsAreOwned'
  BY DEF WorkerInv, PoweredArmsAreOwned
<1>8. LaunchWaitsForStop'
  BY DEF WorkerInv, LaunchWaitsForStop
<1>9. DisabledOwnsNone' /\ VerifiedOffIsOff'
  BY DEF WorkerInv, DisabledOwnsNone, VerifiedOffIsOff, Owned
<1> QED BY <1>1, <1>2, <1>3, <1>4, <1>5, <1>6, <1>7, <1>8, <1>9 DEF WorkerInv

\* What the invariant is about.
invVars == <<state, robots, torqueOffVerified, stopRequested, latch, lock, pc, cancel,
             drivers, power, launches>>

\* So it holds on when none of that changes.
LEMMA Undisturbed ==
    ASSUME WorkerInv, UNCHANGED invVars, TypeOK'
    PROVE  WorkerInv'
  BY DEF invVars, WorkerInv, OneMotion, MotionHeedsStop, MotionOwnsArms, OneOwner,
         CallsBeginEmptyHanded, OwnersAreOfPoweredArms, PoweredArmsAreOwned,
         LaunchWaitsForStop, DisabledOwnsNone, VerifiedOffIsOff, Has, Owned, Cancelled

\* An alarm raises the stop flag, and may declare a fault.
Alarm ==
    \/ stopRequested' = stopRequested /\ state' = state
    \/ /\ stopRequested' = TRUE
       /\ \/ state' = state
          \/ state' = "FAULT" /\ state \notin {"DISABLED", "STOPPING"}

\* A motion that an alarm has reached no longer claims the arms.
LEMMA AlarmIsHeeded ==
    ASSUME WorkerInv, Alarm, TypeOK',
           monitor' = monitor \/ (monitor' = "latching" /\ ~linkFault),
           UNCHANGED <<robots, torqueOffVerified, linkFault, slipped, lock, pc, cancel, drivers,
                       power, launches>>
    PROVE  WorkerInv'
<1>1. MotionOwnsArms' /\ LaunchWaitsForStop' /\ DisabledOwnsNone'
  BY DEF Alarm, WorkerInv, MotionOwnsArms, LaunchWaitsForStop, DisabledOwnsNone, Owned, Cancelled
<1>2. MotionHeedsStop'
  BY DEF WorkerInv, MotionHeedsStop
<1> QED
  BY <1>1, <1>2 DEF WorkerInv, OneMotion, OneOwner, CallsBeginEmptyHanded,
     OwnersAreOfPoweredArms, PoweredArmsAreOwned, VerifiedOffIsOff, Has, Owned

\* Calls are cancelled; a link fault is latched only after all of them.
LEMMA CancellingIsSafe ==
    ASSUME WorkerInv, TypeOK',
           \A c \in Calls : cancel[c] => cancel'[c],
           \/ UNCHANGED latch
           \/ /\ monitor # "watching" /\ monitor' = "faulting"
              /\ \A c \in Calls : pc[c] \in Cancellable => cancel'[c]
              /\ UNCHANGED linkFault
           \/ /\ monitor = "faulting" /\ monitor' = "watching"
              /\ linkFault' => slipped' = slipped,
           stopRequested => stopRequested',
           UNCHANGED <<state, robots, torqueOffVerified, lock, pc, drivers, power, launches>>
    PROVE  WorkerInv'
<1>1. MotionOwnsArms' /\ MotionHeedsStop'
  BY DEF WorkerInv, MotionOwnsArms, MotionHeedsStop, Cancelled
<1> QED
  BY <1>1 DEF WorkerInv, OneMotion, OneOwner, CallsBeginEmptyHanded, LaunchWaitsForStop,
     OwnersAreOfPoweredArms, PoweredArmsAreOwned, DisabledOwnsNone, VerifiedOffIsOff, Has, Owned

\* The call has no drivers to give back.
EmptyHanded(c) == pc[c] \notin Releasing

\* An idle call is nowhere.
IdlePlace ==
    "idle" \notin StopPcs \cup Releasing \cup Cancellable \cup Alone \cup InMotion \cup Stopping
                  \cup LaunchPcs
\* And so it is.
LEMMA Idle == IdlePlace
  BY DEF IdlePlace, InMotion, Cancellable, Alone, StopPcs, Stopping, Releasing, LaunchPcs,
     ExecutePcs

\* A link fault can only be cleared.
LatchStays ==
    /\ monitor' = monitor /\ (linkFault' => linkFault)
    /\ (linkFault' \/ monitor' = "faulting") => slipped' = slipped

\* A call that holds no drivers returns; the state is its to change only when
\* it is the one that launches, moves or recovers the link.
LEMMA CallReturns ==
    ASSUME WorkerInv, TypeOK', NEW c \in Calls, EmptyHanded(c),
           pc'[c] = "idle", drivers'[c] = NoDrivers, OthersStay(c),
           \/ Alarm
           \/ pc[c] \in Alone /\ (state' = "DISABLED" => state = "DISABLED"),
           LatchStays,
           UNCHANGED <<robots, torqueOffVerified, power, lock, launches>>
    PROVE  WorkerInv'
<1> USE Idle DEF IdlePlace, OthersStay
<1>1. OneMotion'
  BY DEF WorkerInv, OneMotion
<1>2. MotionHeedsStop'
  BY DEF WorkerInv, MotionHeedsStop, LatchStays
<1>3. MotionOwnsArms'
  BY InMotionPlaces DEF WorkerInv, MotionOwnsArms, Cancelled, Alarm, OneMotion
<1>4. OneOwner'
  BY DEF WorkerInv, OneOwner, Has, Owned
<1>5. CallsBeginEmptyHanded'
  BY DEF WorkerInv, CallsBeginEmptyHanded, Owned, NoDrivers
<1>6. OwnersAreOfPoweredArms'
  BY DEF WorkerInv, OwnersAreOfPoweredArms
<1>7. PoweredArmsAreOwned'
  BY DEF WorkerInv, PoweredArmsAreOwned, EmptyHanded
<1>8. LaunchWaitsForStop'
  BY DEF WorkerInv, LaunchWaitsForStop, OneMotion, Alone, Cancellable, Alarm
<1>9. DisabledOwnsNone' /\ VerifiedOffIsOff'
  BY DEF WorkerInv, DisabledOwnsNone, VerifiedOffIsOff, Owned, Alarm
<1> QED BY <1>1, <1>2, <1>3, <1>4, <1>5, <1>6, <1>7, <1>8, <1>9 DEF WorkerInv

\* What kind of place each place of a call is.
LEMMA PlaceKinds ==
    /\ "idle" \notin LaunchPcs \cup InMotion \cup Cancellable \cup Alone
                     \cup StopPcs \cup Stopping \cup Releasing
    /\ "hold" \notin LaunchPcs \cup InMotion \cup Cancellable \cup Alone
                     \cup StopPcs \cup Stopping \cup Releasing
    /\ "recover_link" \in Alone
       /\ "recover_link" \notin LaunchPcs \cup InMotion \cup Cancellable
                                \cup StopPcs \cup Stopping \cup Releasing
    /\ "launch" \in LaunchPcs \cap Cancellable \cap Alone
       /\ "launch" \notin InMotion \cup StopPcs \cup Stopping \cup Releasing
    /\ "initializing" \in LaunchPcs \cap Cancellable \cap Alone \cap Releasing
       /\ "initializing" \notin InMotion \cup StopPcs \cup Stopping
    /\ "launched" \in LaunchPcs \cap Cancellable \cap Alone
       /\ "launched" \notin InMotion \cup StopPcs \cup Stopping \cup Releasing
    /\ "execute" \in Cancellable \cap Alone
       /\ "execute" \notin LaunchPcs \cup InMotion \cup StopPcs \cup Stopping \cup Releasing
    /\ "checking" \in InMotion \cap Cancellable \cap Alone
       /\ "checking" \notin LaunchPcs \cup StopPcs \cup Stopping \cup Releasing
    /\ "settled" \in InMotion \cap Cancellable \cap Alone
       /\ "settled" \notin LaunchPcs \cup StopPcs \cup Stopping \cup Releasing
    /\ "failed" \in InMotion \cap Cancellable \cap Alone
       /\ "failed" \notin LaunchPcs \cup StopPcs \cup Stopping \cup Releasing
    /\ "servo" \in InMotion \cap Cancellable \cap Alone
       /\ "servo" \notin LaunchPcs \cup StopPcs \cup Stopping \cup Releasing
    /\ "interrupted" \in InMotion \cap Cancellable \cap Alone
       /\ "interrupted" \notin LaunchPcs \cup StopPcs \cup Stopping \cup Releasing
    /\ "rejected" \in InMotion \cap Cancellable \cap Alone
       /\ "rejected" \notin LaunchPcs \cup StopPcs \cup Stopping \cup Releasing
    /\ "disabling" \in Cancellable \cap Alone \cap Releasing
       /\ "disabling" \notin LaunchPcs \cup InMotion \cup StopPcs \cup Stopping
    /\ "disabled" \in Cancellable \cap Alone \cap Releasing
       /\ "disabled" \notin LaunchPcs \cup InMotion \cup StopPcs \cup Stopping
    /\ "stop" \in StopPcs
       /\ "stop" \notin LaunchPcs \cup InMotion \cup Cancellable \cup Alone
                        \cup Stopping \cup Releasing
    /\ "stopping" \in StopPcs
       /\ "stopping" \notin LaunchPcs \cup InMotion \cup Cancellable \cup Alone
                            \cup Stopping \cup Releasing
    /\ "releasing" \in StopPcs \cap Stopping \cap Releasing
       /\ "releasing" \notin LaunchPcs \cup InMotion \cup Cancellable \cup Alone
    /\ "released" \in StopPcs \cap Stopping \cap Releasing
       /\ "released" \notin LaunchPcs \cup InMotion \cup Cancellable \cup Alone
    /\ "stopped" \in StopPcs
       /\ "stopped" \notin LaunchPcs \cup InMotion \cup Cancellable \cup Alone
                           \cup Stopping \cup Releasing
  BY DEF LaunchPcs, ExecutePcs, StopPcs, InMotion, Cancellable, Alone, Stopping, Releasing

\* And how the kinds relate.
LEMMA KindsRelate ==
    /\ \A l \in LaunchPcs : l \in Cancellable /\ l \notin InMotion
    /\ \A l \in InMotion : l \in Cancellable /\ l \notin Releasing
    /\ \A l \in Cancellable : l \in Alone /\ l \notin StopPcs \cup Stopping
    /\ \A l \in Stopping : l \in StopPcs /\ l \in Releasing /\ l \notin Alone
    /\ \A l \in StopPcs : l \notin Alone
    /\ \A l \in Releasing : l \in Stopping \/ l \in Cancellable
  BY DEF LaunchPcs, ExecutePcs, StopPcs, InMotion, Cancellable, Alone, Stopping, Releasing

\* A set of drivers is empty where it has none.
LEMMA OwnsNone == \A d : Owned(d) = {} <=> \A a \in Arms : d[a] = 0
  BY DEF Owned


\* What is kept stays powered, what is not kept is off.
LEMMA PairsReleased ==
    ASSUME TypeOK, NEW c \in Calls, NEW l, DisablePairs(c, l)
    PROVE  /\ pc'[c] = l /\ cancel'[c] = cancel[c] /\ OthersStay(c)
           /\ \A x \in Arms :
                /\ torque'[x] => torque[x]
                /\ drivers[c][x] = 0 => drivers'[c][x] = 0 /\ (torque[x] => torque'[x])
                /\ drivers'[c][x] # 0 => (torque[x] => torque'[x])
                /\ drivers[c][x] # 0 /\ torque'[x] => drivers'[c][x] # 0
<1>1. PICK failed \in SUBSET Owned(drivers[c]) :
        /\ torque' = [a \in Arms |-> torque[a] /\ a \notin Owned(drivers[c]) \ failed]
        /\ drivers' = [drivers EXCEPT ![c] = Keep(drivers[c], failed)]
        /\ Goto(c, l)
        /\ cancel' = cancel
  BY DEF DisablePairs
<1>2. pc'[c] = l /\ cancel'[c] = cancel[c] /\ OthersStay(c)
  BY <1>1 DEF Goto, OthersStay, TypeOK, AdapterTypeOK
<1>3. drivers'[c] = Keep(drivers[c], failed)
  BY <1>1 DEF TypeOK, AdapterTypeOK
<1>4. ASSUME NEW x \in Arms
      PROVE  torque'[x] <=> torque[x] /\ x \notin Owned(drivers[c]) \ failed
  BY <1>1, Zenon
<1>5. ASSUME NEW x \in Arms
      PROVE  /\ x \in Owned(drivers[c]) <=> drivers[c][x] # 0
             /\ drivers'[c][x] # 0 <=> x \in failed
  BY <1>3 DEF Owned, Keep
<1> QED BY <1>2, <1>4, <1>5

\* A driver has one holder.
LEMMA Exclusive ==
    ASSUME WorkerInv, NEW c \in Calls, pc[c] \in Releasing, NEW x \in Arms, drivers[c][x] # 0
    PROVE  robots[x] = 0 /\ \A d \in Calls \ {c} : pc[d] \in Releasing => drivers[d][x] = 0
  BY OwnsNone DEF WorkerInv, OneOwner, Has

\* A launch or a Stop under way holds whatever is powered and has a driver.
LEMMA SoleOwner ==
    ASSUME WorkerInv, NEW c \in Calls, pc[c] \in Stopping \cup {"initializing"},
           NEW x \in Arms, torque[x]
    PROVE  drivers[c][x] # 0 \/ x \in abandoned
  BY OwnsNone DEF WorkerInv, OneOwner, PoweredArmsAreOwned, Has

\* A launch begins when no driver is left and no Stop is under way.
LEMMA LaunchBeginSafe ==
    ASSUME WorkerInv, TypeOK', NEW c \in Calls, LaunchBegin(c), UNCHANGED linkVars
    PROVE  WorkerInv'
<1>1. /\ pc[c] = "launch"
      /\ \A d \in Calls : pc[d] # "initializing"
      /\ state \in {"DISABLED", "FAULT"}
      /\ state = "FAULT" => Owned(robots) = {}
      /\ pc'[c] = "initializing"
      /\ lock' = c
      /\ launches' # 0
      /\ ~torqueOffVerified'
      /\ state' = "INITIALIZING"
      /\ cancel'[c] = cancel[c]
      /\ drivers'[c] = drivers[c]
      /\ OthersStay(c)
      /\ UNCHANGED <<robots, latch, power>>
  BY ThreadStep, ThreadsDiffer DEF LaunchBegin, At, Free, OthersStay, WorkerInv, TypeOK,
     AdapterTypeOK, OneOwner
<1> USE <1>1, PlaceKinds, KindsRelate, OwnsNone DEF OthersStay, WorkerInv, Has
<1>2. OneMotion'
  BY DEF OneMotion
<1>3. MotionHeedsStop'
  BY DEF MotionHeedsStop
<1>4. MotionOwnsArms'
  BY DEF MotionOwnsArms, OneMotion
<1>5. OneOwner'
  BY DEF OneOwner, OneMotion, LaunchWaitsForStop, DisabledOwnsNone, VerifiedOffIsOff
<1>6. CallsBeginEmptyHanded'
  BY DEF CallsBeginEmptyHanded
<1>7. OwnersAreOfPoweredArms'
  <2>1. \A a \in Arms : drivers[c][a] = 0
    BY DEF CallsBeginEmptyHanded
  <2> QED BY <2>1 DEF OwnersAreOfPoweredArms
<1>8. PoweredArmsAreOwned'
  BY DEF PoweredArmsAreOwned
<1>9. LaunchWaitsForStop'
  BY DEF LaunchWaitsForStop
<1>10. DisabledOwnsNone'
  BY DEF DisabledOwnsNone
<1>11. VerifiedOffIsOff'
  BY DEF VerifiedOffIsOff
<1> QED
  BY <1>2, <1>3, <1>4, <1>5, <1>6, <1>7, <1>8, <1>9, <1>10, <1>11

\* The launch is the only owner while it powers the arms.
LEMMA LaunchArmSafe ==
    ASSUME WorkerInv, TypeOK', NEW c \in Calls, NEW a \in Arms, LaunchArm(c, a), UNCHANGED linkVars
    PROVE  WorkerInv'
<1>1. /\ pc[c] = "initializing"
      /\ pc'[c] = "initializing"
      /\ \A x \in Arms : drivers'[c][x] = IF x = a THEN launches ELSE drivers[c][x]
      /\ \A x \in Arms : torque'[x] <=> torque[x] \/ x = a
      /\ abandoned' = abandoned \ {a}
      /\ cancel'[c] = cancel[c]
      /\ OthersStay(c)
      /\ UNCHANGED <<state, robots, torqueOffVerified, stopRequested, latch, lock, launches>>
  BY ThreadStep, LaunchBound DEF LaunchArm, At, OthersStay, Owned, Pairs, WorkerInv,
     TypeOK, AdapterTypeOK
<1> USE <1>1, PlaceKinds, KindsRelate, OwnsNone DEF OthersStay, WorkerInv, Has
<1>2. OneMotion'
  BY DEF OneMotion
<1>3. MotionHeedsStop'
  BY DEF MotionHeedsStop
<1>4. MotionOwnsArms'
  BY DEF MotionOwnsArms, OneMotion
<1>5. OneOwner'
  BY DEF OneOwner, OneMotion, LaunchWaitsForStop, DisabledOwnsNone, VerifiedOffIsOff
<1>6. CallsBeginEmptyHanded'
  BY DEF CallsBeginEmptyHanded
<1>7. OwnersAreOfPoweredArms'
  BY DEF OwnersAreOfPoweredArms
<1>8. PoweredArmsAreOwned'
  BY DEF PoweredArmsAreOwned, OneOwner
<1>9. LaunchWaitsForStop'
  BY DEF LaunchWaitsForStop, OneMotion
<1>10. DisabledOwnsNone'
  BY DEF DisabledOwnsNone
<1>11. VerifiedOffIsOff'
  BY DEF VerifiedOffIsOff, OneOwner
<1> QED
  BY <1>2, <1>3, <1>4, <1>5, <1>6, <1>7, <1>8, <1>9, <1>10, <1>11

\* Or it keeps the arms whose shutdown was not acknowledged.
LEMMA LaunchFailedSafe ==
    ASSUME WorkerInv, TypeOK', NEW c \in Calls, LaunchFailed(c), UNCHANGED linkVars
    PROVE  WorkerInv'
<1>1. /\ pc[c] = "initializing"
      /\ pc'[c] = "idle"
      /\ drivers'[c] = NoDrivers
      /\ OthersStay(c)
      /\ state' = "FAULT"
      /\ \A x \in Arms :
             /\ torque'[x] => torque[x] \/ x \in abandoned'
             /\ x \in abandoned => x \in abandoned'
             /\ x \in abandoned' => x \in abandoned \/ drivers[c][x] = 0
             /\ drivers[c][x] = 0 => robots'[x] = 0 /\ (torque[x] => torque'[x])
             /\ robots'[x] # 0 => (torque[x] => torque'[x]) /\ drivers[c][x] # 0
             /\ drivers[c][x] # 0 /\ torque'[x] => robots'[x] # 0
      /\ torqueOffVerified' => \A x \in Arms : robots'[x] = 0
      /\ UNCHANGED <<stopRequested, latch, launches>>
  <2>1. PICK failed \in SUBSET Owned(drivers[c]), raised \in RaisedArms(c) :
          /\ robots' = Keep(drivers[c], failed)
          /\ torqueOffVerified' = (Owned(drivers[c]) # {} /\ failed = {})
          /\ torque' = [a \in Arms |->
                          a \in raised \/ (torque[a] /\ a \notin Owned(drivers[c]) \ failed)]
          /\ abandoned' = abandoned \cup raised
    BY DEF LaunchFailed
  <2>2. ASSUME NEW x \in Arms
        PROVE  torque'[x] <=> x \in raised \/ (torque[x] /\ x \notin Owned(drivers[c]) \ failed)
    BY <2>1, Zenon
  <2>3. ASSUME NEW x \in Arms
        PROVE  /\ x \in Owned(drivers[c]) <=> drivers[c][x] # 0
               /\ robots'[x] # 0 <=> x \in failed
               /\ x \in raised => drivers[c][x] = 0
    BY <2>1 DEF Owned, Keep, RaisedArms
  <2>4. torqueOffVerified' => failed = {}
    BY <2>1, Zenon
  <2>5. /\ pc[c] = "initializing" /\ Return(c) /\ state' = "FAULT"
        /\ UNCHANGED <<stopRequested, latch, launches>>
    BY DEF LaunchFailed, At
  <2>6. pc'[c] = "idle" /\ drivers'[c] = NoDrivers /\ OthersStay(c)
    BY <2>5, ThreadStep DEF WorkerInv
  <2> QED BY <2>1, <2>2, <2>3, <2>4, <2>5, <2>6
<1> USE <1>1, PlaceKinds, KindsRelate, OwnsNone DEF OthersStay, WorkerInv, Has
<1>2. OneMotion'
  BY DEF OneMotion
<1>3. MotionHeedsStop'
  BY DEF MotionHeedsStop
<1>4. MotionOwnsArms'
  BY DEF MotionOwnsArms, OneMotion
<1>5. OneOwner'
  BY DEF OneOwner, OneMotion, LaunchWaitsForStop, DisabledOwnsNone, VerifiedOffIsOff
<1>6. CallsBeginEmptyHanded'
  BY DEF CallsBeginEmptyHanded, NoDrivers
<1>7. OwnersAreOfPoweredArms'
  <2> HIDE PlaceKinds, KindsRelate, OwnsNone DEF Has
  <2>1. ASSUME NEW a \in Arms, robots'[a] # 0
        PROVE  torque'[a] /\ a \notin abandoned'
    BY <2>1, PlaceKinds DEF OwnersAreOfPoweredArms
  <2>2. ASSUME NEW a \in Arms, NEW d \in Calls, pc'[d] \in Releasing, drivers'[d][a] # 0
        PROVE  torque'[a] /\ a \notin abandoned'
    <3>1. d # c /\ pc[d] \in Releasing /\ drivers[d][a] # 0
      BY <2>2, PlaceKinds
    <3>2. torque[a] /\ a \notin abandoned
      BY <3>1 DEF OwnersAreOfPoweredArms
    <3>3. drivers[c][a] # 0
      BY <3>2, SoleOwner
    <3> QED BY <3>1, <3>3, Exclusive, PlaceKinds
  <2> QED BY <2>1, <2>2 DEF OwnersAreOfPoweredArms
<1>8. PoweredArmsAreOwned'
  BY DEF PoweredArmsAreOwned, OneOwner
<1>9. LaunchWaitsForStop'
  BY DEF LaunchWaitsForStop, OneMotion
<1>10. DisabledOwnsNone'
  BY DEF DisabledOwnsNone
<1>11. VerifiedOffIsOff'
  <2> HIDE PlaceKinds, KindsRelate, OwnsNone DEF Has
  <2> QED BY SoleOwner DEF VerifiedOffIsOff
<1> QED
  BY <1>2, <1>3, <1>4, <1>5, <1>6, <1>7, <1>8, <1>9, <1>10, <1>11

\* A motion begins with the live drivers.
LEMMA ExecuteBeginSafe ==
    ASSUME WorkerInv, TypeOK', NEW c \in Calls, ExecuteBegin(c), UNCHANGED linkVars
    PROVE  WorkerInv'
<1>1. /\ pc[c] = "execute"
      /\ pc'[c] = "checking"
      /\ drivers'[c] = robots
      /\ state = "STOPPED"
      /\ state' = "EXECUTING"
      /\ cancel'[c] = cancel[c]
      /\ OthersStay(c)
      /\ UNCHANGED <<robots, torqueOffVerified, latch, lock, power, launches>>
  BY DEF ExecuteBegin, At, Goto, OthersStay, TypeOK, AdapterTypeOK
<1> USE <1>1, PlaceKinds, KindsRelate, OwnsNone DEF OthersStay, WorkerInv, Has
<1>2. OneMotion'
  BY DEF OneMotion
<1>3. MotionHeedsStop'
  BY DEF MotionHeedsStop
<1>4. MotionOwnsArms'
  BY DEF MotionOwnsArms, OneMotion
<1>5. OneOwner'
  BY DEF OneOwner, OneMotion, DisabledOwnsNone, VerifiedOffIsOff, NoDrivers
<1>6. CallsBeginEmptyHanded'
  BY DEF CallsBeginEmptyHanded, NoDrivers
<1>7. OwnersAreOfPoweredArms'
  BY DEF OwnersAreOfPoweredArms, CallsBeginEmptyHanded
<1>8. PoweredArmsAreOwned'
  BY DEF PoweredArmsAreOwned
<1>9. LaunchWaitsForStop'
  BY DEF LaunchWaitsForStop
<1>10. DisabledOwnsNone'
  BY DEF DisabledOwnsNone
<1>11. VerifiedOffIsOff'
  BY DEF VerifiedOffIsOff
<1> QED
  BY <1>2, <1>3, <1>4, <1>5, <1>6, <1>7, <1>8, <1>9, <1>10, <1>11

\* A failed motion takes the drivers with it to release them,
LEMMA FailBeginSafe ==
    ASSUME WorkerInv, TypeOK', NEW c \in Calls, FailBegin(c), UNCHANGED linkVars
    PROVE  WorkerInv'
<1>1. /\ \A d \in Calls : pc[d] # "initializing"
      /\ pc[c] = "failed"
      /\ pc'[c] = "disabling"
      /\ drivers'[c] = robots
      /\ \A x \in Arms : robots'[x] = 0
      /\ state' = "FAULT" \/ state' = state
      /\ cancel'[c] = cancel[c]
      /\ OthersStay(c)
      /\ UNCHANGED <<torqueOffVerified, stopRequested, latch, lock, power, launches>>
  BY ThreadsDiffer DEF FailBegin, At, Goto, Free, OthersStay, SetFault, NoDrivers,
     WorkerInv, TypeOK, AdapterTypeOK, OneOwner
<1> USE <1>1, PlaceKinds, KindsRelate, OwnsNone DEF OthersStay, WorkerInv, Has
<1>2. OneMotion'
  BY DEF OneMotion
<1>3. MotionHeedsStop'
  BY DEF MotionHeedsStop
<1>4. MotionOwnsArms'
  BY DEF MotionOwnsArms, OneMotion
<1>5. OneOwner'
  BY DEF OneOwner, OneMotion, DisabledOwnsNone, VerifiedOffIsOff, NoDrivers
<1>6. CallsBeginEmptyHanded'
  BY DEF CallsBeginEmptyHanded, NoDrivers
<1>7. OwnersAreOfPoweredArms'
  BY DEF OwnersAreOfPoweredArms, CallsBeginEmptyHanded
<1>8. PoweredArmsAreOwned'
  BY DEF PoweredArmsAreOwned
<1>9. LaunchWaitsForStop'
  BY DEF LaunchWaitsForStop, OneMotion
<1>10. DisabledOwnsNone'
  BY DEF DisabledOwnsNone, OneOwner
<1>11. VerifiedOffIsOff'
  BY DEF VerifiedOffIsOff
<1> QED
  BY <1>2, <1>3, <1>4, <1>5, <1>6, <1>7, <1>8, <1>9, <1>10, <1>11

\* and keeps those it could not release
LEMMA FailDisableSafe ==
    ASSUME WorkerInv, TypeOK', NEW c \in Calls, FailDisable(c), UNCHANGED linkVars
    PROVE  WorkerInv'
<1>1. /\ pc[c] = "disabling"
      /\ pc'[c] = "disabled"
      /\ UNCHANGED abandoned
      /\ \A x \in Arms :
             /\ torque'[x] => torque[x]
             /\ drivers[c][x] = 0 => drivers'[c][x] = 0 /\ (torque[x] => torque'[x])
             /\ drivers'[c][x] # 0 => (torque[x] => torque'[x])
             /\ drivers[c][x] # 0 /\ torque'[x] => drivers'[c][x] # 0
      /\ cancel'[c] = cancel[c]
      /\ OthersStay(c)
      /\ UNCHANGED <<state, robots, torqueOffVerified, stopRequested, latch, lock, launches>>
  BY PairsReleased DEF FailDisable, DisablePairs, At, WorkerInv
<1> USE <1>1, PlaceKinds, KindsRelate, OwnsNone DEF OthersStay, WorkerInv, Has
<1>2. /\ \A d \in Calls \ {c} : Has(d)' <=> Has(d)
      /\ Has(c)' => Has(c)
  BY DEF NoDrivers
<1>3. OneMotion'
  BY DEF OneMotion
<1>4. MotionHeedsStop'
  BY DEF MotionHeedsStop
<1>5. MotionOwnsArms'
  BY DEF MotionOwnsArms, OneMotion
<1>6. OneOwner'
  <2> HIDE DEF Has
  <2> QED BY <1>2 DEF OneOwner, DisabledOwnsNone, VerifiedOffIsOff
<1>7. CallsBeginEmptyHanded'
  BY DEF CallsBeginEmptyHanded
<1>8. OwnersAreOfPoweredArms'
  <2> HIDE PlaceKinds, KindsRelate, OwnsNone DEF Has
  <2> QED BY Exclusive, PlaceKinds DEF OwnersAreOfPoweredArms
<1>9. PoweredArmsAreOwned'
  BY DEF PoweredArmsAreOwned
<1>10. LaunchWaitsForStop'
  BY DEF LaunchWaitsForStop
<1>11. DisabledOwnsNone'
  BY DEF DisabledOwnsNone
<1>12. VerifiedOffIsOff'
  BY DEF VerifiedOffIsOff
<1> QED
  BY <1>3, <1>4, <1>5, <1>6, <1>7, <1>8, <1>9, <1>10, <1>11, <1>12

\* to give them back.
LEMMA FailEndSafe ==
    ASSUME WorkerInv, TypeOK', NEW c \in Calls, FailEnd(c), UNCHANGED linkVars
    PROVE  WorkerInv'
<1>1. /\ \A d \in Calls : pc[d] # "initializing"
      /\ pc[c] = "disabled"
      /\ pc'[c] = "idle"
      /\ drivers'[c] = NoDrivers
      /\ OthersStay(c)
      /\ \A x \in Arms : robots'[x] = IF drivers[c][x] # 0 THEN drivers[c][x] ELSE robots[x]
      /\ IF Owned(drivers[c]) # {} THEN state' = "FAULT" ELSE state' = state
      /\ UNCHANGED <<torqueOffVerified, stopRequested, latch, lock, power, launches>>
  BY ThreadStep, ThreadsDiffer DEF FailEnd, At, Free, SetFault, Merge, WorkerInv, OneOwner
<1> USE <1>1, PlaceKinds, KindsRelate, OwnsNone DEF OthersStay, WorkerInv, Has
<1>2. /\ \A d \in Calls \ {c} : Has(d)' <=> Has(d)
      /\ ~Has(c)'
      /\ ~Has(c) => (Owned(robots)' = {} <=> Owned(robots) = {})
  BY DEF NoDrivers
<1>3. OneMotion'
  BY DEF OneMotion
<1>4. MotionHeedsStop'
  BY DEF MotionHeedsStop
<1>5. MotionOwnsArms'
  BY DEF MotionOwnsArms, OneMotion
<1>6. OneOwner'
  <2> HIDE DEF Has
  <2> QED BY <1>2 DEF OneOwner, DisabledOwnsNone, VerifiedOffIsOff
<1>7. CallsBeginEmptyHanded'
  BY DEF CallsBeginEmptyHanded, NoDrivers
<1>8. OwnersAreOfPoweredArms'
  BY DEF OwnersAreOfPoweredArms, CallsBeginEmptyHanded, NoDrivers
<1>9. PoweredArmsAreOwned'
  BY DEF PoweredArmsAreOwned
<1>10. LaunchWaitsForStop'
  BY DEF LaunchWaitsForStop, OneMotion
<1>11. DisabledOwnsNone'
  BY DEF DisabledOwnsNone, OneOwner
<1>12. VerifiedOffIsOff'
  BY DEF VerifiedOffIsOff
<1> QED
  BY <1>3, <1>4, <1>5, <1>6, <1>7, <1>8, <1>9, <1>10, <1>11, <1>12

\* Stop finds the motion cancelled.
LEMMA StopRequestSafe ==
    ASSUME WorkerInv, TypeOK', NEW c \in Calls, StopRequest(c), UNCHANGED linkVars
    PROVE  WorkerInv'
<1>1. /\ pc[c] = "stop"
      /\ pc'[c] = "stopping"
      /\ cancel'[c] = cancel[c]
      /\ drivers'[c] = drivers[c]
      /\ OthersStay(c)
      /\ stopRequested'
      /\ UNCHANGED <<state, robots, torqueOffVerified, latch, lock, power, launches>>
  BY ThreadStep DEF StopRequest, At, WorkerInv
<1> USE <1>1, PlaceKinds, KindsRelate, OwnsNone DEF OthersStay, WorkerInv, Has
<1>2. /\ \A d \in Calls \ {c} : Has(d)' <=> Has(d)
      /\ Has(c)' <=> Has(c)
  BY DEF NoDrivers
<1>3. OneMotion'
  BY DEF OneMotion
<1>4. MotionHeedsStop'
  BY DEF MotionHeedsStop
<1>5. MotionOwnsArms'
  BY DEF MotionOwnsArms, Cancelled
<1>6. OneOwner'
  <2> HIDE DEF Has
  <2> QED BY <1>2 DEF OneOwner, DisabledOwnsNone, NoDrivers
<1>7. CallsBeginEmptyHanded'
  BY DEF CallsBeginEmptyHanded
<1>8. OwnersAreOfPoweredArms'
  BY DEF OwnersAreOfPoweredArms
<1>9. PoweredArmsAreOwned'
  BY DEF PoweredArmsAreOwned
<1>10. LaunchWaitsForStop'
  BY DEF LaunchWaitsForStop
<1>11. DisabledOwnsNone'
  BY DEF DisabledOwnsNone
<1>12. VerifiedOffIsOff'
  BY DEF VerifiedOffIsOff
<1> QED
  BY <1>3, <1>4, <1>5, <1>6, <1>7, <1>8, <1>9, <1>10, <1>11, <1>12

\* It takes the drivers; when there are none nothing is powered.
LEMMA StopBeginSafe ==
    ASSUME WorkerInv, TypeOK', NEW c \in Calls, StopBegin(c), UNCHANGED linkVars
    PROVE  WorkerInv'
<1>1. /\ \A d \in Calls : pc[d] # "initializing"
      /\ pc[c] = "stopping"
      /\ pc'[c] = "releasing"
      /\ state # "STOPPING"
      /\ Owned(robots) = {} => torqueOffVerified
      /\ drivers'[c] = robots
      /\ \A x \in Arms : robots'[x] = 0
      /\ ~torqueOffVerified'
      /\ state' = "STOPPING"
      /\ cancel'[c] = cancel[c]
      /\ OthersStay(c)
      /\ UNCHANGED <<stopRequested, latch, lock, power, launches>>
  BY DEF StopBegin, At, Goto, OthersStay, NoDrivers, WorkerInv, TypeOK, AdapterTypeOK,
     OneOwner
<1> USE <1>1, PlaceKinds, KindsRelate, OwnsNone DEF OthersStay, WorkerInv, Has
<1>2. /\ \A d \in Calls \ {c} : Has(d)' <=> Has(d)
      /\ Has(c)' <=> Owned(robots) # {}
  BY DEF NoDrivers
<1>3. OneMotion'
  BY DEF OneMotion
<1>4. MotionHeedsStop'
  BY DEF MotionHeedsStop
<1>5. MotionOwnsArms'
  BY DEF MotionOwnsArms, MotionHeedsStop, Cancelled
<1>6. OneOwner'
  <2>1. Owned(robots) = {} => \A d \in Calls : ~Has(d)
    BY DEF VerifiedOffIsOff, OwnersAreOfPoweredArms
  <2> HIDE DEF Has
  <2> QED BY <2>1, <1>2 DEF OneOwner, OwnersAreOfPoweredArms, NoDrivers
<1>7. CallsBeginEmptyHanded'
  BY DEF CallsBeginEmptyHanded
<1>8. OwnersAreOfPoweredArms'
  BY DEF OwnersAreOfPoweredArms
<1>9. PoweredArmsAreOwned'
  BY DEF PoweredArmsAreOwned
<1>10. LaunchWaitsForStop'
  BY DEF LaunchWaitsForStop
<1>11. DisabledOwnsNone'
  BY DEF DisabledOwnsNone
<1>12. VerifiedOffIsOff'
  BY DEF VerifiedOffIsOff
<1> QED
  BY <1>3, <1>4, <1>5, <1>6, <1>7, <1>8, <1>9, <1>10, <1>11, <1>12

\* It keeps those it could not release
LEMMA StopDisableSafe ==
    ASSUME WorkerInv, TypeOK', NEW c \in Calls, StopDisable(c), UNCHANGED linkVars
    PROVE  WorkerInv'
<1>1. /\ pc[c] = "releasing"
      /\ pc'[c] = "released"
      /\ UNCHANGED abandoned
      /\ \A x \in Arms :
             /\ torque'[x] => torque[x]
             /\ drivers[c][x] = 0 => drivers'[c][x] = 0 /\ (torque[x] => torque'[x])
             /\ drivers'[c][x] # 0 => (torque[x] => torque'[x])
             /\ drivers[c][x] # 0 /\ torque'[x] => drivers'[c][x] # 0
      /\ cancel'[c] = cancel[c]
      /\ OthersStay(c)
      /\ UNCHANGED <<state, robots, torqueOffVerified, stopRequested, latch, lock, launches>>
  BY PairsReleased DEF StopDisable, DisablePairs, At, WorkerInv
<1> USE <1>1, PlaceKinds, KindsRelate, OwnsNone DEF OthersStay, WorkerInv, Has
<1>2. /\ \A d \in Calls \ {c} : Has(d)' <=> Has(d)
      /\ Has(c)' => Has(c)
  BY DEF NoDrivers
<1>3. OneMotion'
  BY DEF OneMotion
<1>4. MotionHeedsStop'
  BY DEF MotionHeedsStop
<1>5. MotionOwnsArms'
  BY DEF MotionOwnsArms, Cancelled
<1>6. OneOwner'
  <2> HIDE DEF Has
  <2> QED BY <1>2 DEF OneOwner, DisabledOwnsNone, NoDrivers
<1>7. CallsBeginEmptyHanded'
  BY DEF CallsBeginEmptyHanded
<1>8. OwnersAreOfPoweredArms'
  <2> HIDE PlaceKinds, KindsRelate, OwnsNone DEF Has
  <2> QED BY Exclusive, PlaceKinds DEF OwnersAreOfPoweredArms
<1>9. PoweredArmsAreOwned'
  BY DEF PoweredArmsAreOwned
<1>10. LaunchWaitsForStop'
  BY DEF LaunchWaitsForStop
<1>11. DisabledOwnsNone'
  BY DEF DisabledOwnsNone
<1>12. VerifiedOffIsOff'
  BY DEF VerifiedOffIsOff
<1> QED
  BY <1>3, <1>4, <1>5, <1>6, <1>7, <1>8, <1>9, <1>10, <1>11, <1>12

\* to give them back,
LEMMA StopFailedSafe ==
    ASSUME WorkerInv, TypeOK', NEW c \in Calls, StopFailed(c), UNCHANGED linkVars
    PROVE  WorkerInv'
<1>1. /\ \A d \in Calls : pc[d] # "initializing"
      /\ pc[c] = "released"
      /\ Owned(drivers[c]) # {}
      /\ pc'[c] = "idle"
      /\ drivers'[c] = NoDrivers
      /\ OthersStay(c)
      /\ \A x \in Arms : robots'[x] = IF drivers[c][x] # 0 THEN drivers[c][x] ELSE robots[x]
      /\ state' = "FAULT"
      /\ UNCHANGED <<torqueOffVerified, stopRequested, latch, lock, power, launches>>
  BY ThreadStep, ThreadsDiffer DEF StopFailed, At, Free, SetFault, Merge, WorkerInv,
     OneOwner
<1> USE <1>1, PlaceKinds, KindsRelate, OwnsNone DEF OthersStay, WorkerInv, Has
<1>2. /\ \A d \in Calls \ {c} : Has(d)' <=> Has(d)
      /\ Has(c) /\ ~Has(c)'
  BY DEF NoDrivers
<1>3. OneMotion'
  BY DEF OneMotion
<1>4. MotionHeedsStop'
  BY DEF MotionHeedsStop
<1>5. MotionOwnsArms'
  BY DEF MotionOwnsArms, MotionHeedsStop, Cancelled
<1>6. OneOwner'
  <2> HIDE DEF Has
  <2> QED BY <1>2 DEF OneOwner, DisabledOwnsNone, OwnersAreOfPoweredArms, NoDrivers
<1>7. CallsBeginEmptyHanded'
  BY DEF CallsBeginEmptyHanded, NoDrivers
<1>8. OwnersAreOfPoweredArms'
  BY DEF OwnersAreOfPoweredArms, CallsBeginEmptyHanded, NoDrivers
<1>9. PoweredArmsAreOwned'
  BY DEF PoweredArmsAreOwned
<1>10. LaunchWaitsForStop'
  BY DEF LaunchWaitsForStop
<1>11. DisabledOwnsNone'
  BY DEF DisabledOwnsNone
<1>12. VerifiedOffIsOff'
  BY DEF VerifiedOffIsOff
<1> QED
  BY <1>3, <1>4, <1>5, <1>6, <1>7, <1>8, <1>9, <1>10, <1>11, <1>12

\* or is the only owner, of nothing.
LEMMA StopDoneSafe ==
    ASSUME WorkerInv, TypeOK', NEW c \in Calls, StopDone(c), UNCHANGED linkVars
    PROVE  WorkerInv'
<1>1. /\ pc[c] = "released"
      /\ pc'[c] = "stopped"
      /\ Owned(drivers[c]) = {}
      /\ torqueOffVerified'
      /\ state' = "DISABLED"
      /\ cancel'[c] = cancel[c]
      /\ drivers'[c] = drivers[c]
      /\ OthersStay(c)
      /\ UNCHANGED <<robots, stopRequested, latch, lock, power, launches>>
  BY ThreadStep DEF StopDone, At, WorkerInv
<1> USE <1>1, PlaceKinds, KindsRelate, OwnsNone DEF OthersStay, WorkerInv, Has
<1>2. OneMotion'
  BY DEF OneMotion
<1>3. MotionHeedsStop'
  BY DEF MotionHeedsStop
<1>4. MotionOwnsArms'
  BY DEF MotionOwnsArms, MotionHeedsStop, Cancelled
<1>5. OneOwner'
  BY DEF OneOwner, OneMotion, LaunchWaitsForStop, DisabledOwnsNone, VerifiedOffIsOff,
     OwnersAreOfPoweredArms, NoDrivers
<1>6. CallsBeginEmptyHanded'
  BY DEF CallsBeginEmptyHanded, NoDrivers
<1>7. OwnersAreOfPoweredArms'
  BY DEF OwnersAreOfPoweredArms, CallsBeginEmptyHanded
<1>8. PoweredArmsAreOwned'
  BY DEF PoweredArmsAreOwned
<1>9. LaunchWaitsForStop'
  BY DEF LaunchWaitsForStop
<1>10. DisabledOwnsNone'
  BY DEF DisabledOwnsNone, OneOwner
<1>11. VerifiedOffIsOff'
  <2> HIDE PlaceKinds, KindsRelate, OwnsNone DEF Has
  <2> QED BY SoleOwner, PlaceKinds, OwnsNone DEF VerifiedOffIsOff, NoDrivers, TypeOK
<1> QED
  BY <1>2, <1>3, <1>4, <1>5, <1>6, <1>7, <1>8, <1>9, <1>10, <1>11

\* An orderly operator begins a motion only beside Hold.
LEMMA ReceiveSafe ==
    ASSUME WorkerInv, TypeOK', NEW c \in Calls, ~Overlap,
           NEW m \in {"launch", "execute", "recover_link"}, Receive(c, m)
    PROVE  WorkerInv'
<1>1. /\ pc[c] = "idle"
      /\ \A d \in Calls : pc[d] \notin Alone \cup StopPcs
      /\ m \in {"launch", "execute"} => ~linkFault
      /\ UNCHANGED <<linkFault, monitor>>
      /\ monitor = "faulting" => slipped' = slipped \cup {c}
      /\ pc'[c] = m
      /\ cancel'[c] = cancel[c]
      /\ drivers'[c] = drivers[c]
      /\ OthersStay(c)
      /\ UNCHANGED <<state, robots, torqueOffVerified, stopRequested, lock, power, launches>>
  BY ThreadStep DEF Motions, Alone, Cancellable, Receive, At, Goto, OthersStay, WorkerInv,
     TypeOK, AdapterTypeOK
<1> USE <1>1, PlaceKinds, KindsRelate, OwnsNone DEF OthersStay, WorkerInv, Has
<1>2. OneMotion'
  BY DEF OneMotion
<1>3. MotionHeedsStop'
  BY DEF MotionHeedsStop
<1>4. MotionOwnsArms'
  BY DEF MotionOwnsArms
<1>5. OneOwner'
  BY DEF OneOwner
<1>6. CallsBeginEmptyHanded'
  BY DEF CallsBeginEmptyHanded
<1>7. OwnersAreOfPoweredArms'
  BY DEF OwnersAreOfPoweredArms
<1>8. PoweredArmsAreOwned'
  BY DEF PoweredArmsAreOwned
<1>9. LaunchWaitsForStop'
  BY DEF LaunchWaitsForStop
<1>10. DisabledOwnsNone'
  BY DEF DisabledOwnsNone
<1>11. VerifiedOffIsOff'
  BY DEF VerifiedOffIsOff
<1> QED
  BY <1>2, <1>3, <1>4, <1>5, <1>6, <1>7, <1>8, <1>9, <1>10, <1>11

\* It hands both over to the adapter.
LEMMA LaunchDoneSafe ==
    ASSUME WorkerInv, TypeOK', NEW c \in Calls, LaunchDone(c), UNCHANGED linkVars
    PROVE  WorkerInv'
<1>1. /\ pc[c] = "initializing"
      /\ Owned(drivers[c]) = Arms
      /\ pc'[c] = "launched"
      /\ robots' = drivers[c]
      /\ state' = "STOPPED"
      /\ cancel'[c] = cancel[c]
      /\ drivers'[c] = drivers[c]
      /\ OthersStay(c)
      /\ UNCHANGED <<torqueOffVerified, stopRequested, latch, power, launches>>
  BY ThreadStep DEF LaunchDone, At, WorkerInv
<1> USE <1>1, PlaceKinds, KindsRelate, OwnsNone DEF OthersStay, WorkerInv, Has
<1>2. OneMotion'
  BY DEF OneMotion
<1>3. MotionHeedsStop'
  BY DEF MotionHeedsStop
<1>4. MotionOwnsArms'
  BY DEF MotionOwnsArms, OneMotion
<1>5. OneOwner'
  BY DEF OneOwner, DisabledOwnsNone, VerifiedOffIsOff
<1>6. CallsBeginEmptyHanded'
  BY DEF CallsBeginEmptyHanded
<1>7. OwnersAreOfPoweredArms'
  BY DEF OwnersAreOfPoweredArms
<1>8. PoweredArmsAreOwned'
  BY DEF PoweredArmsAreOwned, OneOwner
<1>9. LaunchWaitsForStop'
  BY DEF LaunchWaitsForStop, OneMotion
<1>10. DisabledOwnsNone'
  BY DEF DisabledOwnsNone
<1>11. VerifiedOffIsOff'
  BY DEF VerifiedOffIsOff
<1> QED
  BY <1>2, <1>3, <1>4, <1>5, <1>6, <1>7, <1>8, <1>9, <1>10, <1>11

\* The steps of a motion between its beginning and its end.
LEMMA MotionSafe ==
    ASSUME WorkerInv, TypeOK', NEW c \in Calls,
           \/ /\ \/ Check(c) \/ NextWaypoint(c) \/ LastWaypoint(c) \/ Interrupt(c)
                 \/ Clear(c) \/ HealthLost(c) \/ PauseForLink(c) \/ RecoveryBegin(c)
                 \/ RecoveryResumes(c) \/ RecoveryFails(c) \/ Dispatch(c) \/ Settle(c)
              /\ UNCHANGED linkVars
           \/ LinkResumes(c) \/ LinkRefuses(c)
    PROVE  WorkerInv'
<1> USE DEF At, Goto, Resume, InMotion, ExecutePcs, WorkerInv, TypeOK, AdapterTypeOK
<1>1. CASE Check(c) /\ UNCHANGED linkVars
  <2>1. pc[c] \in InMotion /\ pc'[c] \in InMotion
    BY <1>1 DEF Check
  <2>2. cancel'[c] = cancel[c] /\ drivers'[c] = drivers[c] /\ OthersStay(c)
    BY <1>1 DEF Check, OthersStay
  <2>3. UNCHANGED <<control, robots, stopRequested, power, latch, lock, launches>>
    BY <1>1 DEF Check
  <2> QED BY <2>1, <2>2, <2>3, MotionGoesOn
<1>2. CASE NextWaypoint(c) /\ UNCHANGED linkVars
  <2>1. pc[c] \in InMotion /\ pc'[c] \in InMotion
    BY <1>2 DEF NextWaypoint
  <2>2. cancel'[c] = cancel[c] /\ drivers'[c] = drivers[c] /\ OthersStay(c)
    BY <1>2 DEF NextWaypoint, OthersStay
  <2>3. UNCHANGED <<control, robots, stopRequested, power, latch, lock, launches>>
    BY <1>2 DEF NextWaypoint
  <2> QED BY <2>1, <2>2, <2>3, MotionGoesOn
<1>3. CASE LastWaypoint(c) /\ UNCHANGED linkVars
  <2>1. pc[c] \in InMotion /\ pc'[c] \in InMotion
    BY <1>3 DEF LastWaypoint
  <2>2. cancel'[c] = cancel[c] /\ drivers'[c] = drivers[c] /\ OthersStay(c)
    BY <1>3 DEF LastWaypoint, OthersStay
  <2>3. UNCHANGED <<control, robots, stopRequested, power, latch, lock, launches>>
    BY <1>3 DEF LastWaypoint
  <2> QED BY <2>1, <2>2, <2>3, MotionGoesOn
<1>4. CASE Interrupt(c) /\ UNCHANGED linkVars
  <2>1. pc[c] \in InMotion /\ pc'[c] \in InMotion
    BY <1>4 DEF Interrupt
  <2>2. cancel'[c] = cancel[c] /\ drivers'[c] = drivers[c] /\ OthersStay(c)
    BY <1>4 DEF Interrupt, OthersStay
  <2>3. UNCHANGED <<control, robots, stopRequested, power, latch, lock, launches>>
    BY <1>4 DEF Interrupt
  <2> QED BY <2>1, <2>2, <2>3, MotionGoesOn
<1>5. CASE Clear(c) /\ UNCHANGED linkVars
  <2>1. pc[c] \in InMotion /\ pc'[c] \in InMotion
    BY <1>5 DEF Clear
  <2>2. cancel'[c] = cancel[c] /\ drivers'[c] = drivers[c] /\ OthersStay(c)
    BY <1>5 DEF Clear, OthersStay
  <2>3. UNCHANGED <<control, robots, stopRequested, power, latch, lock, launches>>
    BY <1>5 DEF Clear
  <2> QED BY <2>1, <2>2, <2>3, MotionGoesOn
<1>6. CASE HealthLost(c) /\ UNCHANGED linkVars
  <2>1. pc[c] \in InMotion /\ pc'[c] \in InMotion
    BY <1>6 DEF HealthLost
  <2>2. cancel'[c] = cancel[c] /\ drivers'[c] = drivers[c] /\ OthersStay(c)
    BY <1>6 DEF HealthLost, OthersStay
  <2>3. UNCHANGED <<control, robots, stopRequested, power, latch, lock, launches>>
    BY <1>6 DEF HealthLost
  <2> QED BY <2>1, <2>2, <2>3, MotionGoesOn
<1>7. CASE PauseForLink(c) /\ UNCHANGED linkVars
  <2>1. pc[c] \in InMotion /\ pc'[c] \in InMotion
    BY <1>7 DEF PauseForLink
  <2>2. cancel'[c] = cancel[c] /\ drivers'[c] = drivers[c] /\ OthersStay(c)
    BY <1>7 DEF PauseForLink, OthersStay
  <2>3. UNCHANGED <<control, robots, stopRequested, power, latch, lock, launches>>
    BY <1>7 DEF PauseForLink
  <2> QED BY <2>1, <2>2, <2>3, MotionGoesOn
<1>8. CASE RecoveryBegin(c) /\ UNCHANGED linkVars
  <2>1. pc[c] \in InMotion /\ pc'[c] \in InMotion
    BY <1>8 DEF RecoveryBegin
  <2>2. cancel'[c] = cancel[c] /\ drivers'[c] = drivers[c] /\ OthersStay(c)
    BY <1>8 DEF RecoveryBegin, OthersStay
  <2>3. UNCHANGED <<control, robots, stopRequested, power, latch, lock, launches>>
    BY <1>8 DEF RecoveryBegin
  <2> QED BY <2>1, <2>2, <2>3, MotionGoesOn
<1>9. CASE RecoveryResumes(c) /\ UNCHANGED linkVars
  <2>1. pc[c] \in InMotion /\ pc'[c] \in InMotion
    BY <1>9 DEF RecoveryResumes
  <2>2. cancel'[c] = cancel[c] /\ drivers'[c] = drivers[c] /\ OthersStay(c)
    BY <1>9 DEF RecoveryResumes, OthersStay
  <2>3. UNCHANGED <<control, robots, stopRequested, power, latch, lock, launches>>
    BY <1>9 DEF RecoveryResumes
  <2> QED BY <2>1, <2>2, <2>3, MotionGoesOn
<1>10. CASE RecoveryFails(c) /\ UNCHANGED linkVars
  <2>1. pc[c] \in InMotion /\ pc'[c] \in InMotion
    BY <1>10 DEF RecoveryFails
  <2>2. cancel'[c] = cancel[c] /\ drivers'[c] = drivers[c] /\ OthersStay(c)
    BY <1>10 DEF RecoveryFails, OthersStay
  <2>3. UNCHANGED <<control, robots, stopRequested, power, latch, lock, launches>>
    BY <1>10 DEF RecoveryFails
  <2> QED BY <2>1, <2>2, <2>3, MotionGoesOn
<1>11. CASE Dispatch(c) /\ UNCHANGED linkVars
  <2>1. pc[c] \in InMotion /\ pc'[c] \in InMotion
    BY <1>11 DEF Dispatch
  <2>2. cancel'[c] = cancel[c] /\ drivers'[c] = drivers[c] /\ OthersStay(c)
    BY <1>11 DEF Dispatch, OthersStay
  <2>3. UNCHANGED <<control, robots, stopRequested, power, latch, lock, launches>>
    BY <1>11 DEF Dispatch
  <2> QED BY <2>1, <2>2, <2>3, MotionGoesOn
<1>12. CASE Settle(c) /\ UNCHANGED linkVars
  <2>1. pc[c] \in InMotion /\ pc'[c] \in InMotion
    BY <1>12 DEF Settle
  <2>2. cancel'[c] = cancel[c] /\ drivers'[c] = drivers[c] /\ OthersStay(c)
    BY <1>12 DEF Settle, OthersStay
  <2>3. UNCHANGED <<control, robots, stopRequested, power, latch, lock, launches>>
    BY <1>12 DEF Settle
  <2> QED BY <2>1, <2>2, <2>3, MotionGoesOn
<1>13. CASE LinkResumes(c)
  <2>1. pc[c] \in InMotion /\ pc'[c] \in InMotion
    BY <1>13 DEF LinkResumes
  <2>2. cancel'[c] = cancel[c] /\ drivers'[c] = drivers[c] /\ OthersStay(c)
    BY <1>13 DEF LinkResumes, OthersStay
  <2>3. UNCHANGED <<control, robots, stopRequested, power, latch, lock, launches>>
    BY <1>13 DEF LinkResumes
  <2> QED BY <2>1, <2>2, <2>3, MotionGoesOn
<1>14. CASE LinkRefuses(c)
  <2>1. pc[c] \in InMotion /\ pc'[c] \in InMotion
    BY <1>14 DEF LinkRefuses
  <2>2. cancel'[c] = cancel[c] /\ drivers'[c] = drivers[c] /\ OthersStay(c)
    BY <1>14 DEF LinkRefuses, OthersStay
  <2>3. UNCHANGED <<control, robots, stopRequested, power, latch, lock, launches>>
    BY <1>14 DEF LinkRefuses
  <2> QED BY <2>1, <2>2, <2>3, MotionGoesOn
<1> QED BY <1>1, <1>2, <1>3, <1>4, <1>5, <1>6, <1>7, <1>8, <1>9, <1>10, <1>11, <1>12, <1>13, <1>14

\* The calls that end without drivers in hand.
LEMMA ReturnsSafe ==
    ASSUME WorkerInv, TypeOK', NEW c \in Calls,
           \/ /\ \/ LaunchRefused(c) \/ ExecuteRefused(c) \/ Settled(c) \/ HoldServoFault(c)
                 \/ HoldInterrupted(c) \/ HoldRejected(c) \/ StopRefused(c) \/ Hold(c)
              /\ UNCHANGED linkVars
           \/ AfterLaunchOrStop(c) \/ RecoverLink(c)
    PROVE  WorkerInv'
<1>1. CASE LaunchRefused(c) /\ UNCHANGED linkVars
  <2>1. Return(c)
    BY <1>1 DEF LaunchRefused
  <2>2. pc'[c] = "idle" /\ drivers'[c] = NoDrivers /\ OthersStay(c)
    BY <2>1, ThreadStep DEF WorkerInv
  <2>3. EmptyHanded(c)
    BY <1>1, PlaceKinds DEF LaunchRefused, EmptyHanded, At
  <2>4. \/ Alarm
        \/ pc[c] \in Alone /\ (state' = "DISABLED" => state = "DISABLED")
    BY <1>1, PlaceKinds DEF LaunchRefused, Alarm, At, SetFault, RetainServoFaultHold, Ready
  <2>5. LatchStays /\ UNCHANGED <<robots, torqueOffVerified, power, lock, launches>>
    BY <1>1 DEF LaunchRefused, SetFault, RetainServoFaultHold, LatchStays
  <2> QED BY <2>2, <2>3, <2>4, <2>5, CallReturns
<1>2. CASE ExecuteRefused(c) /\ UNCHANGED linkVars
  <2>1. Return(c)
    BY <1>2 DEF ExecuteRefused
  <2>2. pc'[c] = "idle" /\ drivers'[c] = NoDrivers /\ OthersStay(c)
    BY <2>1, ThreadStep DEF WorkerInv
  <2>3. EmptyHanded(c)
    BY <1>2, PlaceKinds DEF ExecuteRefused, EmptyHanded, At
  <2>4. \/ Alarm
        \/ pc[c] \in Alone /\ (state' = "DISABLED" => state = "DISABLED")
    BY <1>2, PlaceKinds DEF ExecuteRefused, Alarm, At, SetFault, RetainServoFaultHold, Ready
  <2>5. LatchStays /\ UNCHANGED <<robots, torqueOffVerified, power, lock, launches>>
    BY <1>2 DEF ExecuteRefused, SetFault, RetainServoFaultHold, LatchStays
  <2> QED BY <2>2, <2>3, <2>4, <2>5, CallReturns
<1>3. CASE Settled(c) /\ UNCHANGED linkVars
  <2>1. Return(c)
    BY <1>3 DEF Settled
  <2>2. pc'[c] = "idle" /\ drivers'[c] = NoDrivers /\ OthersStay(c)
    BY <2>1, ThreadStep DEF WorkerInv
  <2>3. EmptyHanded(c)
    BY <1>3, PlaceKinds DEF Settled, EmptyHanded, At
  <2>4. \/ Alarm
        \/ pc[c] \in Alone /\ (state' = "DISABLED" => state = "DISABLED")
    BY <1>3, PlaceKinds DEF Settled, Alarm, At, SetFault, RetainServoFaultHold, Ready
  <2>5. LatchStays /\ UNCHANGED <<robots, torqueOffVerified, power, lock, launches>>
    BY <1>3 DEF Settled, SetFault, RetainServoFaultHold, LatchStays
  <2> QED BY <2>2, <2>3, <2>4, <2>5, CallReturns
<1>4. CASE HoldServoFault(c) /\ UNCHANGED linkVars
  <2>1. Return(c)
    BY <1>4 DEF HoldServoFault
  <2>2. pc'[c] = "idle" /\ drivers'[c] = NoDrivers /\ OthersStay(c)
    BY <2>1, ThreadStep DEF WorkerInv
  <2>3. EmptyHanded(c)
    BY <1>4, PlaceKinds DEF HoldServoFault, EmptyHanded, At
  <2>4. \/ Alarm
        \/ pc[c] \in Alone /\ (state' = "DISABLED" => state = "DISABLED")
    BY <1>4, PlaceKinds DEF HoldServoFault, Alarm, At, SetFault, RetainServoFaultHold, Ready
  <2>5. LatchStays /\ UNCHANGED <<robots, torqueOffVerified, power, lock, launches>>
    BY <1>4 DEF HoldServoFault, SetFault, RetainServoFaultHold, LatchStays
  <2> QED BY <2>2, <2>3, <2>4, <2>5, CallReturns
<1>5. CASE HoldInterrupted(c) /\ UNCHANGED linkVars
  <2>1. Return(c)
    BY <1>5 DEF HoldInterrupted
  <2>2. pc'[c] = "idle" /\ drivers'[c] = NoDrivers /\ OthersStay(c)
    BY <2>1, ThreadStep DEF WorkerInv
  <2>3. EmptyHanded(c)
    BY <1>5, PlaceKinds DEF HoldInterrupted, EmptyHanded, At
  <2>4. \/ Alarm
        \/ pc[c] \in Alone /\ (state' = "DISABLED" => state = "DISABLED")
    BY <1>5, PlaceKinds DEF HoldInterrupted, Alarm, At, SetFault, RetainServoFaultHold, Ready
  <2>5. LatchStays /\ UNCHANGED <<robots, torqueOffVerified, power, lock, launches>>
    BY <1>5 DEF HoldInterrupted, SetFault, RetainServoFaultHold, LatchStays
  <2> QED BY <2>2, <2>3, <2>4, <2>5, CallReturns
<1>6. CASE HoldRejected(c) /\ UNCHANGED linkVars
  <2>1. Return(c)
    BY <1>6 DEF HoldRejected
  <2>2. pc'[c] = "idle" /\ drivers'[c] = NoDrivers /\ OthersStay(c)
    BY <2>1, ThreadStep DEF WorkerInv
  <2>3. EmptyHanded(c)
    BY <1>6, PlaceKinds DEF HoldRejected, EmptyHanded, At
  <2>4. \/ Alarm
        \/ pc[c] \in Alone /\ (state' = "DISABLED" => state = "DISABLED")
    BY <1>6, PlaceKinds DEF HoldRejected, Alarm, At, SetFault, RetainServoFaultHold, Ready
  <2>5. LatchStays /\ UNCHANGED <<robots, torqueOffVerified, power, lock, launches>>
    BY <1>6 DEF HoldRejected, SetFault, RetainServoFaultHold, LatchStays
  <2> QED BY <2>2, <2>3, <2>4, <2>5, CallReturns
<1>7. CASE StopRefused(c) /\ UNCHANGED linkVars
  <2>1. Return(c)
    BY <1>7 DEF StopRefused
  <2>2. pc'[c] = "idle" /\ drivers'[c] = NoDrivers /\ OthersStay(c)
    BY <2>1, ThreadStep DEF WorkerInv
  <2>3. EmptyHanded(c)
    BY <1>7, PlaceKinds DEF StopRefused, EmptyHanded, At
  <2>4. \/ Alarm
        \/ pc[c] \in Alone /\ (state' = "DISABLED" => state = "DISABLED")
    BY <1>7, PlaceKinds DEF StopRefused, Alarm, At, SetFault, RetainServoFaultHold, Ready
  <2>5. LatchStays /\ UNCHANGED <<robots, torqueOffVerified, power, lock, launches>>
    BY <1>7 DEF StopRefused, SetFault, RetainServoFaultHold, LatchStays
  <2> QED BY <2>2, <2>3, <2>4, <2>5, CallReturns
<1>8. CASE Hold(c) /\ UNCHANGED linkVars
  <2>1. Return(c)
    BY <1>8 DEF Hold
  <2>2. pc'[c] = "idle" /\ drivers'[c] = NoDrivers /\ OthersStay(c)
    BY <2>1, ThreadStep DEF WorkerInv
  <2>3. EmptyHanded(c)
    BY <1>8, PlaceKinds DEF Hold, EmptyHanded, At
  <2>4. \/ Alarm
        \/ pc[c] \in Alone /\ (state' = "DISABLED" => state = "DISABLED")
    BY <1>8, PlaceKinds DEF Hold, Alarm, At, SetFault, RetainServoFaultHold, Ready
  <2>5. LatchStays /\ UNCHANGED <<robots, torqueOffVerified, power, lock, launches>>
    BY <1>8 DEF Hold, SetFault, RetainServoFaultHold, LatchStays
  <2> QED BY <2>2, <2>3, <2>4, <2>5, CallReturns
<1>9. CASE AfterLaunchOrStop(c)
  <2>1. Return(c)
    BY <1>9 DEF AfterLaunchOrStop
  <2>2. pc'[c] = "idle" /\ drivers'[c] = NoDrivers /\ OthersStay(c)
    BY <2>1, ThreadStep DEF WorkerInv
  <2>3. EmptyHanded(c)
    BY <1>9, PlaceKinds DEF AfterLaunchOrStop, EmptyHanded, At
  <2>4. \/ Alarm
        \/ pc[c] \in Alone /\ (state' = "DISABLED" => state = "DISABLED")
    BY <1>9, PlaceKinds DEF AfterLaunchOrStop, Alarm, At, SetFault, RetainServoFaultHold, Ready
  <2>5. LatchStays /\ UNCHANGED <<robots, torqueOffVerified, power, lock, launches>>
    BY <1>9 DEF AfterLaunchOrStop, SetFault, RetainServoFaultHold, LatchStays, WorkerInv, MotionHeedsStop
  <2> QED BY <2>2, <2>3, <2>4, <2>5, CallReturns
<1>10. CASE RecoverLink(c)
  <2>1. Return(c)
    BY <1>10 DEF RecoverLink
  <2>2. pc'[c] = "idle" /\ drivers'[c] = NoDrivers /\ OthersStay(c)
    BY <2>1, ThreadStep DEF WorkerInv
  <2>3. EmptyHanded(c)
    BY <1>10, PlaceKinds DEF RecoverLink, EmptyHanded, At
  <2>4. \/ Alarm
        \/ pc[c] \in Alone /\ (state' = "DISABLED" => state = "DISABLED")
    BY <1>10, PlaceKinds DEF RecoverLink, Alarm, At, SetFault, RetainServoFaultHold, Ready
  <2>5. LatchStays /\ UNCHANGED <<robots, torqueOffVerified, power, lock, launches>>
    BY <1>10 DEF RecoverLink, SetFault, RetainServoFaultHold, LatchStays, WorkerInv, MotionHeedsStop
  <2> QED BY <2>2, <2>3, <2>4, <2>5, CallReturns
<1> QED BY <1>1, <1>2, <1>3, <1>4, <1>5, <1>6, <1>7, <1>8, <1>9, <1>10

\* A launch that finds the arms held: it succeeds, or declares a fault.
LEMMA LaunchHeldSafe ==
    ASSUME WorkerInv, TypeOK', NEW c \in Calls, LaunchHeld(c), UNCHANGED linkVars
    PROVE  WorkerInv'
<1> USE ThreadStep, PlaceKinds DEF LaunchHeld, At, WorkerInv
<1>1. CASE Healthy(robots)
  <2>1. /\ pc[c] = "launch" /\ pc'[c] = "launched"
        /\ cancel'[c] = cancel[c] /\ drivers'[c] = drivers[c] /\ OthersStay(c)
        /\ UNCHANGED <<control, robots, stopRequested, power, latch, lock, launches>>
    BY <1>1
  <2> USE <2>1, KindsRelate DEF OthersStay
  <2>2. OneMotion' /\ MotionHeedsStop'
    BY DEF OneMotion, MotionHeedsStop
  <2>3. MotionOwnsArms'
    BY DEF MotionOwnsArms, Cancelled
  <2>4. OneOwner'
    BY DEF OneOwner, Has, Owned
  <2>5. CallsBeginEmptyHanded' /\ OwnersAreOfPoweredArms' /\ PoweredArmsAreOwned'
    BY DEF CallsBeginEmptyHanded, OwnersAreOfPoweredArms, PoweredArmsAreOwned, Owned
  <2>6. LaunchWaitsForStop'
    BY DEF LaunchWaitsForStop
  <2>7. DisabledOwnsNone' /\ VerifiedOffIsOff'
    BY DEF DisabledOwnsNone, VerifiedOffIsOff, Owned
  <2> QED BY <2>2, <2>3, <2>4, <2>5, <2>6, <2>7
<1>2. CASE ~Healthy(robots)
  <2>1. /\ pc[c] \in Alone /\ EmptyHanded(c) /\ state' = "FAULT"
        /\ pc'[c] = "idle" /\ drivers'[c] = NoDrivers /\ OthersStay(c)
    BY <1>2 DEF SetFault, EmptyHanded
  <2>2. UNCHANGED <<robots, torqueOffVerified, power, lock, launches, latch>>
    BY <1>2 DEF SetFault
  <2>3. LatchStays
    BY DEF LatchStays
  <2> QED BY <2>1, <2>2, <2>3, CallReturns
<1> QED BY <1>1, <1>2

\* The feedback thread, the monitor, the link and the motors raise alarms at most.
LEMMA AlarmsSafe ==
    ASSUME WorkerInv, TypeOK',
           \/ ReportStep /\ UNCHANGED linkVars
           \/ MonitorExpired \/ MonitorTransport \/ MonitorPauseExpired
           \/ \E c \in Calls : CallbackLate(c) /\ ~linkFault
           \/ \E b \in BOOLEAN : SetRecoveryAllowed(b)
           \/ Heartbeat \/ Silence \/ TransportFails
           \/ Breakdown /\ UNCHANGED linkVars
    PROVE  WorkerInv'
<1>1. /\ UNCHANGED <<robots, torqueOffVerified, linkFault, slipped, lock, pc, cancel, drivers,
                     power, launches>>
      /\ monitor' = monitor \/ (monitor' = "latching" /\ ~linkFault)
  BY DEF ReportStep, ReportBegin, ReportEnd, ReportFault, ReportRecoveryBegin,
         ReportRecoveryEnd, ReportRecoveryFails, ReportHold, ReportFailed, MonitorExpired,
         MonitorTransport, MonitorPauseExpired, CallbackLate, SetRecoveryAllowed, Heartbeat,
         Silence, TransportFails, Breakdown, SetFault, RetainServoFaultHold, LatchBegin
<1>2. Alarm
  BY DEF ReportStep, ReportBegin, ReportEnd, ReportFault, ReportRecoveryBegin,
         ReportRecoveryEnd, ReportRecoveryFails, ReportHold, ReportFailed, MonitorExpired,
         MonitorTransport, MonitorPauseExpired, CallbackLate, SetRecoveryAllowed, Heartbeat,
         Silence, TransportFails, Breakdown, SetFault, RetainServoFaultHold, LatchBegin,
         Alarm, Ready
<1> QED BY <1>1, <1>2, AlarmIsHeeded

\* A callback that is late under a link fault ends its motion.
LEMMA LateCallbackSafe ==
    ASSUME WorkerInv, TypeOK', NEW c \in Calls, CallbackLate(c), linkFault
    PROVE  WorkerInv'
<1> USE DEF CallbackLate, LatchBegin, At, Goto, WorkerInv, TypeOK, AdapterTypeOK
<1>1. pc[c] \in InMotion /\ pc'[c] \in InMotion
  BY DEF InMotion, ExecutePcs
<1>2. cancel'[c] = cancel[c] /\ drivers'[c] = drivers[c] /\ OthersStay(c)
  BY DEF OthersStay
<1>3. UNCHANGED <<control, robots, stopRequested, power, latch, lock, launches>>
  OBVIOUS
<1> QED BY <1>1, <1>2, <1>3, MotionGoesOn

\* The latch, Hold or Stop without a slot, and the operator cancel calls.
LEMMA CancelsSafe ==
    ASSUME WorkerInv, TypeOK',
           LatchCancel \/ LatchEnd \/ RefuseUrgent \/ \E c \in Calls : CancelCall(c)
    PROVE  WorkerInv'
<1>1. \A c \in Calls : cancel[c] => cancel'[c]
  BY DEF LatchCancel, LatchEnd, RefuseUrgent, CancelCall, CancelActive, WorkerInv, TypeOK,
     AdapterTypeOK
<1>2. ASSUME LatchCancel, NEW c \in Calls, pc[c] \in Cancellable
      PROVE  cancel'[c]
  <2>1. c \in Active \ Urgent
    BY <1>2, KindsRelate, PlaceKinds DEF Active, Urgent, Cancellable, LaunchPcs, ExecutePcs
  <2> QED BY <1>2, <2>1 DEF LatchCancel, CancelActive
<1>3. /\ stopRequested => stopRequested'
      /\ UNCHANGED <<state, robots, torqueOffVerified, lock, pc, drivers, power, launches>>
      /\ LatchCancel => monitor = "latching" /\ monitor' = "faulting" /\ UNCHANGED linkFault
      /\ LatchEnd => /\ monitor = "faulting" /\ monitor' = "watching"
                     /\ linkFault' => slipped' = slipped
      /\ LatchCancel \/ LatchEnd \/ UNCHANGED latch
  BY DEF LatchCancel, LatchEnd, RefuseUrgent, CancelCall
<1> QED BY <1>1, <1>2, <1>3, CancellingIsSafe

\* Hold and Stop cancel what moves before they begin.
LEMMA UrgentSafe ==
    ASSUME WorkerInv, TypeOK', NEW c \in Calls, NEW m \in {"hold", "stop"}, ReceiveUrgent(c, m)
    PROVE  WorkerInv'
<1>1. /\ pc[c] = "idle" /\ pc'[c] = m /\ \A d \in Calls \ {c} : pc'[d] = pc[d]
      /\ stopRequested'
      /\ UNCHANGED <<state, robots, torqueOffVerified, linkFault, monitor, lock, drivers, power,
                     launches>>
  BY DEF ReceiveUrgent, At, Goto, WorkerInv, TypeOK, AdapterTypeOK
<1>2. \A d \in Calls : cancel[d] => cancel'[d]
  BY DEF ReceiveUrgent, CancelActive, WorkerInv, TypeOK, AdapterTypeOK
<1>3. ASSUME NEW d \in Calls, pc[d] \in Cancellable
      PROVE  cancel'[d]
  <2>1. d \in Active \ Urgent
    BY <1>3, KindsRelate, PlaceKinds DEF Active, Urgent, Cancellable, LaunchPcs, ExecutePcs
  <2> QED BY <2>1 DEF ReceiveUrgent, CancelActive
<1> USE <1>1, PlaceKinds, KindsRelate DEF WorkerInv
<1>4. OneMotion'
  BY DEF OneMotion
<1>5. MotionHeedsStop'
  BY <1>3 DEF MotionHeedsStop
<1>6. MotionOwnsArms'
  BY DEF MotionOwnsArms, Cancelled
<1>7. OneOwner'
  BY DEF OneOwner, Has, Owned
<1>8. CallsBeginEmptyHanded' /\ OwnersAreOfPoweredArms' /\ PoweredArmsAreOwned'
  BY DEF CallsBeginEmptyHanded, OwnersAreOfPoweredArms, PoweredArmsAreOwned, Owned
<1>9. LaunchWaitsForStop'
  BY DEF LaunchWaitsForStop
<1>10. DisabledOwnsNone' /\ VerifiedOffIsOff'
  BY DEF DisabledOwnsNone, VerifiedOffIsOff, Owned
<1> QED BY <1>4, <1>5, <1>6, <1>7, <1>8, <1>9, <1>10

\* The operator is orderly (~Overlap): no step breaks the invariant.
LEMMA StepSafe ==
    ASSUME ~Overlap, WorkerInv, TypeOK', Next
    PROVE  WorkerInv'
<1>1. ASSUME NEW c \in Calls, AdapterStep(c) PROVE WorkerInv'
  <2>1. CASE LaunchStep(c)
    BY <1>1, <2>1, LaunchHeldSafe, ReturnsSafe, LaunchBeginSafe, LaunchArmSafe, LaunchDoneSafe,
       LaunchFailedSafe DEF LaunchStep, AdapterStep
  <2>2. CASE ExecuteStep(c)
    BY <1>1, <2>2, ReturnsSafe, MotionSafe, ExecuteBeginSafe, FailBeginSafe, FailDisableSafe,
       FailEndSafe DEF ExecuteStep, AdapterStep
  <2>3. CASE StopStep(c)
    BY <1>1, <2>3, ReturnsSafe, StopRequestSafe, StopBeginSafe, StopDisableSafe, StopFailedSafe,
       StopDoneSafe DEF StopStep, AdapterStep
  <2> QED BY <1>1, <2>1, <2>2, <2>3 DEF AdapterStep
<1>2. ASSUME NEW c \in Calls, CallStep(c) PROVE WorkerInv'
  <2>1. CASE CallbackLate(c)
    BY <2>1, AlarmsSafe, LateCallbackSafe
  <2> QED BY <1>1, <1>2, <2>1, ReturnsSafe, MotionSafe DEF CallStep
<1>3. CASE MonitorStep
  BY <1>3, AlarmsSafe, CancelsSafe DEF MonitorStep
<1>4. CASE Environment
  BY <1>4, ReceiveSafe, UrgentSafe, CancelsSafe, AlarmsSafe DEF Environment
<1>5. CASE ReportStep /\ UNCHANGED linkVars
  BY <1>5, AlarmsSafe
<1> QED BY <1>2, <1>3, <1>4, <1>5 DEF Next

\* It holds at the start: no call, no driver, no power.
LEMMA StartsSafe == Init => WorkerInv
<1> SUFFICES ASSUME Init PROVE WorkerInv
  OBVIOUS
<1>1. TypeOK
  BY InitTyped
<1> USE PlaceKinds DEF Init, AdapterInit
<1>2. OneMotion /\ MotionHeedsStop /\ MotionOwnsArms /\ LaunchWaitsForStop
  BY DEF OneMotion, MotionHeedsStop, MotionOwnsArms, LaunchWaitsForStop, Stopping, LaunchPcs
<1>3. OneOwner /\ CallsBeginEmptyHanded /\ DisabledOwnsNone
  BY DEF OneOwner, CallsBeginEmptyHanded, DisabledOwnsNone, Has, Owned, NoDrivers
<1>4. OwnersAreOfPoweredArms /\ PoweredArmsAreOwned /\ VerifiedOffIsOff
  BY DEF OwnersAreOfPoweredArms, PoweredArmsAreOwned, VerifiedOffIsOff, NoDrivers
<1> QED BY <1>1, <1>2, <1>3, <1>4 DEF WorkerInv

\* WorkerInv is an invariant of the motor process.
THEOREM WorkerInvariant ==
    ASSUME ~Overlap
    PROVE  Spec => []WorkerInv
<1>1. WorkerInv /\ [Next]_workerVars => WorkerInv'
  <2> SUFFICES ASSUME WorkerInv, [Next]_workerVars PROVE WorkerInv'
    OBVIOUS
  <2>1. TypeOK'
    BY StepTyped DEF WorkerInv
  <2>2. CASE UNCHANGED workerVars
    BY <2>1, <2>2, Undisturbed DEF invVars
  <2> QED BY <2>1, <2>2, StepSafe
<1> QED BY <1>1, StartsSafe, PTL DEF Spec

\* torque_off_verified is never claimed of an arm that is powered.
THEOREM TorqueOffIsVerified ==
    ASSUME ~Overlap
    PROVE  Spec => []VerifiedOffIsOff
<1>1. WorkerInv => VerifiedOffIsOff
  BY DEF WorkerInv
<1> QED BY <1>1, WorkerInvariant, PTL

\* A powered arm always has an owner from which a Stop can release it.
THEOREM PowerHasAnOwner ==
    ASSUME ~Overlap
    PROVE  Spec => []PoweredArmsAreOwned
<1>1. WorkerInv => PoweredArmsAreOwned
  BY DEF WorkerInv
<1> QED BY <1>1, WorkerInvariant, PTL

\* Arms that the adapter reports as held are powered.
THEOREM HeldMeansPowered ==
    ASSUME ~Overlap
    PROVE  Spec => []HeldArmsArePowered
<1>1. WorkerInv => HeldArmsArePowered
  BY DEF WorkerInv, HeldArmsArePowered, OwnersAreOfPoweredArms, Owned
<1> QED BY <1>1, WorkerInvariant, PTL

\* Only Dispatch sends a waypoint, and it has looked for Stop.
LEMMA OnlyDispatch ==
    ASSUME TypeOK, Next, NEW c \in Calls, Dispatched(c)
    PROVE  ~Cancelled(c)
<1> USE DEF Dispatched, At, Goto, Return, Resume, TypeOK, AdapterTypeOK
<1>1. ASSUME NEW d \in Calls, LaunchStep(d) PROVE FALSE
  BY <1>1 DEF LaunchStep, LaunchHeld, LaunchRefused, LaunchBegin, LaunchArm, LaunchDone,
     LaunchFailed
<1>2. ASSUME NEW d \in Calls, ExecuteStep(d) PROVE ~Cancelled(c)
  <2>1. CASE Dispatch(d)
    BY <2>1 DEF Dispatch, Cancelled
  <2>2. CASE ~Dispatch(d)
    BY <1>2, <2>2 DEF ExecuteStep, ExecuteRefused, ExecuteBegin, Check, NextWaypoint,
       LastWaypoint, Interrupt, Clear, HealthLost, PauseForLink, RecoveryBegin,
       RecoveryResumes, RecoveryFails, Settle, Settled, HoldServoFault, HoldInterrupted,
       HoldRejected, FailBegin, FailDisable, FailEnd, DisablePairs
  <2> QED BY <2>1, <2>2
<1>3. ASSUME NEW d \in Calls, StopStep(d) PROVE FALSE
  BY <1>3 DEF StopStep, StopRequest, StopRefused, StopBegin, StopDisable, StopFailed, StopDone,
     Hold, DisablePairs
<1>4. ASSUME NEW d \in Calls,
             \/ AfterLaunchOrStop(d) \/ RecoverLink(d) \/ CallbackLate(d)
             \/ LinkResumes(d) \/ LinkRefuses(d)
      PROVE  FALSE
  BY <1>4 DEF AfterLaunchOrStop, RecoverLink, CallbackLate, LinkResumes, LinkRefuses
<1>5. ASSUME ReportStep PROVE FALSE
  BY <1>5 DEF ReportStep, ReportBegin, ReportEnd, ReportFault, ReportRecoveryBegin,
     ReportRecoveryEnd, ReportRecoveryFails, ReportHold, ReportFailed
<1>6. ASSUME MonitorStep PROVE FALSE
  BY <1>6 DEF MonitorStep, LatchCancel, LatchEnd, MonitorExpired, MonitorTransport, MonitorPauseExpired
<1>7. ASSUME Environment PROVE FALSE
  BY <1>7 DEF Environment, Receive, ReceiveUrgent, RefuseUrgent, CancelCall,
     SetRecoveryAllowed, Heartbeat, Silence, TransportFails, Breakdown
<1> QED BY <1>1, <1>2, <1>3, <1>4, <1>5, <1>6, <1>7 DEF Next, CallStep, AdapterStep

\* A waypoint goes out only in state EXECUTING, to the live drivers, and under a
\* link fault only for a call that came in behind the cancellations, whatever
\* happened since the motion began.
THEOREM MotionIsAuthorised ==
    ASSUME ~Overlap
    PROVE  Spec => MotionAuthorised
<1> DEFINE Authorised ==
      \A c \in Calls : Dispatched(c) => /\ state = "EXECUTING" /\ robots = drivers[c]
                                        /\ linkFault => c \in slipped
<1>1. WorkerInv /\ [Next]_workerVars => [Authorised]_workerVars
  <2> SUFFICES ASSUME WorkerInv, Next, NEW c \in Calls, Dispatched(c)
               PROVE  /\ state = "EXECUTING" /\ robots = drivers[c]
                      /\ linkFault => c \in slipped
    BY DEF Authorised
  <2>1. ~Cancelled(c)
    BY OnlyDispatch DEF WorkerInv
  <2>2. pc[c] \in InMotion /\ pc[c] \in Cancellable
    BY DEF Dispatched, InMotion, Cancellable, ExecutePcs
  <2> QED BY <2>1, <2>2 DEF WorkerInv, MotionOwnsArms, MotionHeedsStop, Cancelled
<1> QED BY <1>1, WorkerInvariant, PTL DEF Spec, MotionAuthorised
=============================================================================
