# Robot controller: TLA+ models, checks and proofs

This directory models the concurrent core of the robot controller in
`src/src/blupe_controller`: who may move an arm, when, and on whose behalf; the process
that owns the motors of the YAM arms; the connection to the Session API; and the way of
a recording into the public dataset. Paths below are relative to that directory.

## 1. The system

A station is one Python process (two for the YAM arms) that owns robot arms and
takes work from three directions at once:

* a **cloud** Session API, over a websocket that hands out *leases* (one per
  session), sends commands, and stops sessions;
* an **operator**, over a local web page: enable, hold, move to saved poses, switch
  automatic queueing on and off;
* the controller's **own threads**: the run-deadline watchdog, the thread that
  executes a command, the thread that cleans up after a run and polls the queue, the
  thread that ramps to a saved pose.

There are two stations of that shape. The SO101 station is one process (`cloud.py`,
`operator.py`). The YAM station is two, the operator and the motor process, joined by two
pipes; the operator has a websocket client of its own, and its recordings are published
by two more processes, which meet it only on disk.

| component | files | state it keeps | operations | hard part |
|---|---|---|---|---|
| CloudBridge | `cloud.py` | connection, `ready`, `auto_queue`, `parked`, `returning_home`, lease, pending command, deadline, `generation` | client callbacks, `pause`, `authorize`, `set_auto_queue`, and threads `execute`, `watch_deadline`, `_next_auto_task` | five kinds of threads revoked by a generation counter; timeouts; hold() that raises |
| Operator | `operator.py`, `operator_page.py` | `motion`, `motion_error` | `action`, `start_pose`, `move_for_queue` | two locks; a motion thread that outlives its reason |
| SO101 drivers | `so101.py`, `bimanual_so101.py`, `poses.py`, `tolerances.py` | mode, `enabled_once`, torque | connect, state, enable, disable, move, hold | partial failure of a bus access, two arms |
| MakerArm | `makerarm.py`, `driver.py`, `backends/` | mode, read-only backend | the driver operations | - |
| EpisodeRecorder | `recording.py` | samples, metadata | start, sample, finish | publication of a directory in one step |
| AutoQueue (YAM) | `runtime/YAM_control/auto_queue.py` | enabled, parked, running, completion, ready deadline, persisted receipt | tick, enable, pause, mark/invalidate park | receipt over crashes, cancellation between steps |
| PhysicalOperator | `runtime/scripts/yam_operator_hardware_web.py`, `yam_operator_sim_web.py` | mode, lease, pending command, policy deadline | panel actions, client callbacks, executor, watchdog | three locks, checks repeated after blocking calls |
| ZeroControl | `runtime/YAM_control/zero_control.py` | - | guarded park, then torque off | Stop racing a late completion |
| I2RTBimanualAdapter | `runtime/YAM_control/i2rt_bimanual_adapter.py`, `hardware_safety.py`, `motor_shutdown.py` | adapter state, fault | launch, execute, hold, stop | cancellation, settle time-out, two buses |
| MotorLink | `isolated_adapter.py`, `motor_worker.py`, `operator_link_pause.py` | request ids, heartbeats, link fault | request/response, pause, resume | lost and late messages, bounded retries |
| CubeSessionExecutor | `cube_session_executor.py` | job, cancellation | execute, stop | a long job against Stop |
| SessionApiSimClient | `session_api_sim_client.py` | outbound queue, pending message | connect, register, resume, relay | redelivery of the message in hand, reconnect grace |
| Telemetry | `shared_feedback.py`, `position_fetch.py`, `nonblocking_logging.py`, `native_can_driver.py`, ... | snapshots, bounded queues | publish, read, retry | torn reads, full queues |
| TrainingRecorder | `training_recorder.py` | one recording: thread, manifest, samples file | start, capture, finish, save trace | a process that dies in any step |
| HomeScene | `home_scene.py`, `camera_relay.py` | one offered scene | start, capture, invalidate | stale results |
| Publishers | `runtime/scripts/publish_yam_training.py`, `publish_yam_viewing.py`, `publish_robot_runs.py`, `sync_robot_recordings.py` | upload receipts; a dataset in the cloud | recover, export, commit, verify | commits that are lost or arrive late, two writers |
| Parsing and planning | `joint_trajectory.py`, `ruckig_waypath.py`, `motion_classification.py` | none | pure functions | boundaries |

What makes each correct: only the current owner moves a powered arm; torque is
released only where the arm was measured to rest; a session is accepted only by a
station that is ready, and every run ends by itself; the automatic queue neither
starves nor acts after it was switched off; what a crashed process leaves behind is
safe to start from; a command is reported once; operator and server agree on who has the
arms; what is published is what was recorded, once, for good.

## 2. The modules

| module | what it is |
|---|---|
| `SO101Driver` | the arm: each driver call as an operator from the arm before to the arm after |
| `CloudBridge` | the station: `CloudBridge`, `Operator` and the arm, with all their threads, and the properties |
| `SessionLifecycle` | the abstract specification: idle, ready, running, cleaning |
| `MCCloudBridge` | symmetry for TLC |
| `CloudBridgeProofs` | the inductive invariant and the safety properties, proved |
| `CloudBridgeRefinement` | the proof that `CloudBridge` implements `SessionLifecycle` |
| `I2RTAdapter` | the bimanual motor adapter: launch, execute, hold, stop, snapshot |
| `MotorWorker` | the motor process around it: calls, cancellation, heartbeats, link pause and link fault; and the properties of both |
| `MCMotorWorker` | symmetry for TLC |
| `MotorWorkerProofs` | type correctness of the motor process, proved |
| `MotorSafetyProofs` | its inductive invariant and safety properties, proved |
| `YamOperator` | the operator of the YAM arms: panel, automatic queue, Session API, watchdogs, executors, over the motors as it sees them; and the properties |
| `SessionClient` | the websocket client of that operator, with the API half of the operator, a server and a connection that breaks; and the properties |
| `EpisodeRecorder` | a session's recorder and the files it leaves |
| `Publisher` | the two publishers over these files and a dataset; and the properties |
| `EpisodeArchive` | the abstract specification of the dataset |
| `PublisherProofs` | the inductive invariant of recorder, publishers and dataset; receipts, types and the refinement of `EpisodeArchive`, proved |
| `SessionClientProofs` | the inductive invariant of client, operator, server and messages, and the safety properties, proved |
| `YamOperatorProofs` | the inductive invariant of the operator with all its threads, and the safety properties of its lock, its receipts and its lease, proved |
| `YamMotionProofs` | the inductive invariant of its motions: who may move for a run, and where a station on offer is, proved |
| `MCYamOperator`, `MCSessionClient`, `MCPublisher` | symmetry, or nothing but a name, for TLC |

### SO101Driver

`arm` is a record `[mode, enabledOnce, torque, pose]`. `pose` is the saved pose the
measured joints are near ("home", "zero", or "away"), which is all the bridge ever
asks (`tolerances.near_pose`). `ReportedMode` is what `state()` returns: the bimanual
driver reports "readonly" for every mixture that is not "active" or "fault". A call
that raises part-way has its own operator (`EnableFaulted`, `DisableFaulted`), with
every outcome the order of its writes leaves possible.

### CloudBridge

One action per critical section. A handler runs wholly under the bridge lock, so it
is one action, with every call it makes that changes state (`Pause` includes the
final `hold()`, which may raise after everything was reset). A thread is a program
counter and one action per stretch between two lock releases:

* `task[g]`: the `_next_auto_task(g)` thread, including the `move_for_queue` callback
  and its waiting loop; points are named for the code they stand before;
* `exec[g]`: the `execute()` thread, with the session it was launched for and the
  waypoints left;
* `watch`: the generations whose deadline watchdog lives;
* `movers`: the pose-motion threads; `current` says whether `Operator.motion` still
  names this one, `stop` whether its event is set.

`generation` is a counter that threads only compare with the value they captured.
It is modelled as an identifier: a step that increments it picks any identifier no
living thread holds (`Dormant`). So `Gens` bounds how many generations are alive at
once, not how many there are, and behaviours are infinite with finitely many states.

The operator takes the operator lock first and the bridge lock second; threads that
hold only the bridge lock interleave at every release. Handlers of the websocket
client run one at a time because the client awaits each.

Abstracted: step counters and payload validation (a rejected payload changes
nothing), error texts, cameras and HTTP (an outcome chosen by `Faults`), the
recorder, capture of poses, `disable_torque_on_disconnect`. In `Init` the arm is
wherever an earlier process left it.

**Timing assumption.** A task thread that parked after a cleanup with auto-queue off
sleeps two seconds before it notices. `ParkedThreadGone` says that the operator does
not enable the arm, move it Home and authorize within those two seconds. The
constant `OutpacesPoll` removes the assumption; what then happens is under Known deviations,
and the theorems assume `OutpacesPoll = FALSE`.

### I2RTAdapter and MotorWorker

The operator of the YAM arms talks to a motor process over two pipes. The process runs
every call on a thread of its own, so `pc[c]` is where the thread of call `c` is, named
for the code it stands before; `at[c]` is where a pause or a recovery will return to.
One action is the code between two acquisitions of the adapter's `_lock`, or between
two reads of the stop and cancel events. `launch` holds `_lock` throughout, so `lock` is
a variable; `_recovery_lock` is one too, because it is held over a link pause and over
a fault recovery. The other critical sections are single actions.

A pair of drivers maps an arm to the launch that created its driver (0: none).
`robots` is `_robots`, `drivers[c]` what the thread of `c` has in its locals, `seen` what
the feedback thread read. A thread can therefore go on with drivers that were popped,
released or replaced, and the health checks then find a dead chain, as they do in the
code. `torque` and `chain` are the motors themselves; shutting a set of drivers down
may fail for any subset (`DisablePairs`).

The factory of `launch` may raise after it has powered an arm: the CAN thread does not start
(`native_can_driver.py:108`), or the wrist's gain cannot be written (`:206-210`). No driver is
returned then, so `created` does not have it (`i2rt_bimanual_adapter.py:187-211`) and the
cleanup disables only what is in `created` (`:230-234`). `RaisedArms` are the arms that this may
happen to, and `abandoned` the ones it has happened to; a later launch that creates the driver
of such an arm gets hold of it again.

`link` is the age of the last heartbeat: "ready" (fresh, and stable for a second),
"unsteady", or "expired", as also when the transport has failed (`ready()` is false then, and
the monitor does not look at the age). `linkPaused` and `pauses` are the state of `OperatorLinkPause`,
which a launch or a verified stop replaces by a new one. `latch_link_fault` is three
sections (`motor_worker.py:55-64`): `LatchBegin` sets the stop flag without a lock, `LatchCancel`
cancels the calls under `self.lock`, `LatchEnd` takes the lock of the adapter and sets
`link_fault`. A call that is taken in between the last two is neither cancelled nor
refused; `slipped` remembers which calls are such. It can be latched from several threads;
that only one does so at a time is an abstraction (a second one sets the same flags again).

Abstracted: waypoints, poses and tolerances (refused, not reached, moved too far are
choices); what a fault says; `hold_measured` called by itself, which changes no state but
the targets; `configure`, `close` and the traces. The operator's process is the
environment: any call, cancellation, heartbeat or silence at any time. With
`Overlap = FALSE` it is orderly: it does not launch or move the arms while the worker
still runs a launch, a motion or a stop. The code does not enforce this; what the worker
does without it is under Known deviations.

### YamOperator

The station is `PhysicalOperator` with `AutoQueue` and `zero_control`. Its threads are panel
requests, the Session API client, the queue loop, the watchdog of every run, the executor of
every accepted action, a waypath and the status poller. They share one lock that is held for
long, `_physical_lock` (`physLock`), and two that are not, `op.lock` and `auto_queue.lock`. One
action is a section under a short lock, or a call of the motor adapter that begins or ends.

The code nests its procedures (a timeout parks, a park that fails holds, a hold pauses), so
every thread has a stack of labels: `launch`, `home`, `park`, `hold`, `stop` and `move` are
procedures that any thread can be in, and `out[t]` is what the last one returned or raised.
`queue` is `AutoQueue` with its file (`disk`), `op` the operator's fields, `arm` the adapter's
state with what the motors really do (`torque`, `pose`). A run is its watchdog thread (which
holds the deadline object of that run) and an action its executor thread, which carries the
action's `cancel_event`; both names are used again when nothing refers to them, so there is
no bound on the number of runs.

Mode, lease, pending, deadline and authorization change where the code changes them;
validation, settling and everything about motors, files and the network that may fail is a
choice, and the failures are counted. Named assumptions:

* (a) `Prompt`: an executor runs its first statement before the next action is accepted, and
  movements, initialization and queue reads take longer than a thread that nothing blocks
  needs to its next section (`yam_operator_hardware_web.py:890-904`);
* (b) a movement that was interrupted ends within the three seconds for which the timeout waits
  (`:862-870`);
* (c) a cancellation set before dispatch reaches the worker before its launch ends;
* (d) the extra expiry that a server's `session_timeout` starts is the watchdog firing;
* (e) the next operator process gets the motors only once the old motor process was ended
  by hand.

A released arm stays where it is: that it may sag (`auto_queue.py:280`) is not modelled, so what
`ReceiptIsTrue` says of Zero is that nothing has moved the arms since they were seen there. A
result filed under another action than its own (`yam_operator_hardware_web.py:904`) is
modelled, but moves nothing by itself; no property is about it.

Left out: recovery of the motor link by the operator, the variant of the park that holds at
Zero, preview and validation of saved paths, the thread that clears a queue on the server,
`shutdown()`, and `recovery_allowed`, except that setting it raises when the link is lost.

### SessionClient

One client thread with its program counter, the outbox (`outbound`), the message in hand
(`pending`), the lease it offers to resume and the grace of a lost connection (`paused`);
execution requests are tasks of their own (`tasks`). The outbox outlives the connection. The
handlers are those of the simulated operator with the physical overrides, restricted to what
the server sees: mode, lease, step, pending and the bounded records of trajectories, by which
a trajectory asked for again is answered with what became of it.

Two kinds of threads speak beside the client, and neither is done in one step. Who enforces a
deadline (`_policy_watchdog`, or the thread that `api_handle_stop` starts for a
`session_timeout`) first waits for `_physical_lock` (`deadline = "passed"`: the handler
has returned, the lease is still there), then builds its abort (`ExpireRun`), holds, which revokes
the lease (`ExpireHolds`), and only then sends (`ExpireReports`); `expiring` says how far it is, and
`PhysicalLockFree` that nobody prepares or authorizes a session meanwhile. An
executor settles its trajectory and builds its messages under `self.lock` (`Completes`,
`Fails`), and puts them in the outbox one by one when it has released it, and in the case of a
failure has held (`Reports`). `Unposted` is what is built and not sent yet. `client.overtaken` is a
history variable: the messages of a refused run that were unposted when the outbox was emptied.

The server is external, with what the client relies on: it remembers a `ready` it has read
while a session is on, a registration without resume ends the session of the robot, it may
forget the robot, it asks again for a trajectory whose fate it does not know. Breaking the
socket loses any suffix of what is on its way up and all that is on its way down. Left out:
retransmission of single joint commands, pings, the wire format. Abstracted: a hold of the motors
is one step (all of its sections are in `YamOperator`), and so are an acceptance and the start of
its executor; a completion and an abort are one status, "settled"; the park that follows a
deadline and the report of an idle servo fault are left to `YamOperator`; a thread that finds its
deadline gone returns, and is left out. A reason in the message of a stop is a choice: any stop of a
run that has a deadline may be a `session_timeout`.

### EpisodeRecorder and Publisher

A recording's rows are told apart by number only, so the content of `samples.jsonl`, and its
hash, is the number of its lines. The recorder is a thread per session; the operator process
may end at any point and leave a torn last line. A commit to the dataset is a request in
flight with its parent revision: it may be answered, refused, lost to its sender, or applied
after its sender has given up or died; requests outlive processes. Pinning a revision, reading
it, exporting and sending is one step (a slow request stands for a slow export). The training
publisher holds a file lock, so there is one. Recovering an orphan is two steps, because the
file is emptied before it is written. A legacy recording is archived and shown, and registered
or not, as it was recorded or as another one under its name. The retries of the viewing
publisher (8) are not counted; its classification of a motion is a choice; simulated
recordings and reused process ids are left out.

`EpisodeArchive` is what a reader of the dataset sees: an episode gets the next index once,
entries never change but for a wrong hash, what is shown stays shown (that the catalog is right about
an episode is not said, only that it keeps it).

## 3. The runs

| run | instance | shows |
|---|---|---|
| `bridge_safety` | single arm, 2 sessions, 3 generations, 1 waypoint, no failures | types, exclusion of admission/run/cleanup, one commander, one command in flight, authorised motion, refinement of `SessionLifecycle` |
| `bridge_faults` | bimanual, 2 sessions, 2 generations, 2 waypoints, failures and restarts | the inductive invariant, auto-queue attended, one report per command, torque released only at Zero |
| `bridge_liveness` | single arm, 1 session, 2 generations, failures | deadlines enforced, cleanups end, queued work served, superseded threads leave |
| `worker_safety` | two arms, two calls, one launch, one breakdown, one link pause, orderly operator | types, authorised motion, torque-off claims, owned power |
| `worker_liveness` | one arm, one call at a time, one breakdown, one link pause | cancelled calls end, silence ends every call |
| `yam_panel` | two panel requests, one run, every order, a scene; 2 orders, 1 failure, 1 crash, any 2 of these | types, the park receipt is true, a station on offer is at Home |
| `yam_runs` | one panel request, two runs, one executor; one order, failure or crash | only the leased run moves, no run begins under a park |
| `yam_faults` | one run, one executor, no orders; 2 failures | a run has its deadline |
| `yam_liveness` | one run, one executor, one order of any kind | runs end, readiness ends, Stop is final |
| `yam_late_park` | two panel requests in turn, no failures | the finding below |
| `client_session` | 2 sessions with grace, 1 step each, 1 record, backlog 1, an execution request in the first, one executor reporting; one break or one order | operator and server agree, nothing of a refused run but what was built before, no false rejection; what has ended ends, what is ready is announced |
| `publish_archive` | 2 recordings, the first of them legacy, 2 rows, 2 operator processes, 1 failure | types, receipts are true, the dataset is an `EpisodeArchive`, recordings settle |

**Bounds.** Two sessions are needed for a late message of the first to meet the
second; a third adds nothing because the bridge keeps one lease and one timed-out
lease. Two generations let a superseded thread live beside the current one, three let
two of them. Two waypoints put a thread between waypoints. Sessions and generations
are interchangeable, so the safety runs use their symmetry; the liveness run does not.
Reports per command are counted up to 2, enough to see a second one.
Of the worker, two calls put a stop, a hold or a link recovery beside a motion, or two
stops beside each other, with the feedback thread, the monitor and the receiving thread
running as well; two arms are needed for a partial shutdown. One launch suffices where
drivers are only released; replacing them takes two. Of MAX_RECOVERIES = 3 pauses one
is enough to use the budget up. Arms and calls are interchangeable. The liveness run
keeps one arm and one call: its question is whether that call ends.

The operator's instances are bounded by what disturbs them, not by what runs: runs, launches,
parks, handoffs and connections recur without bound, and one or two disturbances (an order, a
failure, a crash) come at any point of them. `yam_panel` has no executor, so that two orders
and a failure can meet in every order; `yam_runs` has a second watchdog for the run that
begins while the first is at work; `yam_faults` has an executor and two failures, so that
the recovery after a fault can fail too. The client needs a second session for what the first
leaves behind, one record for the bound of the records to bite, and one message of backlog for a
message and a break to cross. `Requesting` says which sessions request an execution: one is
enough for a stop to meet a request. `MaxReporting` bounds the executors whose messages are built
and not sent; one is enough for a message to be overtaken by the end of its session. `Grace` is
what the server answers at registration: without it a lost connection takes the lease at once,
which is less; the theorems cover both. Publishing needs two episodes for a late commit of one to
meet the other, and two rows for a recording that is cut. Larger instances were run by hand: the client's
invariants, the inductive one included, with 2 sessions and 2 events (17.2 million states),
`yam_faults` with a failure and a Stop (1.5 million states), the publishers' safety with two failures and one row (8.7 million states).

**Fairness** (`FairSpec`): a thread that can run eventually does (daemon threads of one
process, loops that poll every 0.01 to 2 s, locks that are never held over a wait), and
work that stays queued is eventually seen by a poll that is repeated every two seconds
(strong fairness of `TaskPollFindsWork`). In the worker, every call's thread, the monitor
(every 0.1 s) and the feedback thread (every 0.02 s) keep running; waits have time-outs; and a
trajectory is finite: a motion that slipped past a latched link fault, which nothing pauses or
cancels any more, comes to its last waypoint (strong fairness of `LastWaypoint` for such a call).
Nothing is assumed of the cloud, of the
operator, of heartbeats, or of the deadline passing. In `YamOperator` every thread that has
begun keeps running (weak fairness per thread), a watchdog gets the lock it waits for though
others take it in between (strong fairness: the lock is given up for the sleep between two polls
of the queue loop), and the queue loop ticks; orders, messages and the environment are free. In
`SessionClient` the client's thread runs, the grace passes, whoever enforces a deadline gets
`_physical_lock` and goes on (nobody holds it for ever: `RunsEnd`), and the server reads and
objects; it need never be reached, and executors need not end or send what they have built. In `Publisher` both workers run for ever,
requests arrive, waits end; nothing is asked of the operator process, which may leave a
recording open for good.

**Finding**, a run that expects its violation. `yam_late_park`: `zero_control.py:189` says "Stop
cancellation must not be overwritten by a late park completion". The check under it looks at
`cancel_event`, which only the queue loop passes. A park ordered at the panel, or by a
watchdog, has none: after Stop has cleared the receipt, its late completion writes it again. The
arms are off and at Zero then, so `ReceiptIsTrue` still holds; what is lost is that Stop also
meant "do not start by yourself".

### Known deviations

The code does the following. Each is excluded, by a constant or by the wording of the property,
from what the runs above check; the property named is in the module, to be run with the
constants given.

SO101 station (single arm, 1 session, 3 generations, 1 waypoint):

* `CloudBridge.ParkedArmReleased`: `parked` is not cleared when the operator enables the arm by
  hand and switches auto-queue on at Home, so the next cleanup believes it is already parked,
  skips the move to Zero and polls with the servos powered (`cloud.py:209`).
* `CloudBridge.ExpiredRunRevoked` (`Faults = TRUE`): when reading the arm raises inside the expiry
  of a run, the run keeps its lease, and no deadline remains (`cloud.py:491`).
* `CloudBridge.RestingZeroAccepted`: after a pause while parked, the driver reports "hold" for an
  unpowered arm, and auto-queue refuses the Zero it documents as accepted (`so101.py:232`).
* `CloudBridge.AdmissionWaitsForHome` (`OutpacesPoll = TRUE`): the sleeping task thread wakes with
  its generation still current and starts a return to Home under an admitted session
  (`cloud.py:219`).

Motor process (as `worker_safety`):

* `MotorWorker.FaultIsLatched`: a motion that is refused or settles sets STOPPED whatever the
  state has become, so it erases a fault that the feedback thread has just declared, and the
  next motion is accepted without the recovery the code asks for (`i2rt_bimanual_adapter.py:396`).
* `MotorWorker.LaunchReplacesNoDrivers` (`MaxLaunches = 2`, `Overlap = TRUE`): a failed motion takes
  its drivers out of `_robots` before it releases them, so a launch in that window sees a fault
  without drivers and powers new ones on the same buses (`:423`).
* `MotorWorker.TorqueOffMeansOff`, `MotorWorker.NoArmIsAbandoned`: when the factory raises after it
  has powered an arm (`native_can_driver.py:108`, `:206-210`), the launch disables only the arms
  whose driver it was given, and sets `torque_off_verified` from them alone
  (`i2rt_bimanual_adapter.py:231-234`). The first arm may raise too: then nothing is disabled, and
  the arm stays powered without a driver by which a Stop could release it. `VerifiedOffIsOff` and
  `PoweredArmsAreOwned` except these arms (`abandoned`) and no others.
* `MotorWorker.NoMotionUnderLinkFault`: a motion taken in after `latch_link_fault` has cancelled the
  calls and before it has set the fault (`motor_worker.py:60-62`) is neither cancelled nor
  refused, clears the stop flag and sends its waypoints under the fault. `MotionAuthorised` excepts
  these calls (`slipped`) and no others; `SilenceEndsMotion` holds of them because a trajectory
  ends.

YAM operator (`runtime/scripts/yam_operator_hardware_web.py`):

* A manual Launch that meets a just accepted action fails, and says FAULT while the executor
  moves; the server's stop then only closes the lease and the deadline, without a hold
  (`yam_operator_hardware_web.py:840-848`), and the action moves on without a lease.
* `api_connection_changed` drops the lease before the client's thread holds: between the two the
  executor moves without one. `SessionMotionIsLeased` names both windows (`Closed`, the client at
  `hold`).
* The last sections of `_stop_physical` and `_hold_physical` drop a pending action without setting
  its `cancel_event`.
* With the link to the motor process lost, `hold` and `stop` raise before they revoke: the lease
  stays, without a deadline. `RunHasDeadline` and `RunsEnd` are stated for a link that is there.
* `run_policy` tests `policy_ready` before it has the lock that a starting waypath holds, and a
  Home order is accepted while a run has the lease. `GrantIsAtHome` is stated without a waypath.
* A Launch withdraws the offer only in its last section, after the arms have been held where they
  are: until then the station is on offer away from Home, behind `_physical_lock`. `GrantIsAtHome`
  is stated for a lock that is free, as `api_prepare_session` finds it.
* When validation is unavailable the adapter is stopped outside `_physical_lock` (`:524`, `:542`,
  `:688`): the arms can lose their torque while a start offers readiness; `GrantIsAtHome` is
  stated for held arms.
* A wrist test that Stop interrupts ends in FAULT (not in STOPPED as a Home move does).
* "On" pressed again while readiness is offered, with a file that cannot be written, ends the
  poll that would time the handoff out (`auto_queue.py:71-74`); `yam_liveness` has no failures.

Session client (`session_api_sim_client.py`):

* When the motor link is lost too, the handler of a lost connection raises (`:71-81`), and the
  client's thread ends for good (`pc = "dead"`).
* `SessionClient.SilentAfterRefusal`: a refused resumption empties the outbox
  (`session_api_sim_client.py:111-115`), but a result or an abort that another thread had built by
  then is put there afterwards (`yam_operator_hardware_web.py:829`, `:1011-1013`, `:1083-1088`), and
  the server gets it although it has refused the run. `NothingAfterRefusal` excepts these messages
  (`overtaken`) and no others.
* `SessionClient.StopEndsTheLease`: the stop of a `session_timeout` is handled by starting a thread
  that waits for `_physical_lock` (`yam_operator_hardware_web.py:849-852`, `:814`), so the connection
  serves on with the lease of a session that has ended. `ServedLeaseIsLive` says so (`Expiring`),
  and `EndedRunsEnd` that it does not last.
* With the link lost a refused resumption leaves the outbox as it is. The properties are stated
  for a link that is there.
* A record's "accepted" may be sent after its "completed", when a trajectory is asked for again.

Recorder and publishers:

* With `YAM_VIEWING_FIRST_SINCE` set, `publish_once` names `RENDER_VERSION`, which it does not
  import (`publish_yam_training.py:196`): every pass ends at the first new recording, also when
  the viewing worker has handled it (comment at `:190-191`). `ViewingFirst = TRUE` violates
  `RecordingsSettle`.
* `recover_orphan` reads the manifest before it looks at the owner: a recording that ended in
  between is sealed again, as `recorder_process_interrupted`.
* A crash between emptying `samples.jsonl` and writing it again loses its rows (`:165`).
* A row that stays buffered after a failed flush makes a recording that is never publishable
  (`training_recorder.py:117`).
* `save_trace` makes the directory that `_run` wants to be new (`training_recorder.py:101`): a very
  short recording is lost.
* A recorder that fails at the end leaves "recording" in its manifest until its process ends.

## 4. The proofs

For every set of sessions, generations and waypoint bound, with or without failures
and restarts, single or bimanual, assuming `OutpacesPoll = FALSE`:

| theorem | states |
|---|---|
| `BridgeInvariant` | `Spec => []BridgeInv` |
| `TypeCorrect`, `AdmissionIsExclusive`, `CommanderIsUnique`, `AutoQueueIsAttended` | the state invariants |
| `CommandsDoNotOverlap`, `MotionIsAuthorised`, `TorqueIsReleasedOnlyAtZero` | the action properties |
| `CommandsAreReportedOnce` | `Spec => []OneReportPerCommand` |
| `BridgeImplementsLifecycle` | `Spec => Lifecycle!Spec` |

**The inductive invariant.** `AdmissionExclusive` is not inductive: a task thread could
finish a cleanup into `ready` while a lease is held, a command thread could clear a
`pending` that is not its own, and a pose motion could outlive its cleanup.
`BridgeInv` adds what rules each out: the command thread of the live generation serves
the lease and `pending` is set until it settled (`ExecServesLease`); the task thread of
the live generation excludes admission and a run, and has the reason to move that
`move_for_queue` will ask for (`TaskHasReason`); the only pose motion is the one
`Operator.motion` names, and belongs to the waiting task thread while the cloud is busy
(`MotionHasOwner`). Threads of older generations need nothing: every section they enter
compares generations first.

`OneReportPerCommand` needs `Reported` beside `BridgeInv`: an active command is unreported; a
command thread of the live generation that has not ended finds nothing reported, or a dead
bus; and a second report means a dead bus that no sleeping task thread will take
for a parked arm.

The proof has one lemma per family of actions and one step per action. The helpers
`Pause`, `StartCleanup` and `StopRun` have lemmas of their own, since a dozen handlers
end in them. The action properties follow from `BridgeInv` and the frame of each action
(which of them move the arm, release torque or launch a command). The refinement maps
`Stage` to the abstract stage and shows each action to be one abstract step or a stutter.

Of the motor process, for any set of arms and calls, any number of launches, breakdowns
and link pauses; all but the first assume the orderly operator (`~Overlap`), without
which they are false (Known deviations):

| theorem | states |
|---|---|
| `WorkerTypeCorrect` | `Spec => []TypeOK` |
| `WorkerInvariant` | `Spec => []WorkerInv` |
| `TorqueOffIsVerified`, `PowerHasAnOwner`, `HeldMeansPowered` | the state invariants |
| `MotionIsAuthorised` (of `MotorSafetyProofs`) | the action property |

`PoweredArmsAreOwned` alone is not inductive: two threads might release the same arm, or
give back drivers over newer ones. (The arms that a raising factory abandoned are no one's, and
of no driver that a thread holds.) `WorkerInv` says which drivers a thread between two
locks may hold: while one thread holds some, no other thread does and `_robots` is empty
(`OneOwner`), they are of powered arms (`OwnersAreOfPoweredArms`), and no launch begins
before a stop has ended (`LaunchWaitsForStop`). A waypoint is checked only for
`Cancelled` under the lock; that this is enough needs `MotionHeedsStop` (whoever came
after the motion has set its cancel event, which nobody clears, except that a link fault has not
for the calls that slipped in behind its cancellations) and `MotionOwnsArms`
(until it is cancelled, the state is EXECUTING and the drivers it took are the live
ones). Four general lemmas cover the steps that leave the drivers where they are; each
step that hands drivers over has its own, one step per conjunct.

Of the publishers, for any number of sessions, rows, operator processes, legacy recordings
and failures, with or without the gate of the viewing worker:

| theorem | states |
|---|---|
| `ArchiveInvariant` | `Spec => []ArchiveInv` |
| `TypeTheorem` | `Spec => []TypeOK`: also that one answer is awaited by each publisher that has sent, and that no index is past the number of episodes |
| `ReceiptsTheorem` | `Spec => []ReceiptsAreTrue` |
| `ArchiveTheorem` | `Spec => ImplementsArchive`, the refinement of `EpisodeArchive` |

`ReceiptsAreTrue` speaks of the files and the head; a commit under way could make it false
long after its sender is dead. `ArchiveInv` says what such a commit is worth: its parent is
not newer than the head, and one made *from* the head carries the head's registry and
one sealed episode (appended, or with its hash repaired), or the head's catalog and one episode
more (`CallsAreWorth`). When a commit is applied, every other of that parent turns into
one that will be refused. `UploadsAreTrue` is the same for the revision the publisher verifies: it may
be old by then, but what it showed of the episode is still at the head. The disk side is
`RecordersOwn` (a recorder that lives is the only writer of its recording) and `RecoveryIsLate`
(a recovery works on a recording whose recorder is gone, is of nothing published, and
seals again what was sealed in between with as many samples). That no index is past the number
of episodes is the pigeon-hole principle on `OneIndexEach`.

Of the session client, for every bound on sessions, steps, records, breaks, orders,
backlog and executors that report, with or without grace, assuming that `None` is no session number (`NoneIsNoSession`):

| theorem | states |
|---|---|
| `SessionInvariant` | `Spec => []SessionInv` |
| `ClientTypeCorrect` | `Spec => []TypeOK` |
| `LeaseIsLive`, `RefusalIsFinal`, `RejectionIsHonest` | `ServedLeaseIsLive`, `NothingAfterRefusal`, `RejectedDidNotMove` |

The three properties compare what one side holds with what the other knows, so the
invariant has to say what is *between* them: in the outbox, in hand, or on the socket in
either direction. `SessionInv` says that what comes down is about a session that began
(`Born`); that during a reconnection the lease is the one offered for resumption, or none
(`LeaseIsOffered`); that while a connection serves, the lease is the server's, or the stop of
its session is coming down, or its deadline is being enforced, by a thread that will not give up
before the lease is gone (`LeaseIsServed`), and a `prepare` that comes down is of the
server's session, or its stop comes behind it (`PreparedIsServed`); that neither side's queue,
nor what threads have built to be sent, names a refused session, but for what was built before
the outbox was emptied (`RefusedIsOver`); and that trajectories come in the order of their
steps (`AskedInOrder`), so that the last record is of the run's last step and a repeated
request finds it. General lemmas on queues say what a message taken from the front or
put at the end does to each of these.

Of the operator of the YAM arms, for any number of panel requests, runs, commands,
orders, failures and restarts, and any choice of orders, assuming that the names of its
threads differ (`ThreadsDistinct`):

| theorem | states |
|---|---|
| `YamInvariant` | `Spec => []YamInv` |
| `YamTypeCorrect` | `Spec => []TypeOK` |
| `ReceiptsTrue` | `Spec => []ReceiptIsTrue` |
| `ParkingIsExclusive` | `Spec => []ParkingExcludesRuns` |
| `RunsHaveDeadlines` | `Spec => []RunHasDeadline` |
| `MotionInvariant` (of `YamMotionProofs`) | `Spec => []MotionInv` |
| `SessionMotionLeased`, `GrantsAreAtHome` | `SessionMotionIsLeased`, `GrantIsAtHome` |

A thread of the model has a stack of labels, for the calls it is in. `YamInv` says first
which stacks there are: what may stand above what (`Ordered`), for which thread
(`Kinds`), and which labels are come to only with `_physical_lock` (`Mutex`). Then it says
what a thread relies on between two sections. A park that has seen Zero but not written its
receipt has arms at Zero and nobody about to move them without the lock (`Arrived`); a
receipt is not there while the torque is being switched on (`Receipted`). While the
queue owns the lock, or anyone parks, the lease is free (`LeaseIsFree`), which is what
`api_prepare_session` sees under that lock; and a lease has its deadline unless the
thread that grants it or takes it back is in between (`Granting`, `Timed`). None of the
properties is inductive without these: after `at_zero` a motion thread could still be
accepted, or a launch clear the receipt before the park writes it.

The proof goes from the control to the data. `AllMoved` shows that every action takes
each thread along a table of labels (`Leads`); the frames `QueueBy`, `ArmBy` and `OpBy` say at
which labels which fields change. Each conjunct is then proved from the table and the frames,
without the actions, but for the few that establish it.

`SessionMotionIsLeased` and `GrantIsAtHome` need a second invariant over `YamInv`, since they
relate what an executor is about to do to what all the others may have done meanwhile.
`MotionInv` speaks of an executor that may still move (`Live`: at its motion or before it,
not cancelled, the arms held). It is the pending action (`LivePends`), so whoever revokes the
lease and cancels what is pending ends it; it has the lease (`LiveLeased`); and nobody is inside
a hold (`LiveUnheld`), so no hold of an earlier revocation can end under it. That this stands when an
action is accepted is the hard part: the validation releases the lock, so the invariant says
what a client's thread between the two sections can rely on, no executor at work and an offer
that has not ended (`ReceivedAlone`), and no hold that has left the authority standing
(`ReceivedUnheld`). When the station is offered again nobody may still move
(`OfferedUnmoved`). For the pose: arms on offer are stopped at Home, or a launch that owns the lock is
about to say that they are not (`OfferedAtHome`), and no motion can begin there, since a
panel's has withdrawn the offer before it moves (`MovesAnnounced`), a waypath is excluded by the
property and no executor is live. The rest (`OneMotion`, `OneRelease`, `OneWorker`,
`WaypathAlone`, `GrantsFree`, `LockRecovers`, `EntersFirst`) is what these rely on. The
proof takes three more tables: how the adapter's state can turn (`Turned`), how the operator's
record can (`OpTurned`), and how a thread can have come to a label (`Came`). Both properties
were false as first stated, and the counterexamples are in section 3: the windows that
`SessionMotionIsLeased` names, and the launch behind `_physical_lock`.

TLC checked each of these inductive invariants on the instances of the runs (1.3 million
states for `SessionInv`, 0.8 million without grace, 1.6 million and two smaller instances for `YamInv` and `MotionInv`) before it was proved.

**Only model-checked**: the liveness properties (TLAPS does not do fairness here). Every
invariant and action property that a passing run checks is proved. The violation is a TLC
counterexample.

## 5. Plan

1. **MotorWorker as an owner**: an abstract specification of an arm that is off, held, moved or
   released by one owner, which the adapter with its threads implements and `YamOperator` uses.
2. **IsolatedAdapter**: the parent's side of the link (request table, time-outs, shared
   snapshot), composed with `MotorWorker` so that `Overlap` follows from the code or not.
3. **CubeSession, HomeScene, the SO101 recorder**: one job or scene against Stop and replacement.
4. **publish_robot_runs**: the same commits for the other robots, as a third publisher.
5. **Trajectory**: parsing and gripper resolution as pure functions against reference
   definitions; the bounded log queue and the shared snapshot.

## 6. Not modelled, and why

Real-valued planning and collision checking (`ruckig_waypath.py`, `hardware_safety.py`,
`zero_control.MotorGuardedPark`) are numeric; the models take their verdict as a choice. Video,
the columns of datasets, cameras, pages, the command line and installation are I/O without
shared state. MakerArm, CubeSessionExecutor, Telemetry and the SO101 recorder (`recording.py`)
are in the plan and not modelled yet. What is left out of a modelled component is said in its
section above and in its note in `PROJECT.json`.
