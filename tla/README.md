# Verification of the arm control of the humanoid console

TLA+ modules of the parts of this repository that decide what the robot's arms
and grippers are told to do, and of the recording, streaming and scoring around
them; the TLC runs that check them on small instances; and TLAPS proofs of the
properties that matter most for every value of their constants. File names below
are relative to `src/`.

Contents: [the system](#the-system), [inventory](#inventory),
[modules](#modules), [runs](#runs), [fairness](#fairness), [proofs](#proofs),
[what is only model-checked](#what-is-only-model-checked),
[where code and comments disagree](#where-code-and-comments-disagree),
[assumptions and omissions](#assumptions-and-omissions),
[not modelled](#not-modelled), [plan](#plan).

## The system

One Python process runs a Tk console (`robot_control_gui.py`) that teleoperates
a dual-arm robot, records demonstrations, and deploys a diffusion policy. The
policy is a remote HTTP server: observations go out, chunks of end-effector
poses come back. `HumanoidEnv` (`real_world/humanoid_env.py`) owns the robot
and turns chunks into motion. Beside it run a headset app (`pico_vr`), a planning
server for a grasp-planning GUI (`planning`), and a tool that scores policy runs
(`scripts/eval_trials.py`). What makes it hard is that many threads share a few
fields, most of them without a lock:

| Thread | Runs | Shares |
|---|---|---|
| Tk | buttons: auto start/stop, release, E-STOP, Reset, record, switches of the teleoperation and of the monitors; idle scans by a timer; joins | every flag |
| inference | `_run_auto_inference`: home, gate, macros, one inference, append | queue, clock, cursor, E-stop, gripper latch, preview |
| validation worker | `validate_and_stage` for the manual buttons | staged substeps, ids, step-through cursor |
| release | `_release_loop`, 120 Hz: pop one substep, stream it | queue, clock, E-stop, gripper latch, last command |
| collect | 10 Hz: cameras, poses, recorder | observations, frames, session |
| flush | takes a session from the recorder and writes it | pins, session |
| simulation | owns PyBullet, runs validation jobs | job queue |
| uplink server, one per connection | one callback per headset message | deltas, switch, time of the last message |
| teleoperation execution | 50 Hz: merge deltas, send one command | the same |
| downlink server, headset sender and receiver | latest picture out, latest pose in | one buffer each |
| planning server | accept and reader threads, a caller that waits for answers | socket, waiters, pending plan |

The central data structure is the *robot queue* of `PostProcessor`
(`real_world/postprocess.py`): substeps tagged with the *master row* they
belong to. The release thread advances the *master clock* as it pops; the
*streaming cursor* says how far rows were queued; new rows, smoothed over the
chunks that cover them, are spliced in after a validation (IK, simulated
collision check) that runs without the lock. The *latched E-stop* empties the
queue and stops the two threads that drive the arms through
`run_trajectory_control`, before their next waypoint; the execution thread of
the teleoperation does not look at it. Reset clears it, and drops the reference of
the velocity guard.

## Inventory

State, operations, interactions, what is hard, and what correctness means, per
component. `PROJECT.json` has the same list with sources and status.

| Component | State | Operations | Interacts by | Hard | Correct when |
|---|---|---|---|---|---|
| **Streaming queue and clock** | `_robot_q`, `_current_row_id`, `_queued_through` | `append_actions`, `pop_next_substep`, `clear_queue`, manual enqueue, live `append_ahead_rows` | the shared lock; append releases it while validating | a splice computed from an old clock and cursor | rows reach the arm in order, without hole or repetition, inside the commit window |
| **Temporal ensemble** | recent chunks, master buffer, last cursor seen | merge, run, reset, live tuning | the cursor decides what is frozen | the cursor is read before a merge and moves meanwhile; a clear is noticed only as a cursor that fell | rows that wait in the queue are never rewritten; the run reaches the seam |
| **Release path and E-stop** | `_estop`, `_staged_release`, `_last_sim_traj`, ids | `validate_and_stage`, release buttons, `release_to_robot`, `_release_loop`, `lock_robot`, `reset_estop` | calls from five threads | test-then-act on the latch; substeps held in a local when something fails | an E-stop halts either driver within one waypoint and nothing validated is lost, repeated or reordered |
| **Dispatch guard** | `_last_cmd_q14`, `_last_good_arm14` | ramp, cap, watchdog and region of `run_trajectory_control`, moves, holds, drops of the reference | every driver, no lock | two drivers measure from one reference, a third drops it | no command is further than the cap from the one before |
| **Auto loop** | `is_auto_inference`, the thread | start, stop, one cycle of the loop, idle scans, switches | runs every monitor; joined by Tk | E-stop seen once per cycle; a stop while the loop is deep in a call | an E-stop disarms; Stop returns |
| **Place macros** | baseline roll, settle timers, committed label | trigger, motion, release, return, reset | drive the arm and the hand against the release thread | they look at the hand once per cycle, the rows move it in between | a macro fires on this grasp's roll |
| **Missed-grasp recovery** | streak | detect, drop, open, retreat | queue, hand, arm | as above | retreats with an open hand and an empty queue |
| **Package gate** | enabled, present, paused, counters | scan, busy, reset, switch | homes and drops the queue | pause taken while rows still close the hand, or while the operator disarms it | a pause leaves nothing to execute and yields to a grasp |
| **Gripper debounce** | `_grip_state`, `_grip_locked_until`, `_last_grip_cmd` | latch at dispatch, explicit command, reset | clock; release thread and loop | hold counted in rows of another thread's clock | flips are far enough apart for the monitors to see them |
| **Manual step-through** | published chunk, cursor | show, execute one or all, reset | validation workers | cursor read before and written after a validation | each row staged once, in order |
| **Simulation preview** | job queue, owner thread | launch, submit, drain, detach, close | callers wait on events without a timeout | a job that is never drained | the console comes back |
| **Console panel** | busy flags, pending auto start, tuning lock | buttons, worker callbacks, the poll for the preview, closing | all of the above | several flags say "busy", set and cleared on two threads | tuning never changes under an inference |
| **Observations** | last samples, freshness | ingest, snapshot | collect thread, lock | the only producer may die | a dead producer is noticed |
| **Camera hub** | requests, pins, live cameras, frames | request, pin, reconcile, read | lock | eviction against a new request or a pin | a pinned camera stays open, no frame outlives its subscription |
| **Recorder and data collection** | session, panel state, flush threads | start, tick, stop, finalize; record, save, delete, headset button, close | collect, flush and Tk threads | start of the next episode against the flush of the last | a session is written as it was taken; pins outlive an older flush; the panel is in step |
| **VR teleoperation** | switch, thread handle, deltas, previous pose, time of the last message, gripper memory | callback per message, execution tick, switch | callback, execution and Tk threads, no lock | two watchdogs, a queue replaced under the consumer, a join in the callback | hold-to-operate; a silence stops; one execution thread |
| **Headset link** | sockets, newest pose and its version, newest picture | sample, send, receive, reconnect, relaunch | TCP | what a broken connection swallowed; old and new connection side by side | newest pose and newest picture get through, poses once and in order |
| **Planning server** | client socket, waiters, pending plan, suppression flag | detect, plan, send, discard, live state, accept, drop | reader threads, a caller that waits | late answers, replaced connections | a plan moves the arm once; an answer reaches its call |
| **Live evaluation** | log offset, attempts, keys typed ahead, session file | poll, score, undo, note, resume | the console's log file | cuts of the log, rotation, kill and restart | a resumed session equals the one that was killed |
| Kinematics, detectors, dataset builders, clients, other scripts, widgets, vendored SDK | | | | numeric, batch or layout code | [not modelled](#not-modelled) |

Bold components have a model; what is left out of each is in its note in
`PROJECT.json` and under [omissions](#assumptions-and-omissions). The hazards of
the code, each at its line with the properties that cover it or the reason why
none does, are listed there too.

## Modules

```
RowStream <--implements-- StreamQueue <--extends-- ReleasePipeline
    ^                          ^
    |                          '------extends------ Ensemble
    '--instance-- GripLatch <--extends-- AutoRun
                                                    Dispatch
CameraHub <--extends-- Observation <--extends-- Recording
SimPreview <--extends-- Console
TcpServer <--extends-- PlanningLink --.
                       HeadsetLink  --+-- MCLinks   Teleop
                       HeadsetView  --'             EvalTrials
```

The `MC` modules instantiate them for the `.cfg` files. The theorems about `M` are
in `M_proofs`, but those of Teleop and Dispatch in `Arms_proofs`, those of
Recording and EvalTrials in `Sessions_proofs`, and those of HeadsetLink beside
those of PlanningLink.

**RowStream** is the abstract promise of the streaming half of `PostProcessor`:
a clock, a set of committed rows, commits in order inside a window, execution
of the oldest row, drops. It names no queue, no substeps and no threads.

**StreamQueue** is the queue at the granularity of the lock. `AppendRead` is
the first locked section of `append_actions` (which rows are missing:
`FirstNeeded`, `LastNeeded`), `AppendSplice` the second, `AppendAbort` every
early return in between; the validated trajectory is any of the `Expansions` of
the requested rows: all of them in order, with one substep or more for each. The
validation is strict: a row without a solution aborts the call.
`PopNextSubstep`, `ClearQueue` and `EnqueueManual` are the other three users.
It has no configuration of its own: `ensemble` explores it with a caller.

**Ensemble** puts the inference thread in front of that queue: it reads the
cursor, merges the newest chunk into the buffer (`Covered`, `Mutable`,
`Retained`, the stale check that drops everything when the cursor fell), hands
the contiguous `Run` to the append, and starts over. Weights and poses are data;
which rows are in the buffer, frozen, rewritten and handed on is not.

**ReleasePipeline** puts four threads around the queue. A thread is a program
counter (`pc`) and the substeps it holds in a local variable (`hand`). Each
test of the E-stop, each locked section and each SDK call is a step, so that a
latch may fall between any two: `AppendCheck`/`AppendStart`/`AppendFinish`;
`ValidateStart`/`ValidateOk`/`ValidateFail`; `ReleaseCheck`/`ReleaseTake`/
`Enqueue`/`Restage`; `OneShotCheck`/`OneShotReplace`; `Guard`/`Test`/`Send` of
`run_trajectory_control` in whichever thread drives; `LockLatch`/`LockDrop`/
`LockHold` of `lock_robot`; `RelPoll`/`RelPop`/`RelFirmware` of the loop.

**Dispatch** is what `run_trajectory_control` does to a target: the reference
`_last_cmd_q14`, the velocity guard's ramp, the jump watchdog and the safe
region, for two drivers, a hold, an idle loop that drops the reference, a reset
and teleoperation. `ClearEStop` and `ResetReference` are the two writes of a reset,
which the button makes without a lock whatever the drivers are doing, latched or
not; `TeleopMove` moves the arms at any time, past the guard. The fourteen joints
are one number, the joint that moves most, and the arms track what they are sent.

**GripLatch** is the gripper seen from dispatch. The queue is replaced by
`RowStream` (an instance of it), which `StreamQueue` implements; each popped
row carries a nondeterministic gripper bit that `Latch` debounces.

**AutoRun** extends it with the loop and all it calls in its thread: `Begin`,
`Loop`, `HomeArm`, `Gate`/`Park`/`Parked`, `NoFlip`, `FlipLook`/`Flip`, the
macros' `MacroClear`/`MacroOut`/`MacroOpen`/`MacroBack`, `Observe`,
`BeginRetreat`/`LetGo`/`Retreat`, `AppendTest`/`Splice`; and with the Tk
thread's `Start`, `Stop`, `Joined`, `ScanHeadGates`, `Toggle`, `LockRobot`,
`ResetEStop`. `Monitors` selects which optional monitors are loaded, as the
console does, `Switches` those the operator enables and disables during a run.

**SimPreview** is the thread that owns PyBullet, from launch to detach, and the
job queue through which the others use it; **Console** the buttons of the panel,
the manual step-through with its workers, the poll that waits for a preview
before it starts auto, the auto loop as far as it needs the preview, and the
joins of Stop and of closing the window.

**CameraHub**, **Observation** and **Recording** are one tick of the collect
thread (cameras, ingest, recorder row), the two-locked-section camera switch
against its consumers, and the panel with its flush threads and the shutdown.

**Teleop** is the teleoperation from the headset: `Receive` and the callback's
`Arm`/`Join`/`Watch`/`Delta`/`Enqueue`/`Crowded`/`DropOldest`/`LetGo`, the
execution thread's `Tick`/`Quit`/`Drain`/`Pop`/`Send`, the switch (`Toggle`)
and time (`Silence`). The pop of an emptied queue, which raises in Python, ends
the thread that made it: in the execution thread (`Pop`) or in the receiver
(`DropOldest`), whose connection then closes and comes back (`Reconnect`).

**HeadsetLink** is the way a pose takes to that callback: one buffer, a sender
that polls its version, connections that fill, break and are dialled again,
a server thread per connection, an app that is killed and relaunched.
**HeadsetView** is the way back: the latest picture, polled by a publisher per
connection and drawn by the frame loop.

**TcpServer** is the planning server's socket: accept, readers, sends and every
way of dropping a client, none under a lock. **PlanningLink** adds the operator's
prompt: requests with timeouts, plans that are cached and sent, the suppression
of live states under a plan.

**EvalTrials** is the scoring tool: the log it tails, cut into polls and rotated;
attempts begun and ended by markers; keys typed ahead; the append-only session
file; kill and resume.

*History* variables (marked in the declarations) record what a property needs
and the code does not store: epochs of the E-stop, waypoints since a latch,
grasps counted, commands since the operator let go, what interfered with a driver.
No guard of the code's actions reads one, except where a bound caps it.
Definitions called `Mutant_*` are plausible wrong versions of the definition that
follows them; nothing uses them but the `mutants` of `PROJECT.json`, each of
which makes a run fail.

## Runs

Type invariants are theorems, or a conjunct of a proved invariant, so the runs do
not repeat them; only `HeadsetView` has none.

| Run | Modules | Result | Checks | Distinct states |
|---|---|---|---|---|
| `ensemble` | Ensemble, StreamQueue | holds | `StreamOrder` `CursorTruthful` `PendingIsFrozen` `RunSpansSeam`, refinement `StreamSpec` | 543 000 |
| `pipeline` | ReleasePipeline | holds | `HaltsWithinOneWaypoint` `OneLateAppend` `EStopSettles` | 449 000 |
| `estop_append` | ReleasePipeline | violated | `NothingQueuedWhileLatched` | |
| `manual_trials` | ReleasePipeline; EvalTrials | holds | `ManualInOrder` `NoSubstepLost`; `ResumeAgrees` `ScoredInOrder` `MissesBelong` | 1 590 000 |
| `dispatch` | Dispatch | holds | `StepBounded` `NoLargeSweep` `ReferenceTruthful` `SeamsBounded` | 3 390 000 |
| `reset_guard` | Dispatch | violated | `NeverOverCap` | |
| `auto_flip` | AutoRun | holds | `FlipMeasuresThisGrasp` | 4 600 000 |
| `auto_gate` | AutoRun | holds | `PausedQueueEmpty` `AutoDisarms` `StopReturns` `PauseDropped` | 442 000 |
| `estop_pulse` | AutoRun | violated | `NoSilentResume` | |
| `console` | Console, SimPreview | holds | `RowsInStep` `TunedOutsideCycle` `TkComesBack` | 492 000 |
| `sessions` | Recording, Observation, CameraHub; Teleop | holds | `NoStaleFrame` `PinsHold` `PanelInStep` `DeadProducerSeen`; `OneThread` `NoBacklog` `DeadMan` `SilenceStops` `JoinReturns` | 552 000 |
| `links` | PlanningLink; HeadsetLink; HeadsetView | holds | `PlannedOnce` `OwnAnswer` `FreezeHolds` `DeadGuiDropped`; `PosesInOrder`; `NewestArrives` | 499 000 |

Three runs explore, one beside the other, components that share nothing
(separated by semicolons): a variable of the MC module picks the one that moves,
the others stay in their initial state, and the fairness of each is that of its own
specification.

What the passing runs show, and why their bounds are enough:

* `ensemble`: commit-ahead distances 1 and 2, changing between calls; rows 0..4;
  chunks of three rows; smoothing radii 0, 1 and 3 and buffer depths 1 and 2,
  tuned live. With radius 0 a merge keeps nothing behind the cursor, with 3 it
  still covers the row under a cursor that fell back;
  trajectories and manual substeps up to four. Five rows let the window move past
  its own length twice, two substeps per row separate the first from the last
  substep of a row, two chunks are what it takes to overwrite one by the other,
  and a drop can fall before, between and after the sections of an append.
* `pipeline`: both ways of releasing and auto-inference together, two latches
  (a latch, a reset and another latch are the shortest history in which a call
  tests before the first and splices after the second), one validated substep, two
  rows, so that one call can be late and another follow it.
* `manual_trials`, the manual releases: three validated substeps and two latches
  without auto, so that one can be staged, one in a hand and one in the queue. The
  trials: three log lines in every order and every cut, two keys typed ahead, a
  kill and a restart, one rotation.
* `dispatch`: joints 0..4, a cap of 2, a ramp step of 1, a watchdog of 3; a target
  past each limit and one inside, paths that need the ramp and paths that do not.
  The watchdog must lie between the cap and the range for each of the three
  answers to occur.
* `auto_flip`: five rows, commit-ahead 1, a hold of 3 rows, two grasps; both
  macros and the recovery are loaded. Two grasps are what it takes to confuse
  one with the other, five rows let a hold expire and another begin.
* `auto_gate`: the gate with one scan to pause and two to resume (a scan that
  does not yet resume must exist), two rows, the switch of the gate. One pending
  row is all that a pause may leave behind.
* `console`: one worker beside the auto loop, two previews one after the other,
  two rows, one poll. Two workers are possible in the panel and in the model; that
  instance is beyond the checker, and what two workers do to the properties is
  known from the code: see [disagreements](#where-code-and-comments-disagree).
* `sessions`, the recording: two sessions in a row, one row, one camera: the second
  session is what the flush of the first may disturb. Teleoperation: a queue of two
  entries, which is full, has an older and a newer entry, and can be drained between
  the test and the pop of the callback.
* `links`: two connections of the GUI, one message in flight, two requests and a
  plan that is retried; three poses over three connections holding two frames,
  two launches of the app; two pictures, two connections, two frames.

`FlipMeasuresThisGrasp` depends on the debounce: the run has `Lock` larger than
twice `Ahead`, as the code's defaults are: the hold is 20 rows (`_grip_lock_rows`),
the commit-ahead 2. With `Lock = 2 * Ahead` TLC finds a grasp that opens and
closes between two looks, and the console's control of `append_ahead_rows` reaches
20, so at 10 or more the property fails in the code; it also fails when the
macro's switch is used during a run. What holds for every hold, look-ahead and use
of the switches is the theorem `FlipMeasures`.

Deadlock is checked but in five configurations. In `pipeline`, `estop_append` and
`manual_trials` the bounds on latches, validations, lines and keys, and a robot
nobody uses, are legitimate ends; so are the bounds of `links`. In `console`
the deadlock is real: when the window of the preview is closed by hand while the
auto loop's validation is queued there, the job is never answered, the loop waits
without a timeout, and Stop, which joins the loop in the Tk thread, never returns,
with the console's E-STOP button behind it. No comment promises otherwise, so it
is no finding; `CutOff` names the situation and `TkComesBack` exempts it.

## Fairness

The operator, the policy, the detectors, the network and the GUI owe nothing in
any run.

* `EStopSettles` (`pipeline`): weak fairness of the release thread, of the
  driver in the inference thread and of a `lock_robot` that has begun. All are
  straight-line code with bounded sleeps.
* `AutoDisarms`, `StopReturns`, `PauseDropped` (`auto_gate`): weak fairness of
  the inference thread, whose longest call is the policy server's with a
  timeout of ten seconds, and of the end of the join.
* `TkComesBack` (`console`): weak fairness of the simulation thread, the auto
  loop, each worker and the callbacks that Tk has queued.
* `DeadProducerSeen` (`sessions`): weak fairness of the collect thread while it
  lives and of the passing of time that makes an observation stale.
* `DeadGuiDropped` (`links`): weak fairness of the accept loop and of each reader.
  A receive on a socket that another thread closed may block as long as its peer
  is silent, so nothing is assumed of that.
* `NewestArrives` (`links`): weak fairness of the sender and receiver of the app,
  its frame loop, and the server thread of each connection. Nothing makes a
  sample, a picture or a failure happen, and only finitely many break a
  connection within the bounds.
* `SilenceStops`, `JoinReturns` (`sessions`): weak fairness of the execution
  thread and of the callback, and of the passing of time while a callback waits
  in the join; no message can arrive then, because it is the receiver that
  waits. The operator may use the switch at every moment, which is why
  `JoinReturns` needs the silence: switching on again keeps the joined thread
  alive until the link has been silent for 200 ms.

## Proofs

| Theorem | Module | States |
|---|---|---|
| `QueueTypeCorrect`, `QueueSafe`, `StreamInOrder`, `CursorIsTruthful` | StreamQueue_proofs | types; `StreamOrder`, `CursorTruthful`, and the bounds `CommitBound`, `NoCatchUp` |
| `QueueImplementsStream` | StreamQueue_proofs | the queue implements RowStream |
| `EnsembleTypes`, `FrozenStays`, `RunSpans` | Ensemble_proofs | types; `PendingIsFrozen`; `RunSpansSeam` |
| `MergeUsesQueue`, `MergeStreams` | Ensemble_proofs | the merging caller uses the queue as StreamQueue says, and hence implements RowStream |
| `PipelineTypeCorrect`, `PipelineHalts`, `PipelineLateAppend` | ReleasePipeline_proofs | types; `HaltsWithinOneWaypoint`; `OneLateAppend` |
| `PipelineUsesQueue`, `PipelineStreams` | ReleasePipeline_proofs | without `release_to_robot` the pipeline implements StreamQueue and hence RowStream |
| `ManualReleasesInOrder` | ReleasePipeline_proofs | `ManualInOrder`, without `release_to_robot` |
| `ManualLosesNothing` | ReleasePipeline_proofs | `NoSubstepLost`, without `release_to_robot` and auto-inference |
| `AutoTypes`, `PauseEmptiesQueue` | AutoRun_proofs | types; `PausedQueueEmpty` |
| `FlipInvariant`, `FlipMeasures` | AutoRun_proofs | `FlipMeasuresWatched`: the roll was measured from this grasp, unless the debounce was bypassed or a look was missed |
| `ReferenceIsTruthful`, `NoSweep`, `CommandsBounded`, `QueueSeams` | Arms_proofs | `ReferenceTruthful`; `NoLargeSweep`; `StepBounded`; `SeamsBounded` |
| `ConsoleTypes`, `TuningIsLocked`, `RowsAreInStep` | Console_proofs | types; `TunedOutsideCycle`; `RowsInStep` |
| `RecordingTypes`, `RecordingPins`, `FramesAreCurrent`, `PanelAgrees`, `SessionsAreSealed` | Sessions_proofs | types; `PinsHold`; `NoStaleFrame`; `PanelInStep`; `Sealed` |
| `LinkTypeCorrect`, `EachPlanOnce`, `AnswersBelong`, `PlansAreFrozen`, `OneClientAtATime` | PlanningLink_proofs | types; `PlannedOnce`; `OwnAnswer`; `FreezeHolds`; `SingleClient` |
| `HeadsetInOrder` | PlanningLink_proofs | `PosesInOrder` |
| `TeleopTypes`, `OneThreadAtATime`, `NothingMadeUp`, `HoldToOperate` | Arms_proofs | types; `OneThread`; `NoBacklog`; `DeadMan` |
| `SessionResumes`, `OutcomesInOrder`, `AttemptsKeepTheirMisses` | Sessions_proofs | `ResumeAgrees`; `ScoredInOrder`; `MissesBelong` |

They hold for all constants that satisfy the named assumptions of the modules
(natural numbers; a trajectory bound larger than the window), and every safety
property that a passing run checks is among them but `FlipMeasuresThisGrasp`, for
which `FlipMeasures` says what is true of every instance. Some have a hypothesis
more:

* `release_to_robot` replaces the queue by a trajectory that was validated before;
  only tests call it, and `OneShot = FALSE` leaves it out where the stream, or the
  order or completeness of manual releases, is claimed;
* auto-inference empties the queue on purpose before it takes the arm home, manual
  substeps with it, so `ManualLosesNothing` is about a console without it.

`FlipMeasures` has none: its specification, `WatchSpec`, is AutoRun's with two history
variables that note the row of the loop's last look at the gripper (`at`) and
whether, since the baseline was taken, the loop came by with the macro switched off
or looked only after the rows of a whole hold (`missed`). They constrain nothing.

`CommitBound`, `NoCatchUp`, `Sealed` and `SingleClient` are stated by no run: the
theorems say more than an instance would.

* *Queue.* The four safety properties are not inductive. `QueueInv` adds what an
  append in flight remembers: the rows it will splice start right behind the
  cursor or the clock it read (`AppendFollowsCursor`), and the cursor does not
  fall behind the clock while rows are queued (`CursorNotBehind`). With these a
  splice is contiguous whatever was popped or cleared meanwhile. The refinement
  maps the committed rows to the rows that have a substep in the queue, and each
  locked section to one abstract step or a stutter.
* *Ensemble.* `EnsembleInv` is `QueueInv`, the types of the merge, and
  `BeyondCursor`: what a merge writes lies beyond the cursor it read, and until
  the thread appends again that cursor can only fall; the queue holds nothing
  beyond it. Each of its steps is a step of StreamQueue or a stutter. `SeamInv` is
  what the seam needs: the buffer has no gap (`Gapless`), it holds what the newest
  chunks cover beyond the cursor (`HoldsChunks`), the cursor a cycle read was the
  cursor (`SeenCursor`), and the row under it is in the buffer unless a merge let go
  of it (`HoldsCursor`, `bare`).
* *Pipeline.* `HaltInv` ties the overrun of a driver to its program counter: it
  can be 1 only past the send that followed its last test. `LateInv` says that a
  call which tested the latch before the queue was dropped finds no policy row in
  it; after its splice no other call gets past the test until a reset, so its rows
  are the only ones, and they lie within one trajectory. The streaming theorem goes through `PipelineUsesQueue` and reuses the queue's
  invariant. For manual releases `LineInv` reads the queue, the substeps in the
  hands of the threads and the staged trajectory as one line in the order of
  validation; `HandInv` says where in its program a thread holds nothing,
  `Pressed` that a latch, and a drop of what is staged, follow an E-stop that was
  counted, and `NothingLost` that until then all that was validated is in the line
  or was played.
* *Auto.* `PauseInv`: a paused gate has an empty queue and the loop is at one of
  the three points where it can be; the loop parks with an empty queue; a
  latched E-stop at the gate has emptied it; and unless the gate was disarmed
  while the arm was parked (`slipped`), it is armed. `FlipInv` follows a grasp
  across the two threads: pending rows are not behind the clock (`Rows`), a macro or
  a retreat has dropped what could still be sent before it opens the hand
  (`NothingSent`), a grasp that the debounce accepted ends by an opening that it
  accepts or by the loop's own (`HeldBy`), and as long as the baseline is trusted it
  is of the last grasp, or the rows of a hold have passed since the last look; once
  that grasp has ended, nothing can be sent before the loop looks, or the hold of
  the opening lasts a whole hold beyond the last look (`Watched`). From one look to
  the next the clock runs through the rows that are pending and through one more
  append: with `2 * Ahead < Lock` a look is missed by the switch only, which is the
  case `auto_flip` explores.
* *Dispatch.* `DispatchInv` says where each driver is in its target: what it has yet
  to stream leads from where the arms are to a target within the watchdog in steps
  within the cap (`OnCourse`), and the targets of a move go on from where the arms
  will be (`InPath`); under a latched E-stop every place an arm can be held or still
  sent to lies within one step (`Together`); two drivers at once, a reset beside a
  driver or a hold, and teleoperation beside either, are noted as the interference
  that the properties exempt (`Marked`), until the reference is next dropped with
  nobody at work. A configuration is one number, so that the arithmetic of the ramp
  is exact. That flattened paths keep the distance between neighbours, though
  `FlattenSeq` is recursive, is proved from the least place at which it would fail.
* *Console.* `PreviewInv` and `PanelTypes` are the types. The lock of the tuning
  needs `Locked`: the loop is in a cycle only while `is_auto` or while Tk is in
  the handler that will join it. The order of the rows needs `StepInv`: without an
  overlap one worker at a time holds rows, they follow the cursor, it is the count
  of what was staged, and a worker between its staging and its write of the
  cursor is one run ahead of it.
* *Recording.* `RecInv`: the panel, the recorder and the flush threads go through
  the cycle together, so there is at most one flush (`InCycle`); nobody but the
  recorder knows the session that is recorded (`Unknown`); a frame belongs to an
  open camera (`Current`). The pins hold because the one flush that could unpin
  has passed that step before the panel allows a start.
* *Planning.* `LinkInv`: requests and plans are numbered upward (`Numbered`); what
  waits is of the call under way (`OfTheCall`); every frame on its way is a state
  or answers a request that was sent (`Truthful`); during a plan the live state is
  off, and a handler that had passed its test is the only one of its connection
  (`Frozen`).
* *Headset link.* `HeadsetInv`: the newest connection is the one the app sends on
  (`NewestLink`), what it has yet to send is newer than all that was sent, by the
  version, which starts anew with the app and the buffer (`Unsent`), and poses come
  in order within a connection and from one to the next (`Ordered`).
* *Teleop.* The first three properties together are inductive: the queue is emptied
  in the step that starts a thread, and an entry is old only if it was there when a
  thread ended. `HoldInv`: the commands sent since nothing authorises motion, the one
  under way and the one the next tick will make are two at most.
* *Evaluation.* `ScoringInv`: the log is text at odd places and line ends at even
  ones (`LogShape`); the records of the session file are in the order their attempts
  began in, each with its own misses (`Filed`); the attempts that wait for a score,
  and the active one, follow them (`Queued`); what is not yet read is newer than all
  of these, and a line read in part is the one at the offset (`Watch`); the list on
  the screen is what the file loads to (`Shown`). Loading a session and tracking a log
  are folds. What they compute is followed line by line: a property that every line
  keeps holds after all of them (`TrackInduct`), by the least line after which it
  would not.

## What is only model-checked

Liveness under fairness (`EStopSettles`, `AutoDisarms`, `StopReturns`,
`PauseDropped`, `TkComesBack`, `DeadProducerSeen`, `DeadGuiDropped`,
`NewestArrives`, `SilenceStops`, `JoinReturns`), which the prover does not cover,
and with it all of HeadsetView. `NoSilentResume` is the violation of the next section.
The induction theorems of the library, which take an operator, are not usable;
where a fold had to be followed, the proofs take the least element of a set of
numbers instead. `PipelineStreams` and the use of RowStream in GripLatch are
connected by the interface only: that AutoRun's calls are calls of ReleasePipeline
is by reading.

## Where code and comments disagree

Three runs check a promise of a comment and find the code doing otherwise; each is
a finding in `PROJECT.json` with the quotation.

* `estop_pulse`: an E-stop that is latched and reset while the loop is away from its
  test goes unnoticed, and motion resumes without a new start, although the comment
  above the test rules that out.
* `estop_append`: "append_actions also refuses while latched, so nothing is queued"
  (`inference_controller.py:808`). An append that passed its test before the latch
  refills the queue the E-stop has just emptied, and the rows are streamed after
  Reset. What holds is `OneLateAppend`: it is one call's rows, whatever is latched
  and reset meanwhile.
* `reset_guard`: "an over-cap joint velocity physically impossible regardless of what
  produced `points`" (`humanoid_env.py:1128`). A Reset between a driver's look for
  the guard's reference and the guard takes the reference away, and the target skips
  both the jump watchdog and the ramp. What holds is that a reset which no driver and
  no hold is at work beside leaves `StepBounded`, `NoLargeSweep` and
  `ReferenceTruthful` as they are.

The models also show the following; each was met while translating the code, and
each property that would trip over one names it as an exemption.

* *Release path.* `release_to_robot` takes a trajectory validated before the E-stop;
  only tests call it today. A macro opens the gripper although its way to the
  release pose was refused.
* *Ensemble.* A clear is noticed by "Last queued_through seen: a DROP"
  (`postprocess.py:214`), but a clear before anything was queued drops from -1 to
  -1, and an append that was validating during the clear lifts the cursor again
  before the next merge looks: the chunks from before are merged once more. A merge
  whose cursor came back at an older row, or that was tuned to radius 0, no longer
  holds the committed row the seam is blended from; `bare` marks it in Ensemble.
* *Dispatch.* "an over-cap joint velocity physically impossible"
  (`humanoid_env.py:1129`) and "The ONLY driver of real-robot motion" (`:984`):
  homing, macros and retreats drive from the inference thread, and a substep the
  release loop had popped before the queue was cleared is sent beside them, each
  measured from the other's reference; and the execution thread of the
  teleoperation sends its commands past queue, guard and latch, whoever else drives.
  `interference` marks it.
* *Package gate.* "The pause engages ONLY while the gripper is EMPTY"
  (`package_gate.py:9`): the hand is looked at once, at the head of the cycle, and
  rows that wait in the queue may close it before the gate pauses and drops the
  rest. What holds is `PauseDropped`: such a pause ends. "disarming -> drop any active pause immediately"
  (`inference_controller.py:617`): the gate disarmed while the thread takes the
  arm home is paused afterwards nevertheless. Armed again it then skips inference
  without having parked the arm, and rows appended meanwhile still run. The switch
  of the flip macro ("Safe to toggle mid-run") leaves the baseline of the grasp at
  which it was switched off, and measures a later grasp from it: TLC finds it with
  `Switches = {"flip"}`, so `auto_flip` has no switches.
* *Console.* Stop does not cancel a pending wait for the preview, so auto may start
  after Stop. The step-through locks its buttons per worker by one flag: two workers
  that overlap stage a step twice, and the first to end unlocks the tuning that
  "is allowed only when NOTHING is inferencing" (`gui/inference_panel.py:465`).
* *Teleoperation.* Releasing the trigger clears, with the pending motion, a gripper
  toggle that was already remembered as done. An execution thread that died on an
  emptied queue leaves teleoperation switched on with nobody executing. A Start
  pressed while the previous auto thread is on its way out starts none.
* *Headset link.* "pushes every new revision back" (`pico_vr_client/tcp_stream.py`):
  the sender polls, skips what came in between, and counts as sent what a broken
  connection swallowed. "reconnects with a fixed delay on failure": a downlink that
  breaks silently is no failure, the receive times out and waits again, and the
  picture stays as it was. The thread of an old connection may call back with
  older poses beside its successor, two callbacks at once.
* *Recording.* "so row counts stay in sync" (`recording.py`): a camera that drops a
  tick writes no frame while the row is appended, and the dataset builder pairs row
  and frame by index. A raising joint read leaves the columns uneven and ends the
  collect thread. The older stand-alone console lets the operator save or start
  while the flush runs, and its SIGINT handler takes the lock that the interrupted
  thread may hold.
* *Evaluation.* An undone or re-scored trial takes the timing of the next attempt;
  attempts not yet scored are lost with a crash; a key typed ahead scores the next
  attempt, though each is "a single keystroke"; no-flip completions write no marker.
  The console's panel counts the literal "success" and stays with the first session
  it showed; the tool counts its first category.
* `retreat.py` names a caller in InferenceController that no longer exists.

## Assumptions and omissions

* Joint values are left out but in Dispatch: IK and the simulator appear as
  nondeterministic success or refusal. In Dispatch one number is the joint that
  moves most, tracking is ideal, failed joint reads are left out, and so is
  `_bridge`: by `NoCatchUp` it is never needed. Its properties claim nothing of a
  driver or a hold from the moment a second driver, teleoperation or a reset comes
  in beside it until the reference is next dropped with nobody at work; a latch, a
  reset with everybody at rest, an append or a release button beside it, and
  teleoperation of latched or idle arms exempt nothing.
* A read or command of the SDK may fail where the code handles it
  (ReleasePipeline, macros); in Teleop it succeeds.
* AutoRun: no manual releases while auto runs; an unreadable arm is a skipped
  look; latching and dropping of the E-stop are one step, because ReleasePipeline
  has the split; one gripper; one confirmation frame for the recovery (the default);
  the preview stays attached, because Console has it come and go.
* An operator's reset of the debounce, and a substep that was in flight when a
  macro opened the hand, bypass the debounce; `disturbed` exempts the grasp they
  make from `FlipMeasuresThisGrasp`.
* Ensemble: `use_temporal_ensemble` is on, as the console starts; the manual
  one-shot bypasses the buffer.
* Console: the E-stop, homing and macros are in AutoRun; the preview's own live
  drive queue is left out.
* Recording: a row is which cameras have a frame in it; the older console is left
  out. Firmware errors only mark more observations stale.
* Teleop: one hand; one connection at a time (HeadsetLink has several); a callback
  that does not wait takes less than 200 ms; the switch is inverted atomically. An
  untracked hand is reported with the identity pose and no flag, so that a delta may
  jump; the clamps that bound it are arithmetic and left out.
* HeadsetLink, HeadsetView: a frame that is cut short is dropped whole; stopping
  the server or the app is left out. PlanningLink: the same, and the scene and the
  planner; a detection that fails leaves the scene it has just cleared empty.
* EvalTrials: times and statistics are left out; one write of one line is assumed
  to be whole.

## Not modelled

* *Detectors* (pose and label detection, image processing), *kinematics
  and reachability* (floating-point chains and tables) and the poses inside the merge,
  the teleoperation filters and the planner: their results depend on real
  arithmetic, their control on nothing but their arguments. The models take their
  answer as any answer.
* *Dataset builders*, replay, calibration and diagnostic scripts: batch programs over
  arrays without state that outlives a call.
* *Widgets and layout*: much of `gui/` builds and paints; what a
  widget decides is in the models, what it looks like is not. The evaluation tab's
  board only reads the session file.
* *Clients of the policy server and robot info*: a request with a timeout and a
  read-only publisher, present as the answer of `Observe`.
* *Vendored SDK* and the motion planning GUI: not this repository's code.

That is where most of the lines are: the map covers some 3 500 of 24 200 lines, and
what is left that keeps state across calls is named in the plan.

## Plan

1. Proofs: the abstraction from ReleasePipeline to GripLatch's stream, through
   AutoRun's calls; the types of HeadsetView. Liveness stays with TLC.
2. Dispatch's guard inside ReleasePipeline, with the interleaving of the E-stop as
   fine as it is there; two joints.
3. Manual releases in GripLatch, so that the debounce, which counts rows that
   manual releases do not advance, has a property.
4. The headset link and Teleop composed: two callbacks at once.
5. The stand-alone data-collection console; the SimPreview live drive; `auto_ingest_chunk`.
