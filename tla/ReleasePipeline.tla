-------------------------- MODULE ReleasePipeline --------------------------
(* HumanoidEnv's road to the hardware (real_world/humanoid_env.py): the       *)
(* streaming queue of StreamQueue, the manual validate-and-release buffer,    *)
(* the loop that drives the arms, and the latched E-stop that any of them may *)
(* run into.  Four threads, at the granularity of the shared lock and of the  *)
(* E-stop flag, which is tested outside it:                                   *)
(*   "inf"  the inference thread: append_actions, the queue clears of homing, *)
(*          retreats and release macros, and the moves these make, which are  *)
(*          streamed by run_trajectory_control in this thread;                *)
(*   "man"  a worker thread: validate_and_stage;                              *)
(*   "gui"  the Tk thread: the release buttons, E-STOP and Reset;             *)
(*   "rel"  _release_loop, which pops one substep at a time and streams it by *)
(*          run_trajectory_control.                                           *)
(* Whoever streams also tests and may latch the E-stop.  The tag of a substep *)
(* is the number it was staged under, 0 for the rows of append_actions.       *)
EXTENDS StreamQueue

CONSTANTS
    AutoRuns,           \* auto-inference is running
    OneShot,        \* release_to_robot is in use as well
    MaxEpoch,       \* bound: E-stop latches
    MaxSeq          \* bound: substeps validated by hand

ASSUME ModesAssumption == AutoRuns \in BOOLEAN /\ OneShot \in BOOLEAN
ASSUME LimitsAssumption == MaxEpoch \in Nat \ {0} /\ MaxSeq \in Nat
ASSUME TagsAssumption == Tags = 0..MaxSeq

VARIABLES
    estop,              \* _estop, the latch
    epoch,              \* history: how many times the E-stop was latched
    overrun,            \* history: waypoints each driver sent since the latch, to Many
    staged,             \* _staged_release: tags of the staged substeps
    last_sim_traj,      \* _last_sim_traj: tags of the last validated trajectory
    validation_id,      \* _validation_id
    released_id,        \* _released_id
    vid,                \* the validation release_to_robot is releasing
    validated,          \* history: substeps staged so far
    played,             \* history: manual substeps the robot was sent
    arm_known,          \* _last_good_arm14 is not None: some read has succeeded
    pc,                 \* where each thread is
    hand                \* the substeps a thread took and has not passed on

latchVars == <<estop, epoch, overrun>>
trajVars == <<last_sim_traj, validation_id, released_id, vid>>
manualVars == <<staged, trajVars, validated>>
vars == <<queueVars, latchVars, manualVars, played, arm_known, pc, hand>>

Threads == {"inf", "man", "gui", "rel"}
Drivers == {"inf", "rel"}       \* the callers of run_trajectory_control
NoHand == <<>>
Many == 2                       \* overrun counts no further
Unnumbered == 0

Init ==
    /\ QueueInit
    /\ estop = FALSE
    /\ staged = <<>> /\ last_sim_traj = <<>>
    /\ validation_id = 0 /\ released_id = -1 /\ vid = 0
    /\ arm_known \in BOOLEAN
    /\ pc = [t \in Threads |-> "idle"]
    /\ hand = [t \in Threads |-> NoHand]
    /\ epoch = 0 /\ overrun = [t \in Drivers |-> 0]
    /\ validated = 0 /\ played = {}

Goto(t, from, to) == pc[t] = from /\ pc' = [pc EXCEPT ![t] = to]

\* _read_arm14 returns a pose or not: a failed read falls back to the last good
\* one, so only an env that never had a good read can come back with nothing.
ReadArm(got) == (arm_known => got) /\ arm_known' = got

-----------------------------------------------------------------------------
(* The inference thread.                                                    *)

\* append_actions refuses while latched; the test is made once, before the
\* queue is read and long before the splice.
Mutant_AppendCheck ==
    /\ AutoRuns
    /\ Goto("inf", "idle", "checked")
    /\ UNCHANGED <<queueVars, latchVars, manualVars, played, arm_known, hand>>
AppendCheck ==
    /\ AutoRuns
    /\ ~estop
    /\ Goto("inf", "idle", "checked")
    /\ UNCHANGED <<queueVars, latchVars, manualVars, played, arm_known, hand>>

\* The window is read and the rows go to IK and the simulator, or the call
\* returns early; an empty queue makes it read the arm for its seed.
AppendStart ==
    /\ \/ /\ \E base, end \in Rows, ahead \in Aheads : AppendRead(base, end, ahead)
          /\ Goto("inf", "checked", "validating")
          /\ \/ robot_q = <<>> /\ \E got \in BOOLEAN : ReadArm(got)
             \/ robot_q # <<>> /\ UNCHANGED arm_known
       \/ /\ Goto("inf", "checked", "idle")
          /\ UNCHANGED <<queueVars, arm_known>>
    /\ UNCHANGED <<latchVars, manualVars, played, hand>>

AppendFinish ==
    /\ Goto("inf", "validating", "idle")
    /\ \/ AppendAbort
       \/ \E traj \in Expansions(append.start_id, append.last_id) :
             AppendSplice(traj, Unnumbered)
    /\ UNCHANGED <<latchVars, manualVars, played, arm_known, hand>>

\* Homing, a retreat or a macro drops the queue, and all but the first homing
\* drop what is staged as well.
InfClear ==
    /\ AutoRuns /\ pc["inf"] = "idle"
    /\ ClearQueue
    /\ staged' \in {staged, <<>>}
    /\ UNCHANGED <<latchVars, trajVars, validated, played, arm_known, pc, hand>>

-----------------------------------------------------------------------------
(* The worker thread: validate_and_stage, which never asks about the E-stop. *)

\* An idle pipeline is re-anchored to the arm, then the simulator runs.
ValidateStart ==
    /\ validated < MaxSeq
    /\ Goto("man", "idle", "validating")
    /\ \/ staged = <<>> /\ robot_q = <<>> /\ \E got \in BOOLEAN : ReadArm(got)
       \/ ~(staged = <<>> /\ robot_q = <<>>) /\ UNCHANGED arm_known
    /\ UNCHANGED <<queueVars, latchVars, manualVars, played, hand>>

\* Success stages the trajectory for both ways of releasing it.
ValidateOk(n) ==
    LET traj == [i \in 1..n |-> validated + i]
    IN  /\ validated + n <= MaxSeq
        /\ Goto("man", "validating", "idle")
        /\ last_sim_traj' = traj
        /\ validation_id' = validation_id + 1
        /\ staged' = staged \o traj
        /\ validated' = validated + n
        /\ UNCHANGED <<queueVars, latchVars, released_id, vid, played, arm_known,
                       hand>>

ValidateFail ==
    /\ Goto("man", "validating", "idle")
    /\ last_sim_traj' = <<>>
    /\ UNCHANGED <<queueVars, latchVars, staged, validation_id, released_id, vid,
                   validated, played, arm_known, hand>>

-----------------------------------------------------------------------------
(* The Tk thread: the release buttons.                                      *)

ReleaseCheck ==
    /\ ~estop
    /\ Goto("gui", "idle", "take")
    /\ UNCHANGED <<queueVars, latchVars, manualVars, played, arm_known, hand>>

\* release_n_substeps pops the first n, release_remaining_substeps all of them.
ReleaseTake(n) ==
    /\ n \in 1..Len(staged)
    /\ Goto("gui", "take", "enqueue")
    /\ hand' = [hand EXCEPT !["gui"] = SubSeq(staged, 1, n)]
    /\ staged' = SubSeq(staged, n + 1, Len(staged))
    /\ UNCHANGED <<queueVars, latchVars, trajVars, validated, played, arm_known>>

ReleaseNothing ==
    /\ staged = <<>>
    /\ Goto("gui", "take", "idle")
    /\ UNCHANGED <<queueVars, latchVars, manualVars, played, arm_known, hand>>

Manual(tags) == [i \in 1..Len(tags) |-> [row |-> Untagged, tag |-> tags[i]]]

\* What popleft takes comes back in front of what is still staged.
Mutant_RestageBehind(subs) == staged \o subs
Mutant_RestageNothing(subs) == staged
Restage(subs) == subs \o staged

\* _enqueue_for_release: onto the tail of the queue, or back where they came
\* from when the arm cannot be read.
Enqueue ==
    /\ Goto("gui", "enqueue", "idle")
    /\ \/ /\ ReadArm(TRUE)
          /\ EnqueueManual(Manual(hand["gui"]))
          /\ UNCHANGED staged
       \/ /\ ReadArm(FALSE)
          /\ staged' = Restage(hand["gui"])
          /\ UNCHANGED queueVars
    /\ hand' = [hand EXCEPT !["gui"] = NoHand]
    /\ UNCHANGED <<latchVars, trajVars, validated, played>>

\* release_to_robot, up to the copy of the trajectory ...
OneShotCheck ==
    /\ OneShot /\ ~estop
    /\ last_sim_traj # <<>> /\ validation_id # released_id
    /\ Goto("gui", "idle", "replace")
    /\ hand' = [hand EXCEPT !["gui"] = last_sim_traj]
    /\ vid' = validation_id
    /\ UNCHANGED <<queueVars, latchVars, staged, last_sim_traj, validation_id, released_id,
                   validated, played, arm_known>>

\* ... and from there on: it replaces the queue and consumes the validation.
OneShotReplace ==
    /\ Goto("gui", "replace", "idle")
    /\ \/ /\ ReadArm(TRUE)
          /\ robot_q' = Manual(hand["gui"])
          /\ released_id' = vid
          /\ last_sim_traj' = <<>>
          /\ UNCHANGED <<current_row_id, queued_through, append>>
       \/ /\ ReadArm(FALSE)
          /\ UNCHANGED <<queueVars, last_sim_traj, released_id>>
    /\ hand' = [hand EXCEPT !["gui"] = NoHand]
    /\ UNCHANGED <<latchVars, staged, validation_id, vid, validated, played>>

-----------------------------------------------------------------------------
(* lock_robot, called by the Tk thread and by whoever drives the arms.      *)

LockLatch(t) ==
    /\ Goto(t, "latch", "drop")
    /\ estop' = TRUE
    /\ IF estop
       THEN UNCHANGED <<epoch, overrun>>
       ELSE epoch' = epoch + 1 /\ overrun' = [d \in Drivers |-> 0]
    /\ UNCHANGED <<queueVars, manualVars, played, arm_known, hand>>

LockDrop(t) ==
    /\ Goto(t, "drop", "hold")
    /\ ClearQueue
    /\ staged' = <<>>
    /\ UNCHANGED <<latchVars, trajVars, validated, played, arm_known, hand>>

\* The pose is re-commanded three times, unless there is none to re-command.
LockHold(t) ==
    /\ Goto(t, "hold", "idle")
    /\ \E got \in BOOLEAN : ReadArm(got)
    /\ UNCHANGED <<queueVars, latchVars, manualVars, played, hand>>

EStopButton ==
    /\ Goto("gui", "idle", "latch")
    /\ UNCHANGED <<queueVars, latchVars, manualVars, played, arm_known, hand>>

ResetEStop ==
    /\ pc["gui"] = "idle" /\ estop /\ epoch < MaxEpoch
    /\ estop' = FALSE
    /\ UNCHANGED <<queueVars, epoch, overrun, manualVars, played, arm_known, pc, hand>>

-----------------------------------------------------------------------------
(* run_trajectory_control, in the thread of driver t.                       *)

\* What t holds is given up, and the thread goes on at next.
GiveUp(t, from, next) ==
    /\ Goto(t, from, next)
    /\ hand' = [hand EXCEPT ![t] = NoHand]
    /\ UNCHANGED <<queueVars, latchVars, manualVars, played, arm_known>>

\* The E-stop, then the target (the joint jump and the safe region): the driver
\* halts, locks the robot, or goes on to stream.
Guard(t) ==
    \/ estop /\ GiveUp(t, "guard", "idle")
    \/ ~estop /\ GiveUp(t, "guard", "latch")
    \/ /\ ~estop
       /\ Goto(t, "guard", "stream")
       /\ UNCHANGED <<queueVars, latchVars, manualVars, played, arm_known, hand>>

\* Before every waypoint of the (possibly ramped) step the E-stop is tested.
Mutant_Test(t) ==
    /\ Goto(t, "stream", "send")
    /\ UNCHANGED <<queueVars, latchVars, manualVars, played, arm_known, hand>>
Test(t) ==
    \/ estop /\ GiveUp(t, "stream", "idle")
    \/ /\ ~estop
       /\ Goto(t, "stream", "send")
       /\ UNCHANGED <<queueVars, latchVars, manualVars, played, arm_known, hand>>

SeqsOf(tags) == {tags[i] : i \in 1..Len(tags)}

Overrun(n) == IF ~estop THEN 0 ELSE IF n < Many THEN n + 1 ELSE Many

\* The SDK call: more waypoints of the ramp follow, or more points of the path,
\* or the path is done, or the call raises.  The loop answers that by locking
\* the robot, the inference thread by giving up the move.
Send(t) ==
    \/ /\ \/ Goto(t, "send", "stream") /\ UNCHANGED <<played, hand>>
          \/ t = "inf" /\ Goto(t, "send", "guard") /\ UNCHANGED <<played, hand>>
          \/ /\ Goto(t, "send", "idle")
             /\ played' = played \cup (SeqsOf(hand[t]) \ {Unnumbered})
             /\ hand' = [hand EXCEPT ![t] = NoHand]
       /\ overrun' = [overrun EXCEPT ![t] = Overrun(@)]
       /\ UNCHANGED <<queueVars, estop, epoch, manualVars, arm_known>>
    \/ GiveUp(t, "send", IF t = "rel" THEN "latch" ELSE "idle")

Drive(t) == Guard(t) \/ Test(t) \/ Send(t)

-----------------------------------------------------------------------------
(* Who drives: move_to_joints and play_joint_path in the inference thread,  *)
(* _release_loop in its own.                                                *)

InfMove ==
    /\ AutoRuns /\ ~estop
    /\ Goto("inf", "idle", "guard")
    /\ ReadArm(TRUE)
    /\ UNCHANGED <<queueVars, latchVars, manualVars, played, hand>>

RelPoll ==
    /\ ~estop
    /\ Goto("rel", "idle", "pop")
    /\ UNCHANGED <<queueVars, latchVars, manualVars, played, arm_known, hand>>

RelPop ==
    /\ \/ /\ PopNextSubstep
          /\ Goto("rel", "pop", "popped")
          /\ hand' = [hand EXCEPT !["rel"] = <<Head(robot_q).tag>>]
       \/ /\ robot_q = <<>>
          /\ Goto("rel", "pop", "idle")
          /\ UNCHANGED <<queueVars, hand>>
    /\ UNCHANGED <<latchVars, manualVars, played, arm_known>>

\* A firmware fault locks the robot; else the dispatch guard may read the arm.
RelFirmware ==
    \/ GiveUp("rel", "popped", "latch")
    \/ /\ Goto("rel", "popped", "guard")
       /\ \E got \in BOOLEAN : ReadArm(got)
       /\ UNCHANGED <<queueVars, latchVars, manualVars, played, hand>>

-----------------------------------------------------------------------------
Inf == AppendCheck \/ AppendStart \/ AppendFinish \/ InfClear \/ InfMove
Man == ValidateStart \/ (\E n \in 1..MaxSeq : ValidateOk(n)) \/ ValidateFail
Release == \/ ReleaseCheck \/ ReleaseNothing \/ Enqueue
           \/ \E n \in 1..MaxSeq : ReleaseTake(n)
           \/ OneShotCheck \/ OneShotReplace
Lock(t) == LockLatch(t) \/ LockDrop(t) \/ LockHold(t)
Rel == RelPoll \/ RelPop \/ RelFirmware

Next ==
    \/ Inf \/ Man \/ Release \/ Rel
    \/ \E t \in Drivers : Drive(t)
    \/ \E t \in Drivers \cup {"gui"} : Lock(t)
    \/ EStopButton \/ ResetEStop

Spec == Init /\ [][Next]_vars

\* The threads run: the release loop never ends, a driver goes on to its next
\* waypoint, and a lock_robot that was called goes on.  Nothing makes the
\* operator press a button or a validation end.
FairSpec ==
    /\ Spec
    /\ WF_vars(Rel)
    /\ \A t \in Drivers : WF_vars(Drive(t))
    /\ \A t \in Drivers \cup {"gui"} : WF_vars(Lock(t))

-----------------------------------------------------------------------------
(* Properties.                                                              *)

PCs == {"idle", "checked", "validating", "take", "enqueue", "replace", "pop", "popped",
        "guard", "stream", "send", "latch", "drop", "hold"}

\* The values of the shared state and of the threads.
TypeOK ==
    /\ QueueTypeOK
    /\ estop \in BOOLEAN /\ epoch \in 0..MaxEpoch /\ overrun \in [Drivers -> 0..Many]
    /\ staged \in Seq(Tags) /\ last_sim_traj \in Seq(Tags)
    /\ validation_id \in Nat /\ released_id \in Nat \cup {-1} /\ vid \in Nat
    /\ validated \in 0..MaxSeq /\ played \subseteq 1..MaxSeq
    /\ arm_known \in BOOLEAN
    /\ pc \in [Threads -> PCs] /\ hand \in [Threads -> Seq(Tags)]

\* C3, "an E-stop halts the arm within ~STEP_TIME": whoever latches it and
\* wherever the drivers are, each of them sends at most one more waypoint.
HaltsWithinOneWaypoint == \A t \in Drivers : overrun[t] <= 1

\* The E-stop is latched, and every lock_robot under way has dropped the queue.
Dropped == estop /\ \A t \in Threads : pc[t] # "drop"

\* "append_actions also refuses while latched, so nothing is queued" (the inference
\* loop): no policy row is added to the queue that an E-stop has dropped.  The call
\* tests the latch once, before IK and the simulator, and splices afterwards.
NothingQueuedWhileLatched ==
    [][Dropped => \A i \in TaggedIn(robot_q') : i <= Len(robot_q)]_vars

\* What an E-stop leaves queued: once the queue is dropped, its policy rows are those
\* of one append_actions call at most, however many threads latched, were reset and
\* latched again meanwhile: they lie within the length of one validated trajectory.
OneLateAppend ==
    Dropped => \A i, j \in TaggedIn(robot_q) : j - i < MaxTraj

\* The substeps in the order they will reach the robot: in the release loop's
\* hand, in the queue, in the Tk thread's hand, staged.  The manual ones among
\* them have a number.
TagsOf(q) == [i \in 1..Len(q) |-> q[i].tag]
Waiting == hand["rel"] \o (TagsOf(robot_q) \o (hand["gui"] \o staged))
Numbered(s) == {i \in 1..Len(s) : s[i] # Unnumbered}

\* The buttons release every validated substep at most once and in the order
\* they were validated in, although validations, releases, failed arm reads and
\* E-stops interleave.
ManualInOrder ==
    /\ \A i, j \in Numbered(Waiting) : i < j => Waiting[i] < Waiting[j]
    /\ \A i \in Numbered(Waiting), n \in played : n < Waiting[i]

\* Until the E-stop is first pressed no validated substep gets lost: each one
\* was played or is on its way ("don't lose the popped substeps").
NoSubstepLost ==
    (epoch = 0 /\ pc["rel"] # "latch") =>
       1..validated = played \cup (SeqsOf(Waiting) \ {Unnumbered})

\* A latched E-stop is answered: every driver and every lock_robot comes to
\* rest, unless the operator resets it first.
Settled ==
    /\ pc["rel"] = "idle"
    /\ pc["inf"] \in {"idle", "checked", "validating"}
    /\ pc["gui"] \notin {"latch", "drop", "hold"}
EStopSettles == estop ~> (~estop \/ Settled)
=============================================================================
