------------------------------ MODULE Dispatch ------------------------------
(* What run_trajectory_control (real_world/humanoid_env.py) makes of a target *)
(* on its way to the arms: the velocity guard that ramps a jump (C5), the     *)
(* watchdogs that refuse one (C6) or one that leaves the safe region (C7),    *)
(* and their common reference, _last_cmd_q14, which two driving threads, the  *)
(* idle release loop, lock_robot and reset_estop share without a lock.        *)
(* ReleasePipeline has the same threads without the numbers; here the E-stop  *)
(* is coarser and a configuration of the fourteen joints is one number, the   *)
(* joint that moves most.  The arms are where they were last sent.            *)
EXTENDS Integers, Sequences, SequencesExt

CONSTANTS
    Lower, Upper,       \* the joint limits
    Targets,            \* rows the policy may ask for
    Subs,               \* validated substeps that a button may release at once
    Paths,              \* waypoints of the moves of the inference thread
    MaxJointStep,       \* MAX_JOINT_STEP, the cap of one command
    RampJointStep,      \* ramp_joint_step
    HomeJointStep,      \* the step of move_to_joints and play_joint_path
    MaxJointJump,       \* WATCHDOG_MAX_JOINT_JUMP
    SafeRegion,         \* configurations with the hands in the safe region
    MaxQueue            \* bound of the queue

ASSUME LimitsAssumption == Lower \in Int /\ Upper \in Int /\ Lower <= Upper
ASSUME StepsAssumption ==
    /\ {MaxJointStep, RampJointStep, HomeJointStep, MaxJointJump, MaxQueue} \subseteq Nat \ {0}
    /\ RampJointStep <= MaxJointStep /\ HomeJointStep <= MaxJointStep
    /\ MaxJointStep < MaxJointJump
ASSUME TargetsAssumption ==
    /\ Targets \subseteq Int
    /\ Subs \subseteq Seq(Lower..Upper) \ {<<>>} /\ Paths \subseteq Seq(Int) \ {<<>>}

VARIABLES
    arm,                \* where the arms were last sent: what a read of them says
    robot_q,            \* the queue, of configurations
    last_cmd_q14,       \* the guard's reference: <<>> (None) or <<configuration>>
    estop,
    pc,                 \* where each thread is
    points,             \* the targets a thread has yet to stream, or to queue
    ramp,               \* the waypoints of its current target; the pose it read
    interference        \* history: what came between a driver, or a hold, and the arms
                        \* it goes by, since the reference was last dropped at rest:
                        \* "none", "reset", or "other" (a driver or teleoperation)

localVars == <<points, ramp>>
dispatchVars == <<arm, robot_q, last_cmd_q14, estop, pc, localVars, interference>>

Drivers == {"rel", "inf"}
Threads == Drivers \cup {"gui"}
Joints == Lower..Upper

Abs(n) == IF n < 0 THEN -n ELSE n
Clip(q) == IF q < Lower THEN Lower ELSE IF q > Upper THEN Upper ELSE q

-----------------------------------------------------------------------------
(* The pure part: ramps of equal steps.                                     *)

\* The number of steps: ceil(span / step), and one at least.
Mutant_Segments(span, step) == IF span < step THEN 1 ELSE span \div step
Segments(span, step) == IF span = 0 THEN 1 ELSE (span + step - 1) \div step

\* From `from`, which is left out, to `to`, which is not.
Ramp(from, to, step) ==
    LET n == Segments(Abs(to - from), step)
    IN  [i \in 1..n |-> from + ((to - from) * i) \div n]

\* Every gap of a sequence of configurations is ramped.
Subdivide(pts) ==
    FlattenSeq([i \in 1..Len(pts) |->
        IF i = 1 THEN <<pts[1]>> ELSE Ramp(pts[i - 1], pts[i], MaxJointStep)])

\* A path through several waypoints, from where the arms are.
PathTo(from, wps, step) ==
    FlattenSeq([i \in 1..Len(wps) |-> Ramp(IF i = 1 THEN from ELSE wps[i - 1], wps[i], step)])

-----------------------------------------------------------------------------
DispatchInit ==
    /\ arm \in Joints /\ robot_q = <<>> /\ last_cmd_q14 = <<>> /\ estop = FALSE
    /\ pc = [t \in Threads |-> "idle"]
    /\ points = [t \in Threads |-> <<>>] /\ ramp = [t \in Threads |-> <<>>]
    /\ interference = "none"

Driving(p, t) == p[t] \in {"seed", "guard", "stream", "send", "sent"}
Holding(p, t) == p[t] \in {"hold", "holding", "held"}
AtWork(p) == {t \in Threads : Driving(p, t) \/ Holding(p, t)}

\* Two drivers at once measure from each other's reference; a reset takes it away
\* from a driver, or from a hold that sets it; teleoperation moves the arms away.
Overlap(p) == Driving(p, "rel") /\ Driving(p, "inf")
Interference(p) ==
    IF Overlap(p) \/ interference = "other" THEN "other"
    ELSE IF p["gui"] = "reset" /\ AtWork(p) # {} THEN "reset" ELSE interference
Undisturbed == interference = "none"

\* Thread t goes on.
Goto(t, from, to) ==
    /\ pc[t] = from /\ pc' = [pc EXCEPT ![t] = to]
    /\ interference' = Interference(pc')

\* ... with nothing left to stream.
Finish(t, from, to) ==
    /\ Goto(t, from, to)
    /\ points' = [points EXCEPT ![t] = <<>>] /\ ramp' = [ramp EXCEPT ![t] = <<>>]

\* The reference is dropped, and the next to drive starts from the arms.
DropReference(p) ==
    /\ last_cmd_q14' = <<>>
    /\ interference' = IF AtWork(p) = {} THEN "none" ELSE interference

-----------------------------------------------------------------------------
(* The Tk thread.                                                           *)

\* A release button, as far as the read of the arms in _enqueue_for_release ...
Release(subs) ==
    /\ ~estop /\ Goto("gui", "idle", "enqueue")
    /\ points' = [points EXCEPT !["gui"] = subs]
    /\ ramp' = [ramp EXCEPT !["gui"] = <<arm>>]
    /\ UNCHANGED <<arm, robot_q, last_cmd_q14, estop>>

\* ... and its locked section: ramp from the tail of the queue, or from the arms.
Mutant_EnqueueForRelease ==
    /\ Finish("gui", "enqueue", "idle")
    /\ LET subs == points["gui"]
           anchor == IF robot_q = <<>> THEN ramp["gui"][1] ELSE Last(robot_q)
           full == IF robot_q = <<>> THEN Ramp(anchor, subs[1], RampJointStep) \o Tail(subs)
                                     ELSE subs
       IN  robot_q' = robot_q \o Subdivide(full)
    /\ Len(robot_q') <= MaxQueue
    /\ UNCHANGED <<arm, last_cmd_q14, estop>>
EnqueueForRelease ==
    /\ Finish("gui", "enqueue", "idle")
    /\ LET subs == points["gui"]
           anchor == IF robot_q = <<>> THEN ramp["gui"][1] ELSE Last(robot_q)
       IN  robot_q' = robot_q \o Subdivide(Ramp(anchor, subs[1], RampJointStep) \o Tail(subs))
    /\ Len(robot_q') <= MaxQueue
    /\ UNCHANGED <<arm, last_cmd_q14, estop>>

EStopButton ==
    /\ Goto("gui", "idle", "lock")
    /\ UNCHANGED <<arm, robot_q, last_cmd_q14, estop, localVars>>

\* Reset, latched or not, and whatever the other threads do: the latch is cleared
\* and then the reference, without a lock.
ClearEStop ==
    /\ Goto("gui", "idle", "reset")
    /\ estop' = FALSE
    /\ UNCHANGED <<arm, robot_q, last_cmd_q14, localVars>>
Mutant_ResetReference ==
    /\ pc["gui"] = "reset" /\ pc' = [pc EXCEPT !["gui"] = "idle"]
    /\ interference' = IF AtWork(pc) = {} THEN "none" ELSE interference
    /\ UNCHANGED <<arm, robot_q, last_cmd_q14, estop, localVars>>
ResetReference ==
    /\ pc["gui"] = "reset" /\ pc' = [pc EXCEPT !["gui"] = "idle"]
    /\ DropReference(pc)
    /\ UNCHANGED <<arm, robot_q, estop, localVars>>

\* The execution thread of teleoperation moves the arms past the guard, whatever
\* the others do; beside a driver or a hold, or with a reference that the release
\* loop is still to drop, it moves them away from what these go by.
TeleopMove ==
    /\ arm' \in Joints \ {arm}
    /\ interference' = IF AtWork(pc) # {} \/ (~estop /\ last_cmd_q14 # <<>>) THEN "other"
                       ELSE interference
    /\ UNCHANGED <<robot_q, last_cmd_q14, estop, pc, localVars>>

-----------------------------------------------------------------------------
(* lock_robot, in the thread of the button, or of a driver whose target or  *)
(* command failed.                                                          *)

Lock(t) ==
    /\ Goto(t, "lock", "hold")
    /\ estop' = TRUE /\ robot_q' = <<>>
    /\ UNCHANGED <<arm, last_cmd_q14, localVars>>

\* The pose is read once and commanded three times, past test and guard.
Hold(t) ==
    /\ Goto(t, "hold", "holding")
    /\ ramp' = [ramp EXCEPT ![t] = <<arm, arm, arm>>]
    /\ UNCHANGED <<arm, robot_q, last_cmd_q14, estop, points>>
HoldSend(t) ==
    /\ Goto(t, "holding", "held")
    /\ arm' = Head(ramp[t])
    /\ UNCHANGED <<robot_q, last_cmd_q14, estop, localVars>>
HoldSent(t) ==
    /\ Goto(t, "held", IF Len(ramp[t]) > 1 THEN "holding" ELSE "idle")
    /\ last_cmd_q14' = <<Head(ramp[t])>>
    /\ ramp' = [ramp EXCEPT ![t] = Tail(@)]
    /\ UNCHANGED <<arm, robot_q, estop, points>>

LockRobot(t) == Lock(t) \/ Hold(t) \/ HoldSend(t) \/ HoldSent(t)

-----------------------------------------------------------------------------
(* run_trajectory_control, in the thread of driver t.                       *)

\* Without a reference the guard starts from the arms.
Mutant_Seed(t) ==
    /\ Goto(t, "seed", "guard")
    /\ UNCHANGED <<arm, robot_q, last_cmd_q14, estop, localVars>>
Seed(t) ==
    /\ Goto(t, "seed", "guard")
    /\ last_cmd_q14' = IF last_cmd_q14 = <<>> THEN <<arm>> ELSE last_cmd_q14
    /\ UNCHANGED <<arm, robot_q, estop, localVars>>

\* The next target: halt when latched; lock the robot when it jumps or leaves the
\* safe region; else ramp to it.
Jumps(q) == last_cmd_q14 # <<>> /\ Abs(q - last_cmd_q14[1]) > MaxJointJump
Guard(t) ==
    /\ pc[t] = "guard" /\ points[t] # <<>>
    /\ LET q14 == Clip(Head(points[t]))
       IN  \/ estop /\ Finish(t, "guard", "idle")
           \/ ~estop /\ (Jumps(q14) \/ q14 \notin SafeRegion) /\ Finish(t, "guard", "lock")
           \/ /\ ~estop /\ ~Jumps(q14) /\ q14 \in SafeRegion
              /\ Goto(t, "guard", "stream")
              /\ ramp' = [ramp EXCEPT ![t] =
                     IF last_cmd_q14 = <<>> THEN <<q14>>
                     ELSE Ramp(last_cmd_q14[1], q14, MaxJointStep)]
              /\ points' = [points EXCEPT ![t] = Tail(@)]
    /\ UNCHANGED <<arm, robot_q, last_cmd_q14, estop>>
TargetsDone(t) ==
    /\ points[t] = <<>> /\ Finish(t, "guard", "idle")
    /\ UNCHANGED <<arm, robot_q, last_cmd_q14, estop>>

\* Before each waypoint the E-stop is tested again.
Stream(t) ==
    /\ \/ ramp[t] = <<>> /\ Goto(t, "stream", "guard") /\ UNCHANGED localVars
       \/ ramp[t] # <<>> /\ estop /\ Finish(t, "stream", "idle")
       \/ ramp[t] # <<>> /\ ~estop /\ Goto(t, "stream", "send") /\ UNCHANGED localVars
    /\ UNCHANGED <<arm, robot_q, last_cmd_q14, estop>>

\* The SDK call, and then the reference.  When the call raises the release loop
\* locks the robot; a move is given up.
SendWaypoint(t) ==
    /\ \/ Goto(t, "send", "sent") /\ arm' = Head(ramp[t]) /\ UNCHANGED localVars
       \/ Finish(t, "send", IF t = "rel" THEN "lock" ELSE "idle") /\ UNCHANGED arm
    /\ UNCHANGED <<robot_q, last_cmd_q14, estop>>
WaypointSent(t) ==
    /\ Goto(t, "sent", "stream")
    /\ last_cmd_q14' = <<Head(ramp[t])>>
    /\ ramp' = [ramp EXCEPT ![t] = Tail(@)]
    /\ UNCHANGED <<arm, robot_q, estop, points>>

Drive(t) ==
    \/ Seed(t) \/ Guard(t) \/ TargetsDone(t)
    \/ Stream(t) \/ SendWaypoint(t) \/ WaypointSent(t)

-----------------------------------------------------------------------------
(* The release loop: one substep per call; the idle loop drops the          *)
(* reference, so that the next stream starts from the arms.                 *)

RelPop ==
    /\ ~estop /\ robot_q # <<>> /\ Goto("rel", "idle", "seed")
    /\ points' = [points EXCEPT !["rel"] = <<Head(robot_q)>>]
    /\ robot_q' = Tail(robot_q)
    /\ UNCHANGED <<arm, last_cmd_q14, estop, ramp>>
RelIdle ==
    /\ pc["rel"] = "idle" /\ ~estop /\ robot_q = <<>> /\ last_cmd_q14 # <<>>
    /\ DropReference(pc)
    /\ UNCHANGED <<arm, robot_q, estop, pc, localVars>>

-----------------------------------------------------------------------------
(* The inference thread.                                                    *)

\* append_actions: the seed is the tail of the queue, or where the arms are; the
\* simulator expands it and the row without a jump ...
AppendRead(q) ==
    /\ ~estop /\ Goto("inf", "idle", "splice")
    /\ points' = [points EXCEPT !["inf"] =
           Ramp(IF robot_q = <<>> THEN arm ELSE Last(robot_q), Clip(q), MaxJointStep)]
    /\ UNCHANGED <<arm, robot_q, last_cmd_q14, estop, ramp>>

\* ... and what became of the queue meanwhile is not looked at when it is spliced.
AppendSplice ==
    /\ Finish("inf", "splice", "idle")
    /\ \/ robot_q' = robot_q \o points["inf"] /\ Len(robot_q') <= MaxQueue
       \/ UNCHANGED robot_q
    /\ UNCHANGED <<arm, last_cmd_q14, estop>>

\* Homing, retreats and macros drop the queue and then move, unless latched:
\* move_to_joints to one target, play_joint_path through several.
InfClear ==
    /\ Goto("inf", "idle", "move") /\ robot_q' = <<>>
    /\ UNCHANGED <<arm, last_cmd_q14, estop, localVars>>
InfMove(path) ==
    /\ IF estop
       THEN Goto("inf", "move", "idle") /\ UNCHANGED points
       ELSE /\ Goto("inf", "move", "seed")
            /\ points' = [points EXCEPT !["inf"] =
                   PathTo(arm, [i \in 1..Len(path) |-> Clip(path[i])], HomeJointStep)]
    /\ UNCHANGED <<arm, robot_q, last_cmd_q14, estop, ramp>>

-----------------------------------------------------------------------------
Gui == \/ \E subs \in Subs : Release(subs)
       \/ EnqueueForRelease \/ EStopButton \/ ClearEStop \/ ResetReference
Rel == RelPop \/ RelIdle
Inf == \/ \E q \in Targets : AppendRead(q)
       \/ AppendSplice \/ InfClear
       \/ \E path \in Paths : InfMove(path)

DispatchNext ==
    \/ Gui \/ Rel \/ Inf \/ TeleopMove
    \/ \E t \in Drivers : Drive(t)
    \/ \E t \in Threads : LockRobot(t)

DispatchSpec == DispatchInit /\ [][DispatchNext]_dispatchVars

-----------------------------------------------------------------------------
(* Properties.                                                              *)

\* C5: no command, of a driver or of a hold, is further than the cap from the one
\* before it, whoever sent that, unless a second driver, teleoperation or a reset
\* came in between while somebody drove or held; and none of them is past a limit
\* of the joints, interference or not.  A reset with everybody at rest, or one that
\* only an append or a release button was under way for, exempts nothing.
StepBounded ==
    [][\A t \in Threads : pc[t] \in {"send", "holding"} /\ pc'[t] \in {"sent", "held"} =>
           /\ arm' \in Joints
           /\ Abs(arm' - arm) <= MaxJointStep \/ ~Undisturbed]_dispatchVars

\* "This makes an over-cap joint velocity physically impossible regardless of what
\* produced `points`" (C5): no waypoint of a driver that has the arms for itself is
\* further than the cap from where they are.  A reset between its look for a
\* reference and its guard takes the reference away, and the target is then sent as
\* it is, past watchdog and ramp.
NeverOverCap ==
    [][\A t \in Drivers : pc[t] = "send" /\ pc'[t] = "sent" /\ interference # "other" =>
           Abs(arm' - arm) <= MaxJointStep]_dispatchVars

\* C6: an accepted target is not further away from the arms than the watchdog
\* allows, although the reference it was measured from may have been dropped by the
\* idle release loop, by a reset or under another thread's hold, unless a second
\* driver, teleoperation or a reset interfered with who drives.
NoLargeSweep ==
    \A t \in Drivers : pc[t] = "stream" /\ ramp[t] # <<>> /\ Undisturbed =>
        Abs(Last(ramp[t]) - arm) <= MaxJointJump

\* Whenever the arms may be driven the reference is where they are, or none: once a
\* reset is through, whatever moved them while they were latched, and between a
\* command and the note of it, unless somebody interfered with who drives.
ReferenceTruthful ==
    /\ ~estop /\ Undisturbed /\ pc["gui"] # "reset"
    /\ \A t \in Threads : pc[t] \notin {"sent", "held"}
    => last_cmd_q14 \in {<<>>, <<arm>>}

\* "Every gap, including the queue seam": what a release button adds to the queue
\* continues it, and itself, without a gap above the cap.
SeamsBounded ==
    [][pc["gui"] = "enqueue" /\ pc'["gui"] = "idle" =>
           \A i \in 2..Len(robot_q') : i > Len(robot_q) =>
               Abs(robot_q'[i] - robot_q'[i - 1]) <= MaxJointStep]_dispatchVars
=============================================================================
