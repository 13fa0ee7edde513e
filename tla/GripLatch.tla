----------------------------- MODULE GripLatch -----------------------------
(* The gripper of HumanoidEnv (real_world/humanoid_env.py): the rows the      *)
(* release thread executes carry a binary gripper command, which is debounced *)
(* at dispatch (_latched_grip): a flip is held for a number of master rows.   *)
(* Explicit commands (command_gripper) and resets of the latch come from      *)
(* other threads.  The robot queue is the abstract RowStream that StreamQueue *)
(* implements; one gripper channel is modelled, the right one, which all the  *)
(* monitors of the auto loop watch.                                           *)
EXTENDS Integers

CONSTANTS
    Ahead,          \* append_ahead_rows
    Lock,           \* _grip_lock_rows
    MaxRow,         \* bound: the highest master row
    MaxGrasp        \* bound: no streamed close once that many grasps were made

ASSUME AheadAssumption == Ahead \in Nat
ASSUME LockAssumption == Lock \in Nat
ASSUME RowAssumption == MaxRow \in Nat /\ MaxGrasp \in Nat

VARIABLES
    clock, pending, dropped,    \* the row stream
    estop,              \* _estop
    rel,                \* where the release thread is
    carried,            \* the gripper command of the substep it has popped
    leftover,           \* history: the queue was dropped since it popped it
    grip_state,         \* _grip_state: the committed state, or Unset
    grip_locked_until,  \* _grip_locked_until
    closed,             \* _last_grip_cmd says closed
    grasp,              \* history: how many times the gripper was closed
    disturbed           \* history: the grasp in which the debounce was last
                        \* bypassed, by an operator's reset or a leftover

streamVars == <<clock, pending, dropped>>
relVars == <<rel, carried, leftover>>
latchVars == <<grip_state, grip_locked_until>>
gripVars == <<closed, grasp, disturbed>>
handVars == <<streamVars, estop, relVars, latchVars, gripVars>>

Stream == INSTANCE RowStream WITH Window <- Ahead

Unset == "unset"
Open == "open"
Closed == "closed"
Grips == {Open, Closed}

HandInit ==
    /\ Stream!Init
    /\ estop = FALSE
    /\ rel = "idle" /\ carried = Open /\ leftover = FALSE
    /\ grip_state = Unset /\ grip_locked_until = 0
    /\ closed = FALSE /\ grasp = 0 /\ disturbed = 0

-----------------------------------------------------------------------------
(* Who changes the gripper.                                                 *)

\* _latched_grip, for a substep of the row the clock is on: the first command
\* is adopted, a flip is accepted past the hold and starts a new one, and within
\* the hold the committed state is sent again.
Mutant_Latch(b) ==
    /\ grip_state' = b
    /\ UNCHANGED grip_locked_until
Latch(b) ==
    \/ grip_state = Unset /\ grip_state' = b /\ UNCHANGED grip_locked_until
    \/ /\ grip_state \in Grips \ {b} /\ clock >= grip_locked_until
       /\ grip_state' = b
       /\ grip_locked_until' = clock + Lock
    \/ /\ grip_state = b \/ (grip_state # Unset /\ clock < grip_locked_until)
       /\ UNCHANGED latchVars

\* move_gripper with the effective command; a close of an open gripper is a new
\* grasp.
Move(b) ==
    /\ closed' = (b = Closed)
    /\ grasp' = IF b = Closed /\ ~closed THEN grasp + 1 ELSE grasp

\* command_gripper: no debounce, and no hold afterwards.
CommandGripper(b) ==
    /\ Move(b)
    /\ grip_state' = b
    /\ grip_locked_until' = clock

\* reset_grip_latch: the next command is adopted, whatever it is.
ResetLatch ==
    /\ grip_state' = Unset
    /\ grip_locked_until' = 0

-----------------------------------------------------------------------------
(* The release thread.                                                      *)

\* A substep is in flight from its pop on.
InFlight == rel \in {"popped", "sending"}
PutDown == rel' = "idle" /\ carried' = Open /\ leftover' = FALSE

RelPoll ==
    /\ rel = "idle" /\ ~estop
    /\ rel' = "polled"
    /\ UNCHANGED <<streamVars, estop, carried, leftover, latchVars, gripVars>>

RelPop ==
    /\ rel = "polled"
    /\ \/ /\ \E row \in pending : Stream!Execute(row)
          /\ \E b \in Grips : /\ b = Closed => grasp < MaxGrasp \/ (closed /\ grasp = MaxGrasp)
                              /\ carried' = b
          /\ rel' = "popped" /\ leftover' = FALSE
       \/ /\ pending = {}
          /\ rel' = "idle"
          /\ UNCHANGED <<streamVars, carried, leftover>>
    /\ UNCHANGED <<estop, latchVars, gripVars>>

\* run_trajectory_control gives the substep up when the E-stop is latched.
RelTest ==
    /\ rel = "popped"
    /\ \/ estop /\ PutDown
       \/ ~estop /\ rel' = "sending" /\ UNCHANGED <<carried, leftover>>
    /\ UNCHANGED <<streamVars, estop, latchVars, gripVars>>

\* The gripper is sent before the waypoints of the substep.
RelSend ==
    /\ rel = "sending"
    /\ Latch(carried)
    /\ Move(grip_state')
    /\ disturbed' = IF leftover THEN grasp' ELSE disturbed
    /\ rel' = "stepping" /\ carried' = Open /\ leftover' = FALSE
    /\ UNCHANGED <<streamVars, estop>>

\* The waypoints were sent, or the E-stop cut them short.
RelStep ==
    /\ rel = "stepping" /\ PutDown
    /\ UNCHANGED <<streamVars, estop, latchVars, gripVars>>

Release == RelPoll \/ RelPop \/ RelTest \/ RelSend \/ RelStep

-----------------------------------------------------------------------------
\* append_actions succeeds: the rows first..last are queued.
Commit(first, last) == last <= MaxRow /\ Stream!Commit(first, last)

\* The queue is dropped; what the release thread has popped is not.
DropRows == Stream!Drop /\ leftover' = InFlight
=============================================================================
