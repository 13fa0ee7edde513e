------------------------------- MODULE Teleop -------------------------------
(* Teleoperation with the headset (gui/vr_control.py, _handle_vr_joints): the *)
(* receiver thread of the uplink (pico_vr_server/server.py) calls back once   *)
(* per message, turns hand motion into deltas and queues them; an execution   *)
(* thread of 50 Hz, which the callback starts and reaps as the switch of the  *)
(* console says, merges what is queued into one command per tick.  The two    *)
(* threads and the Tk thread share the switch, the queue and the time of the  *)
(* last message without a lock, and each of them may find the link silent.    *)
(* One hand with its trigger, gripper button and stick is modelled; the head  *)
(* and what the filters and clamps make of a delta are left out, and calls of *)
(* the robot's SDK succeed.                                                   *)
EXTENDS Integers, Sequences

CONSTANT QueueMax           \* VR_PARAMS.queue_max

ASSUME QueueMaxAssumption == QueueMax \in Nat \ {0}

VARIABLES
    is_vr_control,          \* the switch
    vr_execution_thread,    \* the handle of the execution thread is not None
    vr_actions,             \* the queue of deltas and gripper toggles
    previous,               \* previous_vr_positions: empty ("none"), or the
                            \* gripper button it holds, "up" or "down"
    stick,                  \* vr_axes: the stick is pushed
    silent,                 \* more than 200 ms since last_joint_update_timestamp
    gripper_pos,            \* the remembered gripper position is "closed"
    cb,                     \* where the callback is
    msg,                    \* the message it handles
    action,                 \* the entry it makes of it
    exec,                   \* where the execution thread is
    merged,                 \* what it has taken from the queue in this tick
    robot_grip,             \* what the robot's gripper was last sent
    held,                   \* history: the trigger was down in the last message
    late                    \* history: motion commands since the operator let go

uplinkVars == <<previous, stick, cb, msg, action>>
threadVars == <<vr_execution_thread, exec, merged>>
historyVars == <<robot_grip, held, late>>
teleopVars == <<is_vr_control, vr_actions, silent, gripper_pos, uplinkVars, threadVars, historyVars>>

Messages == [trigger : BOOLEAN, button : BOOLEAN, stick : BOOLEAN]
Holds(m) == m.trigger \/ m.stick
Quiet == [trigger |-> FALSE, button |-> FALSE, stick |-> FALSE]

\* An action: an arm delta, a gripper toggle, or neither.  An entry of the queue
\* also remembers (history) whether a thread ended while it was there.
Actions == [move : BOOLEAN, grip : BOOLEAN]
Nothing == [move |-> FALSE, grip |-> FALSE]
Entries == [move : BOOLEAN, grip : BOOLEAN, stale : BOOLEAN]
Entry(a) == [move |-> a.move, grip |-> a.grip, stale |-> exec = "ended"]
Aged(q) == [i \in 1..Len(q) |-> [q[i] EXCEPT !.stale = TRUE]]

TeleopInit ==
    /\ is_vr_control = FALSE /\ vr_execution_thread = FALSE
    /\ vr_actions = <<>> /\ previous = "none" /\ stick = FALSE /\ silent = TRUE
    /\ gripper_pos = FALSE
    /\ cb = "wait" /\ msg = Quiet /\ action = Nothing
    /\ exec = "ended" /\ merged = Nothing
    /\ robot_grip = FALSE /\ held = FALSE /\ late = 0

-----------------------------------------------------------------------------
(* The Tk thread, and time.                                                 *)

Toggle ==
    /\ is_vr_control' = ~is_vr_control
    /\ late' = 0
    /\ UNCHANGED <<vr_actions, silent, gripper_pos, uplinkVars, threadVars, robot_grip, held>>

\* 200 ms pass without a message being handled.
Silence ==
    /\ cb \in {"wait", "join", "lost"} /\ ~silent
    /\ silent' = TRUE
    /\ UNCHANGED <<is_vr_control, vr_actions, gripper_pos, uplinkVars, threadVars, historyVars>>

-----------------------------------------------------------------------------
(* The callback.                                                            *)

Receive(m) ==
    /\ cb = "wait" /\ cb' = "arm" /\ msg' = m
    /\ UNCHANGED <<is_vr_control, vr_actions, silent, gripper_pos, previous, stick, action,
                   threadVars, historyVars>>

\* The execution thread is started, or told to end and joined, or left alone.
Mutant_Arm ==
    /\ cb = "arm"
    /\ \/ /\ is_vr_control /\ ~vr_execution_thread
          /\ vr_execution_thread' = TRUE /\ exec' = "tick" /\ merged' = Nothing
          /\ cb' = "watch" /\ UNCHANGED vr_actions
       \/ /\ ~is_vr_control /\ vr_execution_thread
          /\ vr_actions' = <<>> /\ cb' = "join" /\ UNCHANGED threadVars
       \/ /\ is_vr_control = vr_execution_thread
          /\ cb' = "watch" /\ UNCHANGED <<vr_actions, threadVars>>
    /\ UNCHANGED <<is_vr_control, silent, gripper_pos, previous, stick, msg, action, historyVars>>
Arm ==
    /\ cb = "arm"
    /\ \/ /\ is_vr_control /\ ~vr_execution_thread
          /\ vr_actions' = <<>>
          /\ vr_execution_thread' = TRUE /\ exec' = "tick" /\ merged' = Nothing
          /\ cb' = "watch"
       \/ /\ ~is_vr_control /\ vr_execution_thread
          /\ vr_actions' = <<>> /\ cb' = "join" /\ UNCHANGED threadVars
       \/ /\ is_vr_control = vr_execution_thread
          /\ cb' = "watch" /\ UNCHANGED <<vr_actions, threadVars>>
    /\ UNCHANGED <<is_vr_control, silent, gripper_pos, previous, stick, msg, action, historyVars>>

Mutant_Join ==
    /\ cb = "join"
    /\ vr_execution_thread' = FALSE /\ cb' = "watch"
    /\ UNCHANGED <<is_vr_control, vr_actions, silent, gripper_pos, previous, stick, msg, action,
                   exec, merged, historyVars>>
Join ==
    /\ cb = "join" /\ exec = "ended"
    /\ vr_execution_thread' = FALSE /\ cb' = "watch"
    /\ UNCHANGED <<is_vr_control, vr_actions, silent, gripper_pos, previous, stick, msg, action,
                   exec, merged, historyVars>>

\* A message that ends a silence switches teleoperation off.
Watch ==
    /\ cb = "watch" /\ cb' = "delta"
    /\ IF is_vr_control /\ silent
       THEN is_vr_control' = FALSE /\ vr_actions' = <<>> /\ previous' = "none"
       ELSE UNCHANGED <<is_vr_control, vr_actions, previous>>
    /\ silent' = FALSE /\ stick' = msg.stick
    /\ late' = IF Holds(msg) THEN 0 ELSE late
    /\ UNCHANGED <<gripper_pos, msg, action, threadVars, robot_grip, held>>

\* With the trigger held the hand moves the arm, unless the deadzones swallow
\* it; the button toggles the gripper when it goes down.
Delta ==
    /\ cb = "delta" /\ cb' = "queue"
    /\ LET active == is_vr_control /\ previous # "none"
           tapped == active /\ msg.button /\ previous = "up"
       IN  /\ action' \in [move : IF active /\ msg.trigger THEN BOOLEAN ELSE {FALSE},
                           grip : {tapped}]
           /\ gripper_pos' = (gripper_pos # tapped)
    /\ UNCHANGED <<is_vr_control, vr_actions, silent, previous, stick, msg, threadVars,
                   historyVars>>

\* The message is done with.
Done == /\ cb' = "wait" /\ msg' = Quiet /\ action' = Nothing
        /\ previous' = IF msg.button THEN "down" ELSE "up"
        /\ held' = msg.trigger /\ late' = IF Holds(msg) THEN 0 ELSE late
        /\ UNCHANGED <<is_vr_control, silent, gripper_pos, stick, threadVars, robot_grip>>

\* The entry joins the queue, once there is room for it ...
Enqueue ==
    /\ cb = "queue" /\ action # Nothing /\ Len(vr_actions) < QueueMax
    /\ vr_actions' = Append(vr_actions, Entry(action))
    /\ Done
Crowded ==
    /\ cb = "queue" /\ action # Nothing /\ Len(vr_actions) >= QueueMax
    /\ cb' = "drop"
    /\ UNCHANGED <<is_vr_control, vr_actions, silent, gripper_pos, previous, stick, msg, action,
                   threadVars, historyVars>>

\* ... for which the oldest entry goes.  When the execution thread has taken the
\* last one, the pop raises: the receiver thread ends and the connection closes.
DropOldest ==
    /\ cb = "drop"
    /\ \/ /\ vr_actions # <<>>
          /\ vr_actions' = Tail(vr_actions) /\ cb' = "queue"
          /\ UNCHANGED <<msg, action>>
       \/ /\ vr_actions = <<>>
          /\ cb' = "lost" /\ msg' = Quiet /\ action' = Nothing
          /\ UNCHANGED vr_actions
    /\ UNCHANGED <<is_vr_control, silent, gripper_pos, previous, stick, threadVars, historyVars>>

\* The client comes back a second later.
Reconnect ==
    /\ cb = "lost" /\ silent /\ cb' = "wait"
    /\ UNCHANGED <<is_vr_control, vr_actions, silent, gripper_pos, previous, stick, msg, action,
                   threadVars, historyVars>>

\* Without an entry, pending motion is cleared.
LetGo ==
    /\ cb = "queue" /\ action = Nothing
    /\ vr_actions' = IF \E i \in 1..Len(vr_actions) : vr_actions[i].move
                     THEN <<>> ELSE vr_actions
    /\ Done

Callback == Arm \/ Join \/ Watch \/ Delta \/ Enqueue \/ Crowded \/ DropOldest \/ LetGo

-----------------------------------------------------------------------------
(* The execution thread.                                                    *)

End == exec' = "ended" /\ merged' = Nothing

Mutant_Tick ==
    /\ exec = "tick"
    /\ IF is_vr_control THEN exec' = "drain" /\ UNCHANGED <<vr_actions, merged>>
                        ELSE End /\ vr_actions' = Aged(vr_actions)
    /\ UNCHANGED <<is_vr_control, silent, gripper_pos, uplinkVars, vr_execution_thread,
                   historyVars>>
Tick ==
    /\ exec = "tick"
    /\ IF is_vr_control
       THEN exec' = (IF silent THEN "quit" ELSE "drain") /\ UNCHANGED <<vr_actions, merged>>
       ELSE End /\ vr_actions' = Aged(vr_actions)
    /\ UNCHANGED <<is_vr_control, silent, gripper_pos, uplinkVars, vr_execution_thread,
                   historyVars>>

\* The link was silent: teleoperation is switched off.
Quit ==
    /\ exec = "quit" /\ End
    /\ vr_actions' = <<>> /\ is_vr_control' = FALSE
    /\ UNCHANGED <<silent, gripper_pos, uplinkVars, vr_execution_thread, historyVars>>

Drain ==
    /\ exec = "drain"
    /\ exec' = IF vr_actions # <<>> THEN "pop" ELSE "send"
    /\ UNCHANGED <<is_vr_control, vr_actions, silent, gripper_pos, uplinkVars,
                   vr_execution_thread, merged, historyVars>>

\* The pop raises, and the thread ends, when the callback has emptied the queue
\* since it was looked at.
Pop ==
    /\ exec = "pop"
    /\ IF vr_actions = <<>>
       THEN End /\ UNCHANGED vr_actions
       ELSE /\ exec' = "drain" /\ vr_actions' = Tail(vr_actions)
            /\ merged' = [move |-> merged.move \/ Head(vr_actions).move,
                          grip |-> merged.grip \/ Head(vr_actions).grip]
    /\ UNCHANGED <<is_vr_control, silent, gripper_pos, uplinkVars, vr_execution_thread,
                   historyVars>>

\* The gripper is sent when a toggle was merged, the arm when there is a delta
\* or the stick is pushed.
Authorised == is_vr_control /\ ~silent /\ (held \/ stick)
Send ==
    /\ exec = "send" /\ exec' = "tick" /\ merged' = Nothing
    /\ robot_grip' = IF merged.grip THEN gripper_pos ELSE robot_grip
    /\ late' = IF (merged.move \/ stick) /\ ~Authorised /\ late < 3 THEN late + 1 ELSE late
    /\ UNCHANGED <<is_vr_control, vr_actions, silent, gripper_pos, uplinkVars,
                   vr_execution_thread, held>>

Execute == Tick \/ Quit \/ Drain \/ Pop \/ Send

-----------------------------------------------------------------------------
TeleopNext ==
    \/ Toggle \/ Silence
    \/ \E m \in Messages : Receive(m)
    \/ Callback \/ Reconnect
    \/ Execute

TeleopSpec == TeleopInit /\ [][TeleopNext]_teleopVars

\* The two threads run, and time passes for a callback that waits.
TeleopFairSpec ==
    /\ TeleopSpec
    /\ WF_teleopVars(Execute) /\ WF_teleopVars(Callback)
    /\ WF_teleopVars(cb = "join" /\ Silence)

-----------------------------------------------------------------------------
(* Properties.                                                              *)

\* The values of the state.
TeleopTypeOK ==
    /\ is_vr_control \in BOOLEAN /\ vr_execution_thread \in BOOLEAN
    /\ vr_actions \in Seq(Entries) /\ Len(vr_actions) <= QueueMax
    /\ previous \in {"none", "up", "down"} /\ stick \in BOOLEAN /\ silent \in BOOLEAN
    /\ gripper_pos \in BOOLEAN /\ msg \in Messages /\ action \in Actions
    /\ cb \in {"wait", "arm", "join", "watch", "delta", "queue", "drop", "lost"}
    /\ exec \in {"ended", "tick", "quit", "drain", "pop", "send"} /\ merged \in Actions
    /\ robot_grip \in BOOLEAN /\ held \in BOOLEAN /\ late \in 0..3

\* A thread whose handle is forgotten has ended: no second one is ever started
\* beside it, each sending the robot half of the queue.
OneThread == ~vr_execution_thread => exec = "ended"

\* A running execution thread finds nothing in the queue that was queued before
\* it was started: motion that was pending when teleoperation ended is never
\* made up for when it is switched on again.
NoBacklog == exec # "ended" => \A i \in 1..Len(vr_actions) : ~vr_actions[i].stale

\* "Hold to operate": once the operator has let go of the trigger and the stick,
\* switched off or gone silent, the command under way and one more are all the
\* arm gets.  One more: a gripper toggle in the message that lets go keeps the
\* motion queued before it.
DeadMan == late <= 2

\* "Over 200 ms without an update": an execution thread does not outlive a
\* silence of the link.
SilenceStops == silent ~> (~silent \/ exec = "ended")

\* The callback, which no other message gets past, returns from its join even if
\* the operator switches on again meanwhile.
JoinReturns == cb = "join" ~> cb # "join"
=============================================================================
