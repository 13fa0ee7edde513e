---------------------------- MODULE Arms_proofs ----------------------------
(* What may move the arms, and how far: the threads of VR teleoperation       *)
(* (Teleop) and the velocity guard, watchdogs and holds that every policy     *)
(* target meets (Dispatch).                                                   *)
(*                                                                            *)
(* Teleop, for every length of the queue and any interleaving of the callback,*)
(* the execution thread, the switch and silences of the link: the types, that *)
(* one execution thread runs at a time, that it finds nothing old to execute, *)
(* and that a hand moves only while its grip is held.                         *)
(*                                                                            *)
(* Dispatch, for all joint limits, caps, safe regions, targets and paths: the *)
(* reference is truthful, commands are bounded, no sweep is larger than the   *)
(* watchdog allows, and a queue is continued without a gap.  A configuration  *)
(* is one number, so the ramps are exact; FlattenSeq is recursive, and what it*)
(* preserves is proved from the least element of a set of numbers.            *)
EXTENDS Teleop, Dispatch, WellFoundedInduction, SequenceTheorems, TLAPS

-----------------------------------------------------------------------------
\* What the threads do to a queue of entries keeps it one within its limit.
LEMMA TailOfQueue ==
    ASSUME NEW q \in Seq(Entries), q # <<>>
    PROVE  /\ Tail(q) \in Seq(Entries) /\ Len(Tail(q)) = Len(q) - 1 /\ Len(q) \in Nat
           /\ \A i \in 1..Len(Tail(q)) : Tail(q)[i] = q[i + 1] /\ i + 1 \in 1..Len(q)
           /\ Head(q) \in Entries
  OBVIOUS

LEMMA AppendToQueue ==
    ASSUME NEW q \in Seq(Entries), NEW e \in Entries
    PROVE  /\ Append(q, e) \in Seq(Entries) /\ Len(Append(q, e)) = Len(q) + 1 /\ Len(q) \in Nat
           /\ \A i \in 1..(Len(q) + 1) :
                 Append(q, e)[i] = IF i = Len(q) + 1 THEN e ELSE q[i]
  OBVIOUS

LEMMA EmptyQueue ==
    ASSUME NEW q, q = <<>>
    PROVE  q \in Seq(Entries) /\ Len(q) <= QueueMax /\ \A i : i \notin 1..Len(q)
  BY QueueMaxAssumption

LEMMA AgedQueue ==
    ASSUME NEW q \in Seq(Entries)
    PROVE  Aged(q) \in Seq(Entries) /\ Len(Aged(q)) = Len(q) /\ Len(q) \in Nat
<1>1. PICK n \in Nat : n = Len(q) /\ \A i \in 1..n : q[i] \in Entries
  OBVIOUS
<1>2. \A i \in 1..n : [q[i] EXCEPT !.stale = TRUE] \in Entries
  BY <1>1 DEF Entries
<1>3. Aged(q) \in [1..n -> Entries]
  BY <1>1, <1>2 DEF Aged
<1> QED
  BY <1>1, <1>3

-----------------------------------------------------------------------------
\* The inductive invariant.
TeleopInv == TeleopTypeOK /\ OneThread /\ NoBacklog

\* What is left alone by a step keeps its type; the values the operators build.
LEMMA Values ==
    /\ Quiet \in Messages /\ Nothing \in Actions
    /\ \A a \in Actions : Entry(a) \in Entries /\ (exec # "ended" => ~Entry(a).stale)
  BY DEF Quiet, Messages, Nothing, Actions, Entry, Entries

LEMMA TeleopStarts == TeleopInit => TeleopInv
<1> SUFFICES ASSUME TeleopInit PROVE TeleopInv
  OBVIOUS
<1>1. vr_actions \in Seq(Entries) /\ Len(vr_actions) <= QueueMax
  BY EmptyQueue DEF TeleopInit
<1> QED
  <2>1. TeleopTypeOK
    <3>1. /\ is_vr_control \in BOOLEAN /\ vr_execution_thread \in BOOLEAN
          /\ stick \in BOOLEAN /\ silent \in BOOLEAN /\ gripper_pos \in BOOLEAN
          /\ robot_grip \in BOOLEAN /\ held \in BOOLEAN
          /\ msg \in Messages /\ action \in Actions /\ merged \in Actions
      BY Values, Zenon DEF TeleopInit
    <3>2. /\ previous \in {"none", "up", "down"} /\ late \in 0..3
          /\ cb = "wait" /\ exec = "ended"
      BY DEF TeleopInit
    <3> QED
      BY <1>1, <3>1, <3>2 DEF TeleopTypeOK
  <2>2. OneThread /\ NoBacklog
    BY DEF TeleopInit, OneThread, NoBacklog
  <2> QED
    BY <2>1, <2>2 DEF TeleopInv

\* No step of the callback, ...
LEMMA CallbackSteps == TeleopInv /\ Callback => TeleopInv'
<1> SUFFICES ASSUME TeleopInv, Callback PROVE TeleopInv'
  OBVIOUS
<1> USE QueueMaxAssumption DEF TeleopInv
<1>1. CASE Arm
  <2>1. CASE is_vr_control = vr_execution_thread
    BY <1>1, <2>1 DEF Arm, TeleopTypeOK, OneThread, NoBacklog, threadVars, historyVars
  <2>2. CASE is_vr_control # vr_execution_thread
    <3>1. vr_actions' = <<>>
      BY <1>1, <2>2 DEF Arm, TeleopTypeOK
    <3>2. /\ vr_actions' \in Seq(Entries) /\ Len(vr_actions') <= QueueMax
          /\ \A i : i \notin 1..Len(vr_actions')
      BY <3>1, EmptyQueue
    <3>3. /\ vr_execution_thread' \in BOOLEAN /\ merged' \in Actions
          /\ exec' \in {"ended", "tick", "quit", "drain", "pop", "send"}
          /\ cb' \in {"join", "watch"} /\ OneThread'
      BY <1>1, <2>2, Values DEF Arm, TeleopTypeOK, OneThread, threadVars
    <3> QED
      BY <1>1, <3>2, <3>3 DEF Arm, TeleopTypeOK, NoBacklog, historyVars
  <2> QED
    BY <2>1, <2>2
<1>2. CASE Join
  BY <1>2 DEF Join, TeleopTypeOK, OneThread, NoBacklog, threadVars, historyVars
<1>3. CASE Watch
  <2>1. /\ vr_actions' \in Seq(Entries) /\ Len(vr_actions') <= QueueMax
        /\ exec' # "ended" => \A i \in 1..Len(vr_actions') : ~vr_actions'[i].stale
    <3>1. CASE vr_actions' = <<>>
      BY <3>1, EmptyQueue
    <3>2. CASE vr_actions' = vr_actions
      BY <1>3, <3>2 DEF Watch, TeleopTypeOK, NoBacklog, threadVars
    <3> QED
      BY <1>3, <3>1, <3>2 DEF Watch
  <2> QED
    <3>1. is_vr_control' \in BOOLEAN /\ previous' \in {"none", "up", "down"}
      BY <1>3 DEF Watch, TeleopTypeOK
    <3>2. stick' \in BOOLEAN
      BY <1>3 DEF Watch, TeleopTypeOK, Messages
    <3>3. late' \in 0..3
      BY <1>3 DEF Watch, TeleopTypeOK, Holds
    <3> QED
      BY <1>3, <2>1, <3>1, <3>2, <3>3 DEF Watch, TeleopTypeOK, OneThread, NoBacklog, threadVars
<1>4. CASE Delta
  <2>1. action' \in Actions /\ gripper_pos' \in BOOLEAN
    BY <1>4 DEF Delta, TeleopTypeOK, Actions, Messages
  <2> QED
    BY <1>4, <2>1 DEF Delta, TeleopTypeOK, OneThread, NoBacklog, threadVars, historyVars
<1>5. CASE Enqueue
  <2>1. Entry(action) \in Entries /\ (exec # "ended" => ~Entry(action).stale)
    BY Values DEF TeleopTypeOK
  <2>2. /\ vr_actions' \in Seq(Entries) /\ Len(vr_actions') <= QueueMax
        /\ Len(vr_actions') = Len(vr_actions) + 1
        /\ \A i \in 1..(Len(vr_actions) + 1) :
              vr_actions'[i] = IF i = Len(vr_actions) + 1 THEN Entry(action) ELSE vr_actions[i]
    BY <1>5, <2>1, AppendToQueue DEF Enqueue, TeleopTypeOK
  <2>3. TeleopTypeOK' /\ OneThread' /\ exec' = exec
    BY <1>5, <2>2, Values
    DEF Enqueue, Done, TeleopTypeOK, OneThread, threadVars, Messages, Holds
  <2>4. NoBacklog'
    <3> SUFFICES ASSUME exec # "ended", NEW i \in 1..(Len(vr_actions) + 1)
                 PROVE  ~vr_actions'[i].stale
      BY <2>2, <2>3 DEF NoBacklog
    <3>1. CASE i = Len(vr_actions) + 1
      BY <3>1, <2>1, <2>2
    <3>2. CASE i # Len(vr_actions) + 1
      <4>1. i \in 1..Len(vr_actions)
        BY <3>2, AppendToQueue DEF TeleopTypeOK
      <4> QED
        BY <3>2, <4>1, <2>2 DEF NoBacklog
    <3> QED
      BY <3>1, <3>2
  <2> QED
    BY <2>3, <2>4
<1>6. CASE Crowded
  BY <1>6 DEF Crowded, TeleopTypeOK, OneThread, NoBacklog, threadVars, historyVars
<1>7. CASE DropOldest
  <2>1. CASE vr_actions = <<>>
    BY <1>7, <2>1, Values
    DEF DropOldest, TeleopTypeOK, OneThread, NoBacklog, threadVars, historyVars
  <2>2. CASE vr_actions # <<>>
    <3>1. vr_actions' = Tail(vr_actions) /\ exec' = exec
      BY <1>7, <2>2 DEF DropOldest, threadVars
    <3>2. /\ vr_actions' \in Seq(Entries) /\ Len(vr_actions') <= QueueMax
          /\ exec # "ended" => \A i \in 1..Len(vr_actions') : ~vr_actions'[i].stale
      BY <2>2, <3>1, TailOfQueue DEF TeleopTypeOK, NoBacklog
    <3> QED
      BY <1>7, <3>1, <3>2, Values
      DEF DropOldest, TeleopTypeOK, OneThread, NoBacklog, threadVars, historyVars
  <2> QED
    BY <2>1, <2>2
<1>8. CASE LetGo
  <2>1. vr_actions' = <<>> \/ vr_actions' = vr_actions
    BY <1>8 DEF LetGo
  <2>2. TeleopTypeOK' /\ OneThread' /\ exec' = exec
    BY <1>8, <2>1, EmptyQueue, Values
    DEF LetGo, Done, TeleopTypeOK, OneThread, threadVars, Messages, Holds
  <2>3. NoBacklog'
    BY <2>1, <2>2, EmptyQueue DEF NoBacklog
  <2> QED
    BY <2>2, <2>3
<1> QED
  BY <1>1, <1>2, <1>3, <1>4, <1>5, <1>6, <1>7, <1>8 DEF Callback

\* ... of the execution thread, ...
LEMMA ExecuteSteps == TeleopInv /\ Execute => TeleopInv'
<1> SUFFICES ASSUME TeleopInv, Execute PROVE TeleopInv'
  OBVIOUS
<1> USE QueueMaxAssumption DEF TeleopInv
<1>1. CASE Tick
  <2>1. Aged(vr_actions) \in Seq(Entries) /\ Len(Aged(vr_actions)) = Len(vr_actions)
    BY AgedQueue DEF TeleopTypeOK
  <2> QED
    BY <1>1, <2>1, Values
    DEF Tick, End, TeleopTypeOK, OneThread, NoBacklog, uplinkVars, historyVars
<1>2. CASE Quit
  <2>1. vr_actions' \in Seq(Entries) /\ Len(vr_actions') <= QueueMax
    BY <1>2, EmptyQueue DEF Quit
  <2> QED
    BY <1>2, <2>1, Values
    DEF Quit, End, TeleopTypeOK, OneThread, NoBacklog, uplinkVars, historyVars
<1>3. CASE Drain
  BY <1>3 DEF Drain, TeleopTypeOK, OneThread, NoBacklog, uplinkVars, historyVars
<1>4. CASE Pop
  <2>1. CASE vr_actions = <<>>
    BY <1>4, <2>1, Values
    DEF Pop, End, TeleopTypeOK, OneThread, NoBacklog, uplinkVars, historyVars
  <2>2. CASE vr_actions # <<>>
    <3>1. /\ vr_actions' = Tail(vr_actions) /\ exec = "pop" /\ exec' = "drain"
          /\ merged' = [move |-> merged.move \/ Head(vr_actions).move,
                        grip |-> merged.grip \/ Head(vr_actions).grip]
      BY <1>4, <2>2 DEF Pop
    <3>2. /\ vr_actions' \in Seq(Entries) /\ Len(vr_actions') <= QueueMax
          /\ Head(vr_actions) \in Entries
          /\ \A i \in 1..Len(vr_actions') : ~vr_actions'[i].stale
      BY <2>2, <3>1, TailOfQueue DEF TeleopTypeOK, NoBacklog
    <3>3. merged' \in Actions
      BY <3>1, <3>2 DEF TeleopTypeOK, Actions, Entries
    <3> QED
      BY <1>4, <3>1, <3>2, <3>3
      DEF Pop, TeleopTypeOK, OneThread, NoBacklog, uplinkVars, historyVars
  <2> QED
    BY <2>1, <2>2
<1>5. CASE Send
  BY <1>5, Values DEF Send, TeleopTypeOK, OneThread, NoBacklog, uplinkVars
<1> QED
  BY <1>1, <1>2, <1>3, <1>4, <1>5 DEF Execute

\* ... of the operator, the link or time breaks it.
LEMMA TeleopSteps == TeleopInv /\ [TeleopNext]_teleopVars => TeleopInv'
<1> SUFFICES ASSUME TeleopInv, [TeleopNext]_teleopVars PROVE TeleopInv'
  OBVIOUS
<1> USE DEF TeleopInv, TeleopTypeOK, OneThread, NoBacklog
<1>1. CASE Toggle
  BY <1>1 DEF Toggle, uplinkVars, threadVars
<1>2. CASE Silence
  BY <1>2 DEF Silence, uplinkVars, threadVars, historyVars
<1>3. ASSUME NEW m \in Messages, Receive(m) PROVE TeleopInv'
  BY <1>3 DEF Receive, threadVars, historyVars
<1>4. CASE Reconnect
  BY <1>4 DEF Reconnect, threadVars, historyVars
<1>5. CASE UNCHANGED teleopVars
  BY <1>5 DEF teleopVars, uplinkVars, threadVars, historyVars
<1> QED
  BY <1>1, <1>2, <1>3, <1>4, <1>5, CallbackSteps, ExecuteSteps DEF TeleopNext

LEMMA TeleopAlways == TeleopSpec => []TeleopInv
  BY TeleopStarts, TeleopSteps, PTL DEF TeleopSpec

-----------------------------------------------------------------------------
\* The state keeps its types, and the queue its limit.
THEOREM TeleopTypes == TeleopSpec => []TeleopTypeOK
<1>1. TeleopInv => TeleopTypeOK
  BY DEF TeleopInv
<1> QED
  BY <1>1, TeleopAlways, PTL

\* The callback never starts an execution thread beside one that runs.
THEOREM OneThreadAtATime == TeleopSpec => []OneThread
<1>1. TeleopInv => OneThread
  BY DEF TeleopInv
<1> QED
  BY <1>1, TeleopAlways, PTL

\* Motion that was pending when a thread ended is not made up for by the next.
THEOREM NothingMadeUp == TeleopSpec => []NoBacklog
<1>1. TeleopInv => NoBacklog
  BY DEF TeleopInv
<1> QED
  BY <1>1, TeleopAlways, PTL

-----------------------------------------------------------------------------
(* Hold to operate.  Once nothing authorises motion, at most two commands are *)
(* still owed: the one under way, and the one the next tick makes of what is  *)
(* in the queue.  A command that is sent too late takes its place in "late";  *)
(* what would put new motion into the queue is a held trigger, which makes    *)
(* "late" zero.                                                               *)

Pending(q) == \E i \in 1..Len(q) : q[i].move

\* The command of this tick will move the arm, ...
UnderWay == /\ exec \in {"drain", "pop", "send"}
            /\ stick \/ merged.move \/ (exec # "send" /\ Pending(vr_actions))

\* ... and so will the command of the next one.
ToCome == /\ is_vr_control /\ ~silent
          /\ exec \in {"tick", "send"} /\ Pending(vr_actions)

Owed == (IF UnderWay THEN 1 ELSE 0) + (IF ToCome THEN 1 ELSE 0)

HoldInv ==
    /\ Authorised => late = 0
    /\ late + Owed <= 2
    /\ cb \in {"queue", "drop"} /\ action.move => msg.trigger
    /\ exec = "tick" => ~merged.move

\* What the steps do to the motion pending in a queue.
LEMMA PendingTail ==
    ASSUME NEW q \in Seq(Entries), q # <<>>
    PROVE  Pending(Tail(q)) \/ Head(q).move => Pending(q)
<1>1. /\ \A i \in 1..Len(Tail(q)) : Tail(q)[i] = q[i + 1] /\ i + 1 \in 1..Len(q)
      /\ Head(q) = q[1] /\ 1 \in 1..Len(q)
  BY TailOfQueue
<1> QED
  BY <1>1 DEF Pending

LEMMA PendingAppend ==
    ASSUME NEW q \in Seq(Entries), NEW e \in Entries
    PROVE  Pending(Append(q, e)) => Pending(q) \/ e.move
<1> SUFFICES ASSUME NEW i \in 1..(Len(q) + 1), Append(q, e)[i].move PROVE Pending(q) \/ e.move
  BY AppendToQueue DEF Pending
<1>1. CASE i = Len(q) + 1
  BY <1>1, AppendToQueue
<1>2. CASE i # Len(q) + 1
  <2>1. i \in 1..Len(q) /\ Append(q, e)[i] = q[i]
    BY <1>2, AppendToQueue
  <2> QED
    BY <2>1 DEF Pending
<1> QED
  BY <1>1, <1>2

LEMMA PendingEmpty == \A q : q = <<>> => ~Pending(q)
  BY EmptyQueue DEF Pending

\* A step that owes no new command and authorises no new motion, or resets
\* "late", keeps the balance.
LEMMA Balance ==
    ASSUME TeleopTypeOK, HoldInv,
           \/ late' = 0
           \/ /\ late' = late /\ (Authorised' => Authorised)
              /\ \/ Authorised
                 \/ (UnderWay' => UnderWay) /\ (ToCome' => ToCome)
    PROVE  (Authorised' => late' = 0) /\ late' + Owed' <= 2
<1> USE DEF Owed
<1>1. late \in 0..3
  BY DEF TeleopTypeOK
<1>2. CASE late' = 0
  BY <1>2
<1>3. CASE late' = late /\ (Authorised' => Authorised) /\ Authorised
  BY <1>1, <1>3 DEF HoldInv
<1>4. CASE /\ late' = late /\ (Authorised' => Authorised)
           /\ (UnderWay' => UnderWay) /\ (ToCome' => ToCome)
  BY <1>1, <1>4 DEF HoldInv
<1> QED
  BY <1>2, <1>3, <1>4

LEMMA HoldStarts == TeleopInit => HoldInv
<1> SUFFICES ASSUME TeleopInit PROVE HoldInv
  OBVIOUS
<1>1. Owed = 0
  BY DEF TeleopInit, Owed, UnderWay, ToCome
<1> QED
  BY <1>1 DEF TeleopInit, HoldInv

LEMMA HoldCallback == TeleopInv /\ HoldInv /\ Callback => HoldInv'
<1> SUFFICES ASSUME TeleopInv, HoldInv, Callback PROVE HoldInv'
  OBVIOUS
<1>0. TeleopTypeOK
  BY DEF TeleopInv
<1>1. CASE Arm
  <2>1. /\ late' = late /\ (Authorised' => Authorised)
        /\ cb' \notin {"queue", "drop"} /\ (exec' = "tick" => ~merged'.move)
    BY <1>0, <1>1
    DEF Arm, Authorised, HoldInv, historyVars, threadVars, Nothing
  <2>2. (UnderWay' => UnderWay) /\ (ToCome' => ToCome)
    <3>1. CASE vr_actions' = <<>>
      BY <1>1, <3>1, PendingEmpty DEF Arm, UnderWay, ToCome, threadVars
    <3>2. CASE UNCHANGED <<vr_actions, threadVars>>
      BY <1>1, <3>2 DEF Arm, UnderWay, ToCome, threadVars
    <3> QED
      BY <1>1, <3>1, <3>2 DEF Arm
  <2> QED
    BY <1>0, <2>1, <2>2, Balance DEF HoldInv
<1>2. CASE Join
  <2>1. /\ late' = late /\ (Authorised' => Authorised)
        /\ (UnderWay' => UnderWay) /\ (ToCome' => ToCome)
        /\ cb' \notin {"queue", "drop"} /\ (exec' = "tick" => ~merged'.move)
    BY <1>2 DEF Join, Authorised, UnderWay, ToCome, HoldInv, historyVars
  <2> QED
    BY <1>0, <2>1, Balance DEF HoldInv
<1>3. CASE Watch
  <2>1. cb' \notin {"queue", "drop"} /\ (exec' = "tick" => ~merged'.move)
    BY <1>3 DEF Watch, HoldInv, threadVars
  <2>2. CASE Holds(msg)
    BY <1>0, <1>3, <2>1, <2>2, Balance DEF Watch, HoldInv
  <2>3. CASE ~Holds(msg)
    <3>1. late' = late /\ ~stick' /\ held' = held /\ ~silent'
      BY <1>3, <2>3 DEF Watch, Holds
    <3>2. CASE is_vr_control /\ silent
      <4>1. ~is_vr_control' /\ ~Pending(vr_actions)'
        BY <1>3, <3>2, PendingEmpty DEF Watch
      <4>2. /\ ~Authorised' /\ (UnderWay' => UnderWay) /\ ~ToCome'
        BY <1>3, <3>1, <4>1 DEF Watch, Authorised, UnderWay, ToCome, threadVars
      <4> QED
        BY <1>0, <2>1, <3>1, <4>2, Balance DEF HoldInv
    <3>3. CASE ~(is_vr_control /\ silent)
      <4>1. UNCHANGED <<is_vr_control, vr_actions, exec, merged>>
        BY <1>3, <3>3 DEF Watch, threadVars
      <4>2. /\ (Authorised' => Authorised)
            /\ (UnderWay' => UnderWay) /\ (ToCome' => ToCome)
        BY <3>1, <3>3, <4>1 DEF Authorised, UnderWay, ToCome
      <4> QED
        BY <1>0, <2>1, <3>1, <4>2, Balance DEF HoldInv
    <3> QED
      BY <3>2, <3>3
  <2> QED
    BY <2>2, <2>3
<1>4. CASE Delta
  <2>1. /\ late' = late /\ (Authorised' => Authorised)
        /\ (UnderWay' => UnderWay) /\ (ToCome' => ToCome)
        /\ (exec' = "tick" => ~merged'.move)
    BY <1>4 DEF Delta, Authorised, UnderWay, ToCome, HoldInv, threadVars, historyVars
  <2>2. action'.move => msg'.trigger
    BY <1>4 DEF Delta
  <2> QED
    BY <1>0, <2>1, <2>2, Balance DEF HoldInv
<1>5. CASE Enqueue \/ LetGo
  <2>1. /\ Done /\ cb' = "wait"
        /\ UNCHANGED <<is_vr_control, silent, stick, exec, merged>>
    BY <1>5 DEF Enqueue, LetGo, Done, threadVars
  <2>2. cb' \notin {"queue", "drop"} /\ (exec' = "tick" => ~merged'.move)
    BY <2>1 DEF HoldInv
  <2>3. CASE Holds(msg)
    BY <1>0, <2>1, <2>2, <2>3, Balance DEF Done, HoldInv
  <2>4. CASE ~Holds(msg)
    <3>1. late' = late /\ ~held' /\ ~msg.trigger
      BY <2>1, <2>4, <1>0 DEF Done, Holds, TeleopTypeOK, Messages
    <3>2. Pending(vr_actions') => Pending(vr_actions)
      <4>1. CASE Enqueue
        <5>1. ~action.move /\ Entry(action) \in Entries
          BY <1>0, <3>1, <4>1, Values DEF HoldInv, Enqueue, TeleopTypeOK
        <5>2. ~Entry(action).move
          BY <5>1 DEF Entry
        <5> QED
          BY <1>0, <4>1, <5>1, <5>2, PendingAppend DEF Enqueue, TeleopTypeOK
      <4>2. CASE LetGo
        BY <4>2, PendingEmpty DEF LetGo
      <4> QED
        BY <1>5, <4>1, <4>2
    <3>3. /\ (Authorised' => Authorised)
          /\ (UnderWay' => UnderWay) /\ (ToCome' => ToCome)
      BY <2>1, <3>1, <3>2 DEF Authorised, UnderWay, ToCome
    <3> QED
      BY <1>0, <2>2, <3>1, <3>3, Balance DEF HoldInv
  <2> QED
    BY <2>3, <2>4
<1>6. CASE Crowded
  <2>1. /\ late' = late /\ (Authorised' => Authorised)
        /\ (UnderWay' => UnderWay) /\ (ToCome' => ToCome)
        /\ (exec' = "tick" => ~merged'.move)
        /\ (action'.move => msg'.trigger)
    BY <1>6 DEF Crowded, Authorised, UnderWay, ToCome, HoldInv, threadVars, historyVars
  <2> QED
    BY <1>0, <2>1, Balance DEF HoldInv
<1>7. CASE DropOldest
  <2>1. /\ UNCHANGED <<is_vr_control, silent, stick, exec, merged, held, late>>
        /\ (Authorised' => Authorised) /\ (exec' = "tick" => ~merged'.move)
        /\ cb' \in {"queue", "drop"} /\ action'.move => msg'.trigger
    BY <1>7 DEF DropOldest, Authorised, HoldInv, threadVars, historyVars
  <2>2. Pending(vr_actions') => Pending(vr_actions)
    BY <1>0, <1>7, PendingTail DEF DropOldest, TeleopTypeOK
  <2>3. (UnderWay' => UnderWay) /\ (ToCome' => ToCome)
    BY <2>1, <2>2 DEF UnderWay, ToCome
  <2> QED
    BY <1>0, <2>1, <2>3, Balance DEF HoldInv
<1> QED
  BY <1>1, <1>2, <1>3, <1>4, <1>5, <1>6, <1>7 DEF Callback

LEMMA HoldExecute == TeleopInv /\ HoldInv /\ Execute => HoldInv'
<1> SUFFICES ASSUME TeleopInv, HoldInv, Execute PROVE HoldInv'
  OBVIOUS
<1>0. TeleopTypeOK
  BY DEF TeleopInv
<1>a. ASSUME UNCHANGED <<cb, action, msg>>
      PROVE  cb' \in {"queue", "drop"} /\ action'.move => msg'.trigger
  BY <1>a DEF HoldInv
<1>1. CASE Tick
  <2>1. /\ UNCHANGED <<cb, action, msg, is_vr_control, silent, stick, held, late>>
        /\ exec = "tick" /\ exec' # "tick" /\ (Authorised' => Authorised)
    BY <1>1 DEF Tick, End, Authorised, uplinkVars, historyVars
  <2>2. CASE exec' # "drain"
    <3>1. exec' \in {"quit", "ended"}
      BY <1>1, <2>2 DEF Tick, End
    <3>2. ~UnderWay' /\ ~ToCome'
      BY <3>1 DEF UnderWay, ToCome
    <3> QED
      BY <1>0, <1>a, <2>1, <3>2, Balance DEF HoldInv
  <2>3. CASE exec' = "drain"
    <3>1. is_vr_control /\ ~silent /\ UNCHANGED <<vr_actions, merged>>
      BY <1>1, <2>3 DEF Tick, End
    <3>2. CASE Authorised
      BY <1>0, <1>a, <2>1, <3>2, Balance DEF HoldInv
    <3>3. CASE ~Authorised
      \* The queue's motion was to come, and is now under way.
      <4>1. ~stick /\ ~merged.move
        BY <2>1, <3>1, <3>3 DEF Authorised, HoldInv
      <4>2. ~UnderWay /\ ~ToCome' /\ (UnderWay' => ToCome)
        BY <2>1, <2>3, <3>1, <4>1 DEF UnderWay, ToCome
      <4>3. late' + Owed' <= 2
        BY <1>0, <2>1, <4>2 DEF Owed, HoldInv, TeleopTypeOK
      <4> QED
        BY <1>a, <2>1, <3>3, <4>3 DEF HoldInv
    <3> QED
      BY <3>2, <3>3
  <2> QED
    BY <2>2, <2>3
<1>2. CASE Quit
  <2>1. /\ UNCHANGED <<cb, action, msg, late>> /\ exec' = "ended" /\ ~is_vr_control'
    BY <1>2 DEF Quit, End, uplinkVars, historyVars
  <2>2. ~Authorised' /\ ~UnderWay' /\ ~ToCome'
    BY <2>1 DEF Authorised, UnderWay, ToCome
  <2> QED
    BY <1>0, <1>a, <2>1, <2>2, Balance DEF HoldInv
<1>3. CASE Drain
  <2>1. /\ UNCHANGED <<cb, action, msg, is_vr_control, silent, stick, held, late, merged, vr_actions>>
        /\ exec = "drain" /\ exec' = IF vr_actions # <<>> THEN "pop" ELSE "send"
    BY <1>3 DEF Drain, uplinkVars, historyVars
  <2>2. Authorised' => Authorised
    BY <2>1 DEF Authorised
  <2>3. (UnderWay' => UnderWay) /\ ~ToCome'
    BY <2>1, PendingEmpty DEF UnderWay, ToCome
  <2> QED
    BY <1>0, <1>a, <2>1, <2>2, <2>3, Balance DEF HoldInv
<1>4. CASE Pop
  <2>1. /\ UNCHANGED <<cb, action, msg, is_vr_control, silent, stick, held, late>>
        /\ exec = "pop" /\ exec' \in {"ended", "drain"} /\ (Authorised' => Authorised)
    BY <1>4 DEF Pop, End, Authorised, uplinkVars, historyVars
  <2>2. UnderWay' => UnderWay
    <3> SUFFICES ASSUME exec' = "drain" PROVE UnderWay' => UnderWay
      BY <2>1 DEF UnderWay
    <3>0. /\ vr_actions # <<>> /\ vr_actions' = Tail(vr_actions)
          /\ merged' = [move |-> merged.move \/ Head(vr_actions).move,
                        grip |-> merged.grip \/ Head(vr_actions).grip]
      BY <1>4 DEF Pop, End
    <3>1. /\ vr_actions # <<>> /\ vr_actions' = Tail(vr_actions)
          /\ merged'.move => merged.move \/ Head(vr_actions).move
      BY <3>0
    <3>2. Pending(vr_actions') \/ Head(vr_actions).move => Pending(vr_actions)
      BY <1>0, <3>1, PendingTail DEF TeleopTypeOK
    <3> QED
      BY <2>1, <3>1, <3>2 DEF UnderWay
  <2>3. ~ToCome'
    BY <2>1 DEF ToCome
  <2> QED
    BY <1>0, <1>a, <2>1, <2>2, <2>3, Balance DEF HoldInv
<1>5. CASE Send
  <2>1. /\ UNCHANGED <<cb, action, msg, is_vr_control, silent, stick, held, vr_actions>>
        /\ exec = "send" /\ exec' = "tick" /\ ~merged'.move
    BY <1>5 DEF Send, uplinkVars, Nothing
  <2>2. (Authorised' => Authorised) /\ ~UnderWay' /\ (ToCome' => ToCome)
    BY <2>1 DEF Authorised, UnderWay, ToCome
  <2>3. CASE late' = late
    BY <1>0, <1>a, <2>1, <2>2, <2>3, Balance DEF HoldInv
  <2>4. CASE late' # late
    \* The command under way is sent too late, and no longer owed.
    <3>1. late' = late + 1 /\ ~Authorised /\ (merged.move \/ stick)
      BY <1>5, <2>4 DEF Send
    <3>2. UnderWay
      BY <2>1, <3>1 DEF UnderWay
    <3>3. late' + Owed' <= 2
      BY <1>0, <2>2, <3>1, <3>2 DEF Owed, HoldInv, TeleopTypeOK
    <3> QED
      BY <1>a, <2>1, <2>2, <3>1, <3>3 DEF HoldInv
  <2> QED
    BY <2>3, <2>4
<1> QED
  BY <1>1, <1>2, <1>3, <1>4, <1>5 DEF Execute

LEMMA HoldSteps == TeleopInv /\ HoldInv /\ [TeleopNext]_teleopVars => HoldInv'
<1> SUFFICES ASSUME TeleopInv, HoldInv, [TeleopNext]_teleopVars PROVE HoldInv'
  OBVIOUS
<1>0. TeleopTypeOK
  BY DEF TeleopInv
<1>1. CASE Toggle
  BY <1>0, <1>1, Balance DEF Toggle, HoldInv, uplinkVars, threadVars
<1>2. CASE Silence \/ (\E m \in Messages : Receive(m)) \/ Reconnect \/ UNCHANGED teleopVars
  <2>1. /\ UNCHANGED <<is_vr_control, vr_actions, stick, exec, merged, held, late>>
        /\ (silent' = silent \/ silent') /\ (exec' = "tick" => ~merged'.move)
        /\ cb' \in {"queue", "drop"} /\ action'.move => msg'.trigger
    BY <1>2
    DEF Silence, Receive, Reconnect, teleopVars, uplinkVars, threadVars, historyVars, HoldInv
  <2>2. /\ (Authorised' => Authorised)
        /\ (UnderWay' => UnderWay) /\ (ToCome' => ToCome)
    BY <2>1 DEF Authorised, UnderWay, ToCome
  <2> QED
    BY <1>0, <2>1, <2>2, Balance DEF HoldInv
<1> QED
  BY <1>1, <1>2, HoldCallback, HoldExecute DEF TeleopNext

\* Once the operator has let go, switched off or gone silent, the command under
\* way and one more are all the arm gets.
THEOREM HoldToOperate == TeleopSpec => []DeadMan
<1>1. TeleopTypeOK /\ HoldInv => DeadMan
  BY DEF TeleopTypeOK, HoldInv, Owed, DeadMan
<1> QED
  BY <1>1, HoldStarts, HoldSteps, TeleopAlways, TeleopTypes, PTL DEF TeleopSpec

-----------------------------------------------------------------------------
(* Induction over the naturals, as the least element of a set.               *)

LEMMA LeastNatural ==
    ASSUME NEW T \in SUBSET Nat, T # {}
    PROVE  \E m \in T : \A n \in T : m <= n
<1> DEFINE R == OpToRel(<, Nat)
<1>1. IsWellFoundedOn(R, Nat)
  BY NatLessThanWellFounded
<1>2. \A x, y \in Nat : x < y => <<x, y>> \in R
  BY DEF OpToRel
<1> HIDE DEF R
<1>3. PICK x \in T : \A y \in T : ~(<<y, x>> \in R)
  BY <1>1, WFMin
<1>4. \A y \in T : ~(y < x)
  BY <1>2, <1>3
<1>5. \A y \in T : x <= y
  BY <1>4
<1>6. QED
  BY <1>5

\* A set that holds 1 and with every number below n the next one holds 1..n.
LEMMA UpTo ==
    ASSUME NEW n \in Nat, NEW P, 1 \in P,
           \A i \in 1..(n - 1) : i \in P => i + 1 \in P
    PROVE  1..n \subseteq P
<1> DEFINE T == {i \in Nat : i \in 1..n /\ i \notin P}
<1> SUFFICES ASSUME T # {} PROVE FALSE
  OBVIOUS
<1>1. PICK m \in T : \A i \in T : m <= i
  <2> T \in SUBSET Nat
    OBVIOUS
  <2> QED
    BY LeastNatural
<1>2. m \in 1..n /\ m \notin P /\ m # 1
  OBVIOUS
<1>3. m - 1 \in 1..(n - 1) /\ m - 1 \notin T
  BY <1>1, <1>2
<1>4. m - 1 \in P /\ (m - 1) + 1 = m
  BY <1>2, <1>3
<1>5. QED
  BY <1>2, <1>3, <1>4

-----------------------------------------------------------------------------
(* FlattenSeq, whose definition is recursive.                                *)

Flattened(seqs, f, n) ==
    f = [i \in 1..n |-> IF i = 1 THEN seqs[i] ELSE f[i - 1] \o seqs[i]]

LEMMA FlattenDefined ==
    ASSUME NEW S, NEW seqs \in Seq(S), seqs # <<>>
    PROVE  \E f : /\ Flattened(seqs, f, Len(seqs))
                  /\ FlattenSeq(seqs) = f[Len(seqs)]
<1> DEFINE P == {n \in Nat : \E f : Flattened(seqs, f, n)}
<1>1. 1 \in P
  <2> DEFINE f == [i \in 1..1 |-> seqs[1]]
  <2>1. Flattened(seqs, f, 1)
    BY DEF Flattened
  <2> QED
    BY <2>1
<1>2. ASSUME NEW n \in 1..(Len(seqs) - 1), n \in P
      PROVE  n + 1 \in P
  <2>1. PICK f : Flattened(seqs, f, n)
    BY <1>2
  <2> DEFINE g == [i \in 1..(n + 1) |-> IF i = n + 1 THEN f[n] \o seqs[n + 1] ELSE f[i]]
  <2>2. \A i \in 1..n : f[i] = IF i = 1 THEN seqs[i] ELSE f[i - 1] \o seqs[i]
    BY <2>1 DEF Flattened
  <2>3. \A i \in 1..(n + 1) : g[i] = IF i = 1 THEN seqs[i] ELSE g[i - 1] \o seqs[i]
    <3> SUFFICES ASSUME NEW i \in 1..(n + 1)
                 PROVE  g[i] = IF i = 1 THEN seqs[i] ELSE g[i - 1] \o seqs[i]
      OBVIOUS
    <3>1. CASE i = n + 1
      <4>1. n \in 1..(n + 1) /\ n # n + 1 /\ n + 1 # 1 /\ i - 1 = n
        BY <3>1
      <4>2. g[i - 1] = f[n]
        BY <4>1
      <4>3. g[i] = f[n] \o seqs[i]
        BY <3>1
      <4> QED
        BY <3>1, <4>1, <4>2, <4>3
    <3>2. CASE i \in 1..n
      BY <2>2, <3>2
    <3> QED
      BY <3>1, <3>2
  <2>4. g = [i \in 1..(n + 1) |-> IF i = 1 THEN seqs[i] ELSE g[i - 1] \o seqs[i]]
    BY <2>3
  <2>5. Flattened(seqs, g, n + 1)
    BY <2>4 DEF Flattened
  <2> QED
    BY <2>5
<1>3. Len(seqs) \in 1..Len(seqs) /\ Len(seqs) \in Nat /\ Len(seqs) # 0
  BY EmptySeq
<1>4. Len(seqs) \in P
  <2> HIDE DEF P
  <2> QED
    BY <1>1, <1>2, <1>3, UpTo
<1> DEFINE F == CHOOSE f : Flattened(seqs, f, Len(seqs))
<1>5. Flattened(seqs, F, Len(seqs))
  BY <1>4
<1>6. FlattenSeq(seqs) = F[Len(seqs)]
  BY <1>3 DEF FlattenSeq, Flattened
<1> HIDE DEF F
<1>7. QED
  BY <1>5, <1>6

\* What every element of a flattened sequence leads to: a property closed under
\* appending the next element.
LEMMA FlattenInduct ==
    ASSUME NEW S, NEW seqs \in Seq(S), seqs # <<>>, NEW Good,
           <<1, seqs[1]>> \in Good,
           \A i \in 1..(Len(seqs) - 1) : \A s :
               <<i, s>> \in Good => <<i + 1, s \o seqs[i + 1]>> \in Good
    PROVE  <<Len(seqs), FlattenSeq(seqs)>> \in Good
<1>1. PICK f : /\ Flattened(seqs, f, Len(seqs))
               /\ FlattenSeq(seqs) = f[Len(seqs)]
  BY FlattenDefined
<1>2. Len(seqs) \in Nat /\ Len(seqs) \in 1..Len(seqs)
  BY EmptySeq
<1>3. \A i \in 1..Len(seqs) : f[i] = IF i = 1 THEN seqs[i] ELSE f[i - 1] \o seqs[i]
  BY <1>1 DEF Flattened
<1> DEFINE P == {i \in 1..Len(seqs) : <<i, f[i]>> \in Good}
<1>4. 1 \in P
  BY <1>2, <1>3
<1>5. ASSUME NEW i \in 1..(Len(seqs) - 1), i \in P
      PROVE  i + 1 \in P
  <2>1. i + 1 \in 1..Len(seqs) /\ i + 1 # 1 /\ (i + 1) - 1 = i
    BY <1>2
  <2>2. f[i + 1] = f[i] \o seqs[i + 1]
    BY <1>3, <2>1
  <2>3. <<i + 1, f[i] \o seqs[i + 1]>> \in Good
    BY <1>5
  <2> QED
    BY <2>1, <2>2, <2>3
<1>6. 1..Len(seqs) \subseteq P
  <2> HIDE DEF P
  <2> QED
    BY <1>2, <1>4, <1>5, UpTo
<1> QED
  BY <1>1, <1>2, <1>6

-----------------------------------------------------------------------------
(* Ramps.                                                                    *)

LEMMA Division ==
    \A a \in Int, n \in Nat \ {0} :
        /\ a \div n \in Int
        /\ n * (a \div n) <= a /\ a < n * (a \div n) + n
  OBVIOUS

\* What the elements of a sequence are.
LEMMA SeqOfElements ==
    ASSUME NEW S, NEW T, NEW s \in Seq(S), \A i \in 1..Len(s) : s[i] \in T
    PROVE  s \in Seq(T)
<1>1. s \in [1..Len(s) -> T] /\ Len(s) \in Nat
  BY LenProperties
<1> QED
  BY <1>1

\* Enough steps: they cover the span, and there is one at least.
LEMMA EnoughSegments ==
    ASSUME NEW span \in Nat, NEW step \in Nat \ {0}
    PROVE  /\ Segments(span, step) \in Nat \ {0}
           /\ span <= Segments(span, step) * step
<1>1. CASE span = 0
  BY <1>1 DEF Segments
<1>2. CASE span # 0
  <2> DEFINE a == span + step - 1
             n == a \div step
  <2>1. a \in Int /\ n \in Int /\ step * n <= a /\ a < step * n + step
    BY Division
  <2>2. Segments(span, step) = n
    BY <1>2 DEF Segments
  <2> HIDE DEF n
  <2>3. span <= step * n
    BY <2>1
  <2>4. \A p, k \in Int : p > 0 /\ k <= 0 => p * k <= 0
    OBVIOUS
  <2>5. n > 0
    BY <1>2, <2>1, <2>3, <2>4
  <2>6. step * n = n * step
    BY <2>1
  <2> QED
    BY <2>1, <2>2, <2>3, <2>5, <2>6
<1> QED
  BY <1>1, <1>2

LEMMA TimesMonotonic ==
    \A n \in Nat, x, y \in Int : x <= y => n * x <= n * y
  OBVIOUS

\* The quotients of numbers that are close are close.
LEMMA CloseQuotients ==
    ASSUME NEW a \in Int, NEW b \in Int, NEW n \in Nat \ {0}, NEW step \in Nat,
           b - a <= n * step, a - b <= n * step
    PROVE  Abs(b \div n - a \div n) <= step
<1> DEFINE u == a \div n
           v == b \div n
<1>1. u \in Int /\ n * u <= a /\ a < n * u + n
  BY Division
<1>2. v \in Int /\ n * v <= b /\ b < n * v + n
  BY Division
<1> HIDE DEF u, v
<1>3. ASSUME NEW x \in Int, NEW y \in Int, NEW c \in Int, NEW d \in Int,
             n * x <= c, c < n * x + n, n * y <= d, d < n * y + n, d - c <= n * step
      PROVE  y - x <= step
  <2> SUFFICES ASSUME x + step + 1 <= y PROVE FALSE
    OBVIOUS
  <2>1. n * (x + step + 1) <= n * y
    BY TimesMonotonic
  <2>2. n * (x + step + 1) = n * x + n * step + n
    OBVIOUS
  <2> QED
    BY <1>3, <2>1, <2>2
<1>4. v - u <= step
  BY <1>1, <1>2, <1>3
<1>5. u - v <= step
  BY <1>1, <1>2, <1>3
<1>6. Abs(v - u) <= step
  BY <1>1, <1>2, <1>4, <1>5 DEF Abs
<1> QED
  BY <1>6 DEF u, v

\* A share of a span lies within the span, and is the whole of it in the end.
LEMMA ShareOfSpan ==
    ASSUME NEW span \in Int, NEW n \in Nat \ {0}, NEW i \in 1..n
    PROVE  /\ (span * i) \div n \in Int
           /\ span >= 0 => 0 <= (span * i) \div n /\ (span * i) \div n <= span
           /\ span <= 0 => span <= (span * i) \div n /\ (span * i) \div n <= 0
           /\ i = n => (span * i) \div n = span
<1> DEFINE v == (span * i) \div n
<1>1. v \in Int /\ n * v <= span * i /\ span * i < n * v + n
  BY Division
<1> HIDE DEF v
<1>2. \A p, q \in Nat : p * q >= 0
  OBVIOUS
<1>3. CASE span >= 0
  <2>1. span * i >= 0
    BY <1>2, <1>3
  <2>2. span * i <= n * span
    <3>1. span * i <= span * n
      BY <1>3, TimesMonotonic
    <3> QED
      BY <3>1
  <2>3. 0 <= v
    <3> SUFFICES ASSUME v + 1 <= 0 PROVE FALSE
      BY <1>1
    <3>1. n * (v + 1) <= n * 0
      BY <1>1, TimesMonotonic
    <3> QED
      BY <1>1, <2>1, <3>1
  <2>4. v <= span
    <3> SUFFICES ASSUME span + 1 <= v PROVE FALSE
      BY <1>1
    <3>1. n * (span + 1) <= n * v
      BY <1>1, TimesMonotonic
    <3> QED
      BY <1>1, <2>2, <3>1
  <2>5. i = n => v = span
    <3> SUFFICES ASSUME i = n, v + 1 <= span PROVE FALSE
      BY <1>1, <2>4
    <3>1. n * (v + 1) <= n * span
      BY <1>1, TimesMonotonic
    <3>2. n * span = span * i /\ n * (v + 1) = n * v + n
      BY <1>1
    <3> QED
      BY <1>1, <3>1, <3>2
  <2> QED
    BY <1>1, <1>3, <2>3, <2>4, <2>5 DEF v
<1>4. CASE span < 0
  <2>1. span * i <= 0
    <3>1. i * span <= i * 0
      BY <1>4, TimesMonotonic
    <3> QED
      BY <3>1
  <2>2. n * span <= span * i
    <3>1. (-span) * i <= (-span) * n
      BY <1>4, TimesMonotonic
    <3> QED
      BY <3>1
  <2>3. span <= v
    <3> SUFFICES ASSUME v + 1 <= span PROVE FALSE
      BY <1>1
    <3>1. n * (v + 1) <= n * span
      BY <1>1, TimesMonotonic
    <3> QED
      BY <1>1, <2>2, <3>1
  <2>4. v <= 0
    <3> SUFFICES ASSUME 1 <= v PROVE FALSE
      BY <1>1
    <3>1. n * 1 <= n * v
      BY <1>1, TimesMonotonic
    <3> QED
      BY <1>1, <2>1, <3>1
  <2>5. i = n => v = span
    <3> SUFFICES ASSUME i = n, span + 1 <= v PROVE FALSE
      BY <1>1, <2>3
    <3>1. n * (span + 1) <= n * v
      BY <1>1, TimesMonotonic
    <3>2. n * span = span * i /\ n * (span + 1) = n * span + n
      BY <1>1
    <3> QED
      BY <1>1, <3>1, <3>2
  <2> QED
    BY <1>1, <1>4, <2>3, <2>4, <2>5 DEF v
<1> QED
  BY <1>3, <1>4

\* No gap of a sequence is larger than d.
Smooth(s, d) == \A i \in 2..Len(s) : Abs(s[i] - s[i - 1]) <= d

Within(x, a, b) == (a <= x /\ x <= b) \/ (b <= x /\ x <= a)

\* A ramp leads to its target in equal steps that are none too large.
LEMMA RampLeads ==
    ASSUME NEW from \in Int, NEW to \in Int, NEW step \in Nat \ {0}
    PROVE  /\ Ramp(from, to, step) \in Seq(Int) /\ Len(Ramp(from, to, step)) \in Nat \ {0}
           /\ Ramp(from, to, step)[Len(Ramp(from, to, step))] = to
           /\ Abs(Ramp(from, to, step)[1] - from) <= step
           /\ Smooth(Ramp(from, to, step), step)
           /\ \A i \in 1..Len(Ramp(from, to, step)) : Within(Ramp(from, to, step)[i], from, to)
<1> DEFINE span == to - from
<1> Abs(span) \in Nat /\ span \in Int /\ (Abs(span) = span \/ Abs(span) = -span)
  BY DEF Abs
<1>1. PICK n \in Nat \ {0} : n = Segments(Abs(span), step) /\ Abs(span) <= n * step
  BY EnoughSegments
<1>2. span <= n * step /\ -span <= n * step
  BY <1>1 DEF Abs
<1> DEFINE r == [i \in 1..n |-> from + (span * i) \div n]
<1>3. Ramp(from, to, step) = r
  BY <1>1 DEF Ramp
<1>4. \A i \in 1..n : /\ (span * i) \div n \in Int
                      /\ span >= 0 => 0 <= (span * i) \div n /\ (span * i) \div n <= span
                      /\ span <= 0 => span <= (span * i) \div n /\ (span * i) \div n <= 0
                      /\ i = n => (span * i) \div n = span
  BY ShareOfSpan
<1>5. r \in Seq(Int) /\ Len(r) = n
  <2>1. \A i \in 1..n : from + (span * i) \div n \in Int
    BY <1>4
  <2> QED
    BY <2>1
<1>6. \A i \in 1..n : r[i] = from + (span * i) \div n
  OBVIOUS
<1> HIDE DEF r
<1>7. r[n] = to
  <2>1. (span * n) \div n = span /\ n \in 1..n
    BY <1>4
  <2> QED
    BY <1>6, <2>1
<1>8. Abs(r[1] - from) <= step
  <2> DEFINE v == (span * 1) \div n
             u == 0 \div n
  <2>1. Abs(v - u) <= step
    <3>1. PICK a, b \in Int : a = 0 /\ b = span * 1
      OBVIOUS
    <3>2. b - a <= n * step /\ a - b <= n * step
      BY <1>2, <3>1
    <3>3. Abs(b \div n - a \div n) <= step
      BY <3>2, CloseQuotients
    <3> QED
      BY <3>1, <3>3
  <2>2. u = 0
    OBVIOUS
  <2>3. v \in Int /\ r[1] = from + v
    BY <1>4, <1>6
  <2> HIDE DEF v, u
  <2>4. r[1] - from = v - u
    BY <2>2, <2>3
  <2> QED
    BY <2>1, <2>4
<1>9. Smooth(r, step)
  <2> SUFFICES ASSUME NEW i \in 2..n PROVE Abs(r[i] - r[i - 1]) <= step
    BY <1>5 DEF Smooth
  <2> DEFINE v == (span * i) \div n
             u == (span * (i - 1)) \div n
  <2>1. Abs(v - u) <= step
    <3>1. span * i - span * (i - 1) = span
      OBVIOUS
    <3>2. span * i - span * (i - 1) <= n * step /\ span * (i - 1) - span * i <= n * step
      BY <1>2, <3>1
    <3>3. PICK a, b \in Int : a = span * (i - 1) /\ b = span * i
      OBVIOUS
    <3>4. b - a <= n * step /\ a - b <= n * step
      BY <3>2, <3>3
    <3>5. Abs(b \div n - a \div n) <= step
      BY <3>4, CloseQuotients
    <3> QED
      BY <3>3, <3>5
  <2>2. v \in Int /\ r[i] = from + v
    BY <1>4, <1>6
  <2>3. u \in Int /\ r[i - 1] = from + u
    BY <1>4, <1>6
  <2> HIDE DEF v, u
  <2>4. r[i] - r[i - 1] = v - u
    BY <2>2, <2>3
  <2> QED
    BY <2>1, <2>4
<1>10. \A i \in 1..n : Within(r[i], from, to)
  <2> SUFFICES ASSUME NEW i \in 1..n PROVE Within(r[i], from, to)
    OBVIOUS
  <2>1. PICK v \in Int : /\ v = (span * i) \div n
                         /\ span >= 0 => 0 <= v /\ v <= span
                         /\ span <= 0 => span <= v /\ v <= 0
    BY <1>4
  <2>2. r[i] = from + v
    BY <1>6, <2>1
  <2> QED
    BY <2>1, <2>2 DEF Within
<1> QED
  BY <1>3, <1>5, <1>7, <1>8, <1>9, <1>10

-----------------------------------------------------------------------------
(* Sequences without a large gap.                                            *)

\* They may be joined where they meet.
LEMMA JoinSmooth ==
    ASSUME NEW V \in SUBSET Int, NEW s \in Seq(V), NEW t \in Seq(V), s # <<>>, t # <<>>,
           NEW d \in Nat, Smooth(s, d), Smooth(t, d), Abs(t[1] - s[Len(s)]) <= d
    PROVE  /\ s \o t \in Seq(V) /\ s \o t # <<>> /\ Smooth(s \o t, d)
           /\ (s \o t)[1] = s[1] /\ (s \o t)[Len(s \o t)] = t[Len(t)]
<1>1. Len(s) \in Nat \ {0} /\ Len(t) \in Nat \ {0}
  BY EmptySeq
<1>2. /\ s \o t \in Seq(V)
      /\ Len(s \o t) = Len(s) + Len(t)
      /\ \A i \in 1..(Len(s) + Len(t)) :
             (s \o t)[i] = IF i <= Len(s) THEN s[i] ELSE t[i - Len(s)]
  BY ConcatProperties
<1> DEFINE st == s \o t
<1>3. st # <<>>
  BY <1>1, <1>2
<1> HIDE DEF st
<1>4. PICK m, n \in Nat \ {0} : m = Len(s) /\ n = Len(t)
  BY <1>1
<1>5. \A i \in 1..(m + n) : st[i] = IF i <= m THEN s[i] ELSE t[i - m]
  BY <1>2, <1>4 DEF st
<1>6. st[1] = s[1] /\ st[m + n] = t[n]
  <2>1. 1 \in 1..(m + n) /\ 1 <= m /\ m + n \in 1..(m + n) /\ ~(m + n <= m) /\ (m + n) - m = n
    OBVIOUS
  <2> QED
    BY <1>5, <2>1
<1>7. ASSUME NEW i \in 2..(m + n)
      PROVE  Abs(st[i] - st[i - 1]) <= d
  <2>1. CASE i <= m
    <3>1. i \in 2..m /\ i \in 1..(m + n) /\ i - 1 \in 1..(m + n) /\ i - 1 <= m
      BY <2>1
    <3>2. st[i] = s[i] /\ st[i - 1] = s[i - 1]
      BY <1>5, <2>1, <3>1
    <3> QED
      BY <1>4, <3>1, <3>2 DEF Smooth
  <2>2. CASE i = m + 1
    <3>1. /\ i \in 1..(m + n) /\ ~(i <= m) /\ i - m = 1
          /\ i - 1 \in 1..(m + n) /\ i - 1 <= m /\ i - 1 = m
      BY <2>2
    <3>2. st[i] = t[1] /\ st[i - 1] = s[m]
      BY <1>5, <3>1
    <3> QED
      BY <1>4, <3>2
  <2>3. CASE i > m + 1
    <3>1. /\ i \in 1..(m + n) /\ ~(i <= m) /\ i - m \in 2..n
          /\ i - 1 \in 1..(m + n) /\ ~(i - 1 <= m) /\ (i - 1) - m = (i - m) - 1
      BY <2>3
    <3>2. st[i] = t[i - m] /\ st[i - 1] = t[(i - m) - 1]
      BY <1>5, <3>1
    <3> QED
      BY <1>4, <3>1, <3>2 DEF Smooth
  <2> QED
    BY <2>1, <2>2, <2>3
<1>8. Smooth(st, d)
  BY <1>2, <1>4, <1>7 DEF Smooth, st
<1> QED
  BY <1>2, <1>3, <1>4, <1>6, <1>8 DEF st

LEMMA FlattenSmooth ==
    ASSUME NEW V \in SUBSET Int, NEW seqs \in Seq(Seq(V)), seqs # <<>>, NEW d \in Nat,
           \A i \in 1..Len(seqs) : seqs[i] # <<>> /\ Smooth(seqs[i], d),
           \A i \in 2..Len(seqs) : Abs(seqs[i][1] - seqs[i - 1][Len(seqs[i - 1])]) <= d
    PROVE  /\ FlattenSeq(seqs) \in Seq(V) /\ FlattenSeq(seqs) # <<>>
           /\ Smooth(FlattenSeq(seqs), d)
           /\ FlattenSeq(seqs)[1] = seqs[1][1]
           /\ FlattenSeq(seqs)[Len(FlattenSeq(seqs))] = seqs[Len(seqs)][Len(seqs[Len(seqs)])]
<1> DEFINE Fine(i, s) == /\ i \in 1..Len(seqs) /\ s \in Seq(V) /\ s # <<>>
                         /\ Smooth(s, d) /\ s[1] = seqs[1][1]
                         /\ s[Len(s)] = seqs[i][Len(seqs[i])]
           Good == {p \in Nat \X Seq(V) : Fine(p[1], p[2])}
<1>1. Len(seqs) \in Nat \ {0}
  BY EmptySeq
<1>2. \A i \in 1..Len(seqs) : seqs[i] \in Seq(V)
  BY ElementOfSeq
<1>3. \A i, s : <<i, s>> \in Good <=> Fine(i, s)
  BY <1>1
<1>4. Fine(1, seqs[1])
  BY <1>1, <1>2
<1>5. ASSUME NEW i \in 1..(Len(seqs) - 1), NEW s, Fine(i, s)
      PROVE  Fine(i + 1, s \o seqs[i + 1])
  <2>1. i + 1 \in 1..Len(seqs) /\ i + 1 \in 2..Len(seqs) /\ (i + 1) - 1 = i
    BY <1>1
  <2>2. PICK t \in Seq(V) : t = seqs[i + 1]
    BY <1>2, <2>1
  <2>3. t # <<>> /\ Smooth(t, d) /\ Abs(t[1] - s[Len(s)]) <= d
    BY <1>5, <2>1, <2>2
  <2>4. s \in Seq(V) /\ s # <<>> /\ Smooth(s, d)
    BY <1>5
  <2>5. /\ s \o t \in Seq(V) /\ s \o t # <<>> /\ Smooth(s \o t, d)
        /\ (s \o t)[1] = s[1] /\ (s \o t)[Len(s \o t)] = t[Len(t)]
    BY <2>3, <2>4, JoinSmooth
  <2> QED
    BY <1>5, <2>1, <2>2, <2>5
<1> HIDE DEF Fine, Good
<1>6. <<1, seqs[1]>> \in Good
  BY <1>3, <1>4
<1>7. \A i \in 1..(Len(seqs) - 1) : \A s :
          <<i, s>> \in Good => <<i + 1, s \o seqs[i + 1]>> \in Good
  BY <1>3, <1>5
<1>8. <<Len(seqs), FlattenSeq(seqs)>> \in Good
  BY <1>6, <1>7, FlattenInduct
<1>9. Fine(Len(seqs), FlattenSeq(seqs))
  BY <1>3, <1>8
<1> QED
  BY <1>9 DEF Fine

\* What RampLeads says, between configurations.
LEMMA RampOfJoints ==
    ASSUME NEW from \in Joints, NEW to \in Joints, NEW step \in Nat \ {0}
    PROVE  LET r == Ramp(from, to, step)
           IN  /\ r \in Seq(Joints) /\ r # <<>> /\ r[Len(r)] = to
               /\ Abs(r[1] - from) <= step /\ Smooth(r, step)
               /\ \A i \in 1..Len(r) : Within(r[i], from, to)
<1> from \in Int /\ to \in Int
  BY LimitsAssumption DEF Joints
<1>1. PICK r : r = Ramp(from, to, step)
  OBVIOUS
<1>2. /\ r \in Seq(Int) /\ Len(r) \in Nat \ {0} /\ r[Len(r)] = to
      /\ Abs(r[1] - from) <= step /\ Smooth(r, step)
      /\ \A i \in 1..Len(r) : Within(r[i], from, to)
  BY <1>1, RampLeads
<1>3. r \in Seq(Joints)
  <2>1. \A i \in 1..Len(r) : r[i] \in Int
    BY <1>2, ElementOfSeq
  <2>2. \A x \in Int : Within(x, from, to) => x \in Joints
    BY LimitsAssumption DEF Joints, Within
  <2>3. \A i \in 1..Len(r) : r[i] \in Joints
    BY <1>2, <2>1, <2>2
  <2> QED
    BY <1>2, <2>3, SeqOfElements
<1> QED
  BY <1>1, <1>2, <1>3

\* A sequence in which every gap is ramped has none that is too large.
LEMMA RampedSmooth ==
    ASSUME NEW pts \in Seq(Joints), pts # <<>>
    PROVE  /\ Subdivide(pts) \in Seq(Joints) /\ Subdivide(pts) # <<>>
           /\ Smooth(Subdivide(pts), MaxJointStep)
           /\ Subdivide(pts)[1] = pts[1]
<1> MaxJointStep \in Nat \ {0} /\ Joints \in SUBSET Int
  BY StepsAssumption, LimitsAssumption DEF Joints
<1> DEFINE seqs == [i \in 1..Len(pts) |->
               IF i = 1 THEN <<pts[1]>> ELSE Ramp(pts[i - 1], pts[i], MaxJointStep)]
<1>1. Len(pts) \in Nat \ {0} /\ \A i \in 1..Len(pts) : pts[i] \in Joints
  BY EmptySeq, ElementOfSeq
<1>2. ASSUME NEW i \in 1..Len(pts)
      PROVE  /\ seqs[i] \in Seq(Joints) /\ seqs[i] # <<>> /\ Smooth(seqs[i], MaxJointStep)
             /\ seqs[i][Len(seqs[i])] = pts[i]
             /\ i = 1 => seqs[i][1] = pts[1]
             /\ i # 1 => Abs(seqs[i][1] - pts[i - 1]) <= MaxJointStep
  <2>1. CASE i = 1
    <3>1. seqs[i] = <<pts[1]>> /\ pts[1] \in Joints
      BY <1>1, <2>1
    <3>2. Smooth(<<pts[1]>>, MaxJointStep)
      BY DEF Smooth
    <3> QED
      BY <2>1, <3>1, <3>2
  <2>2. CASE i # 1
    <3>a. i - 1 \in 1..Len(pts)
      BY <1>1, <2>2
    <3>1. PICK from, to \in Joints : from = pts[i - 1] /\ to = pts[i]
      BY <1>1, <3>a
    <3>2. seqs[i] = Ramp(from, to, MaxJointStep)
      BY <2>2, <3>1
    <3> HIDE DEF seqs
    <3>3. PICK r \in Seq(Joints) : r = Ramp(from, to, MaxJointStep)
      BY RampOfJoints
    <3>4. /\ r # <<>> /\ r[Len(r)] = to /\ Abs(r[1] - from) <= MaxJointStep
          /\ Smooth(r, MaxJointStep)
      BY <3>3, RampOfJoints
    <3> QED
      BY <2>2, <3>1, <3>2, <3>3, <3>4
  <2> QED
    BY <2>1, <2>2
<1>3. seqs \in Seq(Seq(Joints)) /\ Len(seqs) = Len(pts) /\ seqs # <<>>
  <2>1. \A i \in 1..Len(pts) : seqs[i] \in Seq(Joints)
    BY <1>2
  <2>2. seqs \in [1..Len(pts) -> Seq(Joints)]
    BY <2>1
  <2> QED
    BY <1>1, <2>2
<1>4. Subdivide(pts) = FlattenSeq(seqs)
  BY DEF Subdivide
<1> HIDE DEF seqs
<1>5. \A i \in 1..Len(seqs) : seqs[i] # <<>> /\ Smooth(seqs[i], MaxJointStep)
  BY <1>2, <1>3
<1>6. \A i \in 2..Len(seqs) :
          Abs(seqs[i][1] - seqs[i - 1][Len(seqs[i - 1])]) <= MaxJointStep
  <2> SUFFICES ASSUME NEW i \in 2..Len(seqs)
               PROVE  Abs(seqs[i][1] - seqs[i - 1][Len(seqs[i - 1])]) <= MaxJointStep
    OBVIOUS
  <2>1. i \in 1..Len(pts) /\ i # 1 /\ i - 1 \in 1..Len(pts)
    BY <1>1, <1>3
  <2> QED
    BY <1>2, <2>1
<1>7. /\ FlattenSeq(seqs) \in Seq(Joints) /\ FlattenSeq(seqs) # <<>>
      /\ Smooth(FlattenSeq(seqs), MaxJointStep)
      /\ FlattenSeq(seqs)[1] = seqs[1][1]
  BY <1>3, <1>5, <1>6, FlattenSmooth
<1>8. seqs[1][1] = pts[1]
  BY <1>1, <1>2
<1> QED
  BY <1>4, <1>7, <1>8

\* A path from where the arms are has no gap that is too large, the first included.
LEMMA PathSmooth ==
    ASSUME NEW from \in Joints, NEW wps \in Seq(Joints), wps # <<>>, NEW step \in Nat \ {0}
    PROVE  /\ PathTo(from, wps, step) \in Seq(Joints) /\ PathTo(from, wps, step) # <<>>
           /\ Smooth(PathTo(from, wps, step), step)
           /\ Abs(PathTo(from, wps, step)[1] - from) <= step
<1> Joints \in SUBSET Int
  BY LimitsAssumption DEF Joints
<1> DEFINE seqs == [i \in 1..Len(wps) |->
               Ramp(IF i = 1 THEN from ELSE wps[i - 1], wps[i], step)]
           start(i) == IF i = 1 THEN from ELSE wps[i - 1]
<1>1. Len(wps) \in Nat \ {0} /\ \A i \in 1..Len(wps) : wps[i] \in Joints
  BY EmptySeq, ElementOfSeq
<1>2. ASSUME NEW i \in 1..Len(wps)
      PROVE  /\ seqs[i] \in Seq(Joints) /\ seqs[i] # <<>> /\ Smooth(seqs[i], step)
             /\ seqs[i][Len(seqs[i])] = wps[i]
             /\ Abs(seqs[i][1] - start(i)) <= step
  <2>1. i # 1 => i - 1 \in 1..Len(wps)
    BY <1>1
  <2>2. PICK p, q \in Joints : p = start(i) /\ q = wps[i]
    BY <1>1, <2>1
  <2>3. seqs[i] = Ramp(p, q, step)
    BY <2>2
  <2> HIDE DEF seqs, start
  <2>4. PICK r \in Seq(Joints) : r = Ramp(p, q, step)
    BY RampOfJoints
  <2>5. r # <<>> /\ r[Len(r)] = q /\ Abs(r[1] - p) <= step /\ Smooth(r, step)
    BY <2>4, RampOfJoints
  <2> QED
    BY <2>2, <2>3, <2>4, <2>5
<1>3. seqs \in Seq(Seq(Joints)) /\ Len(seqs) = Len(wps) /\ seqs # <<>>
  <2>1. \A i \in 1..Len(wps) : seqs[i] \in Seq(Joints)
    BY <1>2
  <2>2. seqs \in [1..Len(wps) -> Seq(Joints)]
    BY <2>1
  <2> QED
    BY <1>1, <2>2
<1>4. PathTo(from, wps, step) = FlattenSeq(seqs)
  BY DEF PathTo
<1>5. start(1) = from /\ \A i \in 2..Len(wps) : start(i) = wps[i - 1]
  OBVIOUS
<1> HIDE DEF seqs, start
<1>6. \A i \in 1..Len(seqs) : seqs[i] # <<>> /\ Smooth(seqs[i], step)
  BY <1>2, <1>3
<1>7. \A i \in 2..Len(seqs) : Abs(seqs[i][1] - seqs[i - 1][Len(seqs[i - 1])]) <= step
  <2> SUFFICES ASSUME NEW i \in 2..Len(seqs)
               PROVE  Abs(seqs[i][1] - seqs[i - 1][Len(seqs[i - 1])]) <= step
    OBVIOUS
  <2>1. i \in 1..Len(wps) /\ i \in 2..Len(wps) /\ i - 1 \in 1..Len(wps)
    BY <1>1, <1>3
  <2> QED
    BY <1>2, <1>5, <2>1
<1>8. /\ FlattenSeq(seqs) \in Seq(Joints) /\ FlattenSeq(seqs) # <<>>
      /\ Smooth(FlattenSeq(seqs), step)
      /\ FlattenSeq(seqs)[1] = seqs[1][1]
  BY <1>3, <1>6, <1>7, FlattenSmooth
<1>9. Abs(seqs[1][1] - from) <= step
  BY <1>1, <1>2, <1>5
<1> QED
  BY <1>4, <1>8, <1>9

-----------------------------------------------------------------------------
(* The inductive invariant.                                                  *)

HoldPlaces == {"lock", "hold", "holding", "held"}
DrivePlaces == {"seed", "guard", "stream", "send", "sent"}
Kinds == {"none", "reset", "other"}

\* Which thread does what, and the types; where a waypoint is taken there is one.
DispatchTypes ==
    /\ arm \in Joints /\ robot_q \in Seq(Joints)
    /\ last_cmd_q14 \in {<<>>} \cup {<<q>> : q \in Joints}
    /\ estop \in BOOLEAN /\ interference \in Kinds
    /\ pc \in [Threads -> {"idle", "enqueue", "splice", "move", "reset"} \cup HoldPlaces \cup DrivePlaces]
    /\ pc["gui"] \in {"idle", "enqueue", "reset"} \cup HoldPlaces
    /\ points \in [Threads -> Seq(Joints)] /\ ramp \in [Threads -> Seq(Joints)]
    /\ \A t \in Threads : pc[t] \in {"send", "sent", "holding", "held"} => ramp[t] # <<>>
    /\ pc["gui"] = "enqueue" => points["gui"] # <<>> /\ ramp["gui"] # <<>>

\* Two drivers at once are noted, and so is a reset beside a driver or a hold;
\* unless it is, poses are held under a latched E-stop only, and the release thread
\* has a reference once it has looked for one.
Marked ==
    /\ \A t \in Threads : pc[t] \in {"hold", "holding", "held"} => estop \/ ~Undisturbed
    /\ Overlap(pc) => ~Undisturbed
    /\ pc["gui"] = "reset" /\ AtWork(pc) # {} => ~Undisturbed
    /\ pc["rel"] \in DrivePlaces \ {"seed"} => last_cmd_q14 # <<>> \/ ~Undisturbed

\* Where the arms are, and where a hold may put them back to.
Elements(s) == {s[i] : i \in 1..Len(s)}
Holders == {t \in Threads : pc[t] \in {"holding", "held"}}
Spots == {arm} \cup UNION {Elements(ramp[t]) : t \in Holders}

\* What a driver has yet to stream leads to its target from there.
OnCourse(t) ==
    (Undisturbed /\ pc[t] \in {"stream", "send", "sent"}) =>
        /\ Smooth(ramp[t], MaxJointStep)
        /\ ramp[t] # <<>> => \A v \in Spots \cup Elements(ramp[t]) :
                                 Abs(ramp[t][Len(ramp[t])] - v) <= MaxJointJump
        /\ (~estop /\ pc[t] # "sent" /\ ramp[t] # <<>>) => Abs(ramp[t][1] - arm) <= MaxJointStep
        /\ (~estop /\ pc[t] = "sent") => arm = ramp[t][1]

\* Under a latched E-stop, the waypoint a driver had already tested for is the only
\* way on; it is within a step of every place the arms are held at.
Closing == {ramp[t][1] : t \in {d \in Drivers : pc[d] = "send"}}
Together ==
    (estop /\ Undisturbed) => \A v, w \in Spots \cup Closing : Abs(v - w) <= MaxJointStep

\* The targets of a move continue where the arms will be.
PathEnd == IF pc["inf"] \in {"seed", "guard"} \/ ramp["inf"] = <<>>
           THEN arm ELSE ramp["inf"][Len(ramp["inf"])]
InPath ==
    (~estop /\ Undisturbed /\ Driving(pc, "inf")) =>
        /\ Smooth(points["inf"], HomeJointStep)
        /\ points["inf"] # <<>> => Abs(points["inf"][1] - PathEnd) <= HomeJointStep

DispatchInv ==
    /\ DispatchTypes /\ Marked
    /\ \A t \in Drivers : OnCourse(t)
    /\ Together /\ InPath /\ ReferenceTruthful

-----------------------------------------------------------------------------
\* What is left of a sequence of configurations when its first is taken.
LEMMA RestOfPath ==
    ASSUME NEW s \in Seq(Joints), s # <<>>
    PROVE  /\ Head(s) = s[1] /\ s[1] \in Joints /\ Len(s) \in 1..Len(s)
           /\ Tail(s) \in Seq(Joints) /\ Elements(Tail(s)) \subseteq Elements(s)
           /\ Tail(s) # <<>> => Tail(s)[1] = s[2] /\ 2 \in 2..Len(s)
                                /\ Tail(s)[Len(Tail(s))] = s[Len(s)]
           /\ Tail(s) = <<>> => Len(s) = 1
           /\ \A d \in Nat : Smooth(s, d) => Smooth(Tail(s), d)
<1>1. /\ Head(s) = s[1] /\ Tail(s) \in Seq(Joints) /\ Len(Tail(s)) = Len(s) - 1
      /\ \A i \in 1..Len(Tail(s)) : Tail(s)[i] = s[i + 1]
  BY HeadTailProperties
<1>2. Len(s) \in Nat \ {0} /\ s[1] \in Joints
  BY EmptySeq, ElementOfSeq
<1>3. PICK r \in Seq(Joints) : r = Tail(s)
  BY <1>1
<1>4. PICK n \in Nat \ {0} : n = Len(s)
  BY <1>2
<1>5. Len(r) = n - 1 /\ \A i \in 1..(n - 1) : r[i] = s[i + 1]
  BY <1>1, <1>3, <1>4
<1>6. Elements(r) \subseteq Elements(s)
  BY <1>4, <1>5 DEF Elements
<1>7. r # <<>> => n - 1 > 0
  BY <1>3, <1>5, EmptySeq
<1>8. r # <<>> => r[1] = s[2] /\ 2 \in 2..n /\ r[Len(r)] = s[n]
  <2> SUFFICES ASSUME r # <<>> PROVE r[1] = s[2] /\ 2 \in 2..n /\ r[Len(r)] = s[n]
    OBVIOUS
  <2>1. 1 \in 1..(n - 1) /\ n - 1 \in 1..(n - 1) /\ (n - 1) + 1 = n /\ 1 + 1 = 2
    BY <1>7
  <2> QED
    BY <1>5, <2>1
<1>9. r = <<>> => n = 1
  BY <1>5, EmptySeq
<1>10. ASSUME NEW d \in Nat, Smooth(s, d) PROVE Smooth(r, d)
  <2> SUFFICES ASSUME NEW i \in 2..(n - 1) PROVE Abs(r[i] - r[i - 1]) <= d
    BY <1>5 DEF Smooth
  <2>1. /\ i \in 1..(n - 1) /\ i - 1 \in 1..(n - 1) /\ i + 1 \in 2..n
        /\ (i - 1) + 1 = (i + 1) - 1
    OBVIOUS
  <2>2. r[i] = s[i + 1] /\ r[i - 1] = s[(i + 1) - 1]
    BY <1>5, <2>1
  <2> QED
    BY <1>4, <1>10, <2>1, <2>2 DEF Smooth
<1> QED
  BY <1>1, <1>2, <1>3, <1>4, <1>6, <1>8, <1>9, <1>10

LEMMA ClipJoints ==
    /\ \A q \in Int : Clip(q) \in Joints
    /\ \A q \in Joints : Clip(q) = q
  BY LimitsAssumption DEF Clip, Joints

\* The path of a move, clipped.
LEMMA PathTyped ==
    ASSUME NEW path \in Paths, arm \in Joints
    PROVE  LET p == PathTo(arm, [i \in 1..Len(path) |-> Clip(path[i])], HomeJointStep)
           IN  /\ p \in Seq(Joints) /\ p # <<>>
               /\ Smooth(p, HomeJointStep) /\ Abs(p[1] - arm) <= HomeJointStep
<1>1. path \in Seq(Int) /\ path # <<>> /\ HomeJointStep \in Nat \ {0}
  BY TargetsAssumption, StepsAssumption
<1>2. Len(path) \in Nat \ {0} /\ \A i \in 1..Len(path) : path[i] \in Int
  BY <1>1, EmptySeq, ElementOfSeq
<1> DEFINE clipped == [i \in 1..Len(path) |-> Clip(path[i])]
<1>3. \A i \in 1..Len(path) : Clip(path[i]) \in Joints
  BY <1>2, ClipJoints
<1>4. clipped \in Seq(Joints) /\ clipped # <<>>
  <2>1. clipped \in [1..Len(path) -> Joints]
    BY <1>3
  <2>2. clipped \in Seq(Joints) /\ Len(clipped) = Len(path)
    BY <1>2, <2>1
  <2> QED
    BY <1>2, <2>2
<1> HIDE DEF clipped
<1>5. /\ PathTo(arm, clipped, HomeJointStep) \in Seq(Joints)
      /\ PathTo(arm, clipped, HomeJointStep) # <<>>
      /\ Smooth(PathTo(arm, clipped, HomeJointStep), HomeJointStep)
      /\ Abs(PathTo(arm, clipped, HomeJointStep)[1] - arm) <= HomeJointStep
  BY <1>1, <1>4, PathSmooth
<1> QED
  BY <1>5 DEF clipped

\* A thread goes on, and the others stay where they are.
LEMMA GotoOnly ==
    ASSUME DispatchTypes, NEW t \in Threads, NEW from, NEW to, Goto(t, from, to)
    PROVE  /\ pc[t] = from /\ pc'[t] = to
           /\ \A u \in Threads \ {t} : pc'[u] = pc[u]
           /\ interference' \in Kinds
           /\ Overlap(pc') => ~Undisturbed'
           /\ pc'["gui"] = "reset" /\ AtWork(pc') # {} => ~Undisturbed'
           /\ Undisturbed' => Undisturbed
<1>1. pc'[t] = to /\ \A u \in Threads \ {t} : pc'[u] = pc[u]
  BY DEF Goto, DispatchTypes
<1>2. interference' = IF Overlap(pc') \/ interference = "other" THEN "other"
                      ELSE IF pc'["gui"] = "reset" /\ AtWork(pc') # {} THEN "reset"
                      ELSE interference
  BY DEF Goto, Interference
<1>3. interference \in Kinds
  BY DEF DispatchTypes
<1> QED
  BY <1>1, <1>2, <1>3 DEF Goto, Kinds, Undisturbed

-----------------------------------------------------------------------------
(* What a release button adds to the queue.                                  *)

LEMMA EnqueuedSmooth ==
    ASSUME DispatchTypes, EnqueueForRelease
    PROVE  /\ robot_q' \in Seq(Joints)
           /\ \A i \in 2..Len(robot_q') : i > Len(robot_q) =>
                  Abs(robot_q'[i] - robot_q'[i - 1]) <= MaxJointStep
<1> DEFINE subs == points["gui"]
           anchor == IF robot_q = <<>> THEN ramp["gui"][1] ELSE Last(robot_q)
           first == Ramp(anchor, subs[1], RampJointStep)
<1> "gui" \in Threads /\ Joints \in SUBSET Int
  BY LimitsAssumption DEF Threads, Joints
<1> MaxJointStep \in Nat \ {0} /\ RampJointStep \in Nat \ {0} /\ RampJointStep <= MaxJointStep
  BY StepsAssumption
<1>1. robot_q' = robot_q \o Subdivide(first \o Tail(subs))
  BY DEF EnqueueForRelease
<1>2. /\ subs \in Seq(Joints) /\ subs # <<>> /\ ramp["gui"] \in Seq(Joints) /\ ramp["gui"] # <<>>
      /\ robot_q \in Seq(Joints)
  BY DEF EnqueueForRelease, Finish, Goto, DispatchTypes
<1>3. subs[1] \in Joints /\ Tail(subs) \in Seq(Joints) /\ ramp["gui"][1] \in Joints
  BY <1>2, RestOfPath
<1>4. anchor \in Joints /\ (robot_q # <<>> => anchor = robot_q[Len(robot_q)])
  <2>1. robot_q # <<>> => Len(robot_q) \in 1..Len(robot_q)
    BY <1>2, RestOfPath
  <2> QED
    BY <1>2, <1>3, <2>1, ElementOfSeq DEF Last
<1> HIDE DEF subs, anchor, first
<1>5. first \in Seq(Joints) /\ first # <<>> /\ Abs(first[1] - anchor) <= RampJointStep
  BY <1>3, <1>4, RampOfJoints DEF first
<1>6. PICK pts \in Seq(Joints) : pts = first \o Tail(subs) /\ pts # <<>> /\ pts[1] = first[1]
  <2>1. /\ first \o Tail(subs) \in Seq(Joints)
        /\ Len(first \o Tail(subs)) = Len(first) + Len(Tail(subs))
        /\ \A i \in 1..(Len(first) + Len(Tail(subs))) : (first \o Tail(subs))[i] =
                 IF i <= Len(first) THEN first[i] ELSE Tail(subs)[i - Len(first)]
    BY <1>3, <1>5, ConcatProperties
  <2>2. PICK m, n \in Nat : m = Len(first) /\ n = Len(Tail(subs)) /\ m # 0
    BY <1>3, <1>5, EmptySeq
  <2>3. PICK pts \in Seq(Joints) : pts = first \o Tail(subs)
    BY <2>1
  <2>4. Len(pts) # 0 /\ 1 \in 1..(m + n) /\ 1 <= m
    BY <2>1, <2>2, <2>3
  <2>5. pts # <<>> /\ pts[1] = first[1]
    BY <2>1, <2>2, <2>3, <2>4
  <2> QED
    BY <2>3, <2>5
<1>7. PICK added \in Seq(Joints) : /\ added = Subdivide(pts) /\ added # <<>>
                                  /\ Smooth(added, MaxJointStep) /\ added[1] = first[1]
  BY <1>6, RampedSmooth
<1>8. robot_q' = robot_q \o added
  BY <1>1, <1>6, <1>7
<1>9. PICK m, n \in Nat : m = Len(robot_q) /\ n = Len(added) /\ n # 0
  BY <1>2, <1>7, EmptySeq
<1>10. /\ robot_q' \in Seq(Joints) /\ Len(robot_q') = m + n
       /\ \A i \in 1..(m + n) : robot_q'[i] = IF i <= m THEN robot_q[i] ELSE added[i - m]
  BY <1>2, <1>8, <1>9, ConcatProperties
<1>11. ASSUME NEW i \in 2..(m + n), i > m
       PROVE  Abs(robot_q'[i] - robot_q'[i - 1]) <= MaxJointStep
  <2>1. CASE i = m + 1
    <3>1. /\ m > 0 /\ i \in 1..(m + n) /\ ~(i <= m) /\ i - m = 1
          /\ i - 1 \in 1..(m + n) /\ i - 1 <= m /\ i - 1 = m
      BY <2>1, <1>9
    <3>2. robot_q'[i] = added[1] /\ robot_q'[i - 1] = robot_q[m]
      BY <1>10, <3>1
    <3>3. robot_q # <<>>
      BY <1>9, <3>1
    <3>4. Abs(first[1] - anchor) <= MaxJointStep
      <4>1. PICK x, y \in Int : x = first[1] /\ y = anchor
        <5>1. first[1] \in Joints
          BY <1>5, RestOfPath
        <5> QED
          BY <1>4, <5>1
      <4>2. Abs(x - y) \in Int
        BY DEF Abs
      <4> QED
        BY <1>5, <4>1, <4>2
    <3> QED
      BY <1>4, <1>7, <1>9, <3>2, <3>3, <3>4
  <2>2. CASE i > m + 1
    <3>1. /\ i \in 1..(m + n) /\ ~(i <= m) /\ i - m \in 2..n
          /\ i - 1 \in 1..(m + n) /\ ~(i - 1 <= m) /\ (i - 1) - m = (i - m) - 1
      BY <2>2
    <3>2. robot_q'[i] = added[i - m] /\ robot_q'[i - 1] = added[(i - m) - 1]
      BY <1>10, <3>1
    <3> QED
      BY <1>7, <1>9, <3>1, <3>2 DEF Smooth
  <2> QED
    BY <1>11, <2>1, <2>2
<1> QED
  BY <1>9, <1>10, <1>11

-----------------------------------------------------------------------------
(* The types.                                                                *)

Places == {"idle", "enqueue", "splice", "move", "reset"} \cup HoldPlaces \cup DrivePlaces

\* A step of thread t that puts it at a place of its own.
LEMMA GotoTypes ==
    ASSUME DispatchTypes, NEW t \in Threads, NEW from, NEW to \in Places, Goto(t, from, to),
           t = "gui" => to \in {"idle", "enqueue", "reset"} \cup HoldPlaces
    PROVE  /\ pc' \in [Threads -> Places]
           /\ pc'["gui"] \in {"idle", "enqueue", "reset"} \cup HoldPlaces
           /\ interference' \in Kinds
<1>1. pc' = [pc EXCEPT ![t] = to] /\ interference' \in Kinds
  BY GotoOnly DEF Goto
<1>2. pc \in [Threads -> Places] /\ pc["gui"] \in {"idle", "enqueue", "reset"} \cup HoldPlaces
  BY DEF DispatchTypes, Places
<1> QED
  BY <1>1, <1>2 DEF Threads

\* What is streamed and queued.
LEMMA QueueTyped ==
    ASSUME DispatchTypes, NEW t \in Threads, NEW q \in Seq(Joints)
    PROVE  /\ [points EXCEPT ![t] = q] \in [Threads -> Seq(Joints)]
           /\ [ramp EXCEPT ![t] = q] \in [Threads -> Seq(Joints)]
  BY DEF DispatchTypes

LEMMA InitTypes == DispatchInit => DispatchTypes
<1> SUFFICES ASSUME DispatchInit PROVE DispatchTypes
  OBVIOUS
<1>1. <<>> \in Seq(Joints)
  OBVIOUS
<1>2. \A t \in Threads : pc[t] = "idle" /\ points[t] = <<>> /\ ramp[t] = <<>>
  BY DEF DispatchInit
<1>3. "gui" \in Threads /\ interference \in Kinds
  BY DEF DispatchInit, Threads, Kinds
<1> QED
  BY <1>1, <1>2, <1>3 DEF DispatchInit, DispatchTypes

LEMMA GuiTypes ==
    ASSUME DispatchTypes, Gui \/ TeleopMove
    PROVE  DispatchTypes'
<1> "gui" \in Threads
  BY DEF Threads
<1>1. CASE \E subs \in Subs : Release(subs)
  <2>1. PICK subs \in Subs : Release(subs)
    BY <1>1
  <2>2. subs \in Seq(Joints) /\ subs # <<>> /\ <<arm>> \in Seq(Joints) /\ <<arm>> # <<>>
    BY TargetsAssumption DEF Joints, DispatchTypes
  <2>3. Goto("gui", "idle", "enqueue")
    BY <2>1 DEF Release
  <2>4. /\ pc' \in [Threads -> Places] /\ interference' \in Kinds
        /\ pc'["gui"] \in {"idle", "enqueue", "reset"} \cup HoldPlaces
    BY <2>3, GotoTypes DEF Places
  <2>5. /\ points' = [points EXCEPT !["gui"] = subs] /\ ramp' = [ramp EXCEPT !["gui"] = <<arm>>]
        /\ UNCHANGED <<arm, robot_q, last_cmd_q14, estop>>
    BY <2>1 DEF Release
  <2>6. points' \in [Threads -> Seq(Joints)] /\ ramp' \in [Threads -> Seq(Joints)]
    BY <2>2, <2>5, QueueTyped
  <2>7. \A t \in Threads : pc'[t] \in {"send", "sent", "holding", "held"} => ramp'[t] # <<>>
    BY <2>2, <2>3, <2>5, GotoOnly DEF DispatchTypes
  <2>8. points'["gui"] # <<>> /\ ramp'["gui"] # <<>>
    BY <2>2, <2>5 DEF DispatchTypes
  <2> QED
    BY <2>4, <2>5, <2>6, <2>7, <2>8 DEF DispatchTypes, Places
<1>2. CASE EnqueueForRelease
  <2>1. Goto("gui", "enqueue", "idle") /\ pc["gui"] = "enqueue"
    BY <1>2 DEF EnqueueForRelease, Finish, Goto
  <2>2. /\ pc' \in [Threads -> Places] /\ interference' \in Kinds
        /\ pc'["gui"] \in {"idle", "enqueue", "reset"} \cup HoldPlaces
    BY <2>1, GotoTypes DEF Places
  <2>3. /\ points' = [points EXCEPT !["gui"] = <<>>] /\ ramp' = [ramp EXCEPT !["gui"] = <<>>]
        /\ UNCHANGED <<arm, last_cmd_q14, estop>>
    BY <1>2 DEF EnqueueForRelease, Finish
  <2>4. points' \in [Threads -> Seq(Joints)] /\ ramp' \in [Threads -> Seq(Joints)]
    <3>1. <<>> \in Seq(Joints)
      OBVIOUS
    <3> QED
      BY <2>3, <3>1, QueueTyped
  <2>5. /\ \A t \in Threads : pc'[t] \in {"send", "sent", "holding", "held"} => ramp'[t] # <<>>
        /\ pc'["gui"] = "idle"
    BY <2>1, <2>3, GotoOnly DEF DispatchTypes
  <2>6. robot_q' \in Seq(Joints)
    BY <1>2, EnqueuedSmooth
  <2> QED
    BY <2>2, <2>3, <2>4, <2>5, <2>6 DEF DispatchTypes, Places
<1>3. CASE EStopButton
  <2>1. Goto("gui", "idle", "lock")
    BY <1>3 DEF EStopButton
  <2>2. /\ pc' \in [Threads -> Places] /\ interference' \in Kinds
        /\ pc'["gui"] \in {"idle", "enqueue", "reset"} \cup HoldPlaces
    BY <2>1, GotoTypes DEF Places, HoldPlaces
  <2>3. UNCHANGED <<arm, robot_q, last_cmd_q14, estop, points, ramp>>
    BY <1>3 DEF EStopButton, localVars
  <2>4. /\ \A t \in Threads : pc'[t] \in {"send", "sent", "holding", "held"} => ramp'[t] # <<>>
        /\ pc'["gui"] = "lock"
    BY <2>1, <2>3, GotoOnly DEF DispatchTypes
  <2> QED
    BY <2>2, <2>3, <2>4 DEF DispatchTypes, Places
<1>4. CASE ClearEStop
  <2>1. Goto("gui", "idle", "reset") /\ estop' = FALSE
        /\ UNCHANGED <<arm, robot_q, last_cmd_q14, points, ramp>>
    BY <1>4 DEF ClearEStop, localVars
  <2>2. /\ pc' \in [Threads -> Places] /\ interference' \in Kinds
        /\ pc'["gui"] \in {"idle", "enqueue", "reset"} \cup HoldPlaces
    BY <2>1, GotoTypes DEF Places
  <2>3. /\ \A t \in Threads : pc'[t] \in {"send", "sent", "holding", "held"} => ramp'[t] # <<>>
        /\ pc'["gui"] = "reset"
    BY <2>1, GotoOnly DEF DispatchTypes
  <2> QED
    BY <2>1, <2>2, <2>3 DEF DispatchTypes, Places
<1>5. CASE ResetReference
  <2>1. /\ pc' = [pc EXCEPT !["gui"] = "idle"] /\ last_cmd_q14' = <<>>
        /\ interference' \in {"none", interference}
        /\ UNCHANGED <<arm, robot_q, estop, points, ramp>>
    BY <1>5 DEF ResetReference, DropReference, localVars
  <2>2. pc'["gui"] = "idle" /\ \A u \in Threads \ {"gui"} : pc'[u] = pc[u]
    BY <2>1 DEF DispatchTypes
  <2>3. pc' \in [Threads -> Places]
    BY <2>1 DEF DispatchTypes, Places
  <2> QED
    BY <2>1, <2>2, <2>3 DEF DispatchTypes, Places, Kinds
<1>6. CASE TeleopMove
  BY <1>6 DEF TeleopMove, DispatchTypes, localVars, Kinds
<1> QED
  BY <1>1, <1>2, <1>3, <1>4, <1>5, <1>6 DEF Gui

\* What a thread streams is its own.
Own(t, p, r) ==
    /\ points'[t] = p /\ ramp'[t] = r
    /\ \A u \in Threads \ {t} : points'[u] = points[u] /\ ramp'[u] = ramp[u]

LEMMA OwnTypes ==
    ASSUME DispatchTypes, NEW t \in Threads, NEW p \in Seq(Joints), NEW r \in Seq(Joints),
           points' = [points EXCEPT ![t] = p], ramp' = [ramp EXCEPT ![t] = r]
    PROVE  /\ Own(t, p, r)
           /\ points' \in [Threads -> Seq(Joints)] /\ ramp' \in [Threads -> Seq(Joints)]
  BY DEF Own, DispatchTypes

\* Nothing to stream, and what a thread keeps.
LEMMA Kept ==
    ASSUME DispatchTypes, NEW t \in Threads
    PROVE  /\ <<>> \in Seq(Joints)
           /\ points[t] \in Seq(Joints) /\ ramp[t] \in Seq(Joints)
           /\ points = [points EXCEPT ![t] = points[t]] /\ ramp = [ramp EXCEPT ![t] = ramp[t]]
  BY DEF DispatchTypes

\* A step of a thread, whatever it does with its targets and waypoints.
LEMMA StepTypes ==
    ASSUME DispatchTypes, NEW t \in Threads, NEW from, NEW to \in Places \ {"enqueue"},
           Goto(t, from, to), t = "gui" => to \in {"idle"} \cup HoldPlaces,
           arm' \in Joints, robot_q' \in Seq(Joints), estop' \in BOOLEAN,
           last_cmd_q14' \in {<<>>} \cup {<<q>> : q \in Joints},
           points' \in [Threads -> Seq(Joints)], ramp' \in [Threads -> Seq(Joints)],
           NEW p, NEW r, Own(t, p, r),
           to \in {"send", "sent", "holding", "held"} => r # <<>>
    PROVE  DispatchTypes'
<1>1. /\ pc' \in [Threads -> Places] /\ interference' \in Kinds
      /\ pc'["gui"] \in {"idle", "enqueue", "reset"} \cup HoldPlaces
  BY GotoTypes
<1>2. /\ pc'[t] = to /\ ramp'[t] = r
      /\ \A u \in Threads \ {t} : pc'[u] = pc[u] /\ ramp'[u] = ramp[u] /\ points'[u] = points[u]
  BY GotoOnly DEF Own
<1>3. \A u \in Threads : pc'[u] \in {"send", "sent", "holding", "held"} => ramp'[u] # <<>>
  BY <1>2 DEF DispatchTypes
<1>4. pc'["gui"] = "enqueue" => points'["gui"] # <<>> /\ ramp'["gui"] # <<>>
  BY <1>2 DEF DispatchTypes, Threads
<1> QED
  BY <1>1, <1>3, <1>4 DEF DispatchTypes, Places

LEMMA HoldTypes ==
    ASSUME DispatchTypes, NEW t \in Threads, LockRobot(t)
    PROVE  DispatchTypes'
<1>1. CASE Lock(t)
  <2>1. /\ Goto(t, "lock", "hold") /\ robot_q' = <<>> /\ estop' = TRUE
        /\ UNCHANGED <<arm, last_cmd_q14, points, ramp>>
    BY <1>1 DEF Lock, localVars
  <2>2. /\ Own(t, points[t], ramp[t])
        /\ points' \in [Threads -> Seq(Joints)] /\ ramp' \in [Threads -> Seq(Joints)]
    BY <2>1 DEF Own, DispatchTypes
  <2>8. /\ arm' \in Joints /\ robot_q' \in Seq(Joints) /\ estop' \in BOOLEAN
        /\ last_cmd_q14' \in {<<>>} \cup {<<q>> : q \in Joints}
    BY <2>1, <2>2 DEF DispatchTypes
  <2>9. "hold" \in Places \ {"enqueue"} /\ "hold" \in {"idle"} \cup HoldPlaces
    BY DEF Places, HoldPlaces, DrivePlaces
  <2> QED
    BY <2>1, <2>2, <2>8, <2>9, StepTypes
<1>2. CASE Hold(t)
  <2>1. arm \in Joints
    BY DEF DispatchTypes
  <2>2. <<arm, arm, arm>> \in Seq(Joints) /\ <<arm, arm, arm>> # <<>>
    BY <2>1
  <2>3. PICK r \in Seq(Joints) : r = <<arm, arm, arm>> /\ r # <<>>
    BY <2>2
  <2>4. /\ Goto(t, "hold", "holding") /\ ramp' = [ramp EXCEPT ![t] = r]
        /\ UNCHANGED <<arm, robot_q, last_cmd_q14, estop, points>>
    BY <1>2, <2>3 DEF Hold
  <2>5. /\ Own(t, points[t], r)
        /\ points' \in [Threads -> Seq(Joints)] /\ ramp' \in [Threads -> Seq(Joints)]
    BY <2>4 DEF Own, DispatchTypes
  <2> QED
    BY <2>3, <2>4, <2>5, StepTypes DEF DispatchTypes, Places, HoldPlaces
<1>3. CASE HoldSend(t)
  <2>1. /\ Goto(t, "holding", "held") /\ arm' = Head(ramp[t]) /\ pc[t] = "holding"
        /\ UNCHANGED <<robot_q, last_cmd_q14, estop, points, ramp>>
    BY <1>3 DEF HoldSend, localVars, Goto
  <2>2. ramp[t] \in Seq(Joints) /\ ramp[t] # <<>>
    BY <2>1 DEF DispatchTypes
  <2>3. arm' \in Joints
    BY <2>1, <2>2, RestOfPath
  <2>4. Own(t, points[t], ramp[t])
    BY <2>1 DEF Own
  <2> QED
    BY <2>1, <2>2, <2>3, <2>4, StepTypes DEF DispatchTypes, Places, HoldPlaces
<1>4. CASE HoldSent(t)
  <2> DEFINE to == IF Len(ramp[t]) > 1 THEN "holding" ELSE "idle"
  <2>1. /\ Goto(t, "held", to) /\ pc[t] = "held"
        /\ last_cmd_q14' = <<Head(ramp[t])>> /\ ramp' = [ramp EXCEPT ![t] = Tail(ramp[t])]
        /\ UNCHANGED <<arm, robot_q, estop, points>>
    BY <1>4 DEF HoldSent, Goto
  <2>2. ramp[t] \in Seq(Joints) /\ ramp[t] # <<>>
    BY <2>1 DEF DispatchTypes
  <2>3. PICK r \in Seq(Joints) : r = Tail(ramp[t]) /\ (r = <<>> => Len(ramp[t]) = 1)
    BY <2>2, RestOfPath
  <2>4. Head(ramp[t]) \in Joints
    BY <2>2, RestOfPath
  <2>5. to \in {"idle"} \cup HoldPlaces /\ to \in Places \ {"enqueue"}
    BY DEF Places, HoldPlaces
  <2>6. to \in {"send", "sent", "holding", "held"} => r # <<>>
    BY <2>3
  <2>7. /\ Own(t, points[t], r)
        /\ points' \in [Threads -> Seq(Joints)] /\ ramp' \in [Threads -> Seq(Joints)]
    BY <2>1, <2>3 DEF Own, DispatchTypes
  <2> HIDE DEF to
  <2> QED
    BY <2>1, <2>4, <2>5, <2>6, <2>7, StepTypes DEF DispatchTypes
<1> QED
  BY <1>1, <1>2, <1>3, <1>4 DEF LockRobot

LEMMA RelInfTypes ==
    ASSUME DispatchTypes, Rel \/ Inf
    PROVE  DispatchTypes'
<1> "rel" \in Threads /\ "inf" \in Threads
  BY DEF Threads, Drivers
<1> <<>> \in Seq(Joints)
  OBVIOUS
<1>1. CASE RelPop
  <2>1. robot_q \in Seq(Joints) /\ robot_q # <<>>
    BY <1>1 DEF RelPop, DispatchTypes
  <2>2. Head(robot_q) \in Joints /\ Tail(robot_q) \in Seq(Joints)
    BY <2>1, RestOfPath
  <2>a. <<Head(robot_q)>> \in Seq(Joints)
    BY <2>2
  <2>3. PICK p \in Seq(Joints) : p = <<Head(robot_q)>>
    BY <2>a
  <2>4. /\ Goto("rel", "idle", "seed") /\ points' = [points EXCEPT !["rel"] = p]
        /\ robot_q' = Tail(robot_q) /\ UNCHANGED <<arm, last_cmd_q14, estop, ramp>>
    BY <1>1, <2>3 DEF RelPop
  <2>5. /\ Own("rel", p, ramp["rel"])
        /\ points' \in [Threads -> Seq(Joints)] /\ ramp' \in [Threads -> Seq(Joints)]
    BY <2>4 DEF Own, DispatchTypes
  <2>8. /\ arm' \in Joints /\ robot_q' \in Seq(Joints) /\ estop' \in BOOLEAN
        /\ last_cmd_q14' \in {<<>>} \cup {<<q>> : q \in Joints}
    BY <2>2, <2>4, <2>5 DEF DispatchTypes
  <2>9. "seed" \in Places \ {"enqueue"}
    BY DEF Places, HoldPlaces, DrivePlaces
  <2> QED
    BY <2>2, <2>4, <2>5, <2>8, <2>9, StepTypes
<1>2. CASE RelIdle
  <2>1. /\ interference' \in {"none", interference} /\ last_cmd_q14' = <<>>
        /\ UNCHANGED <<arm, robot_q, estop, pc, points, ramp>>
    BY <1>2 DEF RelIdle, DropReference, localVars
  <2> QED
    BY <2>1 DEF DispatchTypes, Kinds
<1>3. CASE \E q \in Targets : AppendRead(q)
  <2>1. PICK q \in Targets : AppendRead(q)
    BY <1>3
  <2> DEFINE from == IF robot_q = <<>> THEN arm ELSE Last(robot_q)
  <2>2. from \in Joints
    <3>1. robot_q # <<>> => Len(robot_q) \in 1..Len(robot_q)
      BY RestOfPath DEF DispatchTypes
    <3> QED
      BY <3>1, ElementOfSeq DEF Last, DispatchTypes
  <2>3. Clip(q) \in Joints
    BY ClipJoints, TargetsAssumption
  <2> HIDE DEF from
  <2>4. PICK p \in Seq(Joints) : p = Ramp(from, Clip(q), MaxJointStep)
    BY <2>2, <2>3, RampOfJoints, StepsAssumption
  <2>5. /\ Goto("inf", "idle", "splice") /\ points' = [points EXCEPT !["inf"] = p]
        /\ UNCHANGED <<arm, robot_q, last_cmd_q14, estop, ramp>>
    BY <2>1, <2>4 DEF AppendRead, from
  <2>6. /\ Own("inf", p, ramp["inf"])
        /\ points' \in [Threads -> Seq(Joints)] /\ ramp' \in [Threads -> Seq(Joints)]
    BY <2>5 DEF Own, DispatchTypes
  <2>7. /\ arm' \in Joints /\ robot_q' \in Seq(Joints) /\ estop' \in BOOLEAN
        /\ last_cmd_q14' \in {<<>>} \cup {<<c>> : c \in Joints}
    BY <2>5 DEF DispatchTypes
  <2>8. "splice" \in Places \ {"enqueue"}
    BY DEF Places
  <2> QED
    BY <2>5, <2>6, <2>7, <2>8, StepTypes
<1>4. CASE AppendSplice
  <2>1. /\ Goto("inf", "splice", "idle")
        /\ points' = [points EXCEPT !["inf"] = <<>>] /\ ramp' = [ramp EXCEPT !["inf"] = <<>>]
        /\ UNCHANGED <<arm, last_cmd_q14, estop>>
        /\ robot_q' = robot_q \/ robot_q' = robot_q \o points["inf"]
    BY <1>4 DEF AppendSplice, Finish
  <2>2. robot_q \in Seq(Joints) /\ points["inf"] \in Seq(Joints)
    BY DEF DispatchTypes
  <2>3. robot_q \o points["inf"] \in Seq(Joints)
    BY <2>2, ConcatProperties
  <2>4. robot_q' \in Seq(Joints)
    BY <2>1, <2>2, <2>3
  <2>5. /\ Own("inf", <<>>, <<>>)
        /\ points' \in [Threads -> Seq(Joints)] /\ ramp' \in [Threads -> Seq(Joints)]
    BY <2>1 DEF Own, DispatchTypes
  <2>8. /\ arm' \in Joints /\ robot_q' \in Seq(Joints) /\ estop' \in BOOLEAN
        /\ last_cmd_q14' \in {<<>>} \cup {<<q>> : q \in Joints}
    BY <2>1, <2>4, <2>5 DEF DispatchTypes
  <2>9. "idle" \in Places \ {"enqueue"}
    BY DEF Places, HoldPlaces, DrivePlaces
  <2> QED
    BY <2>1, <2>4, <2>5, <2>8, <2>9, StepTypes
<1>5. CASE InfClear
  <2>1. /\ Goto("inf", "idle", "move") /\ robot_q' = <<>>
        /\ UNCHANGED <<arm, last_cmd_q14, estop, points, ramp>>
    BY <1>5 DEF InfClear, localVars
  <2>2. /\ Own("inf", points["inf"], ramp["inf"])
        /\ points' \in [Threads -> Seq(Joints)] /\ ramp' \in [Threads -> Seq(Joints)]
    BY <2>1 DEF Own, DispatchTypes
  <2>8. /\ arm' \in Joints /\ robot_q' \in Seq(Joints) /\ estop' \in BOOLEAN
        /\ last_cmd_q14' \in {<<>>} \cup {<<q>> : q \in Joints}
    BY <2>1, <2>2 DEF DispatchTypes
  <2>9. "move" \in Places \ {"enqueue"}
    BY DEF Places, HoldPlaces, DrivePlaces
  <2> QED
    BY <2>1, <2>2, <2>8, <2>9, StepTypes
<1>6. CASE \E path \in Paths : InfMove(path)
  <2>1. PICK path \in Paths : InfMove(path)
    BY <1>6
  <2>2. CASE estop
    <3>1. /\ Goto("inf", "move", "idle")
          /\ UNCHANGED <<arm, robot_q, last_cmd_q14, estop, points, ramp>>
      BY <2>1, <2>2 DEF InfMove
    <3>2. /\ Own("inf", points["inf"], ramp["inf"])
          /\ points' \in [Threads -> Seq(Joints)] /\ ramp' \in [Threads -> Seq(Joints)]
      BY <3>1 DEF Own, DispatchTypes
    <3>8. /\ arm' \in Joints /\ robot_q' \in Seq(Joints) /\ estop' \in BOOLEAN
          /\ last_cmd_q14' \in {<<>>} \cup {<<q>> : q \in Joints}
      BY <3>1, <3>2 DEF DispatchTypes
    <3>9. "idle" \in Places \ {"enqueue"}
      BY DEF Places, HoldPlaces, DrivePlaces
    <3> QED
      BY <3>1, <3>2, <3>8, <3>9, StepTypes
  <2>3. CASE ~estop
    <3>1. PICK p \in Seq(Joints) :
             p = PathTo(arm, [i \in 1..Len(path) |-> Clip(path[i])], HomeJointStep)
      BY PathTyped DEF DispatchTypes
    <3>2. /\ Goto("inf", "move", "seed") /\ points' = [points EXCEPT !["inf"] = p]
          /\ UNCHANGED <<arm, robot_q, last_cmd_q14, estop, ramp>>
      BY <2>1, <2>3, <3>1 DEF InfMove
    <3>3. /\ Own("inf", p, ramp["inf"])
          /\ points' \in [Threads -> Seq(Joints)] /\ ramp' \in [Threads -> Seq(Joints)]
      BY <3>2 DEF Own, DispatchTypes
    <3>8. /\ arm' \in Joints /\ robot_q' \in Seq(Joints) /\ estop' \in BOOLEAN
          /\ last_cmd_q14' \in {<<>>} \cup {<<q>> : q \in Joints}
      BY <3>2, <3>3 DEF DispatchTypes
    <3>9. "seed" \in Places \ {"enqueue"}
      BY DEF Places, HoldPlaces, DrivePlaces
    <3> QED
      BY <3>2, <3>3, <3>8, <3>9, StepTypes
  <2> QED
    BY <2>2, <2>3
<1> QED
  BY <1>1, <1>2, <1>3, <1>4, <1>5, <1>6 DEF Rel, Inf

\* What the guard does with a target: the thread stops, or streams what leads to it.
Accepts(t, q, r) ==
    /\ ~estop /\ q = Head(points[t])
    /\ r # <<>> /\ r[Len(r)] = q /\ Smooth(r, MaxJointStep)
    /\ last_cmd_q14 = <<>> => r = <<q>>
    /\ last_cmd_q14 # <<>> =>
           /\ Abs(q - last_cmd_q14[1]) <= MaxJointJump
           /\ Abs(r[1] - last_cmd_q14[1]) <= MaxJointStep
           /\ \A i \in 1..Len(r) : Within(r[i], last_cmd_q14[1], q)

LEMMA GuardCases ==
    ASSUME DispatchTypes, NEW t \in Drivers, Guard(t)
    PROVE  /\ pc[t] = "guard" /\ points[t] \in Seq(Joints) /\ points[t] # <<>>
           /\ UNCHANGED <<arm, robot_q, last_cmd_q14, estop>>
           /\ \/ Finish(t, "guard", "idle")
              \/ Finish(t, "guard", "lock")
              \/ \E q \in Joints, r \in Seq(Joints) :
                     /\ Accepts(t, q, r) /\ Goto(t, "guard", "stream")
                     /\ ramp' = [ramp EXCEPT ![t] = r]
                     /\ points' = [points EXCEPT ![t] = Tail(points[t])]
<1> t \in Threads
  BY DEF Threads
<1>1. /\ pc[t] = "guard" /\ points[t] \in Seq(Joints) /\ points[t] # <<>>
      /\ UNCHANGED <<arm, robot_q, last_cmd_q14, estop>>
  BY DEF Guard, DispatchTypes
<1>2. PICK q \in Joints : q = Head(points[t])
  BY <1>1, RestOfPath
<1>3. Clip(q) = q
  BY ClipJoints
<1>4. \/ Finish(t, "guard", "idle")
      \/ Finish(t, "guard", "lock")
      \/ /\ ~estop /\ ~Jumps(q) /\ Goto(t, "guard", "stream")
         /\ ramp' = [ramp EXCEPT ![t] = IF last_cmd_q14 = <<>> THEN <<q>>
                                         ELSE Ramp(last_cmd_q14[1], q, MaxJointStep)]
         /\ points' = [points EXCEPT ![t] = Tail(points[t])]
  BY <1>2, <1>3 DEF Guard
<1>5. CASE /\ ~estop /\ ~Jumps(q) /\ Goto(t, "guard", "stream")
           /\ ramp' = [ramp EXCEPT ![t] = IF last_cmd_q14 = <<>> THEN <<q>>
                                           ELSE Ramp(last_cmd_q14[1], q, MaxJointStep)]
           /\ points' = [points EXCEPT ![t] = Tail(points[t])]
  <2>1. CASE last_cmd_q14 = <<>>
    <3>1. <<q>> \in Seq(Joints) /\ <<q>> # <<>> /\ Len(<<q>>) = 1 /\ <<q>>[1] = q
      OBVIOUS
    <3>2. Smooth(<<q>>, MaxJointStep)
      BY <3>1 DEF Smooth
    <3>3. Accepts(t, q, <<q>>)
      BY <1>2, <1>5, <2>1, <3>1, <3>2 DEF Accepts
    <3>4. ramp' = [ramp EXCEPT ![t] = <<q>>]
      BY <1>5, <2>1
    <3> QED
      BY <1>1, <1>5, <3>1, <3>3, <3>4
  <2>2. CASE last_cmd_q14 # <<>>
    <3>1. PICK c \in Joints : last_cmd_q14 = <<c>>
      BY <2>2 DEF DispatchTypes
    <3>2. last_cmd_q14[1] = c
      BY <3>1
    <3>3. PICK r \in Seq(Joints) : r = Ramp(c, q, MaxJointStep)
      BY RampOfJoints, StepsAssumption
    <3>4. /\ r # <<>> /\ r[Len(r)] = q /\ Abs(r[1] - c) <= MaxJointStep
          /\ Smooth(r, MaxJointStep) /\ \A i \in 1..Len(r) : Within(r[i], c, q)
      BY <3>3, RampOfJoints, StepsAssumption
    <3>5. Abs(q - c) <= MaxJointJump
      <4>1. ~(Abs(q - c) > MaxJointJump)
        BY <1>5, <2>2, <3>2 DEF Jumps
      <4>2. Abs(q - c) \in Int /\ MaxJointJump \in Int
        BY LimitsAssumption, StepsAssumption DEF Abs, Joints
      <4> QED
        BY <4>1, <4>2
    <3>6. Accepts(t, q, r)
      BY <1>2, <1>5, <2>2, <3>2, <3>4, <3>5 DEF Accepts
    <3>7. ramp' = [ramp EXCEPT ![t] = r]
      BY <1>5, <2>2, <3>2, <3>3
    <3> QED
      BY <1>1, <1>5, <3>6, <3>7
  <2> QED
    BY <2>1, <2>2
<1> QED
  BY <1>1, <1>4, <1>5

LEMMA FinishTypes ==
    ASSUME DispatchTypes, NEW t \in Drivers, NEW from, NEW to \in {"idle", "lock"},
           Finish(t, from, to), UNCHANGED <<arm, robot_q, last_cmd_q14, estop>>
    PROVE  DispatchTypes'
<1>1. /\ Goto(t, from, to)
      /\ points' = [points EXCEPT ![t] = <<>>] /\ ramp' = [ramp EXCEPT ![t] = <<>>]
  BY DEF Finish
<1>2. t \in Threads /\ to \in Places \ {"enqueue"} /\ to \in {"idle"} \cup HoldPlaces
  BY DEF Threads, Places, HoldPlaces
<1>3. <<>> \in Seq(Joints)
  OBVIOUS
<1>4. /\ Own(t, <<>>, <<>>)
      /\ points' \in [Threads -> Seq(Joints)] /\ ramp' \in [Threads -> Seq(Joints)]
  BY <1>1, <1>2, <1>3 DEF Own, DispatchTypes
<1>5. /\ arm' \in Joints /\ robot_q' \in Seq(Joints) /\ estop' \in BOOLEAN
      /\ last_cmd_q14' \in {<<>>} \cup {<<q>> : q \in Joints}
  BY DEF DispatchTypes
<1> QED
  BY <1>1, <1>2, <1>4, <1>5, StepTypes

\* A driver takes a step on its way to its target.
LEMMA DriveStepTypes ==
    ASSUME DispatchTypes, NEW t \in Drivers, NEW from, NEW to \in DrivePlaces, Goto(t, from, to),
           arm' \in Joints, UNCHANGED <<robot_q, estop>>,
           last_cmd_q14' \in {<<>>} \cup {<<q>> : q \in Joints},
           NEW p \in Seq(Joints), NEW r \in Seq(Joints),
           points' = [points EXCEPT ![t] = p], ramp' = [ramp EXCEPT ![t] = r],
           to \in {"send", "sent"} => r # <<>>
    PROVE  DispatchTypes'
<1>1. t \in Threads /\ t # "gui" /\ to \in Places \ {"enqueue"} /\ to \notin {"holding", "held"}
  BY DEF Threads, Drivers, Places, DrivePlaces
<1>2. /\ Own(t, p, r)
      /\ points' \in [Threads -> Seq(Joints)] /\ ramp' \in [Threads -> Seq(Joints)]
  BY <1>1, OwnTypes
<1>3. robot_q' \in Seq(Joints) /\ estop' \in BOOLEAN
  BY DEF DispatchTypes
<1> QED
  BY <1>1, <1>2, <1>3, StepTypes

LEMMA DriveTypes ==
    ASSUME DispatchTypes, NEW t \in Drivers, Drive(t)
    PROVE  DispatchTypes'
<1> t \in Threads
  BY DEF Threads
<1>0. /\ points[t] \in Seq(Joints) /\ ramp[t] \in Seq(Joints) /\ arm \in Joints
      /\ points = [points EXCEPT ![t] = points[t]] /\ ramp = [ramp EXCEPT ![t] = ramp[t]]
      /\ last_cmd_q14 \in {<<>>} \cup {<<q>> : q \in Joints}
  BY DEF DispatchTypes
<1>1. CASE Seed(t)
  <2>1. /\ Goto(t, "seed", "guard") /\ UNCHANGED <<arm, robot_q, estop, points, ramp>>
        /\ last_cmd_q14' = IF last_cmd_q14 = <<>> THEN <<arm>> ELSE last_cmd_q14
    BY <1>1 DEF Seed, localVars
  <2>2. last_cmd_q14' \in {<<>>} \cup {<<q>> : q \in Joints} /\ arm' \in Joints
    BY <1>0, <2>1
  <2>3. "guard" \in DrivePlaces
    BY DEF DrivePlaces
  <2> QED
    BY <1>0, <2>1, <2>2, <2>3, DriveStepTypes
<1>2. CASE Guard(t)
  <2>1. UNCHANGED <<arm, robot_q, last_cmd_q14, estop>>
    BY <1>2, GuardCases
  <2>2. CASE Finish(t, "guard", "idle") \/ Finish(t, "guard", "lock")
    BY <2>1, <2>2, FinishTypes
  <2>3. CASE \E q \in Joints, r \in Seq(Joints) :
                 /\ Accepts(t, q, r) /\ Goto(t, "guard", "stream")
                 /\ ramp' = [ramp EXCEPT ![t] = r]
                 /\ points' = [points EXCEPT ![t] = Tail(points[t])]
    <3>1. PICK r \in Seq(Joints) : /\ Goto(t, "guard", "stream")
                                   /\ ramp' = [ramp EXCEPT ![t] = r]
                                   /\ points' = [points EXCEPT ![t] = Tail(points[t])]
      BY <2>3
    <3>2. Tail(points[t]) \in Seq(Joints)
      BY <1>2, GuardCases, RestOfPath
    <3>3. "stream" \in DrivePlaces
      BY DEF DrivePlaces
    <3>4. last_cmd_q14' \in {<<>>} \cup {<<q>> : q \in Joints} /\ arm' \in Joints
      BY <1>0, <2>1
    <3> QED
      BY <2>1, <3>1, <3>2, <3>3, <3>4, DriveStepTypes
  <2> QED
    BY <1>2, <2>2, <2>3, GuardCases
<1>3. CASE TargetsDone(t)
  <2>1. Finish(t, "guard", "idle") /\ UNCHANGED <<arm, robot_q, last_cmd_q14, estop>>
    BY <1>3 DEF TargetsDone
  <2> QED
    BY <2>1, FinishTypes
<1>4. CASE Stream(t)
  <2>1. UNCHANGED <<arm, robot_q, last_cmd_q14, estop>>
    BY <1>4 DEF Stream
  <2>2. last_cmd_q14' \in {<<>>} \cup {<<q>> : q \in Joints} /\ arm' \in Joints
    BY <1>0, <2>1
  <2>3. CASE Finish(t, "stream", "idle")
    <3>1. PICK to \in {"idle", "lock"} : Finish(t, "stream", to)
      BY <2>3
    <3> QED
      BY <2>1, <3>1, FinishTypes
  <2>4. CASE Goto(t, "stream", "guard") /\ UNCHANGED localVars
    <3>1. "guard" \in DrivePlaces /\ UNCHANGED <<points, ramp>>
      BY <2>4 DEF DrivePlaces, localVars
    <3> QED
      BY <1>0, <2>1, <2>2, <2>4, <3>1, DriveStepTypes
  <2>5. CASE ramp[t] # <<>> /\ Goto(t, "stream", "send") /\ UNCHANGED localVars
    <3>1. "send" \in DrivePlaces /\ UNCHANGED <<points, ramp>>
      BY <2>5 DEF DrivePlaces, localVars
    <3> QED
      BY <1>0, <2>1, <2>2, <2>5, <3>1, DriveStepTypes
  <2> QED
    BY <1>4, <2>3, <2>4, <2>5 DEF Stream
<1>5. CASE SendWaypoint(t)
  <2>1. UNCHANGED <<robot_q, last_cmd_q14, estop>> /\ pc[t] = "send"
    BY <1>5 DEF SendWaypoint, Goto, Finish
  <2>2. CASE Goto(t, "send", "sent") /\ arm' = Head(ramp[t]) /\ UNCHANGED localVars
    <3>1. "sent" \in DrivePlaces /\ UNCHANGED <<points, ramp>>
      BY <2>2 DEF DrivePlaces, localVars
    <3>2. ramp[t] # <<>>
      BY <2>1 DEF DispatchTypes
    <3>3. arm' \in Joints
      BY <1>0, <2>2, <3>2, RestOfPath
    <3>4. last_cmd_q14' \in {<<>>} \cup {<<q>> : q \in Joints}
      BY <1>0, <2>1
    <3> QED
      BY <1>0, <2>1, <2>2, <3>1, <3>2, <3>3, <3>4, DriveStepTypes
  <2>3. CASE Finish(t, "send", IF t = "rel" THEN "lock" ELSE "idle") /\ UNCHANGED arm
    <3>1. PICK to \in {"idle", "lock"} : Finish(t, "send", to)
      BY <2>3
    <3> QED
      BY <2>1, <2>3, <3>1, FinishTypes
  <2> QED
    BY <1>5, <2>2, <2>3 DEF SendWaypoint
<1>6. CASE WaypointSent(t)
  <2>1. /\ Goto(t, "sent", "stream") /\ last_cmd_q14' = <<Head(ramp[t])>> /\ pc[t] = "sent"
        /\ ramp' = [ramp EXCEPT ![t] = Tail(ramp[t])]
        /\ UNCHANGED <<arm, robot_q, estop, points>>
    BY <1>6 DEF WaypointSent, Goto
  <2>2. ramp[t] # <<>>
    BY <2>1 DEF DispatchTypes
  <2>3. Head(ramp[t]) \in Joints /\ Tail(ramp[t]) \in Seq(Joints)
    BY <1>0, <2>2, RestOfPath
  <2>4. last_cmd_q14' \in {<<>>} \cup {<<q>> : q \in Joints} /\ arm' \in Joints
    BY <1>0, <2>1, <2>3
  <2>5. "stream" \in DrivePlaces
    BY DEF DrivePlaces
  <2>6. PICK p, r \in Seq(Joints) : /\ points' = [points EXCEPT ![t] = p]
                                    /\ ramp' = [ramp EXCEPT ![t] = r]
    BY <1>0, <2>1, <2>3
  <2>7. UNCHANGED <<robot_q, estop>> /\ Goto(t, "sent", "stream")
    BY <2>1
  <2> QED
    BY <2>4, <2>5, <2>6, <2>7, DriveStepTypes
<1> QED
  BY <1>1, <1>2, <1>3, <1>4, <1>5, <1>6 DEF Drive

LEMMA NextTypes == DispatchTypes /\ [DispatchNext]_dispatchVars => DispatchTypes'
<1> SUFFICES ASSUME DispatchTypes, [DispatchNext]_dispatchVars PROVE DispatchTypes'
  OBVIOUS
<1>1. CASE UNCHANGED dispatchVars
  BY <1>1 DEF dispatchVars, localVars, DispatchTypes
<1>2. CASE Gui \/ TeleopMove
  BY <1>2, GuiTypes
<1>3. CASE Rel \/ Inf
  BY <1>3, RelInfTypes
<1>4. CASE \E t \in Drivers : Drive(t)
  BY <1>4, DriveTypes
<1>5. CASE \E t \in Threads : LockRobot(t)
  BY <1>5, HoldTypes
<1> QED
  BY <1>1, <1>2, <1>3, <1>4, <1>5 DEF DispatchNext

-----------------------------------------------------------------------------
(* The marks.                                                                *)

\* A step of thread t that respects them.
LEMMA MarkedStep ==
    ASSUME DispatchTypes, Marked, NEW t \in Threads, NEW from, NEW to, Goto(t, from, to),
           estop => estop', to \in {"hold", "holding", "held"} => estop' \/ ~Undisturbed,
           last_cmd_q14 # <<>> => last_cmd_q14' # <<>>,
           (t = "rel" /\ to \in DrivePlaces \ {"seed"}) => last_cmd_q14' # <<>> \/ ~Undisturbed
    PROVE  Marked'
<1>1. /\ pc'[t] = to /\ \A u \in Threads \ {t} : pc'[u] = pc[u]
      /\ Overlap(pc') => ~Undisturbed'
      /\ pc'["gui"] = "reset" /\ AtWork(pc') # {} => ~Undisturbed'
      /\ Undisturbed' => Undisturbed
  BY GotoOnly
<1>2. \A u \in Threads : pc'[u] \in {"hold", "holding", "held"} => estop' \/ ~Undisturbed'
  BY <1>1 DEF Marked
<1>3. pc'["rel"] \in DrivePlaces \ {"seed"} => last_cmd_q14' # <<>> \/ ~Undisturbed'
  <2>1. CASE t = "rel"
    BY <1>1, <2>1
  <2>2. CASE t # "rel"
    BY <1>1, <2>2 DEF Marked, Threads, Drivers
  <2> QED
    BY <2>1, <2>2
<1> QED
  BY <1>1, <1>2, <1>3 DEF Marked

\* Whether anybody drives or holds.
LEMMA NobodyAtWork ==
    ASSUME AtWork(pc) = {}
    PROVE  \A t \in Threads : pc[t] \notin DrivePlaces /\ pc[t] \notin {"hold", "holding", "held"}
  BY DEF AtWork, Driving, Holding, DrivePlaces

LEMMA AtWorkOf ==
    ASSUME NEW t \in Threads, pc[t] \in DrivePlaces
    PROVE  AtWork(pc) # {}
  BY DEF AtWork, Driving, DrivePlaces

\* Reset, and teleoperation.
LEMMA ResetMarked ==
    ASSUME DispatchTypes, Marked, ClearEStop \/ ResetReference \/ TeleopMove
    PROVE  /\ Marked'
           /\ Undisturbed' =>
                  \A t \in Threads : pc'[t] \notin DrivePlaces /\ pc'[t] \notin {"hold", "holding", "held"}
<1> "gui" \in Threads /\ "rel" \in Threads /\ "inf" \in Threads
  BY DEF Threads, Drivers
<1> "idle" \notin DrivePlaces /\ "reset" \notin DrivePlaces
  BY DEF DrivePlaces
<1> DEFINE Idle(t) == pc'[t] \notin DrivePlaces /\ pc'[t] \notin {"hold", "holding", "held"}
<1>1. (\A t \in Threads : Idle(t)) => Marked'
  BY DEF Marked, Overlap, Driving, DrivePlaces, AtWork, Holding
<1>2. CASE ClearEStop
  <2>1. Goto("gui", "idle", "reset") /\ UNCHANGED last_cmd_q14
    BY <1>2 DEF ClearEStop
  <2>2. /\ pc'["gui"] = "reset" /\ \A u \in Threads \ {"gui"} : pc'[u] = pc[u]
        /\ AtWork(pc') # {} => ~Undisturbed'
        /\ Undisturbed' => Undisturbed
    BY <2>1, GotoOnly
  <2>3. Undisturbed' => \A t \in Threads : Idle(t)
    BY <2>2 DEF AtWork, Driving, Holding, DrivePlaces
  <2>4. ~Undisturbed' => Marked'
    BY DEF Marked
  <2> QED
    BY <1>1, <2>2, <2>3, <2>4
<1>3. CASE ResetReference
  <2>1. /\ pc["gui"] = "reset" /\ pc' = [pc EXCEPT !["gui"] = "idle"]
        /\ interference' = IF AtWork(pc) = {} THEN "none" ELSE interference
    BY <1>3 DEF ResetReference, DropReference
  <2>2. pc'["gui"] = "idle" /\ \A u \in Threads \ {"gui"} : pc'[u] = pc[u]
    BY <2>1 DEF DispatchTypes
  <2>3. Undisturbed' => AtWork(pc) = {}
    BY <2>1 DEF Undisturbed, Marked
  <2>4. Undisturbed' => \A t \in Threads : Idle(t)
    BY <2>2, <2>3, NobodyAtWork
  <2>5. ~Undisturbed' => Marked'
    BY DEF Marked
  <2> QED
    BY <1>1, <2>3, <2>4, <2>5
<1>4. CASE TeleopMove
  <2>1. /\ UNCHANGED <<estop, pc, last_cmd_q14>>
        /\ interference' = IF AtWork(pc) # {} \/ (~estop /\ last_cmd_q14 # <<>>) THEN "other"
                           ELSE interference
    BY <1>4 DEF TeleopMove
  <2>2. Undisturbed' => Undisturbed /\ AtWork(pc) = {}
    BY <2>1 DEF Undisturbed
  <2>3. Undisturbed' => \A t \in Threads : Idle(t)
    BY <2>1, <2>2, NobodyAtWork
  <2>4. ~Undisturbed' => Marked'
    BY DEF Marked
  <2> QED
    BY <1>1, <2>2, <2>3, <2>4
<1> QED
  BY <1>2, <1>3, <1>4

LEMMA NextMarked == DispatchTypes /\ Marked /\ [DispatchNext]_dispatchVars => Marked'
<1> SUFFICES ASSUME DispatchTypes, Marked, [DispatchNext]_dispatchVars PROVE Marked'
  OBVIOUS
<1> "gui" \in Threads /\ "rel" \in Threads /\ "inf" \in Threads /\ Drivers \subseteq Threads
  BY DEF Threads, Drivers
<1>0. pc["rel"] \in DrivePlaces \ {"seed"} => last_cmd_q14 # <<>> \/ ~Undisturbed
  BY DEF Marked
<1>1. CASE UNCHANGED dispatchVars
  BY <1>1 DEF dispatchVars, Marked, Undisturbed
<1>2. CASE \E subs \in Subs : Release(subs)
  <2>1. Goto("gui", "idle", "enqueue") /\ UNCHANGED <<estop, last_cmd_q14>>
    BY <1>2 DEF Release
  <2> QED
    BY <2>1, MarkedStep
<1>3. CASE EnqueueForRelease
  <2>1. Goto("gui", "enqueue", "idle") /\ UNCHANGED <<estop, last_cmd_q14>>
    BY <1>3 DEF EnqueueForRelease, Finish
  <2> QED
    BY <2>1, MarkedStep
<1>4. CASE EStopButton
  <2>1. Goto("gui", "idle", "lock") /\ UNCHANGED <<estop, last_cmd_q14>>
    BY <1>4 DEF EStopButton
  <2> QED
    BY <2>1, MarkedStep
<1>5. CASE ClearEStop \/ ResetReference \/ TeleopMove
  BY <1>5, ResetMarked
<1>6. CASE RelPop
  <2>1. Goto("rel", "idle", "seed") /\ UNCHANGED <<estop, last_cmd_q14>>
    BY <1>6 DEF RelPop
  <2> QED
    BY <2>1, MarkedStep
<1>7. CASE RelIdle
  <2>1. /\ pc' = pc /\ pc["rel"] = "idle" /\ UNCHANGED estop
        /\ interference' = IF AtWork(pc) = {} THEN "none" ELSE interference
    BY <1>7 DEF RelIdle, DropReference
  <2>2. ~Overlap(pc')
    BY <2>1 DEF Overlap, Driving
  <2>3. "idle" \notin DrivePlaces
    BY DEF DrivePlaces
  <2>4. \A t \in Threads : pc'[t] \in {"hold", "holding", "held"} => estop' \/ ~Undisturbed'
    BY <2>1, NobodyAtWork DEF Marked, Undisturbed
  <2>5. pc'["gui"] = "reset" /\ AtWork(pc') # {} => ~Undisturbed'
    BY <2>1 DEF Marked, Undisturbed
  <2> QED
    BY <2>1, <2>2, <2>3, <2>4, <2>5 DEF Marked
<1>8. CASE Inf
  <2>1. /\ UNCHANGED <<estop, last_cmd_q14>>
        /\ \E from, to \in {"idle", "splice", "move", "seed"} : Goto("inf", from, to)
    <3>1. CASE \E q \in Targets : AppendRead(q)
      BY <3>1 DEF AppendRead
    <3>2. CASE AppendSplice
      BY <3>2 DEF AppendSplice, Finish
    <3>3. CASE InfClear
      BY <3>3 DEF InfClear
    <3>4. CASE \E path \in Paths : InfMove(path)
      BY <3>4 DEF InfMove
    <3> QED
      BY <1>8, <3>1, <3>2, <3>3, <3>4 DEF Inf
  <2>2. PICK from, to \in {"idle", "splice", "move", "seed"} : Goto("inf", from, to)
    BY <2>1
  <2>3. to \notin {"hold", "holding", "held"}
    OBVIOUS
  <2> QED
    BY <2>1, <2>2, <2>3, MarkedStep
<1>9. ASSUME NEW t \in Drivers, Drive(t) PROVE Marked'
  <2>1. CASE Seed(t)
    <3>1. Goto(t, "seed", "guard") /\ UNCHANGED estop /\ last_cmd_q14' # <<>>
      <4>1. /\ Goto(t, "seed", "guard") /\ UNCHANGED estop
            /\ last_cmd_q14' = IF last_cmd_q14 = <<>> THEN <<arm>> ELSE last_cmd_q14
        BY <2>1 DEF Seed
      <4>2. <<arm>> # <<>>
        OBVIOUS
      <4> QED
        BY <4>1, <4>2
    <3> QED
      BY <3>1, MarkedStep
  <2>2. CASE ~Seed(t)
    <3>1. /\ UNCHANGED estop /\ (last_cmd_q14 # <<>> => last_cmd_q14' # <<>>)
          /\ \E from \in DrivePlaces \ {"seed"}, to \in {"idle", "lock"} \cup DrivePlaces :
                 Goto(t, from, to)
      <4> {"guard", "stream", "send", "sent"} \subseteq DrivePlaces \ {"seed"}
        BY DEF DrivePlaces
      <4>1. CASE Guard(t)
        BY <4>1, GuardCases DEF Finish
      <4>2. CASE TargetsDone(t)
        BY <4>2 DEF TargetsDone, Finish
      <4>3. CASE Stream(t)
        BY <4>3 DEF Stream, Finish
      <4>4. CASE SendWaypoint(t)
        BY <4>4 DEF SendWaypoint, Finish
      <4>5. CASE WaypointSent(t)
        <5>1. last_cmd_q14' = <<Head(ramp[t])>> /\ UNCHANGED estop /\ Goto(t, "sent", "stream")
          BY <4>5 DEF WaypointSent
        <5>2. <<Head(ramp[t])>> # <<>>
          OBVIOUS
        <5> QED
          BY <5>1, <5>2
      <4> QED
        BY <1>9, <2>2, <4>1, <4>2, <4>3, <4>4, <4>5 DEF Drive
    <3>2. PICK from \in DrivePlaces \ {"seed"}, to \in {"idle", "lock"} \cup DrivePlaces :
             Goto(t, from, to)
      BY <3>1
    <3>3. to \notin {"hold", "holding", "held"}
      BY DEF DrivePlaces
    <3>4. pc[t] \in DrivePlaces \ {"seed"}
      BY <3>2 DEF Goto
    <3>5. t = "rel" => last_cmd_q14' # <<>> \/ ~Undisturbed
      BY <1>0, <3>1, <3>4
    <3> QED
      BY <3>1, <3>2, <3>3, <3>5, MarkedStep
  <2> QED
    BY <2>1, <2>2
<1>10. ASSUME NEW t \in Threads, LockRobot(t) PROVE Marked'
  <2>0. pc[t] \in {"hold", "holding", "held"} => estop \/ ~Undisturbed
    BY DEF Marked
  <2>1. CASE Lock(t)
    <3>1. Goto(t, "lock", "hold") /\ estop' = TRUE /\ UNCHANGED last_cmd_q14
      BY <2>1 DEF Lock
    <3>2. "hold" \notin DrivePlaces
      BY DEF DrivePlaces
    <3> QED
      BY <3>1, <3>2, MarkedStep
  <2>2. CASE ~Lock(t)
    <3>1. /\ UNCHANGED estop /\ (last_cmd_q14 # <<>> => last_cmd_q14' # <<>>)
          /\ \E from \in {"hold", "holding", "held"}, to \in {"holding", "held", "idle"} :
                 Goto(t, from, to)
      <4>1. CASE Hold(t)
        BY <4>1 DEF Hold
      <4>2. CASE HoldSend(t)
        BY <4>2 DEF HoldSend
      <4>3. CASE HoldSent(t)
        <5>1. /\ last_cmd_q14' = <<Head(ramp[t])>> /\ UNCHANGED estop
              /\ Goto(t, "held", IF Len(ramp[t]) > 1 THEN "holding" ELSE "idle")
          BY <4>3 DEF HoldSent
        <5>2. <<Head(ramp[t])>> # <<>>
          OBVIOUS
        <5> QED
          BY <5>1, <5>2
      <4> QED
        BY <1>10, <2>2, <4>1, <4>2, <4>3 DEF LockRobot
    <3>2. PICK from \in {"hold", "holding", "held"}, to \in {"holding", "held", "idle"} :
             Goto(t, from, to)
      BY <3>1
    <3>3. pc[t] = from
      BY <3>2 DEF Goto
    <3>4. estop' \/ ~Undisturbed
      BY <2>0, <3>1, <3>3
    <3>5. to \notin DrivePlaces
      BY DEF DrivePlaces
    <3> QED
      BY <3>1, <3>2, <3>4, <3>5, MarkedStep
  <2> QED
    BY <2>1, <2>2
<1> QED
  BY <1>1, <1>2, <1>3, <1>4, <1>5, <1>6, <1>7, <1>8, <1>9, <1>10 DEF DispatchNext, Gui, Rel

-----------------------------------------------------------------------------
(* The courses of the drivers.                                               *)

Courses == (\A t \in Drivers : OnCourse(t)) /\ Together /\ InPath /\ ReferenceTruthful

\* Of a disturbed driver nothing is claimed.
LEMMA DisturbedCourses == ASSUME ~Undisturbed' PROVE Courses'
  BY DEF Courses, OnCourse, Together, InPath, ReferenceTruthful

\* Unless the overlap is noted the other driver rests.
LEMMA Alone ==
    ASSUME Marked, Undisturbed, NEW t \in Drivers, pc[t] \in DrivePlaces,
           NEW u \in Drivers, u # t
    PROVE  pc[u] \notin DrivePlaces
  BY DEF Marked, Overlap, Driving, Drivers, DrivePlaces

LEMMA SpotsKept ==
    ASSUME arm' = arm,
           \A t \in Threads : pc'[t] \in {"holding", "held"} =>
               pc[t] \in {"holding", "held"} /\ Elements(ramp'[t]) \subseteq Elements(ramp[t])
    PROVE  Spots' \subseteq Spots
<1> SUFFICES ASSUME NEW v \in Spots' PROVE v \in Spots
  OBVIOUS
<1>1. CASE v = arm'
  BY <1>1 DEF Spots
<1>2. CASE \E t \in Threads : pc'[t] \in {"holding", "held"} /\ v \in Elements(ramp'[t])
  <2>1. PICK t \in Threads : pc'[t] \in {"holding", "held"} /\ v \in Elements(ramp'[t])
    BY <1>2
  <2>2. t \in Holders /\ v \in Elements(ramp[t])
    BY <2>1 DEF Holders
  <2> QED
    BY <2>2 DEF Spots
<1>3. v = arm' \/ \E t \in Threads : pc'[t] \in {"holding", "held"} /\ v \in Elements(ramp'[t])
  BY DEF Spots, Holders, Elements
<1> QED
  BY <1>1, <1>2, <1>3

\* Without a latched E-stop nobody holds.
LEMMA SpotsFree ==
    ASSUME Marked, ~estop, Undisturbed
    PROVE  Spots = {arm}
<1>1. Holders = {}
  BY DEF Marked, Holders
<1> QED
  BY <1>1 DEF Spots

\* A driver that does not move stays on course.
LEMMA StaysOnCourse ==
    ASSUME NEW t \in Drivers, OnCourse(t), pc'[t] = pc[t], ramp'[t] = ramp[t],
           Undisturbed' => Undisturbed, ~estop' => ~estop /\ arm' = arm, Spots' \subseteq Spots
    PROVE  OnCourse(t)'
<1> SUFFICES ASSUME Undisturbed', pc'[t] \in {"stream", "send", "sent"}
             PROVE  /\ Smooth(ramp'[t], MaxJointStep)
                    /\ ramp'[t] # <<>> => \A v \in Spots' \cup Elements(ramp'[t]) :
                                              Abs(ramp'[t][Len(ramp'[t])] - v) <= MaxJointJump
                    /\ (~estop' /\ pc'[t] # "sent" /\ ramp'[t] # <<>>) =>
                           Abs(ramp'[t][1] - arm') <= MaxJointStep
                    /\ (~estop' /\ pc'[t] = "sent") => arm' = ramp'[t][1]
  BY DEF OnCourse, Elements, Smooth
<1>1. /\ Smooth(ramp[t], MaxJointStep)
      /\ ramp[t] # <<>> => \A v \in Spots \cup Elements(ramp[t]) :
                               Abs(ramp[t][Len(ramp[t])] - v) <= MaxJointJump
      /\ (~estop /\ pc[t] # "sent" /\ ramp[t] # <<>>) => Abs(ramp[t][1] - arm) <= MaxJointStep
      /\ (~estop /\ pc[t] = "sent") => arm = ramp[t][1]
  BY DEF OnCourse
<1> QED
  BY <1>1

\* Nothing that can be sent or held is new.
LEMMA StayTogether ==
    ASSUME Together, estop' => estop, Undisturbed' => Undisturbed,
           Spots' \cup Closing' \subseteq Spots \cup Closing
    PROVE  Together'
  BY DEF Together

\* The path goes on from where it did.
LEMMA StaysInPath ==
    ASSUME InPath, ~estop' => ~estop, Undisturbed' => Undisturbed,
           Driving(pc', "inf") => Driving(pc, "inf") /\ points'["inf"] = points["inf"]
                                  /\ PathEnd' = PathEnd
    PROVE  InPath'
<1> SUFFICES ASSUME ~estop', Undisturbed', Driving(pc', "inf")
             PROVE  /\ Smooth(points'["inf"], HomeJointStep)
                    /\ points'["inf"] # <<>> => Abs(points'["inf"][1] - PathEnd') <= HomeJointStep
  BY DEF InPath, Smooth
<1> QED
  BY DEF InPath

\* Steps that neither send a command nor set a course.
LEMMA QuietStep ==
    ASSUME DispatchInv, UNCHANGED <<arm, estop, last_cmd_q14>>, Undisturbed' => Undisturbed,
           pc["gui"] = "reset" => pc'["gui"] = "reset",
           \A t \in Threads :
               \/ pc'[t] = pc[t] /\ ramp'[t] = ramp[t] /\ points'[t] = points[t]
               \/ /\ pc[t] \notin {"sent", "holding", "held"}
                  /\ pc'[t] \notin {"stream", "send", "sent", "holding", "held"},
           \/ pc'["inf"] = pc["inf"] /\ ramp'["inf"] = ramp["inf"] /\ points'["inf"] = points["inf"]
           \/ pc'["inf"] \notin DrivePlaces
           \/ InPath'
    PROVE  Courses'
<1> Drivers \subseteq Threads /\ "inf" \in Threads
  BY DEF Threads, Drivers
<1>1. Spots' \subseteq Spots
  BY SpotsKept
<1>2. Closing' \subseteq Closing
  BY DEF Closing
<1>3. ASSUME NEW t \in Drivers PROVE OnCourse(t)'
  <2>1. CASE pc'[t] = pc[t] /\ ramp'[t] = ramp[t]
    BY <1>1, <2>1, StaysOnCourse DEF DispatchInv
  <2>2. CASE pc'[t] \notin {"stream", "send", "sent"}
    BY <2>2 DEF OnCourse
  <2> QED
    BY <2>1, <2>2
<1>4. Together'
  BY <1>1, <1>2, StayTogether DEF DispatchInv
<1>5. InPath'
  <2>1. CASE pc'["inf"] = pc["inf"] /\ ramp'["inf"] = ramp["inf"] /\ points'["inf"] = points["inf"]
    <3>1. PathEnd' = PathEnd
      BY <2>1 DEF PathEnd
    <3> QED
      BY <2>1, <3>1, StaysInPath DEF DispatchInv, Driving
  <2>2. CASE pc'["inf"] \notin DrivePlaces
    BY <2>2 DEF InPath, Driving, DrivePlaces
  <2> QED
    BY <2>1, <2>2
<1>6. ReferenceTruthful'
  BY DEF DispatchInv, ReferenceTruthful
<1> QED
  BY <1>3, <1>4, <1>5, <1>6 DEF Courses

\* A driver that goes on is alone, unless the overlap is noted.
LEMMA DriverAlone ==
    ASSUME DispatchTypes, Marked, NEW t \in Drivers, pc[t] \in DrivePlaces,
           NEW from, NEW to, Goto(t, from, to)
    PROVE  Undisturbed' => /\ Undisturbed
                           /\ \A u \in Drivers \ {t} :
                                  u \in Threads /\ pc[u] \notin DrivePlaces /\ pc'[u] \notin DrivePlaces
<1> t \in Threads
  BY DEF Threads
<1>1. /\ Undisturbed' => Undisturbed
      /\ \A u \in Threads \ {t} : pc'[u] = pc[u]
  BY GotoOnly
<1> QED
  BY <1>1, Alone DEF Threads

\* ... and then only its own course, and its own path, matter.
LEMMA OwnCourse ==
    ASSUME DispatchTypes, Marked, NEW t \in Drivers, pc[t] \in DrivePlaces,
           NEW from, NEW to, Goto(t, from, to),
           Undisturbed' => OnCourse(t)',
           t = "inf" /\ Undisturbed' => InPath',
           Together', ReferenceTruthful'
    PROVE  Courses'
<1>1. Undisturbed' => \A u \in Drivers \ {t} : pc'[u] \notin DrivePlaces
  BY DriverAlone
<1>2. ASSUME NEW u \in Drivers PROVE OnCourse(u)'
  <2>1. CASE ~Undisturbed'
    BY <2>1 DEF OnCourse
  <2>2. CASE Undisturbed' /\ u = t
    BY <2>2
  <2>3. CASE Undisturbed' /\ u # t
    BY <1>1, <2>3 DEF OnCourse, DrivePlaces
  <2> QED
    BY <2>1, <2>2, <2>3
<1>3. InPath'
  <2>1. CASE ~Undisturbed'
    BY <2>1 DEF InPath
  <2>2. CASE Undisturbed' /\ t = "inf"
    BY <2>2
  <2>3. CASE Undisturbed' /\ t # "inf"
    BY <1>1, <2>3 DEF InPath, Driving, DrivePlaces, Drivers
  <2> QED
    BY <2>1, <2>2, <2>3
<1> QED
  BY <1>2, <1>3 DEF Courses

LEMMA SeedCourses ==
    ASSUME DispatchInv, NEW t \in Drivers, Seed(t)
    PROVE  Courses'
<1> t \in Threads /\ Drivers \subseteq Threads /\ "inf" \in Threads
  BY DEF Threads, Drivers
<1>1. /\ Goto(t, "seed", "guard")
      /\ last_cmd_q14' = IF last_cmd_q14 = <<>> THEN <<arm>> ELSE last_cmd_q14
      /\ UNCHANGED <<arm, robot_q, estop, points, ramp>>
  BY DEF Seed, localVars
<1>2. /\ pc[t] = "seed" /\ pc'[t] = "guard" /\ \A u \in Threads \ {t} : pc'[u] = pc[u]
      /\ pc'["gui"] = pc["gui"]
      /\ Undisturbed' => Undisturbed
  BY <1>1, GotoOnly DEF DispatchInv, Threads, Drivers
<1>3. Spots' \subseteq Spots
  BY <1>1, <1>2, SpotsKept
<1>4. Closing' \subseteq Closing
  BY <1>1, <1>2 DEF Closing
<1>5. Together'
  BY <1>1, <1>2, <1>3, <1>4, StayTogether DEF DispatchInv
<1>6. ReferenceTruthful'
  <2> SUFFICES ASSUME ~estop', Undisturbed', pc'["gui"] # "reset",
                      \A u \in Threads : pc'[u] \notin {"sent", "held"}
               PROVE  last_cmd_q14' \in {<<>>, <<arm'>>}
    BY DEF ReferenceTruthful
  <2>1. last_cmd_q14 \in {<<>>, <<arm>>}
    BY <1>1, <1>2 DEF DispatchInv, ReferenceTruthful
  <2> QED
    BY <1>1, <2>1
<1>7. OnCourse(t)'
  BY <1>2 DEF OnCourse
<1>8. t = "inf" => InPath'
  <2> SUFFICES ASSUME t = "inf" PROVE InPath'
    OBVIOUS
  <2>1. PathEnd' = PathEnd /\ Driving(pc, "inf")
    BY <1>1, <1>2 DEF PathEnd, Driving
  <2> QED
    BY <1>1, <1>2, <2>1, StaysInPath DEF DispatchInv
<1> QED
  BY <1>1, <1>2, <1>5, <1>6, <1>7, <1>8, OwnCourse DEF DispatchInv, DrivePlaces

\* An accepted target: the waypoints lead to it from the arms, or are the target
\* itself, a step from where the path had come to.
LEMMA AcceptCourses ==
    ASSUME DispatchInv, NEW t \in Drivers, NEW q \in Joints, NEW r \in Seq(Joints),
           Accepts(t, q, r), Goto(t, "guard", "stream"),
           ramp' = [ramp EXCEPT ![t] = r], points' = [points EXCEPT ![t] = Tail(points[t])],
           points[t] # <<>>, UNCHANGED <<arm, last_cmd_q14, estop>>
    PROVE  Courses'
<1> SUFFICES ASSUME Undisturbed' PROVE Courses'
  BY DisturbedCourses
<1> t \in Threads /\ Drivers \subseteq Threads /\ DispatchTypes /\ Marked /\ t # "gui"
  BY DEF Threads, Drivers, DispatchInv
<1> HomeJointStep \in Nat /\ MaxJointStep \in Nat /\ MaxJointJump \in Nat
    /\ HomeJointStep <= MaxJointStep /\ MaxJointStep < MaxJointJump
  BY StepsAssumption
<1> Joints \subseteq Int /\ arm \in Joints /\ points[t] \in Seq(Joints)
  BY LimitsAssumption DEF Joints, DispatchTypes
<1>1. /\ pc[t] = "guard" /\ pc'[t] = "stream" /\ \A u \in Threads \ {t} : pc'[u] = pc[u]
      /\ Undisturbed /\ pc'["gui"] = pc["gui"]
  BY GotoOnly DEF Threads
<1>2. /\ ramp'[t] = r /\ points'[t] = Tail(points[t])
      /\ \A u \in Threads \ {t} : ramp'[u] = ramp[u] /\ points'[u] = points[u]
  BY DEF DispatchTypes
<1>3. pc[t] \in DrivePlaces /\ ~estop /\ ~estop'
  BY <1>1 DEF Accepts, DrivePlaces
<1>4. Spots' \subseteq {arm}
  <2>1. \A u \in Threads : pc'[u] \in {"holding", "held"} =>
               pc[u] \in {"holding", "held"} /\ Elements(ramp'[u]) \subseteq Elements(ramp[u])
    BY <1>1, <1>2
  <2> QED
    BY <1>1, <1>3, <2>1, SpotsKept, SpotsFree
<1>5. ASSUME Undisturbed'
      PROVE  /\ Smooth(r, MaxJointStep) /\ Abs(r[1] - arm) <= MaxJointStep
             /\ Abs(q - arm) <= MaxJointJump
             /\ \A i \in 1..Len(r) : Abs(q - r[i]) <= MaxJointJump
  <2>1. \A u \in Drivers \ {t} : pc[u] \notin DrivePlaces
    BY <1>3, <1>5, DriverAlone
  <2>2. \A u \in Threads : pc[u] \notin {"sent", "held"}
    BY <1>1, <1>3, <2>1 DEF DispatchTypes, Marked, DrivePlaces, HoldPlaces, Threads
  <2>0. pc["gui"] # "reset"
    BY <1>1, <1>3, AtWorkOf DEF Marked
  <2>3. last_cmd_q14 \in {<<>>, <<arm>>} /\ Undisturbed
    BY <1>1, <1>3, <2>0, <2>2 DEF DispatchInv, ReferenceTruthful
  <2>4. CASE last_cmd_q14 = <<>>
    <3>1. t = "inf"
      BY <1>1, <2>4 DEF Marked, DrivePlaces, Drivers
    <3>2. Abs(points["inf"][1] - arm) <= HomeJointStep
      BY <1>1, <1>3, <2>3, <3>1 DEF DispatchInv, InPath, Driving, PathEnd
    <3>3. q = points[t][1]
      BY RestOfPath DEF Accepts
    <3>4. Abs(q - arm) \in Int
      BY DEF Abs
    <3>9. Abs(q - arm) <= HomeJointStep
      BY <3>1, <3>2, <3>3
    <3>5. Len(<<q>>) = 1 /\ <<q>>[1] = q /\ r = <<q>>
      BY <2>4 DEF Accepts
    <3>6. Abs(q - q) = 0
      BY DEF Abs
    <3>7. \A i \in 1..Len(r) : r[i] = q
      BY <3>5
    <3>8. Smooth(r, MaxJointStep)
      BY DEF Accepts
    <3> QED
      <4>1. PICK n \in Int : n = Abs(q - arm)
        BY <3>4
      <4>2. Abs(q - arm) <= MaxJointStep /\ Abs(q - arm) <= MaxJointJump
        BY <3>9, <4>1
      <4>3. r[1] = q
        BY <3>5
      <4>4. \A i \in 1..Len(r) : Abs(q - r[i]) <= MaxJointJump
        BY <3>6, <3>7
      <4> QED
        BY <3>8, <4>2, <4>3, <4>4
  <2>5. CASE last_cmd_q14 = <<arm>>
    <3>1. last_cmd_q14 # <<>> /\ last_cmd_q14[1] = arm
      BY <2>5
    <3>2. /\ Smooth(r, MaxJointStep) /\ Abs(q - arm) <= MaxJointJump
          /\ Abs(r[1] - arm) <= MaxJointStep /\ \A i \in 1..Len(r) : Within(r[i], arm, q)
      BY <3>1 DEF Accepts
    <3>3. ASSUME NEW i \in 1..Len(r) PROVE Abs(q - r[i]) <= MaxJointJump
      <4>1. PICK v \in Int : v = r[i]
        BY ElementOfSeq
      <4>2. Within(v, arm, q)
        BY <3>2, <4>1
      <4> QED
        BY <3>2, <4>1, <4>2 DEF Within, Abs
    <3> QED
      BY <3>2, <3>3
  <2> QED
    BY <2>3, <2>4, <2>5
<1>6. Undisturbed' => OnCourse(t)'
  <2> SUFFICES ASSUME Undisturbed' PROVE OnCourse(t)'
    OBVIOUS
  <2>1. /\ Smooth(r, MaxJointStep) /\ Abs(r[1] - arm) <= MaxJointStep
        /\ Abs(q - arm) <= MaxJointJump
        /\ \A i \in 1..Len(r) : Abs(q - r[i]) <= MaxJointJump
    BY <1>5
  <2>2. r # <<>> /\ r[Len(r)] = q
    BY DEF Accepts
  <2>3. \A v \in Spots' \cup Elements(r) : Abs(q - v) <= MaxJointJump
    BY <1>4, <2>1 DEF Elements
  <2>4. /\ Smooth(ramp'[t], MaxJointStep) /\ ramp'[t] # <<>>
        /\ \A v \in Spots' \cup Elements(ramp'[t]) :
               Abs(ramp'[t][Len(ramp'[t])] - v) <= MaxJointJump
        /\ Abs(ramp'[t][1] - arm') <= MaxJointStep /\ pc'[t] # "sent"
    BY <1>1, <1>2, <2>1, <2>2, <2>3
  <2> QED
    BY <2>4 DEF OnCourse, Elements, Smooth
<1>7. t = "inf" /\ Undisturbed' => InPath'
  <2> SUFFICES ASSUME t = "inf", Undisturbed' PROVE InPath'
    OBVIOUS
  <2>1. Smooth(points["inf"], HomeJointStep)
    BY <1>1, <1>3 DEF DispatchInv, InPath, Driving
  <2>2. /\ Smooth(Tail(points["inf"]), HomeJointStep)
        /\ Tail(points["inf"]) # <<>> =>
               Tail(points["inf"])[1] = points["inf"][2] /\ 2 \in 2..Len(points["inf"])
        /\ q = points["inf"][1]
    BY <2>1, RestOfPath DEF Accepts
  <2>3. Tail(points["inf"]) # <<>> => Abs(Tail(points["inf"])[1] - q) <= HomeJointStep
    <3> SUFFICES ASSUME Tail(points["inf"]) # <<>>
                 PROVE  Abs(Tail(points["inf"])[1] - q) <= HomeJointStep
      OBVIOUS
    <3>1. Abs(points["inf"][2] - points["inf"][2 - 1]) <= HomeJointStep
      BY <2>1, <2>2 DEF Smooth
    <3>2. 2 - 1 = 1
      OBVIOUS
    <3>3. Abs(points["inf"][2] - points["inf"][1]) <= HomeJointStep
      BY <3>1, <3>2
    <3> QED
      BY <2>2, <3>3
  <2>4. PathEnd' = q
    <3>1. pc'["inf"] = "stream" /\ ramp'["inf"] # <<>> /\ ramp'["inf"][Len(ramp'["inf"])] = q
      BY <1>1, <1>2 DEF Accepts
    <3> QED
      BY <3>1 DEF PathEnd
  <2>5. points'["inf"] = Tail(points["inf"])
    BY <1>2
  <2>6. /\ Smooth(points'["inf"], HomeJointStep)
        /\ points'["inf"] # <<>> => Abs(points'["inf"][1] - PathEnd') <= HomeJointStep
    BY <2>2, <2>3, <2>4, <2>5
  <2> QED
    BY <2>6 DEF InPath, Smooth
<1>8. Together'
  BY <1>3 DEF Together
<1>9. ReferenceTruthful'
  <2> SUFFICES ASSUME pc'["gui"] # "reset", \A u \in Threads : pc'[u] \notin {"sent", "held"}
               PROVE  last_cmd_q14' \in {<<>>, <<arm'>>}
    BY DEF ReferenceTruthful
  <2>1. \A u \in Threads : pc[u] \notin {"sent", "held"}
    BY <1>1
  <2> QED
    BY <1>1, <1>3, <2>1 DEF DispatchInv, ReferenceTruthful
<1> QED
  BY <1>3, <1>6, <1>7, <1>8, <1>9, OwnCourse

\* A waypoint on its way out: the arms take its place.
LEMMA SendCourses ==
    ASSUME DispatchInv, NEW t \in Drivers, Goto(t, "send", "sent"), arm' = Head(ramp[t]),
           UNCHANGED <<last_cmd_q14, estop, points, ramp>>
    PROVE  Courses'
<1> t \in Threads /\ Drivers \subseteq Threads /\ DispatchTypes /\ Marked /\ ramp[t] \in Seq(Joints)
  BY DEF Threads, DispatchInv, DispatchTypes
<1>1. /\ pc[t] = "send" /\ pc'[t] = "sent" /\ \A u \in Threads \ {t} : pc'[u] = pc[u]
      /\ Undisturbed' => Undisturbed
  BY GotoOnly
<1>2. pc[t] \in DrivePlaces /\ ramp[t] # <<>>
  BY <1>1 DEF DrivePlaces, DispatchTypes
<1>3. arm' = ramp[t][1] /\ 1 \in 1..Len(ramp[t]) /\ Len(ramp[t]) \in 1..Len(ramp[t])
  BY <1>2, RestOfPath, EmptySeq
<1>4. Spots' \subseteq Spots \cup {ramp[t][1]}
  <2> SUFFICES ASSUME NEW v \in Spots' PROVE v \in Spots \cup {ramp[t][1]}
    OBVIOUS
  <2>1. v = arm' \/ \E u \in Threads : pc'[u] \in {"holding", "held"} /\ v \in Elements(ramp'[u])
    BY DEF Spots, Holders, Elements
  <2>2. ASSUME NEW u \in Threads, pc'[u] \in {"holding", "held"}, v \in Elements(ramp'[u])
        PROVE  v \in Spots
    <3>1. u \in Holders /\ v \in Elements(ramp[u])
      BY <1>1, <2>2 DEF Holders
    <3> QED
      BY <3>1 DEF Spots
  <2> QED
    BY <1>3, <2>1, <2>2
<1>5. ramp[t][1] \in Closing
  BY <1>1 DEF Closing
<1>6. Closing' \subseteq Closing
  BY <1>1 DEF Closing
<1>7. Together'
  BY <1>1, <1>4, <1>5, <1>6, StayTogether DEF DispatchInv
<1>8. Undisturbed' => OnCourse(t)'
  <2> SUFFICES ASSUME Undisturbed' PROVE OnCourse(t)'
    OBVIOUS
  <2>1. /\ Smooth(ramp[t], MaxJointStep)
        /\ \A v \in Spots \cup Elements(ramp[t]) :
               Abs(ramp[t][Len(ramp[t])] - v) <= MaxJointJump
    BY <1>1, <1>2 DEF DispatchInv, OnCourse
  <2>2. ramp[t][1] \in Elements(ramp[t])
    BY <1>3 DEF Elements
  <2>3. \A v \in Spots' \cup Elements(ramp[t]) : Abs(ramp[t][Len(ramp[t])] - v) <= MaxJointJump
    BY <1>4, <2>1, <2>2
  <2>4. /\ Smooth(ramp'[t], MaxJointStep)
        /\ \A v \in Spots' \cup Elements(ramp'[t]) :
               Abs(ramp'[t][Len(ramp'[t])] - v) <= MaxJointJump
        /\ pc'[t] = "sent" /\ arm' = ramp'[t][1]
    BY <1>1, <1>3, <2>1, <2>3
  <2> QED
    BY <2>4 DEF OnCourse, Elements, Smooth
<1>9. t = "inf" /\ Undisturbed' => InPath'
  <2>1. t = "inf" => Driving(pc, "inf") /\ PathEnd' = PathEnd
    BY <1>1, <1>2 DEF Driving, PathEnd
  <2> QED
    BY <1>1, <2>1, StaysInPath DEF DispatchInv
<1>10. ReferenceTruthful'
  BY <1>1 DEF ReferenceTruthful
<1> QED
  BY <1>2, <1>7, <1>8, <1>9, <1>10, OwnCourse

\* The reference follows it.
LEMMA SentCourses ==
    ASSUME DispatchInv, NEW t \in Drivers, WaypointSent(t)
    PROVE  Courses'
<1> t \in Threads /\ Drivers \subseteq Threads /\ DispatchTypes /\ Marked /\ ramp[t] \in Seq(Joints)
  BY DEF Threads, DispatchInv, DispatchTypes
<1> MaxJointStep \in Nat
  BY StepsAssumption
<1>0. /\ Goto(t, "sent", "stream") /\ last_cmd_q14' = <<Head(ramp[t])>>
      /\ ramp' = [ramp EXCEPT ![t] = Tail(ramp[t])]
      /\ UNCHANGED <<arm, robot_q, estop, points>>
  BY DEF WaypointSent
<1>1. /\ pc[t] = "sent" /\ pc'[t] = "stream" /\ \A u \in Threads \ {t} : pc'[u] = pc[u]
      /\ Undisturbed' => Undisturbed
  BY <1>0, GotoOnly
<1>2. pc[t] \in DrivePlaces /\ ramp[t] # <<>>
  BY <1>1 DEF DrivePlaces, DispatchTypes
<1>3. PICK s \in Seq(Joints) : s = ramp[t] /\ s # <<>>
  BY <1>2
<1>4. ramp'[t] = Tail(s) /\ \A u \in Threads \ {t} : ramp'[u] = ramp[u]
  BY <1>0, <1>3 DEF DispatchTypes
<1>5. /\ Head(s) = s[1] /\ Elements(Tail(s)) \subseteq Elements(s)
      /\ Tail(s) # <<>> => Tail(s)[1] = s[2] /\ 2 \in 2..Len(s)
                           /\ Tail(s)[Len(Tail(s))] = s[Len(s)]
      /\ Tail(s) = <<>> => Len(s) = 1
      /\ Smooth(s, MaxJointStep) => Smooth(Tail(s), MaxJointStep)
  BY <1>3, RestOfPath
<1>6. Spots' \subseteq Spots
  BY <1>0, <1>1, <1>4, SpotsKept
<1>7. Closing' \subseteq Closing
  BY <1>1, <1>4 DEF Closing
<1>8. Together'
  BY <1>0, <1>1, <1>6, <1>7, StayTogether DEF DispatchInv
<1>9. ASSUME Undisturbed'
      PROVE  /\ Smooth(s, MaxJointStep)
             /\ \A v \in Spots \cup Elements(s) : Abs(s[Len(s)] - v) <= MaxJointJump
             /\ ~estop => arm = s[1]
  BY <1>1, <1>3, <1>9 DEF DispatchInv, OnCourse
<1>10. Undisturbed' => OnCourse(t)'
  <2> SUFFICES ASSUME Undisturbed' PROVE OnCourse(t)'
    OBVIOUS
  <2>1. Smooth(ramp'[t], MaxJointStep)
    BY <1>4, <1>5, <1>9
  <2>2. ASSUME ramp'[t] # <<>>
        PROVE  /\ \A v \in Spots' \cup Elements(ramp'[t]) :
                      Abs(ramp'[t][Len(ramp'[t])] - v) <= MaxJointJump
               /\ ~estop' => Abs(ramp'[t][1] - arm') <= MaxJointStep
    <3>1. Abs(s[2] - s[2 - 1]) <= MaxJointStep /\ 2 - 1 = 1
      BY <1>4, <1>5, <1>9, <2>2 DEF Smooth
    <3>2. ~estop' => Abs(ramp'[t][1] - arm') <= MaxJointStep
      BY <1>0, <1>4, <1>5, <1>9, <2>2, <3>1
    <3> QED
      BY <1>4, <1>5, <1>6, <1>9, <2>2, <3>2
  <2> QED
    BY <1>1, <2>1, <2>2 DEF OnCourse, Elements, Smooth
<1>11. t = "inf" /\ Undisturbed' => InPath'
  <2> SUFFICES ASSUME t = "inf", Undisturbed', ~estop' PROVE InPath'
    BY DEF InPath
  <2>1. PathEnd' = PathEnd
    <3>1. CASE Tail(s) = <<>>
      <4>1. PathEnd' = arm'
        BY <1>4, <3>1 DEF PathEnd
      <4>2. PathEnd = s[1]
        BY <1>1, <1>3, <1>5, <3>1 DEF PathEnd
      <4> QED
        BY <1>0, <1>9, <4>1, <4>2
    <3>2. CASE Tail(s) # <<>>
      BY <1>1, <1>3, <1>4, <1>5, <3>2 DEF PathEnd
    <3> QED
      BY <3>1, <3>2
  <2>2. Driving(pc, "inf") /\ points'["inf"] = points["inf"]
    BY <1>0, <1>1 DEF Driving
  <2>3. ~estop' => ~estop
    BY <1>0
  <2> QED
    BY <1>1, <2>1, <2>2, <2>3, StaysInPath DEF DispatchInv
<1>12. ReferenceTruthful'
  BY <1>0, <1>3, <1>5, <1>9 DEF ReferenceTruthful
<1> QED
  BY <1>0, <1>2, <1>8, <1>10, <1>11, <1>12, OwnCourse

\* From the test of the E-stop to the command.
LEMMA StreamCourses ==
    ASSUME DispatchInv, NEW t \in Drivers, Stream(t)
    PROVE  Courses'
<1> t \in Threads /\ Drivers \subseteq Threads /\ DispatchTypes /\ Marked /\ "inf" \in Threads
  BY DEF Threads, DispatchInv, Drivers
<1> "gui" \in Threads \ {t}
  BY DEF Threads, Drivers
<1>0. UNCHANGED <<arm, robot_q, last_cmd_q14, estop>>
  BY DEF Stream
<1>1. CASE ramp[t] = <<>> /\ Goto(t, "stream", "guard") /\ UNCHANGED localVars
  <2>1. /\ pc[t] = "stream" /\ pc'[t] = "guard" /\ \A u \in Threads \ {t} : pc'[u] = pc[u]
        /\ Undisturbed' => Undisturbed
    BY <1>1, GotoOnly
  <2>2. UNCHANGED <<points, ramp>>
    BY <1>1 DEF localVars
  <2>3. t = "inf" => InPath'
    <3> SUFFICES ASSUME t = "inf" PROVE InPath'
      OBVIOUS
    <3>1. Driving(pc, "inf") /\ PathEnd' = PathEnd
      BY <1>0, <1>1, <2>1, <2>2 DEF Driving, PathEnd
    <3> QED
      BY <1>0, <2>1, <2>2, <3>1, StaysInPath DEF DispatchInv
  <2> QED
    BY <1>0, <2>1, <2>2, <2>3, QuietStep
<1>2. CASE ramp[t] # <<>> /\ estop /\ Finish(t, "stream", "idle")
  <2>1. Goto(t, "stream", "idle") /\ points' = [points EXCEPT ![t] = <<>>]
        /\ ramp' = [ramp EXCEPT ![t] = <<>>]
    BY <1>2 DEF Finish
  <2>2. /\ pc[t] = "stream" /\ pc'[t] = "idle" /\ \A u \in Threads \ {t} : pc'[u] = pc[u]
        /\ Undisturbed' => Undisturbed
    BY <2>1, GotoOnly
  <2>3. \A u \in Threads \ {t} : ramp'[u] = ramp[u] /\ points'[u] = points[u]
    BY <2>1 DEF DispatchTypes
  <2>4. "idle" \notin DrivePlaces
    BY DEF DrivePlaces
  <2> QED
    BY <1>0, <2>2, <2>3, <2>4, QuietStep
<1>3. CASE ramp[t] # <<>> /\ ~estop /\ Goto(t, "stream", "send") /\ UNCHANGED localVars
  <2>1. /\ pc[t] = "stream" /\ pc'[t] = "send" /\ \A u \in Threads \ {t} : pc'[u] = pc[u]
        /\ Undisturbed' => Undisturbed
    BY <1>3, GotoOnly
  <2>2. UNCHANGED <<points, ramp>> /\ pc[t] \in DrivePlaces
    BY <1>3, <2>1 DEF localVars, DrivePlaces
  <2>3. Spots' \subseteq Spots
    BY <1>0, <2>1, <2>2, SpotsKept
  <2>4. Undisturbed' => OnCourse(t)'
    <3> SUFFICES ASSUME Undisturbed' PROVE OnCourse(t)'
      OBVIOUS
    <3>1. /\ Smooth(ramp[t], MaxJointStep)
          /\ \A v \in Spots \cup Elements(ramp[t]) :
                 Abs(ramp[t][Len(ramp[t])] - v) <= MaxJointJump
          /\ Abs(ramp[t][1] - arm) <= MaxJointStep
      BY <1>3, <2>1 DEF DispatchInv, OnCourse
    <3>2. /\ Smooth(ramp'[t], MaxJointStep)
          /\ \A v \in Spots' \cup Elements(ramp'[t]) :
                 Abs(ramp'[t][Len(ramp'[t])] - v) <= MaxJointJump
          /\ Abs(ramp'[t][1] - arm') <= MaxJointStep
      BY <1>0, <2>2, <2>3, <3>1
    <3> QED
      BY <2>1, <3>2 DEF OnCourse, Elements, Smooth
  <2>5. t = "inf" /\ Undisturbed' => InPath'
    <3>1. t = "inf" => Driving(pc, "inf") /\ PathEnd' = PathEnd
      BY <1>3, <2>1, <2>2 DEF Driving, PathEnd
    <3> QED
      BY <1>0, <2>1, <2>2, <3>1, StaysInPath DEF DispatchInv
  <2>6. Together'
    BY <1>0, <1>3 DEF Together
  <2>7. ReferenceTruthful'
    BY <1>0, <1>3, <2>1 DEF DispatchInv, ReferenceTruthful
  <2> QED
    BY <1>3, <2>2, <2>4, <2>5, <2>6, <2>7, OwnCourse
<1> QED
  BY <1>1, <1>2, <1>3 DEF Stream

\* Targets or waypoints are given up.
LEMMA FinishCourses ==
    ASSUME DispatchInv, NEW t \in Threads, NEW from, NEW to \in {"idle", "lock"},
           Finish(t, from, to), from \notin {"sent", "holding", "held", "reset"},
           UNCHANGED <<arm, last_cmd_q14, estop>>
    PROVE  Courses'
<1> DispatchTypes
  BY DEF DispatchInv
<1>1. Goto(t, from, to) /\ points' = [points EXCEPT ![t] = <<>>]
      /\ ramp' = [ramp EXCEPT ![t] = <<>>]
  BY DEF Finish
<1>2. /\ pc[t] = from /\ pc'[t] = to /\ \A u \in Threads \ {t} : pc'[u] = pc[u]
      /\ Undisturbed' => Undisturbed
  BY <1>1, GotoOnly
<1>3. \A u \in Threads \ {t} : ramp'[u] = ramp[u] /\ points'[u] = points[u]
  BY <1>1 DEF DispatchTypes
<1>4. "inf" \in Threads /\ "gui" \in Threads /\ to \notin DrivePlaces
  BY DEF DrivePlaces, Threads, Drivers
<1> QED
  BY <1>2, <1>3, <1>4, QuietStep

LEMMA DriveCourses ==
    ASSUME DispatchInv, NEW t \in Drivers, Drive(t)
    PROVE  Courses'
<1> t \in Threads /\ DispatchTypes
  BY DEF Threads, DispatchInv
<1>1. CASE Seed(t)
  BY <1>1, SeedCourses
<1>2. CASE Guard(t)
  <2>1. /\ points[t] # <<>> /\ UNCHANGED <<arm, robot_q, last_cmd_q14, estop>>
        /\ \/ Finish(t, "guard", "idle")
           \/ Finish(t, "guard", "lock")
           \/ \E q \in Joints, r \in Seq(Joints) :
                  /\ Accepts(t, q, r) /\ Goto(t, "guard", "stream")
                  /\ ramp' = [ramp EXCEPT ![t] = r]
                  /\ points' = [points EXCEPT ![t] = Tail(points[t])]
    BY <1>2, GuardCases
  <2>2. CASE Finish(t, "guard", "idle")
    BY <2>1, <2>2, FinishCourses
  <2>3. CASE Finish(t, "guard", "lock")
    BY <2>1, <2>3, FinishCourses
  <2>4. CASE \E q \in Joints, r \in Seq(Joints) :
                  /\ Accepts(t, q, r) /\ Goto(t, "guard", "stream")
                  /\ ramp' = [ramp EXCEPT ![t] = r]
                  /\ points' = [points EXCEPT ![t] = Tail(points[t])]
    BY <2>1, <2>4, AcceptCourses
  <2> QED
    BY <2>1, <2>2, <2>3, <2>4
<1>3. CASE TargetsDone(t)
  <2>1. Finish(t, "guard", "idle") /\ UNCHANGED <<arm, last_cmd_q14, estop>>
    BY <1>3 DEF TargetsDone
  <2> QED
    BY <2>1, FinishCourses
<1>4. CASE Stream(t)
  BY <1>4, StreamCourses
<1>5. CASE SendWaypoint(t)
  <2>1. CASE Goto(t, "send", "sent") /\ arm' = Head(ramp[t]) /\ UNCHANGED localVars
    <3>1. UNCHANGED <<last_cmd_q14, estop, points, ramp>>
      BY <1>5, <2>1 DEF SendWaypoint, localVars
    <3> QED
      BY <2>1, <3>1, SendCourses
  <2>2. CASE Finish(t, "send", IF t = "rel" THEN "lock" ELSE "idle") /\ UNCHANGED arm
    <3>1. PICK to \in {"idle", "lock"} : Finish(t, "send", to)
      BY <2>2
    <3>2. UNCHANGED <<arm, last_cmd_q14, estop>>
      BY <1>5, <2>2 DEF SendWaypoint
    <3> QED
      BY <3>1, <3>2, FinishCourses
  <2> QED
    BY <1>5, <2>1, <2>2 DEF SendWaypoint
<1>6. CASE WaypointSent(t)
  BY <1>6, SentCourses
<1> QED
  BY <1>1, <1>2, <1>3, <1>4, <1>5, <1>6 DEF Drive

\* While a pose is held, the arms are sent to none but those they were held at.
LEMMA HoldingCourses ==
    ASSUME DispatchInv, NEW t \in Threads, NEW from, NEW to \in {"holding", "held", "idle"},
           Goto(t, from, to), estop, estop', Spots' \subseteq Spots,
           \A u \in Threads \ {t} : ramp'[u] = ramp[u]
    PROVE  Courses'
<1> Drivers \subseteq Threads
  BY DEF Threads
<1>1. /\ pc'[t] = to /\ \A u \in Threads \ {t} : pc'[u] = pc[u]
      /\ Undisturbed' => Undisturbed
  BY GotoOnly DEF DispatchInv
<1>2. ASSUME NEW u \in Drivers PROVE OnCourse(u)'
  <2>1. CASE u = t
    BY <1>1, <2>1 DEF OnCourse
  <2>2. CASE u # t
    BY <1>1, <2>2, StaysOnCourse DEF DispatchInv
  <2> QED
    BY <2>1, <2>2
<1>3. Closing' \subseteq Closing
  BY <1>1 DEF Closing
<1>4. Together'
  BY <1>1, <1>3, StayTogether DEF DispatchInv
<1>5. InPath' /\ ReferenceTruthful'
  BY DEF InPath, ReferenceTruthful
<1> QED
  BY <1>2, <1>4, <1>5 DEF Courses

LEMMA HoldCourses ==
    ASSUME DispatchInv, NEW t \in Threads, LockRobot(t)
    PROVE  Courses'
<1> SUFFICES ASSUME Undisturbed' PROVE Courses'
  BY DisturbedCourses
<1> DispatchTypes /\ Marked /\ Drivers \subseteq Threads /\ ramp[t] \in Seq(Joints)
  BY DEF Threads, DispatchInv, DispatchTypes
<1> MaxJointStep \in Nat /\ arm \in Int
  BY StepsAssumption, LimitsAssumption DEF DispatchTypes, Joints
<1>0. Undisturbed
  <2>1. \E from, to : Goto(t, from, to)
    BY DEF LockRobot, Lock, Hold, HoldSend, HoldSent
  <2> QED
    BY <2>1, GotoOnly
<1>1. CASE Lock(t)
  <2>0. Goto(t, "lock", "hold") /\ estop' = TRUE /\ UNCHANGED <<arm, last_cmd_q14, points, ramp>>
    BY <1>1 DEF Lock, localVars
  <2>1. /\ pc[t] = "lock" /\ pc'[t] = "hold" /\ \A u \in Threads \ {t} : pc'[u] = pc[u]
        /\ Undisturbed' => Undisturbed
    BY <2>0, GotoOnly
  <2>2. Spots' \subseteq Spots
    BY <2>0, <2>1, SpotsKept
  <2>3. Closing' \subseteq Closing
    BY <2>0, <2>1 DEF Closing
  <2>4. Together'
    <3>1. CASE estop
      BY <2>1, <2>2, <2>3, <3>1, StayTogether DEF DispatchInv
    <3>2. CASE ~estop
      <4> SUFFICES ASSUME Undisturbed, NEW v \in Spots' \cup Closing', NEW w \in Spots' \cup Closing'
                   PROVE  Abs(v - w) <= MaxJointStep
        BY <2>1 DEF Together
      <4>1. Spots = {arm}
        BY <1>0, <3>2, SpotsFree
      <4>2. ASSUME NEW d \in Drivers, pc[d] = "send"
            PROVE  /\ Abs(ramp[d][1] - arm) <= MaxJointStep /\ ramp[d][1] \in Int
                   /\ Closing = {ramp[d][1]}
        <5>1. pc[d] \in DrivePlaces /\ d \in Threads
          BY <4>2 DEF DrivePlaces, Threads
        <5>2. \A u \in Drivers \ {d} : pc[u] # "send"
          BY <5>1, Alone DEF DrivePlaces
        <5>3. Closing = {ramp[d][1]}
          BY <4>2, <5>2 DEF Closing
        <5>4. ramp[d] # <<>> /\ ramp[d] \in Seq(Joints)
          BY <4>2, <5>1 DEF DispatchTypes
        <5>5. ramp[d][1] \in Int
          BY <5>4, RestOfPath, LimitsAssumption DEF Joints
        <5>6. Abs(ramp[d][1] - arm) <= MaxJointStep
          BY <3>2, <4>2, <5>4 DEF DispatchInv, OnCourse
        <5> QED
          BY <5>3, <5>5, <5>6
      <4>3. CASE Closing = {}
        <5>1. v = arm /\ w = arm
          BY <2>2, <2>3, <4>1, <4>3
        <5> QED
          BY <5>1 DEF Abs
      <4>4. CASE Closing # {}
        <5>1. PICK d \in Drivers : pc[d] = "send"
          BY <4>4 DEF Closing
        <5>2. PICK h \in Int : h = ramp[d][1]
          BY <4>2, <5>1
        <5>3. Abs(h - arm) <= MaxJointStep /\ v \in {arm, h} /\ w \in {arm, h}
          BY <2>2, <2>3, <4>1, <4>2, <5>1, <5>2
        <5> QED
          BY <5>3 DEF Abs
      <4> QED
        BY <4>3, <4>4
    <3> QED
      BY <3>1, <3>2
  <2>5. ASSUME NEW u \in Drivers PROVE OnCourse(u)'
    <3>1. CASE u = t
      BY <2>1, <3>1 DEF OnCourse
    <3>2. CASE u # t
      BY <2>0, <2>1, <2>2, <3>2, StaysOnCourse DEF DispatchInv
    <3> QED
      BY <3>1, <3>2
  <2>6. InPath' /\ ReferenceTruthful'
    BY <2>0 DEF InPath, ReferenceTruthful
  <2> QED
    BY <2>4, <2>5, <2>6 DEF Courses
<1>2. CASE Hold(t)
  <2>0. /\ Goto(t, "hold", "holding") /\ ramp' = [ramp EXCEPT ![t] = <<arm, arm, arm>>]
        /\ UNCHANGED <<arm, estop>>
    BY <1>2 DEF Hold
  <2>1. /\ pc[t] = "hold" /\ pc'[t] = "holding" /\ \A u \in Threads \ {t} : pc'[u] = pc[u]
    BY <2>0, GotoOnly
  <2>2. ramp'[t] = <<arm, arm, arm>> /\ \A u \in Threads \ {t} : ramp'[u] = ramp[u]
    BY <2>0 DEF DispatchTypes
  <2>3. estop /\ estop'
    BY <1>0, <2>0, <2>1 DEF Marked
  <2>4. Spots' \subseteq Spots
    <3> SUFFICES ASSUME NEW v \in Spots' PROVE v \in Spots
      OBVIOUS
    <3>1. v = arm' \/ \E u \in Threads : pc'[u] \in {"holding", "held"} /\ v \in Elements(ramp'[u])
      BY DEF Spots, Holders, Elements
    <3>2. CASE v \in Elements(ramp'[t])
      <4>1. PICK i \in 1..3 : v = <<arm, arm, arm>>[i]
        BY <2>2, <3>2 DEF Elements
      <4>2. v = arm
        BY <4>1
      <4> QED
        BY <4>2 DEF Spots
    <3>3. ASSUME NEW u \in Threads \ {t}, pc'[u] \in {"holding", "held"}, v \in Elements(ramp'[u])
          PROVE  v \in Spots
      <4>1. u \in Holders /\ v \in Elements(ramp[u])
        BY <2>1, <2>2, <3>3 DEF Holders
      <4> QED
        BY <4>1 DEF Spots
    <3>4. v = arm' => v \in Spots
      BY <2>0 DEF Spots
    <3> QED
      BY <3>1, <3>2, <3>3, <3>4
  <2> QED
    BY <2>0, <2>2, <2>3, <2>4, HoldingCourses
<1>3. CASE HoldSend(t)
  <2>0. Goto(t, "holding", "held") /\ arm' = Head(ramp[t]) /\ UNCHANGED <<estop, ramp>>
    BY <1>3 DEF HoldSend, localVars
  <2>1. /\ pc[t] = "holding" /\ pc'[t] = "held" /\ \A u \in Threads \ {t} : pc'[u] = pc[u]
    BY <2>0, GotoOnly
  <2>2. estop /\ estop' /\ ramp[t] # <<>>
    BY <1>0, <2>0, <2>1 DEF Marked, DispatchTypes
  <2>3. arm' = ramp[t][1] /\ 1 \in 1..Len(ramp[t])
    BY <2>0, <2>2, RestOfPath, EmptySeq
  <2>4. arm' \in Spots
    <3>1. t \in Holders /\ arm' \in Elements(ramp[t])
      BY <2>1, <2>3 DEF Holders, Elements
    <3> QED
      BY <3>1 DEF Spots
  <2>5. Spots' \subseteq Spots
    <3> SUFFICES ASSUME NEW v \in Spots' PROVE v \in Spots
      OBVIOUS
    <3>1. v = arm' \/ \E u \in Threads : pc'[u] \in {"holding", "held"} /\ v \in Elements(ramp'[u])
      BY DEF Spots, Holders, Elements
    <3>2. ASSUME NEW u \in Threads, pc'[u] \in {"holding", "held"}, v \in Elements(ramp'[u])
          PROVE  v \in Spots
      <4>1. u \in Holders /\ v \in Elements(ramp[u])
        BY <2>0, <2>1, <3>2 DEF Holders
      <4> QED
        BY <4>1 DEF Spots
    <3> QED
      BY <2>4, <3>1, <3>2
  <2> QED
    BY <2>0, <2>2, <2>5, HoldingCourses
<1>4. CASE HoldSent(t)
  <2>0. /\ ramp' = [ramp EXCEPT ![t] = Tail(ramp[t])] /\ UNCHANGED <<arm, estop>>
        /\ Goto(t, "held", IF Len(ramp[t]) > 1 THEN "holding" ELSE "idle")
    BY <1>4 DEF HoldSent
  <2>1. PICK to \in {"holding", "held", "idle"} : Goto(t, "held", to)
    BY <2>0
  <2>2. /\ pc[t] = "held" /\ pc'[t] = to /\ \A u \in Threads \ {t} : pc'[u] = pc[u]
    BY <2>1, GotoOnly
  <2>3. estop /\ estop' /\ ramp[t] # <<>>
    BY <1>0, <2>0, <2>2 DEF Marked, DispatchTypes
  <2>4. ramp'[t] = Tail(ramp[t]) /\ \A u \in Threads \ {t} : ramp'[u] = ramp[u]
    BY <2>0 DEF DispatchTypes
  <2>5. Elements(Tail(ramp[t])) \subseteq Elements(ramp[t])
    BY <2>3, RestOfPath
  <2>6. Spots' \subseteq Spots
    BY <2>0, <2>2, <2>4, <2>5, SpotsKept
  <2> QED
    BY <2>1, <2>3, <2>4, <2>6, HoldingCourses
<1> QED
  BY <1>1, <1>2, <1>3, <1>4 DEF LockRobot

\* With every thread at rest the reference is all that counts.
LEMMA ResetCourses ==
    ASSUME DispatchInv, ClearEStop \/ ResetReference \/ TeleopMove
    PROVE  Courses'
<1> Drivers \subseteq Threads /\ MaxJointStep \in Nat /\ "inf" \in Threads /\ "gui" \in Threads
  BY StepsAssumption DEF Threads, Drivers
<1>1. CASE ~Undisturbed'
  BY <1>1, DisturbedCourses
<1>2. CASE Undisturbed'
  <2>1. \A t \in Threads : pc'[t] \notin DrivePlaces /\ pc'[t] \notin {"hold", "holding", "held"}
    BY <1>2, ResetMarked DEF DispatchInv
  <2>2. ASSUME NEW t \in Drivers PROVE OnCourse(t)'
    BY <2>1 DEF OnCourse, DrivePlaces
  <2>3. InPath'
    BY <2>1 DEF InPath, Driving, DrivePlaces
  <2>4. arm' \in Int
    BY LimitsAssumption DEF ClearEStop, ResetReference, TeleopMove, DispatchInv, DispatchTypes, Joints
  <2>5. Together'
    <3>1. Holders' = {} /\ Closing' = {}
      BY <2>1 DEF Holders, Closing, DrivePlaces
    <3>2. Spots' = {arm'}
      BY <3>1 DEF Spots
    <3>3. \A v, w \in Spots' \cup Closing' : v = arm' /\ w = arm'
      BY <3>1, <3>2
    <3>4. Abs(arm' - arm') <= MaxJointStep
      <4>1. PICK a \in Int : a = arm'
        BY <2>4
      <4>2. Abs(a - a) <= MaxJointStep
        BY DEF Abs
      <4> QED
        BY <4>1, <4>2
    <3> QED
      BY <3>3, <3>4 DEF Together
  <2>6. ReferenceTruthful'
    <3>1. CASE ClearEStop
      <4>1. pc'["gui"] = "reset"
        BY <3>1, GotoOnly DEF ClearEStop, DispatchInv
      <4> QED
        BY <4>1 DEF ReferenceTruthful
    <3>2. CASE ResetReference
      BY <3>2 DEF ResetReference, DropReference, ReferenceTruthful
    <3>3. CASE TeleopMove
      BY <1>2, <3>3 DEF TeleopMove, ReferenceTruthful, Undisturbed
    <3> QED
      BY <3>1, <3>2, <3>3
  <2> QED
    BY <2>2, <2>3, <2>5, <2>6 DEF Courses
<1> QED
  BY <1>1, <1>2

\* The idle release loop drops the reference.
LEMMA RelIdleCourses ==
    ASSUME DispatchInv, RelIdle
    PROVE  Courses'
<1> Drivers \subseteq Threads /\ DispatchTypes
  BY DEF Threads, DispatchInv
<1>1. /\ pc["rel"] = "idle" /\ ~estop /\ ~estop' /\ last_cmd_q14' = <<>>
      /\ UNCHANGED <<arm, pc, points, ramp>>
      /\ Undisturbed' /\ Driving(pc, "inf") => Undisturbed
  <2>1. Driving(pc, "inf") => AtWork(pc) # {}
    BY DEF AtWork, Threads, Drivers
  <2> QED
    BY <2>1 DEF RelIdle, DropReference, Undisturbed, localVars
<1>2. Spots' \subseteq Spots
  BY <1>1, SpotsKept
<1>3. ASSUME NEW t \in Drivers PROVE OnCourse(t)'
  <2>1. CASE t = "inf" /\ Driving(pc, "inf")
    BY <1>1, <1>2, <2>1, StaysOnCourse DEF DispatchInv
  <2>2. CASE t = "inf" /\ ~Driving(pc, "inf")
    BY <1>1, <2>2 DEF OnCourse, Driving
  <2>3. CASE t = "rel"
    BY <1>1, <2>3 DEF OnCourse
  <2> QED
    BY <2>1, <2>2, <2>3 DEF Drivers
<1>4. InPath'
  <2>1. CASE Driving(pc, "inf")
    BY <1>1, <2>1, StaysInPath DEF DispatchInv, PathEnd
  <2>2. CASE ~Driving(pc, "inf")
    BY <1>1, <2>2 DEF InPath, Driving
  <2> QED
    BY <2>1, <2>2
<1>5. Together' /\ ReferenceTruthful'
  BY <1>1 DEF Together, ReferenceTruthful
<1> QED
  BY <1>3, <1>4, <1>5 DEF Courses

\* A thread that neither sends nor holds sets out for something else.
LEMMA QuietGoto ==
    ASSUME DispatchInv, NEW t \in Threads, NEW from \in {"idle", "enqueue", "splice", "move"},
           NEW to \in {"idle", "enqueue", "splice", "move", "lock", "seed"}, Goto(t, from, to),
           UNCHANGED <<arm, last_cmd_q14, estop>>,
           \A u \in Threads \ {t} : ramp'[u] = ramp[u] /\ points'[u] = points[u],
           t = "inf" /\ to = "seed" => InPath'
    PROVE  Courses'
<1>1. /\ pc[t] = from /\ pc'[t] = to /\ \A u \in Threads \ {t} : pc'[u] = pc[u]
      /\ Undisturbed' => Undisturbed
  BY GotoOnly DEF DispatchInv
<1>2. "inf" \in Threads /\ "gui" \in Threads /\ (to # "seed" => to \notin DrivePlaces)
  BY DEF DrivePlaces, Threads, Drivers
<1> QED
  BY <1>1, <1>2, QuietStep

LEMMA InfCourses ==
    ASSUME DispatchInv, Inf
    PROVE  Courses'
<1> "inf" \in Threads /\ DispatchTypes
  BY DEF Threads, Drivers, DispatchInv
<1>1. CASE \E q \in Targets : AppendRead(q)
  <2>1. PICK q \in Targets : AppendRead(q)
    BY <1>1
  <2>2. /\ Goto("inf", "idle", "splice") /\ UNCHANGED <<arm, last_cmd_q14, estop, ramp>>
        /\ \E s : points' = [points EXCEPT !["inf"] = s]
    BY <2>1 DEF AppendRead
  <2>3. \A u \in Threads \ {"inf"} : ramp'[u] = ramp[u] /\ points'[u] = points[u]
    BY <2>2 DEF DispatchTypes
  <2> QED
    BY <2>2, <2>3, QuietGoto
<1>2. CASE AppendSplice
  <2>1. Finish("inf", "splice", "idle") /\ UNCHANGED <<arm, last_cmd_q14, estop>>
    BY <1>2 DEF AppendSplice
  <2> QED
    BY <2>1, FinishCourses
<1>3. CASE InfClear
  <2>1. Goto("inf", "idle", "move") /\ UNCHANGED <<arm, last_cmd_q14, estop, points, ramp>>
    BY <1>3 DEF InfClear, localVars
  <2> QED
    BY <2>1, QuietGoto
<1>4. CASE \E path \in Paths : InfMove(path)
  <2>1. PICK path \in Paths : InfMove(path)
    BY <1>4
  <2>0. UNCHANGED <<arm, last_cmd_q14, estop, ramp>>
    BY <2>1 DEF InfMove
  <2>2. CASE estop
    <3>1. Goto("inf", "move", "idle") /\ UNCHANGED points
      BY <2>1, <2>2 DEF InfMove
    <3> QED
      BY <2>0, <3>1, QuietGoto
  <2>3. CASE ~estop
    <3>1. PICK p : p = PathTo(arm, [i \in 1..Len(path) |-> Clip(path[i])], HomeJointStep)
      OBVIOUS
    <3>2. Goto("inf", "move", "seed") /\ points' = [points EXCEPT !["inf"] = p]
      BY <2>1, <2>3, <3>1 DEF InfMove
    <3>3. arm \in Joints
      BY DEF DispatchTypes
    <3>4. p # <<>> /\ Smooth(p, HomeJointStep) /\ Abs(p[1] - arm) <= HomeJointStep
      BY <3>1, <3>3, PathTyped
    <3>5. points'["inf"] = p
          /\ \A u \in Threads \ {"inf"} : ramp'[u] = ramp[u] /\ points'[u] = points[u]
      BY <2>0, <3>2 DEF DispatchTypes
    <3>6. pc'["inf"] = "seed"
      BY <3>2, GotoOnly
    <3>7. PathEnd' = arm
      BY <2>0, <3>6 DEF PathEnd
    <3>8. InPath'
      BY <3>4, <3>5, <3>7 DEF InPath, Smooth
    <3> QED
      BY <2>0, <3>2, <3>5, <3>8, QuietGoto
  <2> QED
    BY <2>2, <2>3
<1> QED
  BY <1>1, <1>2, <1>3, <1>4 DEF Inf

LEMMA GuiCourses ==
    ASSUME DispatchInv, Gui \/ Rel
    PROVE  Courses'
<1> "gui" \in Threads /\ "rel" \in Threads /\ DispatchTypes
  BY DEF Threads, Drivers, DispatchInv
<1>1. CASE \E subs \in Subs : Release(subs)
  <2>1. PICK subs \in Subs : Release(subs)
    BY <1>1
  <2>2. /\ Goto("gui", "idle", "enqueue") /\ UNCHANGED <<arm, last_cmd_q14, estop>>
        /\ points' = [points EXCEPT !["gui"] = subs]
        /\ ramp' = [ramp EXCEPT !["gui"] = <<arm>>]
    BY <2>1 DEF Release
  <2>3. \A u \in Threads \ {"gui"} : ramp'[u] = ramp[u] /\ points'[u] = points[u]
    BY <2>2 DEF DispatchTypes
  <2> QED
    BY <2>2, <2>3, QuietGoto
<1>2. CASE EnqueueForRelease
  <2>1. Finish("gui", "enqueue", "idle") /\ UNCHANGED <<arm, last_cmd_q14, estop>>
    BY <1>2 DEF EnqueueForRelease
  <2> QED
    BY <2>1, FinishCourses
<1>3. CASE EStopButton
  <2>1. Goto("gui", "idle", "lock") /\ UNCHANGED <<arm, last_cmd_q14, estop, points, ramp>>
    BY <1>3 DEF EStopButton, localVars
  <2> QED
    BY <2>1, QuietGoto
<1>4. CASE ClearEStop \/ ResetReference
  BY <1>4, ResetCourses
<1>5. CASE RelPop
  <2>1. /\ Goto("rel", "idle", "seed") /\ UNCHANGED <<arm, last_cmd_q14, estop, ramp>>
        /\ \E s : points' = [points EXCEPT !["rel"] = s]
    BY <1>5 DEF RelPop
  <2>2. \A u \in Threads \ {"rel"} : ramp'[u] = ramp[u] /\ points'[u] = points[u]
    BY <2>1 DEF DispatchTypes
  <2> QED
    BY <2>1, <2>2, QuietGoto
<1>6. CASE RelIdle
  BY <1>6, RelIdleCourses
<1> QED
  BY <1>1, <1>2, <1>3, <1>4, <1>5, <1>6 DEF Gui, Rel

LEMMA NextCourses == DispatchInv /\ [DispatchNext]_dispatchVars => Courses'
<1> SUFFICES ASSUME DispatchInv, [DispatchNext]_dispatchVars PROVE Courses'
  OBVIOUS
<1>1. CASE UNCHANGED dispatchVars
  <2>1. UNCHANGED <<arm, last_cmd_q14, estop, interference, pc, points, ramp>>
    BY <1>1 DEF dispatchVars, localVars
  <2>2. Undisturbed' = Undisturbed
    BY <2>1 DEF Undisturbed
  <2> QED
    BY <2>1, <2>2, QuietStep
<1>2. CASE Gui \/ Rel
  BY <1>2, GuiCourses
<1>3. CASE Inf
  BY <1>3, InfCourses
<1>4. CASE TeleopMove
  BY <1>4, ResetCourses
<1>5. CASE \E t \in Drivers : Drive(t)
  BY <1>5, DriveCourses
<1>6. CASE \E t \in Threads : LockRobot(t)
  BY <1>6, HoldCourses
<1> QED
  BY <1>1, <1>2, <1>3, <1>4, <1>5, <1>6 DEF DispatchNext

LEMMA InitDispatchInv == DispatchInit => DispatchInv
<1> SUFFICES ASSUME DispatchInit PROVE DispatchInv
  OBVIOUS
<1>1. /\ \A t \in Threads : pc[t] = "idle" /\ estop = FALSE /\ last_cmd_q14 = <<>>
      /\ Drivers \subseteq Threads
  BY DEF DispatchInit, Threads
<1>2. DispatchTypes
  BY InitTypes
<1>3. Marked
  BY <1>1 DEF Marked, Overlap, Driving, DrivePlaces, Threads, Drivers
<1>4. (\A t \in Drivers : OnCourse(t)) /\ InPath /\ Together /\ ReferenceTruthful
  BY <1>1 DEF OnCourse, InPath, Together, ReferenceTruthful, Driving, Drivers
<1> QED
  BY <1>2, <1>3, <1>4 DEF DispatchInv

\* The inductive invariant of the two driving threads and of those that stop them.
THEOREM DispatchInvariant == DispatchSpec => []DispatchInv
<1>1. DispatchInit => DispatchInv
  BY InitDispatchInv
<1>2. DispatchInv /\ [DispatchNext]_dispatchVars => DispatchInv'
  <2> SUFFICES ASSUME DispatchInv, [DispatchNext]_dispatchVars PROVE DispatchInv'
    OBVIOUS
  <2>1. DispatchTypes' /\ Marked'
    BY NextTypes, NextMarked DEF DispatchInv
  <2>2. Courses'
    BY NextCourses
  <2> QED
    BY <2>1, <2>2 DEF Courses, DispatchInv
<1> QED
  BY <1>1, <1>2, PTL DEF DispatchSpec

-----------------------------------------------------------------------------
(* The properties.                                                           *)

\* Every step but three moves one thread on from somewhere else.
Others == {"idle", "splice", "move", "lock", "hold", "held", "seed", "guard", "stream", "sent"}

LEMMA OtherSteps ==
    ASSUME DispatchTypes, DispatchNext
    PROVE  \/ UNCHANGED pc
           \/ EnqueueForRelease
           \/ ResetReference
           \/ \E u \in Drivers : SendWaypoint(u)
           \/ \E u \in Threads : HoldSend(u)
           \/ \E u \in Threads, from \in Others : \E to : Goto(u, from, to)
<1> {"gui", "rel", "inf"} \subseteq Threads /\ Drivers \subseteq Threads
  BY DEF Threads, Drivers
<1>1. CASE \E subs \in Subs : Release(subs)
  BY <1>1 DEF Release, Others
<1>2. CASE EStopButton \/ ClearEStop
  BY <1>2 DEF EStopButton, ClearEStop, Others
<1>3. CASE TeleopMove \/ RelIdle
  BY <1>3 DEF TeleopMove, RelIdle
<1>4. CASE RelPop
  BY <1>4 DEF RelPop, Others
<1>5. CASE \E q \in Targets : AppendRead(q)
  BY <1>5 DEF AppendRead, Others
<1>6. CASE AppendSplice \/ InfClear
  BY <1>6 DEF AppendSplice, InfClear, Finish, Others
<1>7. CASE \E path \in Paths : InfMove(path)
  BY <1>7 DEF InfMove, Others
<1>8. ASSUME NEW u \in Drivers, Drive(u)
      PROVE  SendWaypoint(u) \/ \E from \in Others : \E to : Goto(u, from, to)
  <2>1. CASE Guard(u)
    BY <2>1, GuardCases DEF Finish, Others
  <2>2. CASE Seed(u) \/ TargetsDone(u) \/ Stream(u) \/ WaypointSent(u)
    BY <2>2 DEF Seed, TargetsDone, Stream, WaypointSent, Finish, Others
  <2> QED
    BY <1>8, <2>1, <2>2 DEF Drive
<1>9. ASSUME NEW u \in Threads, LockRobot(u)
      PROVE  HoldSend(u) \/ \E from \in Others : \E to : Goto(u, from, to)
  BY <1>9 DEF LockRobot, Lock, Hold, HoldSent, Others
<1> QED
  BY <1>1, <1>2, <1>3, <1>4, <1>5, <1>6, <1>7, <1>8, <1>9 DEF DispatchNext, Gui, Rel, Inf

\* A command takes the arms to the first of the thread's waypoints or holds.
LEMMA Commands ==
    ASSUME DispatchInv, DispatchNext, NEW t \in Threads,
           pc[t] \in {"send", "holding"}, pc'[t] \in {"sent", "held"}
    PROVE  /\ ramp[t] \in Seq(Joints) /\ ramp[t] # <<>> /\ arm' = ramp[t][1]
           /\ pc[t] = "send" => t \in Drivers
           /\ pc[t] = "holding" => estop \/ ~Undisturbed
<1> DispatchTypes /\ Marked /\ Drivers \subseteq Threads /\ "gui" \in Threads
  BY DEF DispatchInv, Threads, Drivers
<1>1. /\ ramp[t] \in Seq(Joints) /\ ramp[t] # <<>> /\ (pc[t] = "holding" => estop \/ ~Undisturbed)
      /\ Head(ramp[t]) = ramp[t][1]
  BY RestOfPath DEF DispatchTypes, Marked
<1>2. pc[t] = "send" => t \in Drivers
  BY DEF DispatchTypes, HoldPlaces, Threads
<1>3. ASSUME NEW u \in Threads, NEW from, NEW to, Goto(u, from, to)
      PROVE  u = t /\ from \notin Others /\ from # "enqueue" /\ to \in {"sent", "held"}
  BY <1>3, GotoOnly DEF Others
<1>4. CASE EnqueueForRelease
  <2>1. Goto("gui", "enqueue", "idle")
    BY <1>4 DEF EnqueueForRelease, Finish
  <2> QED
    BY <1>3, <2>1
<1>5. CASE \E u \in Drivers : SendWaypoint(u)
  <2>1. PICK u \in Drivers : SendWaypoint(u)
    BY <1>5
  <2>2. CASE Goto(u, "send", "sent") /\ arm' = Head(ramp[u])
    BY <1>1, <1>2, <1>3, <2>2
  <2>3. CASE Goto(u, "send", IF u = "rel" THEN "lock" ELSE "idle")
    BY <1>3, <2>3
  <2> QED
    BY <2>1, <2>2, <2>3 DEF SendWaypoint, Finish
<1>6. CASE \E u \in Threads : HoldSend(u)
  <2>1. PICK u \in Threads : Goto(u, "holding", "held") /\ arm' = Head(ramp[u])
    BY <1>6 DEF HoldSend
  <2> QED
    BY <1>1, <1>2, <1>3, <2>1
<1>7. CASE \E u \in Threads, from \in Others : \E to : Goto(u, from, to)
  BY <1>3, <1>7
<1>8. ~ResetReference
  <2> SUFFICES ASSUME pc' = [pc EXCEPT !["gui"] = "idle"] PROVE FALSE
    BY DEF ResetReference
  <2> QED
    BY DEF DispatchTypes
<1>9. pc' # pc
  OBVIOUS
<1> QED
  BY <1>4, <1>5, <1>6, <1>7, <1>8, <1>9, OtherSteps

LEMMA CommandBounded ==
    ASSUME DispatchInv, DispatchInv', [DispatchNext]_dispatchVars, NEW t \in Threads,
           pc[t] \in {"send", "holding"}, pc'[t] \in {"sent", "held"}
    PROVE  arm' \in Joints /\ (Abs(arm' - arm) <= MaxJointStep \/ ~Undisturbed)
<1>1. DispatchNext
  BY DEF dispatchVars
<1>2. /\ ramp[t] \in Seq(Joints) /\ ramp[t] # <<>> /\ arm' = ramp[t][1]
      /\ pc[t] = "send" => t \in Drivers
      /\ pc[t] = "holding" => estop \/ ~Undisturbed
  BY <1>1, Commands
<1>3. arm' \in Joints
  BY DEF DispatchInv, DispatchTypes
<1>4. ASSUME Undisturbed PROVE Abs(arm' - arm) <= MaxJointStep
  <2>0. arm \in Spots
    BY DEF Spots
  <2>1. CASE pc[t] = "send" /\ ~estop
    BY <1>2, <1>4, <2>1 DEF DispatchInv, OnCourse
  <2>2. CASE pc[t] = "send" /\ estop
    <3>1. arm' \in Closing
      BY <1>2, <2>2 DEF Closing
    <3> QED
      BY <1>4, <2>0, <2>2, <3>1 DEF DispatchInv, Together
  <2>3. CASE pc[t] = "holding"
    <3>1. 1 \in 1..Len(ramp[t])
      BY <1>2, EmptySeq
    <3>2. t \in Holders /\ arm' \in Elements(ramp[t])
      BY <1>2, <2>3, <3>1 DEF Holders, Elements
    <3>3. arm' \in Spots
      BY <3>2 DEF Spots
    <3> QED
      BY <1>2, <1>4, <2>0, <2>3, <3>3 DEF DispatchInv, Together
  <2> QED
    BY <2>1, <2>2, <2>3
<1> QED
  BY <1>3, <1>4

\* Whenever the arms may be driven, the reference that the velocity guard and the
\* jump watchdog measure from is where the arms are, or none, whichever of the
\* release loop, the moves, lock_robot and reset_estop set it last.
THEOREM ReferenceIsTruthful == DispatchSpec => []ReferenceTruthful
<1>1. DispatchInv => ReferenceTruthful
  BY DEF DispatchInv
<1> QED
  BY <1>1, DispatchInvariant, PTL

\* A target that was accepted is never further from the arms than the watchdog's
\* jump, for whatever the targets, the paths and the caps may be.
THEOREM NoSweep == DispatchSpec => []NoLargeSweep
<1>1. DispatchInv => NoLargeSweep
  <2> SUFFICES ASSUME DispatchInv, NEW t \in Drivers, pc[t] = "stream", ramp[t] # <<>>, Undisturbed
               PROVE  Abs(Last(ramp[t]) - arm) <= MaxJointJump
    BY DEF NoLargeSweep
  <2>1. Abs(ramp[t][Len(ramp[t])] - arm) <= MaxJointJump
    BY DEF DispatchInv, OnCourse, Spots
  <2> QED
    BY <2>1 DEF Last
<1> QED
  BY <1>1, DispatchInvariant, PTL

\* No command, of a driver or of a hold, is past a joint limit, nor further than
\* the cap from where the arms are, unless the two drivers overlapped, or a reset or
\* teleoperation came between.
THEOREM CommandsBounded == DispatchSpec => StepBounded
<1>1. DispatchInv /\ DispatchInv' /\ [DispatchNext]_dispatchVars =>
          [\A t \in Threads : pc[t] \in {"send", "holding"} /\ pc'[t] \in {"sent", "held"} =>
               /\ arm' \in Joints
               /\ Abs(arm' - arm) <= MaxJointStep \/ ~Undisturbed]_dispatchVars
  BY CommandBounded
<1> QED
  BY <1>1, DispatchInvariant, PTL DEF DispatchSpec, StepBounded

\* What a release button queues continues the queue, and itself, in steps of the
\* cap, for every list of validated substeps.
THEOREM QueueSeams == DispatchSpec => SeamsBounded
<1>1. DispatchInv /\ [DispatchNext]_dispatchVars =>
          [pc["gui"] = "enqueue" /\ pc'["gui"] = "idle" =>
               \A i \in 2..Len(robot_q') : i > Len(robot_q) =>
                   Abs(robot_q'[i] - robot_q'[i - 1]) <= MaxJointStep]_dispatchVars
  <2> SUFFICES ASSUME DispatchInv, DispatchNext, pc["gui"] = "enqueue", pc'["gui"] = "idle"
               PROVE  EnqueueForRelease
    BY EnqueuedSmooth DEF DispatchInv, dispatchVars
  <2> DispatchTypes /\ "gui" \in Threads /\ Drivers \subseteq Threads
    BY DEF DispatchInv, Threads
  <2>1. ASSUME NEW u \in Threads, NEW from, NEW to, Goto(u, from, to)
        PROVE  from \notin Others \cup {"send", "holding"}
    BY <2>1, GotoOnly DEF Others
  <2>2. CASE \E u \in Drivers : SendWaypoint(u)
    <3>1. \E u \in Drivers : \E to : Goto(u, "send", to)
      BY <2>2 DEF SendWaypoint, Finish
    <3> QED
      BY <2>1, <3>1
  <2>3. CASE \E u \in Threads : HoldSend(u)
    <3>1. \E u \in Threads : Goto(u, "holding", "held")
      BY <2>3 DEF HoldSend
    <3> QED
      BY <2>1, <3>1
  <2>4. CASE \E u \in Threads, from \in Others : \E to : Goto(u, from, to)
    BY <2>1, <2>4
  <2>5. ~ResetReference
    BY DEF ResetReference
  <2> QED
    BY <2>2, <2>3, <2>4, <2>5, OtherSteps
<1> QED
  BY <1>1, DispatchInvariant, PTL DEF DispatchSpec, SeamsBounded
=============================================================================
