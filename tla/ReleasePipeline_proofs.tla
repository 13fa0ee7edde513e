----------------------- MODULE ReleasePipeline_proofs -----------------------
(* For every bound and any interleaving of the four threads: the pipeline's   *)
(* types, the halt after an E-stop, what one late append_actions call can     *)
(* leave queued behind it, that the threads use the queue as StreamQueue      *)
(* specifies it, and that the manual step-through releases each validated     *)
(* substep once and in order, and loses none before the E-stop is pressed.    *)
EXTENDS ReleasePipeline, StreamQueue_proofs

USE DEF Unnumbered

-----------------------------------------------------------------------------
\* Types of what the operations of the queue write, which need none of the
\* queue's other invariants.
LEMMA SpliceTypes ==
    ASSUME QueueTypeOK, NEW tag \in Tags,
           NEW traj \in Expansions(append.start_id, append.last_id),
           AppendSplice(traj, tag)
    PROVE  QueueTypeOK'
<1>1. append.start_id..append.last_id \subseteq Rows
  BY BoundsAssumption DEF QueueTypeOK, AppendCall, Rows
<1>2. PICK n \in 1..MaxTraj : traj \in [1..n -> append.start_id..append.last_id]
  BY DEF Expansions
<1>3. n \in Nat /\ Len(traj) = n /\ \A i \in 1..n : traj[i] \in Rows
  BY <1>1, <1>2, BoundsAssumption
<1>4. PICK k \in 1..(Len(traj) + 1) :
        LET new == [i \in 1..(Len(traj) - k + 1) |->
                      [row |-> traj[k + i - 1], tag |-> tag]]
        IN  IF new = <<>>
            THEN UNCHANGED <<robot_q, queued_through>>
            ELSE /\ \E bridge \in {<<>>, <<new[1]>>} :
                      robot_q' = IF new[1].row = append.start_id
                                 THEN robot_q \o new
                                 ELSE robot_q \o bridge \o new
                 /\ queued_through' = new[Len(new)].row
  BY DEF AppendSplice
<1> DEFINE new == [i \in 1..(Len(traj) - k + 1) |->
                     [row |-> traj[k + i - 1], tag |-> tag]]
<1>5. Len(traj) - k + 1 \in Nat /\ \A i \in 1..(Len(traj) - k + 1) : k + i - 1 \in 1..n
  BY <1>3
<1>6. \A i \in 1..(Len(traj) - k + 1) : [row |-> traj[k + i - 1], tag |-> tag] \in Substep
  BY <1>3, <1>5 DEF Substep
<1>7. new \in Seq(Substep) /\ Len(new) = Len(traj) - k + 1
  <2>1. PICK m \in Nat : m = Len(traj) - k + 1
    BY <1>5
  <2>2. new \in [1..m -> Substep]
    BY <2>1, <1>6
  <2> HIDE DEF new
  <2> QED
    BY <2>1, <2>2
<1>8. \A i \in 1..Len(new) : new[i].row \in Rows
  BY <1>3, <1>5, <1>7
<1>9. /\ robot_q \in Seq(Substep) /\ current_row_id \in Rows
      /\ queued_through \in Rows \cup {-1}
  BY DEF QueueTypeOK
<1>10. append' = NoAppend /\ current_row_id' = current_row_id
  BY DEF AppendSplice
<1>11. NoAppend \in AppendCall
  BY BoundsAssumption DEF NoAppend, AppendCall, Rows
<1>12. robot_q' \in Seq(Substep) /\ queued_through' \in Rows \cup {-1}
  <2>1. CASE new = <<>>
    BY <2>1, <1>4, <1>9
  <2>2. CASE new # <<>>
    <3>1. Len(new) # 0
      BY <2>2, <1>7
    <3>2. 1 \in 1..Len(new) /\ Len(new) \in 1..Len(new)
      BY <3>1, <1>5, <1>7
    <3>3. PICK bridge \in {<<>>, <<new[1]>>} :
             robot_q' = IF new[1].row = append.start_id
                        THEN robot_q \o new
                        ELSE robot_q \o bridge \o new
      BY <2>2, <1>4
    <3>4. queued_through' = new[Len(new)].row
      BY <2>2, <1>4
    <3> HIDE DEF new
    <3>5. new[1] \in Substep /\ bridge \in Seq(Substep)
      <4>1. new[1] \in Substep
        BY <3>2, <1>7
      <4>2. bridge = <<>> \/ bridge = <<new[1]>>
        BY <3>3
      <4>3. <<>> \in Seq(Substep) /\ <<new[1]>> \in Seq(Substep)
        BY <4>1
      <4> QED
        BY <4>1, <4>2, <4>3
    <3>6. robot_q \o new \in Seq(Substep) /\ (robot_q \o bridge) \o new \in Seq(Substep)
      BY <3>5, <1>7, <1>9, ConcatProperties
    <3>7. robot_q' \in Seq(Substep)
      BY <3>3, <3>6
    <3>8. queued_through' \in Rows
      BY <3>2, <3>4, <1>8
    <3> QED
      BY <3>7, <3>8
  <2> QED
    BY <2>1, <2>2
<1> QED
  BY <1>9, <1>10, <1>11, <1>12 DEF QueueTypeOK

\* Every operation of the queue keeps its types.
LEMMA QueueNextTypes ==
    ASSUME QueueTypeOK, QueueNext PROVE QueueTypeOK'
<1>1. ASSUME NEW base \in Rows, NEW end \in Rows, NEW ahead \in Aheads,
             AppendRead(base, end, ahead)
      PROVE  QueueTypeOK'
  <2>1. FirstNeeded \in Int /\ LastNeeded(ahead) \in Int
    BY AheadAssumption, BoundsAssumption DEF FirstNeeded, LastNeeded, QueueTypeOK, Rows
  <2>2. FirstNeeded >= 0
    BY BoundsAssumption DEF FirstNeeded, QueueTypeOK, Rows
  <2> DEFINE last == IF LastNeeded(ahead) < end THEN LastNeeded(ahead) ELSE end
  <2>3. /\ FirstNeeded <= last
        /\ append' = [busy |-> TRUE, start_id |-> FirstNeeded, last_id |-> last]
        /\ UNCHANGED <<robot_q, current_row_id, queued_through>>
    BY <1>1 DEF AppendRead
  <2>4. last \in Int /\ last <= end
    BY <2>1, BoundsAssumption DEF Rows
  <2> HIDE DEF last
  <2>5. FirstNeeded \in Rows /\ last \in Rows
    BY <2>1, <2>2, <2>3, <2>4, BoundsAssumption DEF Rows
  <2>6. append' \in AppendCall
    BY <2>3, <2>5 DEF AppendCall
  <2> QED
    BY <2>3, <2>6 DEF QueueTypeOK
<1>2. NoAppend \in AppendCall
  BY BoundsAssumption DEF NoAppend, AppendCall, Rows
<1>3. ASSUME AppendAbort PROVE QueueTypeOK'
  BY <1>2, <1>3 DEF AppendAbort, QueueTypeOK
<1>4. ASSUME PopNextSubstep PROVE QueueTypeOK'
  <2>1. /\ robot_q \in Seq(Substep) /\ robot_q # <<>>
        /\ robot_q' = Tail(robot_q)
        /\ current_row_id' = IF IsTagged(Head(robot_q)) THEN Head(robot_q).row
                                                        ELSE current_row_id
        /\ UNCHANGED <<queued_through, append>>
    BY <1>4 DEF PopNextSubstep, QueueTypeOK
  <2>2. Head(robot_q) \in Substep /\ robot_q' \in Seq(Substep)
    BY <2>1, HeadTailProperties
  <2>3. IsTagged(Head(robot_q)) => Head(robot_q).row \in Rows
    BY <2>2 DEF Substep, IsTagged
  <2> QED
    BY <2>1, <2>2, <2>3 DEF QueueTypeOK
<1>5. ASSUME ClearQueue PROVE QueueTypeOK'
  BY <1>5 DEF ClearQueue, QueueTypeOK
<1>6. ASSUME NEW subs \in ManualBatches, EnqueueManual(subs) PROVE QueueTypeOK'
  <2>1. UNCHANGED <<current_row_id, queued_through, append>>
    BY <1>6 DEF EnqueueManual
  <2> QED
    BY <1>6, <2>1, EnqueueRows DEF QueueTypeOK
<1> QED
  BY <1>1, <1>3, <1>4, <1>5, <1>6, SpliceTypes DEF QueueNext

\* So does a step that leaves the queue alone.
LEMMA QueueUnchangedTypes ==
    ASSUME QueueTypeOK, UNCHANGED queueVars PROVE QueueTypeOK'
BY DEF QueueTypeOK, queueVars

-----------------------------------------------------------------------------
\* Types, and the two facts about the latch and the one-shot path they rest on.
TypeInv ==
    /\ TypeOK
    /\ ~estop => epoch < MaxEpoch
    /\ pc["gui"] = "replace" => OneShot

\* The rows of append_actions carry no number.
LEMMA UnnumberedType == Unnumbered \in Tags
BY TagsAssumption, LimitsAssumption

\* A batch the Tk thread hands over is made of untagged substeps.
LEMMA ManualTypes ==
    ASSUME NEW tags \in Seq(Tags)
    PROVE  /\ Manual(tags) \in Seq(Substep)
           /\ Len(Manual(tags)) = Len(tags)
           /\ Manual(tags) \in [1..Len(tags) -> [row : {Untagged}, tag : Tags]]
<1>1. PICK n \in Nat : n = Len(tags)
  OBVIOUS
<1>2. \A i \in 1..n : tags[i] \in Tags
  BY <1>1
<1>3. Manual(tags) \in [1..n -> [row : {Untagged}, tag : Tags]]
  BY <1>1, <1>2 DEF Manual
<1>4. [row : {Untagged}, tag : Tags] \subseteq Substep
  BY DEF Substep
<1>5. Manual(tags) \in [1..n -> Substep]
  BY <1>3, <1>4
<1> QED
  BY <1>1, <1>3, <1>5

\* Whatever a thread does, the queue takes a step of StreamQueue, stays as it
\* is, or is replaced by release_to_robot.
LEMMA DriverQueueSteps ==
    ASSUME TypeInv, [Next]_vars
    PROVE  QueueNext \/ UNCHANGED queueVars \/ OneShotReplace
<1>1. CASE Inf
  <2>1. CASE AppendStart
    BY <2>1 DEF AppendStart, QueueNext
  <2>2. CASE AppendFinish
    <3>1. Unnumbered \in Tags
      BY UnnumberedType
    <3> QED
      BY <2>2, <3>1 DEF AppendFinish, QueueNext
  <2>3. CASE InfClear
    BY <2>3 DEF InfClear, QueueNext
  <2>4. CASE AppendCheck \/ InfMove
    BY <2>4 DEF AppendCheck, InfMove
  <2> QED
    BY <1>1, <2>1, <2>2, <2>3, <2>4 DEF Inf
<1>2. CASE Man
  BY <1>2 DEF Man, ValidateStart, ValidateOk, ValidateFail
<1>3. CASE Release
  <2>1. CASE Enqueue
    <3>1. CASE EnqueueManual(Manual(hand["gui"]))
      <4>1. hand["gui"] \in Seq(Tags)
        BY DEF TypeInv, TypeOK, Threads
      <4> DEFINE subs == Manual(hand["gui"])
      <4>2. /\ subs \in Seq(Substep)
            /\ subs \in [1..Len(subs) -> [row : {Untagged}, tag : Tags]]
        BY <4>1, ManualTypes
      <4> HIDE DEF subs
      <4>3. EnqueueManual(subs)
        BY <3>1 DEF subs
      <4>4. robot_q \in Seq(Substep)
        BY DEF TypeInv, TypeOK, QueueTypeOK
      <4>5. subs # <<>> /\ Len(robot_q) + Len(subs) <= MaxQueue
        BY <4>3 DEF EnqueueManual
      <4>6. Len(robot_q) \in Nat /\ Len(subs) \in Nat \ {0}
        BY <4>2, <4>4, <4>5, EmptySeq
      <4>7. Len(subs) \in 1..MaxQueue
        BY <4>5, <4>6, BoundsAssumption
      <4>8. subs \in ManualBatches
        BY <4>2, <4>7 DEF ManualBatches
      <4> QED
        BY <4>3, <4>8 DEF QueueNext
    <3> QED
      BY <2>1, <3>1 DEF Enqueue
  <2>2. CASE ReleaseCheck \/ ReleaseNothing \/ OneShotCheck
    BY <2>2 DEF ReleaseCheck, ReleaseNothing, OneShotCheck
  <2>3. ASSUME NEW n \in 1..MaxSeq, ReleaseTake(n) PROVE UNCHANGED queueVars
    BY <2>3 DEF ReleaseTake
  <2> QED
    BY <1>3, <2>1, <2>2, <2>3 DEF Release
<1>4. CASE Rel
  BY <1>4 DEF Rel, RelPoll, RelPop, RelFirmware, GiveUp, QueueNext
<1>5. ASSUME NEW t \in Drivers, Drive(t) PROVE UNCHANGED queueVars
  BY <1>5 DEF Drive, Guard, Test, Send, GiveUp
<1>6. ASSUME NEW t \in Drivers \cup {"gui"}, Lock(t) PROVE QueueNext \/ UNCHANGED queueVars
  BY <1>6 DEF Lock, LockLatch, LockDrop, LockHold, QueueNext
<1>7. CASE EStopButton \/ ResetEStop
  BY <1>7 DEF EStopButton, ResetEStop
<1>8. CASE UNCHANGED vars
  BY <1>8 DEF vars
<1> QED
  BY <1>1, <1>2, <1>3, <1>4, <1>5, <1>6, <1>7, <1>8 DEF Next

\* Every step of the pipeline keeps the types of the queue.
LEMMA QueueTypesKept ==
    ASSUME TypeInv, [Next]_vars PROVE QueueTypeOK'
<1>1. QueueTypeOK
  BY DEF TypeInv, TypeOK
<1>2. CASE QueueNext
  BY <1>1, <1>2, QueueNextTypes
<1>3. CASE UNCHANGED queueVars
  BY <1>1, <1>3, QueueUnchangedTypes
<1>4. CASE OneShotReplace
  <2>1. hand["gui"] \in Seq(Tags)
    BY DEF TypeInv, TypeOK, Threads
  <2>2. Manual(hand["gui"]) \in Seq(Substep)
    BY <2>1, ManualTypes
  <2>3. CASE UNCHANGED queueVars
    BY <1>1, <2>3, QueueUnchangedTypes
  <2>4. CASE /\ robot_q' = Manual(hand["gui"])
             /\ UNCHANGED <<current_row_id, queued_through, append>>
    BY <1>1, <2>2, <2>4 DEF QueueTypeOK
  <2> QED
    BY <1>4, <2>3, <2>4 DEF OneShotReplace
<1> QED
  BY <1>2, <1>3, <1>4, DriverQueueSteps

-----------------------------------------------------------------------------
\* Moving a thread on keeps every thread at a place of its program.
LEMMA GotoTypes ==
    ASSUME pc \in [Threads -> PCs], NEW t \in Threads, NEW from, NEW to \in PCs,
           Goto(t, from, to)
    PROVE  /\ pc' \in [Threads -> PCs]
           /\ pc'[t] = to
           /\ \A u \in Threads : u # t => pc'[u] = pc[u]
BY DEF Goto

\* The part of TypeInv that is not about the queue.
ThreadTypes ==
    /\ pc \in [Threads -> PCs] /\ hand \in [Threads -> Seq(Tags)]
    /\ arm_known \in BOOLEAN
\* The latch; a reset is only possible while there is room for one more latch.
LatchTypes ==
    /\ estop \in BOOLEAN /\ epoch \in 0..MaxEpoch /\ overrun \in [Drivers -> 0..Many]
    /\ ~estop => epoch < MaxEpoch
\* The manual buffer.
ManualTypesOK ==
    /\ staged \in Seq(Tags) /\ last_sim_traj \in Seq(Tags)
    /\ validation_id \in Nat /\ released_id \in Nat \cup {-1} /\ vid \in Nat
    /\ validated \in 0..MaxSeq /\ played \subseteq 1..MaxSeq

\* Every step keeps the types of the latch.
LEMMA LatchTypesKept ==
    ASSUME LatchTypes, [Next]_vars PROVE LatchTypes'
<1> USE DEF LatchTypes
<1>1. CASE UNCHANGED latchVars
  BY <1>1 DEF latchVars
<1>2. ASSUME NEW t \in Drivers \cup {"gui"}, LockLatch(t) PROVE LatchTypes'
  <2>1. CASE estop
    BY <1>2, <2>1 DEF LockLatch
  <2>2. CASE ~estop
    <3>1. estop' = TRUE /\ epoch' = epoch + 1 /\ overrun' = [d \in Drivers |-> 0]
      BY <1>2, <2>2 DEF LockLatch
    <3>2. epoch' \in 0..MaxEpoch
      BY <2>2, <3>1, LimitsAssumption
    <3>3. overrun' \in [Drivers -> 0..Many]
      BY <3>1 DEF Many
    <3> QED
      BY <3>1, <3>2, <3>3
  <2> QED
    BY <2>1, <2>2
<1>3. CASE ResetEStop
  BY <1>3 DEF ResetEStop
<1>4. ASSUME NEW t \in Drivers, Send(t) PROVE LatchTypes'
  <2>1. CASE UNCHANGED latchVars
    BY <2>1 DEF latchVars
  <2>2. CASE overrun' = [overrun EXCEPT ![t] = Overrun(@)]
             /\ UNCHANGED <<estop, epoch>>
    <3>1. Overrun(overrun[t]) \in 0..Many
      BY <1>4 DEF Overrun, Many
    <3> QED
      BY <2>2, <3>1
  <2> QED
    BY <1>4, <2>1, <2>2 DEF Send, GiveUp
<1>5. CASE Inf
  BY <1>1, <1>5 DEF Inf, AppendCheck, AppendStart, AppendFinish, InfClear, InfMove
<1>6. CASE Man
  BY <1>1, <1>6 DEF Man, ValidateStart, ValidateOk, ValidateFail
<1>7. CASE Release
  BY <1>1, <1>7 DEF Release, ReleaseCheck, ReleaseNothing, Enqueue, ReleaseTake,
     OneShotCheck, OneShotReplace
<1>8. CASE Rel
  BY <1>1, <1>8 DEF Rel, RelPoll, RelPop, RelFirmware, GiveUp
<1>9. ASSUME NEW t \in Drivers, Drive(t) PROVE LatchTypes'
  BY <1>1, <1>4, <1>9 DEF Drive, Guard, Test, GiveUp
<1>10. ASSUME NEW t \in Drivers \cup {"gui"}, Lock(t) PROVE LatchTypes'
  BY <1>1, <1>2, <1>10 DEF Lock, LockDrop, LockHold
<1>11. CASE EStopButton
  BY <1>1, <1>11 DEF EStopButton
<1>12. CASE UNCHANGED vars
  BY <1>1, <1>12 DEF vars, latchVars
<1> QED
  BY <1>3, <1>5, <1>6, <1>7, <1>8, <1>9, <1>10, <1>11, <1>12 DEF Next

\* Every step keeps the types of the manual buffer.
LEMMA ManualTypesKept ==
    ASSUME ManualTypesOK, ThreadTypes, LatchTypes, [Next]_vars
    PROVE  ManualTypesOK'
<1>1. CASE UNCHANGED <<manualVars, played>>
  BY <1>1 DEF manualVars, trajVars, ManualTypesOK
<1>2. CASE Inf
  <2>1. CASE InfClear
    <3>1. staged' = staged \/ staged' = <<>>
      BY <2>1 DEF InfClear
    <3>2. staged' \in Seq(Tags)
      BY <3>1, EmptySeq DEF ManualTypesOK
    <3> QED
      BY <2>1, <3>2 DEF InfClear, trajVars, ManualTypesOK
  <2> QED
    BY <1>1, <1>2, <2>1 DEF Inf, AppendCheck, AppendStart, AppendFinish, InfMove
<1>3. CASE Man
  <2>1. ASSUME NEW n \in 1..MaxSeq, ValidateOk(n) PROVE ManualTypesOK'
    <3> DEFINE traj == [i \in 1..n |-> validated + i]
    <3>1. /\ validated + n <= MaxSeq
          /\ last_sim_traj' = traj
          /\ validation_id' = validation_id + 1
          /\ staged' = staged \o traj
          /\ validated' = validated + n
          /\ UNCHANGED <<released_id, vid, played>>
      BY <2>1 DEF ValidateOk
    <3>2. validated + n \in 0..MaxSeq
      BY <3>1, LimitsAssumption DEF ManualTypesOK
    <3>3. ASSUME NEW i \in 1..n PROVE validated + i \in Tags
      <4>1. validated + i \in 0..MaxSeq
        BY <3>1, LimitsAssumption DEF ManualTypesOK
      <4> QED
        BY <4>1, TagsAssumption
    <3>4. n \in Nat /\ traj \in [1..n -> Tags]
      BY <3>3
    <3> HIDE DEF traj
    <3>5. traj \in Seq(Tags)
      BY <3>4
    <3>6. staged \o traj \in Seq(Tags)
      BY <3>5, ConcatProperties DEF ManualTypesOK
    <3> QED
      BY <3>1, <3>2, <3>5, <3>6 DEF ManualTypesOK
  <2>2. CASE ValidateFail
    BY <2>2 DEF ValidateFail, ManualTypesOK
  <2>3. CASE ValidateStart
    BY <1>1, <2>3 DEF ValidateStart
  <2> QED
    BY <1>3, <2>1, <2>2, <2>3 DEF Man
<1>4. CASE Release
  <2>1. hand["gui"] \in Seq(Tags)
    BY DEF ThreadTypes, Threads
  <2>2. CASE Enqueue
    <3>1. Restage(hand["gui"]) \in Seq(Tags)
      BY <2>1, ConcatProperties DEF Restage, ManualTypesOK
    <3> QED
      BY <2>2, <3>1 DEF Enqueue, ManualTypesOK, trajVars
  <2>3. ASSUME NEW n \in 1..MaxSeq, ReleaseTake(n) PROVE ManualTypesOK'
    <3>1. n \in 1..Len(staged) /\ staged' = SubSeq(staged, n + 1, Len(staged))
      BY <2>3 DEF ReleaseTake
    <3>2. n + 1 \in 1..(Len(staged) + 1)
      BY <3>1 DEF ManualTypesOK
    <3>3. \A i \in (n + 1)..Len(staged) : staged[i] \in Tags
      BY <3>1 DEF ManualTypesOK
    <3>4. staged' \in Seq(Tags)
      BY <3>1, <3>2, <3>3, SubSeqProperties DEF ManualTypesOK
    <3> QED
      BY <2>3, <3>4 DEF ReleaseTake, ManualTypesOK, trajVars
  <2>4. CASE OneShotCheck
    BY <2>4 DEF OneShotCheck, ManualTypesOK
  <2>5. CASE OneShotReplace
    <3>1. UNCHANGED <<staged, validation_id, vid, validated, played>>
      BY <2>5 DEF OneShotReplace
    <3>2. released_id' = vid \/ released_id' = released_id
      BY <2>5 DEF OneShotReplace
    <3>3. last_sim_traj' = <<>> \/ last_sim_traj' = last_sim_traj
      BY <2>5 DEF OneShotReplace
    <3>4. last_sim_traj' \in Seq(Tags)
      BY <3>3, EmptySeq DEF ManualTypesOK
    <3> QED
      BY <3>1, <3>2, <3>4 DEF ManualTypesOK
  <2>6. CASE ReleaseCheck \/ ReleaseNothing
    BY <1>1, <2>6 DEF ReleaseCheck, ReleaseNothing
  <2> QED
    BY <1>4, <2>2, <2>3, <2>4, <2>5, <2>6 DEF Release
<1>5. CASE Rel
  BY <1>1, <1>5 DEF Rel, RelPoll, RelPop, RelFirmware, GiveUp
<1>6. ASSUME NEW t \in Drivers, Drive(t) PROVE ManualTypesOK'
  <2>1. hand[t] \in Seq(Tags)
    BY DEF ThreadTypes, Threads, Drivers
  <2>2. SeqsOf(hand[t]) \ {Unnumbered} \subseteq 1..MaxSeq
    <3>1. ASSUME NEW i \in 1..Len(hand[t]) PROVE hand[t][i] \in 0..MaxSeq
      <4>1. hand[t][i] \in Tags
        BY <2>1
      <4> QED
        BY <4>1, TagsAssumption
    <3> QED
      BY <3>1, LimitsAssumption DEF SeqsOf
  <2>3. CASE UNCHANGED <<manualVars, played>>
    BY <1>1, <2>3
  <2>4. CASE UNCHANGED manualVars /\ played' = played \cup (SeqsOf(hand[t]) \ {Unnumbered})
    BY <2>2, <2>4 DEF ManualTypesOK, manualVars, trajVars
  <2> QED
    BY <1>6, <2>3, <2>4 DEF Drive, Guard, Test, Send, GiveUp
<1>7. ASSUME NEW t \in Drivers \cup {"gui"}, Lock(t) PROVE ManualTypesOK'
  <2>1. CASE LockDrop(t)
    BY <2>1 DEF LockDrop, ManualTypesOK, trajVars
  <2> QED
    BY <1>1, <1>7, <2>1 DEF Lock, LockLatch, LockHold
<1>8. CASE EStopButton \/ ResetEStop
  BY <1>1, <1>8 DEF EStopButton, ResetEStop
<1>9. CASE UNCHANGED vars
  BY <1>1, <1>9 DEF vars
<1> QED
  BY <1>2, <1>3, <1>4, <1>5, <1>6, <1>7, <1>8, <1>9 DEF Next

\* Only the Tk thread reaches "replace", and only from OneShotCheck.
OnlyOneShotReplaces == pc["gui"] = "replace" => OneShot

\* Every step leaves each thread at a known place with tags in its hand.
LEMMA ThreadTypesKept ==
    ASSUME ThreadTypes, LatchTypes, ManualTypesOK, QueueTypeOK, OnlyOneShotReplaces,
           [Next]_vars
    PROVE  ThreadTypes' /\ OnlyOneShotReplaces'
<1> USE DEF ThreadTypes, OnlyOneShotReplaces
<1>1. \A to \in PCs, t \in Threads : [pc EXCEPT ![t] = to] \in [Threads -> PCs]
  OBVIOUS
<1>2. \A got : ReadArm(got) => arm_known' = got
  BY DEF ReadArm
<1>3. \A t \in Threads : [hand EXCEPT ![t] = NoHand] \in [Threads -> Seq(Tags)]
  BY EmptySeq DEF NoHand
<1>4. CASE Inf
  <2>1. PICK to \in PCs : pc' = [pc EXCEPT !["inf"] = to] \/ pc' = pc
    BY <1>4 DEF Inf, AppendCheck, AppendStart, AppendFinish, InfClear, InfMove, Goto, PCs
  <2>2. pc' \in [Threads -> PCs] /\ pc'["gui"] = pc["gui"]
    BY <1>1, <2>1 DEF Threads
  <2>3. hand' = hand
    BY <1>4 DEF Inf, AppendCheck, AppendStart, AppendFinish, InfClear, InfMove
  <2>4. arm_known' \in BOOLEAN
    BY <1>2, <1>4 DEF Inf, AppendCheck, AppendStart, AppendFinish, InfClear, InfMove
  <2> QED
    BY <2>2, <2>3, <2>4
<1>5. CASE Man
  <2>1. PICK to \in PCs : pc' = [pc EXCEPT !["man"] = to]
    BY <1>5 DEF Man, ValidateStart, ValidateOk, ValidateFail, Goto, PCs
  <2>2. pc' \in [Threads -> PCs] /\ pc'["gui"] = pc["gui"]
    BY <1>1, <2>1 DEF Threads
  <2>3. UNCHANGED hand
    BY <1>5 DEF Man, ValidateStart, ValidateOk, ValidateFail
  <2>4. arm_known' \in BOOLEAN
    BY <1>2, <1>5 DEF Man, ValidateStart, ValidateOk, ValidateFail
  <2> QED
    BY <2>2, <2>3, <2>4
<1>6. CASE Release
  <2>1. PICK to \in PCs : /\ pc' = [pc EXCEPT !["gui"] = to]
                          /\ to = "replace" => OneShot
    BY <1>6 DEF Release, ReleaseCheck, ReleaseNothing, Enqueue, ReleaseTake,
       OneShotCheck, OneShotReplace, Goto, PCs
  <2>2. pc' \in [Threads -> PCs] /\ OnlyOneShotReplaces'
    BY <1>1, <2>1 DEF Threads
  <2>3. arm_known' \in BOOLEAN
    BY <1>2, <1>6 DEF Release, ReleaseCheck, ReleaseNothing, Enqueue, ReleaseTake,
       OneShotCheck, OneShotReplace
  <2>4. hand' \in [Threads -> Seq(Tags)]
    <3>1. CASE \/ hand' = hand
               \/ hand' = [hand EXCEPT !["gui"] = NoHand]
               \/ hand' = [hand EXCEPT !["gui"] = last_sim_traj]
      BY <1>3, <3>1 DEF Threads, ManualTypesOK
    <3>2. ASSUME NEW n \in 1..MaxSeq, ReleaseTake(n)
          PROVE  hand' \in [Threads -> Seq(Tags)]
      <4>1. n \in 1..Len(staged) /\ hand' = [hand EXCEPT !["gui"] = SubSeq(staged, 1, n)]
        BY <3>2 DEF ReleaseTake
      <4>2. \A i \in 1..n : staged[i] \in Tags
        BY <4>1 DEF ManualTypesOK
      <4>3. SubSeq(staged, 1, n) \in Seq(Tags)
        BY <4>1, <4>2, SubSeqProperties
      <4> QED
        BY <4>1, <4>3
    <3> QED
      BY <1>6, <3>1, <3>2 DEF Release, ReleaseCheck, ReleaseNothing, Enqueue,
         OneShotCheck, OneShotReplace
  <2> QED
    BY <2>2, <2>3, <2>4
<1>7. CASE Rel
  <2>1. PICK to \in PCs : pc' = [pc EXCEPT !["rel"] = to]
    BY <1>7 DEF Rel, RelPoll, RelPop, RelFirmware, GiveUp, Goto, PCs
  <2>2. pc' \in [Threads -> PCs] /\ pc'["gui"] = pc["gui"]
    BY <1>1, <2>1 DEF Threads
  <2>3. arm_known' \in BOOLEAN
    BY <1>2, <1>7 DEF Rel, RelPoll, RelPop, RelFirmware, GiveUp
  <2>4. hand' \in [Threads -> Seq(Tags)]
    <3>1. CASE hand' = hand \/ hand' = [hand EXCEPT !["rel"] = NoHand]
      BY <1>3, <3>1 DEF Threads
    <3>2. CASE /\ robot_q # <<>>
               /\ hand' = [hand EXCEPT !["rel"] = <<Head(robot_q).tag>>]
      <4>1. Head(robot_q) \in Substep
        BY <3>2, HeadTailProperties DEF QueueTypeOK
      <4>2. Head(robot_q).tag \in Tags
        BY <4>1 DEF Substep
      <4>3. <<Head(robot_q).tag>> \in Seq(Tags)
        BY <4>2
      <4> QED
        BY <3>2, <4>3
    <3> QED
      BY <1>7, <3>1, <3>2 DEF Rel, RelPoll, RelPop, RelFirmware, GiveUp, PopNextSubstep
  <2> QED
    BY <2>2, <2>3, <2>4
<1>8. ASSUME NEW t \in Drivers, Drive(t) PROVE ThreadTypes' /\ OnlyOneShotReplaces'
  <2>1. t \in Threads /\ t # "gui"
    BY DEF Threads, Drivers
  <2>2. PICK to \in PCs : pc' = [pc EXCEPT ![t] = to]
    BY <1>8 DEF Drive, Guard, Test, Send, GiveUp, Goto, PCs
  <2>3. pc' \in [Threads -> PCs] /\ pc'["gui"] = pc["gui"]
    BY <1>1, <2>1, <2>2 DEF Threads
  <2>4. UNCHANGED arm_known
    BY <1>8 DEF Drive, Guard, Test, Send, GiveUp
  <2>5. hand' = hand \/ hand' = [hand EXCEPT ![t] = NoHand]
    BY <1>8 DEF Drive, Guard, Test, Send, GiveUp
  <2> QED
    BY <1>3, <2>1, <2>3, <2>4, <2>5
<1>9. ASSUME NEW t \in Drivers \cup {"gui"}, Lock(t)
      PROVE  ThreadTypes' /\ OnlyOneShotReplaces'
  <2>1. t \in Threads
    BY DEF Threads, Drivers
  <2>2. PICK to \in PCs : pc' = [pc EXCEPT ![t] = to] /\ to # "replace"
    BY <1>9 DEF Lock, LockLatch, LockDrop, LockHold, Goto, PCs
  <2>3. pc' \in [Threads -> PCs] /\ OnlyOneShotReplaces'
    BY <1>1, <2>1, <2>2 DEF Threads
  <2>4. UNCHANGED hand /\ arm_known' \in BOOLEAN
    BY <1>2, <1>9 DEF Lock, LockLatch, LockDrop, LockHold
  <2> QED
    BY <2>3, <2>4
<1>10. CASE EStopButton
  <2>1. pc' = [pc EXCEPT !["gui"] = "latch"] /\ UNCHANGED <<hand, arm_known>>
    BY <1>10 DEF EStopButton, Goto
  <2> QED
    BY <1>1, <2>1 DEF Threads, PCs
<1>11. CASE ResetEStop
  BY <1>11 DEF ResetEStop
<1>12. CASE UNCHANGED vars
  BY <1>12 DEF vars
<1> QED
  BY <1>4, <1>5, <1>6, <1>7, <1>8, <1>9, <1>10, <1>11, <1>12 DEF Next

\* The inductive type invariant of the pipeline.
THEOREM PipelineTypeInvariant == Spec => []TypeInv
<1> USE DEF TypeInv
<1>1. Init => TypeInv
  <2> SUFFICES ASSUME Init PROVE TypeInv
    OBVIOUS
  <2>1. QueueTypeOK
    BY BoundsAssumption
       DEF Init, QueueInit, QueueTypeOK, AppendCall, NoAppend, Rows
  <2>2. 0 \in 0..MaxEpoch /\ 0 < MaxEpoch /\ 0 \in 0..MaxSeq
    BY LimitsAssumption
  <2>3. <<>> \in Seq(Tags)
    OBVIOUS
  <2>4. estop = FALSE /\ epoch = 0 /\ overrun \in [Drivers -> 0..Many]
    BY DEF Init, Many
  <2>5. staged \in Seq(Tags) /\ last_sim_traj \in Seq(Tags)
    BY <2>3 DEF Init
  <2>6. /\ validation_id \in Nat /\ released_id \in Nat \cup {-1} /\ vid \in Nat
        /\ validated = 0 /\ played \subseteq 1..MaxSeq
        /\ arm_known \in BOOLEAN
    BY DEF Init
  <2>7. pc \in [Threads -> PCs] /\ pc["gui"] = "idle"
    BY DEF Init, PCs, Threads
  <2>8. hand \in [Threads -> Seq(Tags)]
    BY <2>3 DEF Init, NoHand
  <2> QED
    BY <2>1, <2>2, <2>4, <2>5, <2>6, <2>7, <2>8 DEF TypeOK
<1>2. TypeInv /\ [Next]_vars => TypeInv'
  <2> SUFFICES ASSUME TypeInv, [Next]_vars PROVE TypeInv'
    OBVIOUS
  <2>1. /\ QueueTypeOK /\ LatchTypes /\ ManualTypesOK
        /\ ThreadTypes /\ OnlyOneShotReplaces
    BY DEF TypeOK, LatchTypes, ManualTypesOK, ThreadTypes, OnlyOneShotReplaces
  <2>2. /\ QueueTypeOK' /\ LatchTypes' /\ ManualTypesOK'
        /\ ThreadTypes' /\ OnlyOneShotReplaces'
    BY <2>1, QueueTypesKept, LatchTypesKept, ManualTypesKept, ThreadTypesKept
  <2> QED
    BY <2>2 DEF TypeOK, LatchTypes, ManualTypesOK, ThreadTypes, OnlyOneShotReplaces
<1> QED
  BY <1>1, <1>2, PTL DEF Spec

\* The shared state and the threads keep their types.
THEOREM PipelineTypeCorrect == Spec => []TypeOK
BY PipelineTypeInvariant, PTL DEF TypeInv

-----------------------------------------------------------------------------
\* A driver that has sent a waypoint since the latch does not get to another
\* one, because it tests the latch before each of them.
HaltInv ==
    \A t \in Drivers : /\ overrun[t] <= 1
                       /\ estop /\ overrun[t] = 1 => pc[t] # "send"

\* C3: for any length of the paths the drivers stream and any interleaving with
\* E-stops and resets, each driver sends at most one waypoint after a latch.
THEOREM PipelineHalts == Spec => []HaltsWithinOneWaypoint
<1>1. Init => HaltInv
  BY DEF Init, HaltInv
<1>2. TypeInv /\ HaltInv /\ [Next]_vars => HaltInv'
  <2> SUFFICES ASSUME TypeInv, HaltInv, [Next]_vars PROVE HaltInv'
    OBVIOUS
  <2>1. /\ pc \in [Threads -> PCs] /\ overrun \in [Drivers -> 0..Many]
        /\ estop \in BOOLEAN
    BY DEF TypeInv, TypeOK
  <2>2. Drivers \subseteq Threads /\ "gui" \in Threads /\ "man" \in Threads
    BY DEF Drivers, Threads
  <2>3. ASSUME NEW t \in Threads, NEW to, to # "send",
               pc' = [pc EXCEPT ![t] = to], UNCHANGED <<estop, overrun>>
        PROVE  HaltInv'
    BY <2>1, <2>2, <2>3 DEF HaltInv
  <2>4. ASSUME UNCHANGED <<pc, estop, overrun>> PROVE HaltInv'
    BY <2>4 DEF HaltInv
  <2>5. CASE Inf
    <3>1. UNCHANGED <<estop, overrun>>
      BY <2>5 DEF Inf, AppendCheck, AppendStart, AppendFinish, InfClear, InfMove, latchVars
    <3>2. \/ UNCHANGED pc
          \/ \E to : to # "send" /\ pc' = [pc EXCEPT !["inf"] = to]
      BY <2>5 DEF Inf, AppendCheck, AppendStart, AppendFinish, InfClear, InfMove, Goto
    <3> QED
      BY <2>2, <2>3, <2>4, <3>1, <3>2 DEF Drivers
  <2>6. CASE Man
    <3>1. UNCHANGED <<estop, overrun>>
      BY <2>6 DEF Man, ValidateStart, ValidateOk, ValidateFail, latchVars
    <3>2. \E to : to # "send" /\ pc' = [pc EXCEPT !["man"] = to]
      BY <2>6 DEF Man, ValidateStart, ValidateOk, ValidateFail, Goto
    <3> QED
      BY <2>2, <2>3, <3>1, <3>2
  <2>7. CASE Release
    <3>1. UNCHANGED <<estop, overrun>>
      BY <2>7 DEF Release, ReleaseCheck, ReleaseNothing, Enqueue, ReleaseTake,
         OneShotCheck, OneShotReplace, latchVars
    <3>2. \E to : to # "send" /\ pc' = [pc EXCEPT !["gui"] = to]
      BY <2>7 DEF Release, ReleaseCheck, ReleaseNothing, Enqueue, ReleaseTake,
         OneShotCheck, OneShotReplace, Goto
    <3> QED
      BY <2>2, <2>3, <3>1, <3>2
  <2>8. CASE Rel
    <3>1. UNCHANGED <<estop, overrun>>
      BY <2>8 DEF Rel, RelPoll, RelPop, RelFirmware, GiveUp, latchVars
    <3>2. \E to : to # "send" /\ pc' = [pc EXCEPT !["rel"] = to]
      BY <2>8 DEF Rel, RelPoll, RelPop, RelFirmware, GiveUp, Goto
    <3> QED
      BY <2>2, <2>3, <3>1, <3>2 DEF Drivers
  <2>9. ASSUME NEW t \in Drivers, Drive(t) PROVE HaltInv'
    <3>1. CASE Guard(t)
      <4>1. UNCHANGED <<estop, overrun>>
        BY <3>1 DEF Guard, GiveUp, latchVars
      <4>2. \E to : to # "send" /\ pc' = [pc EXCEPT ![t] = to]
        BY <3>1 DEF Guard, GiveUp, Goto
      <4> QED
        BY <2>2, <2>3, <4>1, <4>2
    <3>2. CASE Test(t)
      <4>1. UNCHANGED <<estop, overrun>>
        BY <3>2 DEF Test, GiveUp, latchVars
      <4>2. CASE estop
        <5>1. pc' = [pc EXCEPT ![t] = "idle"]
          BY <3>2, <4>2 DEF Test, GiveUp, Goto
        <5> QED
          BY <2>2, <2>3, <4>1, <5>1
      <4>3. CASE ~estop
        BY <4>1, <4>3 DEF HaltInv
      <4> QED
        BY <4>2, <4>3
    <3>3. CASE Send(t)
      <4>1. pc[t] = "send" /\ estop' = estop
        BY <3>3 DEF Send, GiveUp, Goto, latchVars
      <4>2. PICK to : to # "send" /\ pc' = [pc EXCEPT ![t] = to]
        BY <3>3 DEF Send, GiveUp, Goto
      <4>3. CASE UNCHANGED overrun
        BY <2>2, <2>3, <4>1, <4>2, <4>3
      <4>4. CASE overrun' = [overrun EXCEPT ![t] = Overrun(@)]
        <5>1. overrun[t] \in 0..2 /\ (estop => overrun[t] = 0)
          BY <2>1, <4>1 DEF HaltInv, Many
        <5>2. pc'[t] # "send" /\ overrun'[t] = Overrun(overrun[t])
          BY <2>1, <2>2, <4>2, <4>4
        <5>3. overrun'[t] <= 1
          BY <5>1, <5>2 DEF Overrun, Many
        <5>4. \A u \in Drivers : u # t => pc'[u] = pc[u] /\ overrun'[u] = overrun[u]
          BY <2>1, <2>2, <4>2, <4>4
        <5> QED
          BY <4>1, <5>2, <5>3, <5>4 DEF HaltInv
      <4> QED
        BY <3>3, <4>3, <4>4 DEF Send, GiveUp, latchVars
    <3> QED
      BY <2>9, <3>1, <3>2, <3>3 DEF Drive
  <2>10. ASSUME NEW t \in Drivers \cup {"gui"}, Lock(t) PROVE HaltInv'
    <3>1. PICK to : to # "send" /\ pc' = [pc EXCEPT ![t] = to]
      BY <2>10 DEF Lock, LockLatch, LockDrop, LockHold, Goto
    <3>2. CASE UNCHANGED <<estop, overrun>>
      BY <2>2, <2>3, <3>1, <3>2
    <3>3. CASE overrun' = [d \in Drivers |-> 0]
      BY <3>3 DEF HaltInv
    <3>4. CASE LockLatch(t)
      BY <3>2, <3>3, <3>4 DEF LockLatch, HaltInv
    <3> QED
      BY <2>10, <3>2, <3>4 DEF Lock, LockDrop, LockHold, latchVars
  <2>11. CASE EStopButton
    BY <2>2, <2>3, <2>11 DEF EStopButton, Goto, latchVars
  <2>12. CASE ResetEStop
    BY <2>12 DEF ResetEStop, HaltInv
  <2>13. CASE UNCHANGED vars
    BY <2>4, <2>13 DEF vars, latchVars
  <2> QED
    BY <2>5, <2>6, <2>7, <2>8, <2>9, <2>10, <2>11, <2>12, <2>13 DEF Next
<1>3. HaltInv => HaltsWithinOneWaypoint
  BY DEF HaltInv, HaltsWithinOneWaypoint
<1> QED
  BY <1>1, <1>2, <1>3, PipelineTypeInvariant, PTL DEF Spec

-----------------------------------------------------------------------------
(* OneLateAppend.                                                           *)

\* Where the streamed substeps of a queue that lost its head were.
LEMMA TaggedTail ==
    ASSUME NEW q \in Seq(Substep), q # <<>>, NEW i \in TaggedIn(Tail(q))
    PROVE  i + 1 \in TaggedIn(q)
<1>1. /\ Len(q) \in Nat \ {0} /\ Len(Tail(q)) = Len(q) - 1
      /\ \A j \in 1..Len(Tail(q)) : Tail(q)[j] = q[j + 1]
  BY EmptySeq, HeadTailProperties
<1>2. i \in 1..Len(Tail(q)) /\ IsTagged(Tail(q)[i])
  BY DEF TaggedIn
<1>3. i + 1 \in 1..Len(q) /\ Tail(q)[i] = q[i + 1]
  BY <1>1, <1>2
<1> QED
  BY <1>2, <1>3 DEF TaggedIn

\* Manual substeps behind a queue are no streamed ones.
LEMMA TaggedManual ==
    ASSUME NEW tags \in Seq(Tags), NEW q \in Seq(Substep)
    PROVE  /\ TaggedIn(Manual(tags)) = {}
           /\ TaggedIn(q \o Manual(tags)) \subseteq TaggedIn(q)
<1>1. PICK m : m = Manual(tags)
  OBVIOUS
<1>2. m \in Seq(Substep) /\ m \in [1..Len(m) -> [row : {Untagged}, tag : Tags]]
  BY <1>1, ManualTypes
<1>3. \A i \in 1..Len(m) : m[i].row = Untagged
  BY <1>2
<1>4. TaggedIn(m) = {}
  BY <1>3 DEF TaggedIn, IsTagged
<1>5. /\ Len(q) \in Nat /\ Len(m) \in Nat
      /\ Len(q \o m) = Len(q) + Len(m)
      /\ \A j \in 1..Len(q) : (q \o m)[j] = q[j]
      /\ \A j \in 1..Len(m) : (q \o m)[Len(q) + j] = m[j]
  BY <1>2, ConcatElements
<1>6. ASSUME NEW i \in TaggedIn(q \o m) PROVE i \in TaggedIn(q)
  <2>1. i \in 1..(Len(q) + Len(m)) /\ IsTagged((q \o m)[i])
    BY <1>5 DEF TaggedIn
  <2>2. CASE i \in 1..Len(q)
    BY <1>5, <2>1, <2>2 DEF TaggedIn
  <2>3. CASE i \notin 1..Len(q)
    <3>1. i - Len(q) \in 1..Len(m) /\ i = Len(q) + (i - Len(q))
      BY <1>5, <2>1, <2>3
    <3>2. (q \o m)[i] = m[i - Len(q)]
      BY <1>5, <3>1
    <3> QED
      BY <1>3, <2>1, <3>1, <3>2 DEF IsTagged
  <2> QED
    BY <2>2, <2>3
<1> QED
  BY <1>1, <1>4, <1>6

\* Behind a queue without streamed substeps, one splice puts at most MaxTraj of them,
\* one after the other: a bridge stands for a row that was dropped from the front.
LEMMA SpliceWithin ==
    ASSUME QueueTypeOK, TaggedIn(robot_q) = {}, NEW tag \in Tags,
           NEW traj \in Expansions(append.start_id, append.last_id),
           AppendSplice(traj, tag)
    PROVE  \A i, j \in TaggedIn(robot_q') : j - i < MaxTraj
<1> DEFINE first == append.start_id
<1>1. PICK n \in 1..MaxTraj : traj \in [1..n -> first..append.last_id]
  BY DEF Expansions
<1>2. /\ n \in Nat \ {0} /\ n <= MaxTraj /\ MaxTraj \in Nat /\ Len(traj) = n
      /\ first \in Int /\ append.last_id \in Int
  BY <1>1, BoundsAssumption DEF QueueTypeOK, AppendCall, Rows
<1>3. traj[1] = first
  <2>1. 1 \in 1..Len(traj) /\ traj[1] \in first..append.last_id
    BY <1>1, <1>2
  <2>2. first \in first..append.last_id
    BY <1>2, <2>1
  <2>3. PICK i \in 1..Len(traj) : traj[i] = first
    BY <2>2 DEF Expansions
  <2>4. traj[1] <= traj[i]
    <3>1. CASE i = 1
      BY <2>1, <3>1, <1>2
    <3>2. CASE i # 1
      <4>1. 1 < i
        BY <1>2, <3>2
      <4> QED
        BY <2>1, <4>1 DEF Expansions
    <3> QED
      BY <3>1, <3>2
  <2> QED
    BY <1>2, <2>1, <2>3, <2>4
<1>4. PICK k \in 1..(Len(traj) + 1) :
        LET new == [i \in 1..(Len(traj) - k + 1) |->
                      [row |-> traj[k + i - 1], tag |-> tag]]
        IN  IF new = <<>>
            THEN UNCHANGED <<robot_q, queued_through>>
            ELSE \E bridge \in {<<>>, <<new[1]>>} :
                    robot_q' = IF new[1].row = append.start_id
                               THEN robot_q \o new
                               ELSE robot_q \o bridge \o new
  BY DEF AppendSplice
<1> DEFINE new == [i \in 1..(Len(traj) - k + 1) |->
                     [row |-> traj[k + i - 1], tag |-> tag]]
<1>5. PICK m \in Nat : m = n - k + 1
  BY <1>2
<1>6. \A i \in 1..m : [row |-> traj[k + i - 1], tag |-> tag] \in Substep
  <2> SUFFICES ASSUME NEW i \in 1..m
               PROVE  [row |-> traj[k + i - 1], tag |-> tag] \in Substep
    OBVIOUS
  <2>1. k + i - 1 \in 1..n
    BY <1>2, <1>5
  <2>2. traj[k + i - 1] \in Rows
    BY <1>1, <2>1, BoundsAssumption DEF QueueTypeOK, AppendCall, Rows
  <2> QED
    BY <2>2 DEF Substep
<1>7. new \in Seq(Substep) /\ Len(new) = m
  <2>1. new \in [1..m -> Substep]
    BY <1>2, <1>5, <1>6
  <2> HIDE DEF new
  <2> QED
    BY <2>1
<1>8. m <= n /\ (k # 1 => m + 1 <= n)
  BY <1>2, <1>5
<1>9. k = 1 /\ new # <<>> => new[1].row = first
  <2> SUFFICES ASSUME k = 1, new # <<>> PROVE new[1].row = first
    OBVIOUS
  <2>1. m # 0
    BY <1>2, <1>5
  <2>2. 1 \in 1..(Len(traj) - k + 1)
    BY <1>2, <1>5, <2>1
  <2>3. new[1].row = traj[k + 1 - 1]
    BY <2>2
  <2>4. k + 1 - 1 = 1
    OBVIOUS
  <2> QED
    BY <1>3, <2>3, <2>4
<1>10. ASSUME NEW s \in Seq(Substep), Len(s) <= MaxTraj, robot_q' = robot_q \o s
       PROVE  \A i, j \in TaggedIn(robot_q') : j - i < MaxTraj
  <2>1. robot_q \in Seq(Substep)
    BY DEF QueueTypeOK
  <2>2. /\ Len(robot_q) \in Nat /\ Len(s) \in Nat
        /\ Len(robot_q') = Len(robot_q) + Len(s)
        /\ \A j \in 1..Len(robot_q) : robot_q'[j] = robot_q[j]
    BY <1>10, <2>1, ConcatElements
  <2>3. ASSUME NEW i \in TaggedIn(robot_q')
        PROVE  i \in (Len(robot_q) + 1)..(Len(robot_q) + Len(s))
    <3>1. i \in 1..(Len(robot_q) + Len(s)) /\ IsTagged(robot_q'[i])
      BY <2>2 DEF TaggedIn
    <3>2. i \notin 1..Len(robot_q)
      BY <2>2, <3>1 DEF TaggedIn
    <3> QED
      BY <2>2, <3>1, <3>2
  <2> QED
    BY <1>2, <1>10, <2>2, <2>3
<1>11. CASE new = <<>>
  BY <1>4, <1>11 DEF TaggedIn
<1>12. CASE new # <<>>
  <2>1. PICK bridge \in {<<>>, <<new[1]>>} :
           robot_q' = IF new[1].row = first
                      THEN robot_q \o new
                      ELSE robot_q \o bridge \o new
    BY <1>4, <1>12
  <2> HIDE DEF new
  <2>2. new[1] \in Substep
    <3>1. Len(new) \in Nat \ {0}
      BY <1>7, <1>12, EmptySeq
    <3> QED
      BY <1>7, <3>1
  <2>3. CASE new[1].row = first
    <3>1. robot_q' = robot_q \o new /\ Len(new) <= MaxTraj
      BY <1>2, <1>7, <1>8, <2>1, <2>3
    <3> QED
      BY <1>7, <1>10, <3>1
  <2>4. CASE new[1].row # first
    <3>1. Len(new) + 1 <= MaxTraj
      BY <1>2, <1>7, <1>8, <1>9, <1>12, <2>4
    <3>2. bridge \in Seq(Substep) /\ Len(bridge) <= 1
      <4>1. CASE bridge = <<>>
        BY <4>1
      <4>2. CASE bridge = <<new[1]>>
        BY <2>2, <4>2
      <4> QED
        BY <2>1, <4>1, <4>2
    <3>3. PICK b : b = bridge \o new
      OBVIOUS
    <3>4. b \in Seq(Substep) /\ Len(b) = Len(bridge) + Len(new)
      BY <1>7, <3>2, <3>3, ConcatElements
    <3>5. Len(b) <= MaxTraj
      BY <1>2, <1>7, <3>1, <3>2, <3>4
    <3>6. robot_q' = robot_q \o b
      <4>1. robot_q \in Seq(Substep)
        BY DEF QueueTypeOK
      <4>2. (robot_q \o bridge) \o new = robot_q \o (bridge \o new)
        BY <1>7, <3>2, <4>1, ConcatAssociative
      <4>3. robot_q' = robot_q \o bridge \o new
        BY <2>1, <2>4
      <4> QED
        BY <3>3, <4>2, <4>3
    <3> QED
      BY <1>10, <3>4, <3>5, <3>6
  <2> QED
    BY <2>3, <2>4
<1> QED
  BY <1>11, <1>12

\* Once the queue is dropped, a call that tested the latch before finds no streamed
\* row in it, and after it has spliced no other call gets past the test.
InAppend == pc["inf"] \in {"checked", "validating"}
LateInv ==
    Dropped => /\ InAppend => TaggedIn(robot_q) = {}
               /\ \A i, j \in TaggedIn(robot_q) : j - i < MaxTraj

\* A step that queues nothing and lets no call past the test keeps what LateInv says.
LEMMA LateKept ==
    ASSUME TypeInv, LateInv,
           Dropped' => Dropped /\ (InAppend' => InAppend),
           \/ TaggedIn(robot_q') \subseteq TaggedIn(robot_q)
           \/ PopNextSubstep
    PROVE  LateInv'
<1>1. robot_q \in Seq(Substep)
  BY DEF TypeInv, TypeOK, QueueTypeOK
<1>2. SUFFICES ASSUME Dropped'
               PROVE  /\ InAppend' => TaggedIn(robot_q') = {}
                      /\ \A i, j \in TaggedIn(robot_q') : j - i < MaxTraj
  BY DEF LateInv
<1>3. /\ InAppend' => TaggedIn(robot_q) = {}
      /\ \A i, j \in TaggedIn(robot_q) : j - i < MaxTraj
  BY <1>2 DEF LateInv
<1>4. CASE TaggedIn(robot_q') \subseteq TaggedIn(robot_q)
  BY <1>3, <1>4
<1>5. CASE PopNextSubstep
  <2>1. robot_q # <<>> /\ robot_q' = Tail(robot_q)
    BY <1>5 DEF PopNextSubstep
  <2>2. ASSUME NEW i \in TaggedIn(robot_q')
        PROVE  i + 1 \in TaggedIn(robot_q) /\ i \in Int
    BY <1>1, <2>1, TaggedTail DEF TaggedIn
  <2>3. ASSUME NEW i \in TaggedIn(robot_q'), NEW j \in TaggedIn(robot_q')
        PROVE  j - i < MaxTraj
    <3>1. i + 1 \in TaggedIn(robot_q) /\ j + 1 \in TaggedIn(robot_q) /\ i \in Int /\ j \in Int
      BY <2>2
    <3>2. (j + 1) - (i + 1) < MaxTraj /\ (j + 1) - (i + 1) = j - i
      BY <1>3, <3>1
    <3> QED
      BY <3>2
  <2> QED
    BY <1>3, <2>2, <2>3
<1> QED
  BY <1>4, <1>5

\* Where a step moves the threads, as far as Dropped and InAppend can tell.
LEMMA PlainMove ==
    ASSUME TypeInv, NEW t \in Threads, NEW from, NEW to, Goto(t, from, to),
           from # "drop", to \notin {"checked", "validating"}, UNCHANGED estop
    PROVE  Dropped' => Dropped /\ (InAppend' => InAppend)
<1>1. pc \in [Threads -> PCs] /\ "inf" \in Threads
  BY DEF TypeInv, TypeOK, Threads
<1>2. pc' = [pc EXCEPT ![t] = to] /\ pc[t] = from
  BY DEF Goto
<1>3. InAppend' => InAppend
  BY <1>1, <1>2 DEF InAppend
<1>4. ASSUME Dropped' PROVE Dropped
  <2>1. \A u \in Threads : pc'[u] # "drop"
    BY <1>4 DEF Dropped
  <2>2. ASSUME NEW u \in Threads PROVE pc[u] # "drop"
    BY <1>1, <1>2, <2>1
  <2> QED
    BY <1>4, <2>2 DEF Dropped
<1> QED
  BY <1>3, <1>4

\* C3 promises that nothing is queued once the E-stop dropped the queue; one call
\* that tested the latch before still splices.  However the threads interleave, what
\* is queued then fits in one validated trajectory.
THEOREM PipelineLateAppend == Spec => []OneLateAppend
<1>1. Init => LateInv
  BY DEF Init, QueueInit, LateInv, Dropped
<1>2. TypeInv /\ LateInv /\ [Next]_vars => LateInv'
  <2> SUFFICES ASSUME TypeInv, LateInv, [Next]_vars PROVE LateInv'
    OBVIOUS
  <2>1. /\ QueueTypeOK /\ robot_q \in Seq(Substep) /\ hand["gui"] \in Seq(Tags)
        /\ pc \in [Threads -> PCs]
    BY DEF TypeInv, TypeOK, QueueTypeOK, Threads
  <2>2. Threads = {"inf", "man", "gui", "rel"} /\ Drivers = {"inf", "rel"}
    BY DEF Threads, Drivers
  <2>3. ASSUME NEW t \in Threads,
               \E from, to : /\ Goto(t, from, to) /\ from # "drop"
                             /\ to \notin {"checked", "validating"},
               UNCHANGED estop, UNCHANGED robot_q
        PROVE  LateInv'
    BY <2>3, PlainMove, LateKept
  <2>4. ASSUME UNCHANGED <<pc, estop, robot_q>> PROVE LateInv'
    BY <2>4, LateKept DEF Dropped, InAppend
  <2>5. ASSUME robot_q' = <<>> PROVE LateInv'
    BY <2>5 DEF LateInv, TaggedIn
  <2>6. CASE AppendCheck
    BY <2>6 DEF AppendCheck, LateInv, Dropped, latchVars
  <2>7. CASE AppendStart
    <3>1. PICK to : pc["inf"] = "checked" /\ pc' = [pc EXCEPT !["inf"] = to] /\ to # "drop"
      BY <2>7 DEF AppendStart, Goto
    <3>2. UNCHANGED robot_q /\ UNCHANGED estop
      BY <2>7 DEF AppendStart, AppendRead, queueVars, latchVars
    <3>3. ASSUME Dropped' PROVE Dropped /\ InAppend
      <4>1. \A u \in Threads : pc'[u] # "drop"
        BY <3>3 DEF Dropped
      <4>2. \A u \in Threads : pc[u] # "drop"
        BY <2>1, <3>1, <4>1
      <4> QED
        BY <3>1, <3>2, <3>3, <4>2 DEF Dropped, InAppend
    <3> QED
      BY <3>2, <3>3, LateKept
  <2>8. CASE AppendFinish
    <3>1. Goto("inf", "validating", "idle") /\ UNCHANGED estop
      BY <2>8 DEF AppendFinish, latchVars
    <3>2. CASE AppendAbort
      BY <2>2, <2>3, <3>1, <3>2 DEF AppendAbort
    <3>3. ASSUME NEW traj \in Expansions(append.start_id, append.last_id),
                 AppendSplice(traj, Unnumbered)
          PROVE  LateInv'
      <4>1. SUFFICES ASSUME Dropped'
                     PROVE  /\ InAppend' => TaggedIn(robot_q') = {}
                            /\ \A i, j \in TaggedIn(robot_q') : j - i < MaxTraj
        BY DEF LateInv
      <4>2. Dropped
        BY <2>2, <3>1, <4>1, PlainMove
      <4>3. TaggedIn(robot_q) = {}
        BY <3>1, <4>2 DEF LateInv, InAppend, Goto
      <4>4. ~InAppend'
        BY <2>1, <2>2, <3>1 DEF InAppend, Goto
      <4> QED
        BY <2>1, <3>3, <4>3, <4>4, SpliceWithin, UnnumberedType
    <3> QED
      BY <2>8, <3>2, <3>3 DEF AppendFinish
  <2>9. CASE InfClear
    BY <2>5, <2>9 DEF InfClear, ClearQueue
  <2>10. CASE InfMove
    BY <2>2, <2>3, <2>10 DEF InfMove, queueVars, latchVars
  <2>11. CASE Man
    <3>1. UNCHANGED <<robot_q, estop>>
      BY <2>11 DEF Man, ValidateStart, ValidateOk, ValidateFail, queueVars, latchVars
    <3>2. PICK to : pc' = [pc EXCEPT !["man"] = to] /\ to # "drop" /\ pc["man"] # "drop"
      BY <2>11 DEF Man, ValidateStart, ValidateOk, ValidateFail, Goto
    <3>3. InAppend' => InAppend
      BY <2>1, <2>2, <3>2 DEF InAppend
    <3>4. Dropped' => Dropped
      <4>1. SUFFICES ASSUME Dropped' PROVE Dropped
        OBVIOUS
      <4>2. \A u \in Threads : pc'[u] # "drop"
        BY <4>1 DEF Dropped
      <4>3. \A u \in Threads : pc[u] # "drop"
        BY <2>1, <2>2, <3>2, <4>2
      <4> QED
        BY <3>1, <4>1, <4>3 DEF Dropped
    <3> QED
      BY <3>1, <3>3, <3>4, LateKept
  <2>12. CASE Release
    <3>1. PICK from, to : /\ Goto("gui", from, to) /\ from # "drop"
                          /\ to \notin {"checked", "validating"}
      <4>1. \/ Goto("gui", "idle", "take") \/ Goto("gui", "take", "enqueue")
            \/ Goto("gui", "take", "idle") \/ Goto("gui", "enqueue", "idle")
            \/ Goto("gui", "idle", "replace") \/ Goto("gui", "replace", "idle")
        BY <2>12 DEF Release, ReleaseCheck, ReleaseNothing, ReleaseTake, Enqueue,
           OneShotCheck, OneShotReplace
      <4> QED
        BY <4>1
    <3>2. UNCHANGED estop
      BY <2>12 DEF Release, ReleaseCheck, ReleaseNothing, Enqueue, ReleaseTake,
         OneShotCheck, OneShotReplace, latchVars
    <3>3. \/ UNCHANGED robot_q
          \/ robot_q' = robot_q \o Manual(hand["gui"])
          \/ robot_q' = Manual(hand["gui"])
      BY <2>12 DEF Release, ReleaseCheck, ReleaseNothing, Enqueue, ReleaseTake,
         OneShotCheck, OneShotReplace, EnqueueManual, queueVars
    <3>4. TaggedIn(robot_q') \subseteq TaggedIn(robot_q)
      BY <2>1, <3>3, TaggedManual
    <3>5. Dropped' => Dropped /\ (InAppend' => InAppend)
      BY <2>2, <3>1, <3>2, PlainMove
    <3> QED
      BY <3>4, <3>5, LateKept
  <2>13. CASE Rel
    <3>1. PICK from, to : /\ Goto("rel", from, to) /\ from # "drop"
                          /\ to \notin {"checked", "validating"}
      BY <2>13 DEF Rel, RelPoll, RelPop, RelFirmware, GiveUp
    <3>2. UNCHANGED estop /\ (UNCHANGED robot_q \/ PopNextSubstep)
      BY <2>13 DEF Rel, RelPoll, RelPop, RelFirmware, GiveUp, queueVars, latchVars
    <3>3. Dropped' => Dropped /\ (InAppend' => InAppend)
      BY <2>2, <3>1, <3>2, PlainMove
    <3> QED
      BY <3>2, <3>3, LateKept
  <2>14. ASSUME NEW t \in Drivers, Drive(t) PROVE LateInv'
    <3>1. PICK from, to : /\ Goto(t, from, to) /\ from # "drop"
                          /\ to \notin {"checked", "validating"}
      BY <2>14 DEF Drive, Guard, Test, Send, GiveUp
    <3>2. UNCHANGED estop /\ UNCHANGED robot_q
      BY <2>14 DEF Drive, Guard, Test, Send, GiveUp, queueVars, latchVars
    <3> QED
      BY <2>2, <2>3, <3>1, <3>2
  <2>15. ASSUME NEW t \in Drivers \cup {"gui"}, Lock(t) PROVE LateInv'
    <3>1. CASE LockLatch(t)
      <4>1. pc' = [pc EXCEPT ![t] = "drop"]
        BY <3>1 DEF LockLatch, Goto
      <4>2. pc'[t] = "drop" /\ t \in Threads
        BY <2>1, <2>2, <4>1
      <4> QED
        BY <4>2 DEF LateInv, Dropped
    <3>2. CASE LockDrop(t)
      BY <2>5, <3>2 DEF LockDrop, ClearQueue
    <3>3. CASE LockHold(t)
      <4>1. /\ Goto(t, "hold", "idle") /\ UNCHANGED estop /\ UNCHANGED robot_q
        BY <3>3 DEF LockHold, latchVars, queueVars
      <4> QED
        BY <2>2, <2>3, <4>1
    <3> QED
      BY <2>15, <3>1, <3>2, <3>3 DEF Lock
  <2>16. CASE EStopButton
    <3>1. Goto("gui", "idle", "latch") /\ UNCHANGED estop /\ UNCHANGED robot_q
      BY <2>16 DEF EStopButton, latchVars, queueVars
    <3> QED
      BY <2>2, <2>3, <3>1
  <2>17. CASE ResetEStop
    BY <2>17 DEF ResetEStop, LateInv, Dropped
  <2>18. CASE UNCHANGED vars
    BY <2>4, <2>18 DEF vars, latchVars, queueVars
  <2> QED
    BY <2>6, <2>7, <2>8, <2>9, <2>10, <2>11, <2>12, <2>13, <2>14, <2>15, <2>16, <2>17, <2>18
       DEF Next, Inf
<1>3. LateInv => OneLateAppend
  BY DEF LateInv, OneLateAppend
<1> QED
  BY <1>1, <1>2, <1>3, PipelineTypeInvariant, PTL DEF Spec

-----------------------------------------------------------------------------
\* All four threads together use the queue as StreamQueue specifies it, so what
\* is proved of the queue holds in the pipeline: here, unless release_to_robot
\* replaces the queue without resetting the cursor, which no caller in the
\* program combines with streaming.
THEOREM PipelineUsesQueue ==
    ASSUME OneShot = FALSE
    PROVE  Spec => QueueSpec
<1>1. Init => QueueInit
  BY DEF Init
<1>2. TypeInv /\ [Next]_vars => [QueueNext]_queueVars
  <2> SUFFICES ASSUME TypeInv, [Next]_vars PROVE [QueueNext]_queueVars
    OBVIOUS
  <2>1. ~OneShotReplace
    BY DEF TypeInv, OneShotReplace, Goto
  <2> QED
    BY <2>1, DriverQueueSteps
<1> QED
  BY <1>1, <1>2, PipelineTypeInvariant, PTL DEF Spec, QueueSpec

\* In the pipeline, too, rows are streamed in order and without a hole, inside
\* the commit window, through E-stops, homing, moves and manual releases.
THEOREM PipelineStreams ==
    ASSUME OneShot = FALSE
    PROVE  Spec => StreamSpec /\ [](StreamOrder /\ CursorTruthful /\ CommitBound)
BY PipelineUsesQueue, QueueImplementsStream, QueueSafe, PTL

-----------------------------------------------------------------------------
(* ManualInOrder and NoSubstepLost.  Their inductive invariant speaks of the  *)
(* four places a validated substep can be in, one after the other: each place *)
(* is in order, everything in a place comes before everything in the next,    *)
(* and nothing has a number that was not given out.                           *)

Nums(s) == SeqsOf(s) \ {Unnumbered}
Rising(s) == \A i, j \in Numbered(s) : i < j => s[i] < s[j]
Below(A, B) == \A m \in A, n \in B : m < n

Alive(h, q, g, s) == ((Nums(h) \cup Nums(q)) \cup Nums(g)) \cup Nums(s)
InLine(h, q, g, s, sent, last) ==
    /\ Rising(h) /\ Rising(q) /\ Rising(g) /\ Rising(s)
    /\ Below(sent, Alive(h, q, g, s))
    /\ Below(Nums(h), Nums(q)) /\ Below(Nums(h), Nums(g)) /\ Below(Nums(h), Nums(s))
    /\ Below(Nums(q), Nums(g)) /\ Below(Nums(q), Nums(s)) /\ Below(Nums(g), Nums(s))
    /\ sent \cup Alive(h, q, g, s) \subseteq 1..last

Known == played \cup Alive(hand["rel"], TagsOf(robot_q), hand["gui"], staged)
LineInv == InLine(hand["rel"], TagsOf(robot_q), hand["gui"], staged, played, validated)

\* A hand is empty where its thread holds nothing.
HandInv ==
    /\ hand["inf"] = NoHand
    /\ pc["gui"] # "enqueue" => hand["gui"] = NoHand
    /\ pc["rel"] \in {"idle", "pop", "latch", "drop", "hold"} => hand["rel"] = NoHand

\* The numbers in a sequence of tags.
LEMMA NumTypes ==
    ASSUME NEW s \in Seq(Tags)
    PROVE  /\ Nums(s) \subseteq 1..MaxSeq /\ Len(s) \in Nat
           /\ \A i \in 1..Len(s) : s[i] \in 0..MaxSeq
           /\ \A n \in Nums(s) : \E i \in Numbered(s) : n = s[i]
           /\ \A i \in Numbered(s) : i \in 1..Len(s) /\ s[i] \in Nums(s)
<1>1. \A i \in 1..Len(s) : s[i] \in 0..MaxSeq
  <2> SUFFICES ASSUME NEW i \in 1..Len(s) PROVE s[i] \in 0..MaxSeq
    OBVIOUS
  <2>1. s[i] \in Tags
    OBVIOUS
  <2> QED
    BY <2>1, TagsAssumption
<1>2. Nums(s) \subseteq 1..MaxSeq
  BY <1>1, LimitsAssumption DEF Nums, SeqsOf
<1> QED
  BY <1>1, <1>2 DEF Nums, SeqsOf, Numbered

LEMMA NumsEmpty ==
    /\ <<>> \in Seq(Tags) /\ NoHand = <<>> /\ Nums(<<>>) = {} /\ Rising(<<>>)
    /\ TagsOf(<<>>) = <<>>
<1>1. Len(<<>>) = 0 /\ 1..0 = {}
  OBVIOUS
<1>2. TagsOf(<<>>) = <<>>
  BY <1>1 DEF TagsOf
<1> QED
  BY <1>1, <1>2 DEF NoHand, Nums, SeqsOf, Rising, Numbered

\* One sequence behind another: its numbers, and when they rise.
LEMMA NumsConcat ==
    ASSUME NEW s \in Seq(Tags), NEW t \in Seq(Tags)
    PROVE  /\ s \o t \in Seq(Tags)
           /\ Nums(s \o t) = Nums(s) \cup Nums(t)
           /\ Rising(s \o t) <=> Rising(s) /\ Rising(t) /\ Below(Nums(s), Nums(t))
<1>1. /\ Len(s) \in Nat /\ Len(t) \in Nat /\ s \o t \in Seq(Tags)
      /\ Len(s \o t) = Len(s) + Len(t)
      /\ \A j \in 1..Len(s) : (s \o t)[j] = s[j]
      /\ \A j \in 1..Len(t) : (s \o t)[Len(s) + j] = t[j]
  BY ConcatElements
<1>2. ASSUME NEW i \in 1..(Len(s) + Len(t))
      PROVE  \/ i \in 1..Len(s)
             \/ \E j \in 1..Len(t) : i = Len(s) + j
  <2>1. CASE i <= Len(s)
    BY <1>1, <2>1
  <2>2. CASE ~(i <= Len(s))
    <3>1. i - Len(s) \in 1..Len(t) /\ i = Len(s) + (i - Len(s))
      BY <1>1, <2>2
    <3> QED
      BY <3>1
  <2> QED
    BY <2>1, <2>2
<1>3. Nums(s \o t) = Nums(s) \cup Nums(t)
  <2>1. Nums(s \o t) \subseteq Nums(s) \cup Nums(t)
    <3> SUFFICES ASSUME NEW i \in 1..(Len(s) + Len(t)), (s \o t)[i] # 0
                 PROVE  (s \o t)[i] \in Nums(s) \cup Nums(t)
      BY <1>1 DEF Nums, SeqsOf
    <3> QED
      BY <1>1, <1>2 DEF Nums, SeqsOf
  <2>2. ASSUME NEW j \in 1..Len(s), s[j] # 0 PROVE s[j] \in Nums(s \o t)
    <3>1. j \in 1..Len(s \o t)
      BY <1>1
    <3> QED
      BY <1>1, <2>2, <3>1 DEF Nums, SeqsOf
  <2>3. ASSUME NEW j \in 1..Len(t), t[j] # 0 PROVE t[j] \in Nums(s \o t)
    <3>1. Len(s) + j \in 1..Len(s \o t)
      BY <1>1
    <3> QED
      BY <1>1, <2>3, <3>1 DEF Nums, SeqsOf
  <2> QED
    BY <2>1, <2>2, <2>3 DEF Nums, SeqsOf
<1>4. ASSUME Rising(s), Rising(t), Below(Nums(s), Nums(t)) PROVE Rising(s \o t)
  <2> SUFFICES ASSUME NEW i \in Numbered(s \o t), NEW j \in Numbered(s \o t), i < j
               PROVE  (s \o t)[i] < (s \o t)[j]
    BY DEF Rising
  <2>1. /\ i \in 1..(Len(s) + Len(t)) /\ (s \o t)[i] # 0
        /\ j \in 1..(Len(s) + Len(t)) /\ (s \o t)[j] # 0
    BY <1>1 DEF Numbered
  <2>2. CASE i \in 1..Len(s) /\ j \in 1..Len(s)
    BY <1>1, <1>4, <2>1, <2>2 DEF Rising, Numbered
  <2>3. CASE i \in 1..Len(s) /\ j \notin 1..Len(s)
    <3>1. PICK b \in 1..Len(t) : j = Len(s) + b
      BY <1>2, <2>1, <2>3
    <3>2. s[i] \in Nums(s) /\ t[b] \in Nums(t)
      BY <1>1, <2>1, <2>3, <3>1 DEF Nums, SeqsOf
    <3> QED
      BY <1>1, <1>4, <2>3, <3>1, <3>2 DEF Below
  <2>4. CASE i \notin 1..Len(s)
    <3>1. PICK a \in 1..Len(t) : i = Len(s) + a
      BY <1>2, <2>1, <2>4
    <3>2. j \notin 1..Len(s)
      BY <1>1, <2>1, <2>4
    <3>3. PICK b \in 1..Len(t) : j = Len(s) + b
      BY <1>2, <2>1, <3>2
    <3>4. a < b /\ a \in Numbered(t) /\ b \in Numbered(t)
      BY <1>1, <2>1, <3>1, <3>3 DEF Numbered
    <3> QED
      BY <1>1, <1>4, <3>1, <3>3, <3>4 DEF Rising
  <2> QED
    BY <2>2, <2>3, <2>4
<1>5. ASSUME Rising(s \o t) PROVE Rising(s) /\ Rising(t) /\ Below(Nums(s), Nums(t))
  <2>1. \A i \in Numbered(s) : i \in Numbered(s \o t) /\ (s \o t)[i] = s[i]
    BY <1>1 DEF Numbered
  <2>2. \A i \in Numbered(t) : /\ i \in 1..Len(t) /\ Len(s) + i \in Numbered(s \o t)
                               /\ (s \o t)[Len(s) + i] = t[i]
    <3> SUFFICES ASSUME NEW i \in Numbered(t)
                 PROVE  /\ i \in 1..Len(t) /\ Len(s) + i \in Numbered(s \o t)
                        /\ (s \o t)[Len(s) + i] = t[i]
      OBVIOUS
    <3>1. i \in 1..Len(t) /\ Len(s) + i \in 1..Len(s \o t)
      BY <1>1 DEF Numbered
    <3> QED
      BY <1>1, <3>1 DEF Numbered
  <2>3. Rising(s)
    BY <1>5, <2>1 DEF Rising
  <2>4. Rising(t)
    <3> SUFFICES ASSUME NEW i \in Numbered(t), NEW j \in Numbered(t), i < j
                 PROVE  t[i] < t[j]
      BY DEF Rising
    <3>1. Len(s) + i < Len(s) + j
      BY <1>1, <2>2
    <3> QED
      BY <1>5, <2>2, <3>1 DEF Rising
  <2>5. Below(Nums(s), Nums(t))
    <3> SUFFICES ASSUME NEW m \in Nums(s), NEW n \in Nums(t) PROVE m < n
      BY DEF Below
    <3>1. PICK i \in Numbered(s) : m = s[i]
      BY NumTypes
    <3>2. PICK j \in Numbered(t) : n = t[j]
      BY NumTypes
    <3>3. i < Len(s) + j
      BY <1>1, <2>2 DEF Numbered
    <3> QED
      BY <1>5, <2>1, <2>2, <3>1, <3>2, <3>3 DEF Rising
  <2> QED
    BY <2>3, <2>4, <2>5
<1> QED
  BY <1>1, <1>3, <1>4, <1>5

\* What the operations of the line do to its places.
LEMMA TagsOfTypes ==
    ASSUME NEW q \in Seq(Substep)
    PROVE  /\ TagsOf(q) \in Seq(Tags) /\ Len(TagsOf(q)) = Len(q) /\ Len(q) \in Nat
           /\ \A i \in 1..Len(q) : TagsOf(q)[i] = q[i].tag
<1>1. PICK n \in Nat : n = Len(q) /\ \A i \in 1..n : q[i] \in Substep
  OBVIOUS
<1>2. \A i \in 1..n : q[i].tag \in Tags
  BY <1>1 DEF Substep
<1>3. TagsOf(q) \in [1..n -> Tags]
  BY <1>1, <1>2 DEF TagsOf
<1> QED
  BY <1>1, <1>3 DEF TagsOf

LEMMA TagsConcat ==
    ASSUME NEW s \in Seq(Tags), NEW t \in Seq(Tags), NEW m, NEW n, NEW l,
           m = Len(s), n = Len(t), l = m + n
    PROVE  /\ s \o t \in Seq(Tags) /\ Len(s \o t) = l
           /\ \A j \in 1..l : /\ j <= m => (s \o t)[j] = s[j]
                              /\ ~(j <= m) => (s \o t)[j] = t[j - m]
<1>1. /\ s \o t \in Seq(Tags) /\ Len(s \o t) = Len(s) + Len(t)
      /\ \A j \in 1..Len(s) + Len(t) :
            (s \o t)[j] = IF j <= Len(s) THEN s[j] ELSE t[j - Len(s)]
  BY ConcatProperties
<1> QED
  BY <1>1

LEMMA TagsOfConcat ==
    ASSUME NEW q \in Seq(Substep), NEW r \in Seq(Substep)
    PROVE  q \o r \in Seq(Substep) /\ TagsOf(q \o r) = TagsOf(q) \o TagsOf(r)
<1>1. /\ q \o r \in Seq(Substep) /\ Len(q \o r) = Len(q) + Len(r)
      /\ \A j \in 1..(Len(q) + Len(r)) :
            (q \o r)[j] = IF j <= Len(q) THEN q[j] ELSE r[j - Len(q)]
  BY ConcatProperties
<1>2. /\ TagsOf(q) \in Seq(Tags) /\ Len(TagsOf(q)) = Len(q) /\ Len(q) \in Nat
      /\ TagsOf(r) \in Seq(Tags) /\ Len(TagsOf(r)) = Len(r) /\ Len(r) \in Nat
      /\ \A i \in 1..Len(q) : TagsOf(q)[i] = q[i].tag
      /\ \A i \in 1..Len(r) : TagsOf(r)[i] = r[i].tag
  BY TagsOfTypes
<1>3. /\ TagsOf(q \o r) \in Seq(Tags) /\ Len(TagsOf(q \o r)) = Len(q) + Len(r)
      /\ \A i \in 1..(Len(q) + Len(r)) : TagsOf(q \o r)[i] = (q \o r)[i].tag
  BY <1>1, TagsOfTypes
<1>4. /\ TagsOf(q) \o TagsOf(r) \in Seq(Tags)
      /\ Len(TagsOf(q) \o TagsOf(r)) = Len(q) + Len(r)
      /\ \A j \in 1..(Len(q) + Len(r)) :
            /\ j <= Len(q) => (TagsOf(q) \o TagsOf(r))[j] = TagsOf(q)[j]
            /\ ~(j <= Len(q)) => (TagsOf(q) \o TagsOf(r))[j] = TagsOf(r)[j - Len(q)]
  <2>1. PICK m, n, l : m = Len(q) /\ n = Len(r) /\ l = m + n
    OBVIOUS
  <2>2. PICK s, t : s = TagsOf(q) /\ t = TagsOf(r)
    OBVIOUS
  <2>3. m = Len(s) /\ n = Len(t) /\ s \in Seq(Tags) /\ t \in Seq(Tags)
    BY <1>2, <2>1, <2>2
  <2>4. /\ s \o t \in Seq(Tags) /\ Len(s \o t) = l
        /\ \A j \in 1..l : /\ j <= m => (s \o t)[j] = s[j]
                           /\ ~(j <= m) => (s \o t)[j] = t[j - m]
    BY <2>1, <2>3, TagsConcat
  <2> QED
    BY <2>1, <2>2, <2>4
<1>5. ASSUME NEW j \in 1..(Len(q) + Len(r))
      PROVE  TagsOf(q \o r)[j] = (TagsOf(q) \o TagsOf(r))[j]
  <2>1. CASE j <= Len(q)
    <3>1. j \in 1..Len(q)
      BY <1>2, <2>1
    <3> QED
      BY <1>1, <1>2, <1>3, <1>4, <2>1, <3>1
  <2>2. CASE ~(j <= Len(q))
    <3>1. j - Len(q) \in 1..Len(r)
      BY <1>2, <2>2
    <3> QED
      BY <1>1, <1>2, <1>3, <1>4, <2>2, <3>1
  <2> QED
    BY <2>1, <2>2
<1>6. Len(TagsOf(q \o r)) = Len(TagsOf(q) \o TagsOf(r))
  BY <1>3, <1>4
<1>7. \A j \in 1..Len(TagsOf(q \o r)) : TagsOf(q \o r)[j] = (TagsOf(q) \o TagsOf(r))[j]
  BY <1>3, <1>5
<1> QED
  BY <1>1, <1>3, <1>4, <1>6, <1>7, SeqEqual

\* Handing tags to the queue and reading them there gives the tags back.
LEMMA TagsOfManual ==
    ASSUME NEW tags \in Seq(Tags)
    PROVE  Manual(tags) \in Seq(Substep) /\ TagsOf(Manual(tags)) = tags
<1>1. Manual(tags) \in Seq(Substep) /\ Len(Manual(tags)) = Len(tags)
  BY ManualTypes
<1>2. /\ TagsOf(Manual(tags)) \in Seq(Tags) /\ Len(TagsOf(Manual(tags))) = Len(tags)
      /\ \A i \in 1..Len(tags) : TagsOf(Manual(tags))[i] = Manual(tags)[i].tag
  BY <1>1, TagsOfTypes
<1>3. \A i \in 1..Len(tags) : Manual(tags)[i].tag = tags[i]
  BY DEF Manual
<1> QED
  BY <1>1, <1>2, <1>3, SeqEqual

\* The head of a queue leaves it for a hand.
LEMMA TagsOfPop ==
    ASSUME NEW q \in Seq(Substep), q # <<>>
    PROVE  /\ Tail(q) \in Seq(Substep) /\ TagsOf(Tail(q)) \in Seq(Tags)
           /\ <<Head(q).tag>> \in Seq(Tags)
           /\ TagsOf(q) = <<Head(q).tag>> \o TagsOf(Tail(q))
<1>1. /\ Len(q) \in Nat \ {0} /\ Tail(q) \in Seq(Substep) /\ Len(Tail(q)) = Len(q) - 1
      /\ \A j \in 1..Len(Tail(q)) : Tail(q)[j] = q[j + 1]
      /\ Head(q) = q[1] /\ Head(q) \in Substep
  BY EmptySeq, HeadTailProperties
<1>2. Head(q).tag \in Tags
  BY <1>1 DEF Substep
<1>3. <<Head(q).tag>> \in Seq(Substep \cup Tags) /\ <<Head(q).tag>> \in Seq(Tags)
  BY <1>2
<1>4. /\ TagsOf(Tail(q)) \in Seq(Tags) /\ Len(TagsOf(Tail(q))) = Len(q) - 1
      /\ \A i \in 1..(Len(q) - 1) : TagsOf(Tail(q))[i] = q[i + 1].tag
  BY <1>1, TagsOfTypes
<1>5. /\ TagsOf(q) \in Seq(Tags) /\ Len(TagsOf(q)) = Len(q)
      /\ \A i \in 1..Len(q) : TagsOf(q)[i] = q[i].tag
  BY TagsOfTypes
<1>h. PICK h : h = <<Head(q).tag>>
  OBVIOUS
<1>6. /\ Len(h) = 1 /\ h[1] = q[1].tag /\ h \in Seq(Tags)
  BY <1>1, <1>2, <1>h
<1>7. /\ h \o TagsOf(Tail(q)) \in Seq(Tags) /\ Len(h \o TagsOf(Tail(q))) = Len(q)
      /\ \A j \in 1..Len(q) :
            /\ j <= 1 => (h \o TagsOf(Tail(q)))[j] = h[j]
            /\ ~(j <= 1) => (h \o TagsOf(Tail(q)))[j] = TagsOf(Tail(q))[j - 1]
  <2>1. Len(q) - 1 \in Nat
    BY <1>1
  <2>2. PICK k \in Nat : k = Len(q) - 1
    BY <2>1
  <2>3. 1 + k = Len(q) /\ 1 \in Nat
    BY <1>1, <2>2
  <2>4. TagsOf(Tail(q)) \in Seq(Tags) /\ Len(TagsOf(Tail(q))) = k
    BY <1>4, <2>2
  <2>5. PICK m, l : m = 1 /\ l = Len(q)
    OBVIOUS
  <2>6. PICK t : t = TagsOf(Tail(q))
    OBVIOUS
  <2>7. m = Len(h) /\ k = Len(t) /\ l = m + k /\ h \in Seq(Tags) /\ t \in Seq(Tags)
    BY <1>6, <2>3, <2>4, <2>5, <2>6
  <2>8. /\ h \o t \in Seq(Tags) /\ Len(h \o t) = l
        /\ \A j \in 1..l : /\ j <= m => (h \o t)[j] = h[j]
                           /\ ~(j <= m) => (h \o t)[j] = t[j - m]
    BY <2>7, TagsConcat
  <2> QED
    BY <2>5, <2>6, <2>8
<1>8. \A j \in 1..Len(q) : TagsOf(q)[j] = (h \o TagsOf(Tail(q)))[j]
  <2> SUFFICES ASSUME NEW j \in 1..Len(q) PROVE TagsOf(q)[j] = (h \o TagsOf(Tail(q)))[j]
    OBVIOUS
  <2>1. CASE j = 1
    BY <1>1, <1>5, <1>6, <1>7, <2>1
  <2>2. CASE j # 1
    <3>1. j - 1 \in 1..(Len(q) - 1) /\ (j - 1) + 1 = j /\ ~(j <= 1)
      BY <1>1, <2>2
    <3> QED
      BY <1>4, <1>5, <1>7, <3>1
  <2> QED
    BY <2>1, <2>2
<1>9. TagsOf(q) = h \o TagsOf(Tail(q))
  <2>1. Len(TagsOf(q)) = Len(h \o TagsOf(Tail(q)))
    BY <1>5, <1>7
  <2>2. \A j \in 1..Len(TagsOf(q)) : TagsOf(q)[j] = (h \o TagsOf(Tail(q)))[j]
    BY <1>5, <1>8
  <2> QED
    BY <1>5, <1>7, <2>1, <2>2, SeqEqual
<1> QED
  BY <1>1, <1>3, <1>4, <1>9, <1>h

\* The first n of a buffer and the rest make it up.
LEMMA TakeFirst ==
    ASSUME NEW s \in Seq(Tags), NEW n \in 1..Len(s)
    PROVE  /\ SubSeq(s, 1, n) \in Seq(Tags) /\ SubSeq(s, n + 1, Len(s)) \in Seq(Tags)
           /\ s = SubSeq(s, 1, n) \o SubSeq(s, n + 1, Len(s))
<1>a. PICK a : a = SubSeq(s, 1, n)
  OBVIOUS
<1>b. PICK b : b = SubSeq(s, n + 1, Len(s))
  OBVIOUS
<1>1. Len(s) \in Nat /\ n \in Nat
  OBVIOUS
<1>2. a \in Seq(Tags) /\ Len(a) = n /\ \A i \in 1..n : a[i] = s[i]
  BY <1>1, <1>a, SubSeqProperties
<1>3. /\ b \in Seq(Tags) /\ Len(b) = Len(s) - n
      /\ \A i \in 1..(Len(s) - n) : b[i] = s[n + i]
  BY <1>1, <1>b, SubSeqProperties
<1>4. /\ a \o b \in Seq(Tags) /\ Len(a \o b) = Len(s)
      /\ \A j \in 1..Len(s) : /\ j <= n => (a \o b)[j] = a[j]
                              /\ ~(j <= n) => (a \o b)[j] = b[j - n]
  <2>1. PICK k \in Nat : k = Len(s) - n /\ n + k = Len(s)
    BY <1>1
  <2>2. /\ a \o b \in Seq(Tags) /\ Len(a \o b) = n + k
        /\ \A j \in 1..(n + k) : /\ j <= n => (a \o b)[j] = a[j]
                                 /\ ~(j <= n) => (a \o b)[j] = b[j - n]
    <3>1. /\ a \in Seq(Tags) /\ Len(a) = n /\ n \in Nat
          /\ b \in Seq(Tags) /\ Len(b) = k
      BY <1>1, <1>2, <1>3, <2>1
    <3> QED
      BY <3>1, TagsConcat
  <2> QED
    BY <2>1, <2>2
<1>5. ASSUME NEW j \in 1..Len(s) PROVE s[j] = (a \o b)[j]
  <2>1. CASE j <= n
    <3>1. j \in 1..n
      BY <1>1, <2>1
    <3> QED
      BY <1>2, <1>4, <2>1, <3>1
  <2>2. CASE ~(j <= n)
    <3>1. j - n \in 1..(Len(s) - n) /\ n + (j - n) = j
      BY <1>1, <2>2
    <3> QED
      BY <1>3, <1>4, <2>2, <3>1
  <2> QED
    BY <2>1, <2>2
<1>6. s = a \o b
  BY <1>4, <1>5, SeqEqual
<1> QED
  BY <1>2, <1>3, <1>6, <1>a, <1>b

\* A splice brings streamed substeps, which have no number.
LEMMA SpliceNums ==
    ASSUME QueueInv,
           NEW traj \in Expansions(append.start_id, append.last_id),
           AppendSplice(traj, Unnumbered)
    PROVE  /\ Nums(TagsOf(robot_q')) = Nums(TagsOf(robot_q))
           /\ Rising(TagsOf(robot_q)) => Rising(TagsOf(robot_q'))
<1>1. PICK tag \in Tags : tag = Unnumbered
  BY UnnumberedType
<1>2. robot_q' = robot_q \o Spliced(traj, tag)
  BY <1>1, SpliceIsWhole
<1>3. /\ Spliced(traj, tag) \in Seq(Substep)
      /\ \A i \in 1..Len(Spliced(traj, tag)) : Spliced(traj, tag)[i].tag = tag
  <2>1. PICK n \in 1..MaxTraj : traj \in [1..n -> append.start_id..append.last_id]
    BY DEF Expansions
  <2>2. n \in Nat /\ Len(traj) = n
    BY <2>1, BoundsAssumption
  <2>3. append.start_id..append.last_id \subseteq Rows
    BY BoundsAssumption DEF QueueInv, QueueTypeOK, AppendCall, Rows
  <2>4. \A i \in 1..n : [row |-> traj[i], tag |-> tag] \in Substep
    BY <1>1, <2>1, <2>3 DEF Substep
  <2>5. Spliced(traj, tag) \in [1..n -> Substep]
    BY <2>2, <2>4 DEF Spliced
  <2> QED
    BY <2>2, <2>5 DEF Spliced
<1>4. robot_q \in Seq(Substep)
  BY DEF QueueInv, QueueTypeOK
<1>5. PICK new : new = TagsOf(Spliced(traj, tag))
  OBVIOUS
<1>6. TagsOf(robot_q) \in Seq(Tags) /\ TagsOf(robot_q') = TagsOf(robot_q) \o new
  BY <1>2, <1>3, <1>4, <1>5, TagsOfTypes, TagsOfConcat
<1>7. new \in Seq(Tags) /\ \A i \in 1..Len(new) : new[i] = 0
  BY <1>1, <1>3, <1>5, TagsOfTypes
<1>8. Nums(new) = {} /\ Rising(new)
  BY <1>7 DEF Nums, SeqsOf, Rising, Numbered
<1>9. PICK old : old = TagsOf(robot_q)
  OBVIOUS
<1>10. Below(Nums(old), {}) /\ old \in Seq(Tags) /\ TagsOf(robot_q') = old \o new
  BY <1>6, <1>9 DEF Below
<1>11. /\ Nums(old \o new) = Nums(old) \cup {}
       /\ Rising(old \o new) <=> Rising(old) /\ Rising(new) /\ Below(Nums(old), {})
  BY <1>7, <1>8, <1>10, NumsConcat
<1> QED
  BY <1>8, <1>9, <1>10, <1>11

\* The numbers validate_and_stage gives out rise and are new.
LEMMA StagedNums ==
    ASSUME NEW v \in Nat, NEW n \in Nat, v + n <= MaxSeq
    PROVE  LET traj == [i \in 1..n |-> v + i]
           IN  traj \in Seq(Tags) /\ Nums(traj) = (v + 1)..(v + n) /\ Rising(traj)
<1>1. \A i \in 1..n : v + i \in 1..MaxSeq
  BY LimitsAssumption
<1>2. \A i \in 1..n : v + i \in Tags
  BY <1>1, TagsAssumption, LimitsAssumption
<1>3. PICK traj : traj = [i \in 1..n |-> v + i]
  OBVIOUS
<1>4. traj \in [1..n -> Tags] /\ traj \in Seq(Tags) /\ Len(traj) = n
  BY <1>2, <1>3
<1>5. \A i \in 1..n : traj[i] = v + i
  BY <1>3
<1>6. Nums(traj) = (v + 1)..(v + n)
  <2>1. ASSUME NEW m \in (v + 1)..(v + n) PROVE m \in Nums(traj)
    <3>1. m - v \in 1..n /\ v + (m - v) = m /\ m # 0
      OBVIOUS
    <3> QED
      BY <1>4, <1>5, <3>1 DEF Nums, SeqsOf
  <2>2. ASSUME NEW i \in 1..n PROVE traj[i] \in (v + 1)..(v + n)
    BY <1>5
  <2> QED
    BY <1>4, <2>1, <2>2 DEF Nums, SeqsOf
<1>7. Rising(traj)
  BY <1>4, <1>5 DEF Rising, Numbered
<1> QED
  BY <1>3, <1>4, <1>6, <1>7

\* The types of the places, now and after a step.
LEMMA LineTypes ==
    ASSUME TypeInv
    PROVE  /\ hand["rel"] \in Seq(Tags) /\ hand["gui"] \in Seq(Tags)
           /\ staged \in Seq(Tags) /\ robot_q \in Seq(Substep) /\ TagsOf(robot_q) \in Seq(Tags)
           /\ validated \in 0..MaxSeq /\ epoch \in 0..MaxEpoch
           /\ pc \in [Threads -> PCs] /\ hand \in [Threads -> Seq(Tags)]
           /\ played \subseteq Int
<1>1. /\ hand["rel"] \in Seq(Tags) /\ hand["gui"] \in Seq(Tags)
      /\ staged \in Seq(Tags) /\ robot_q \in Seq(Substep)
      /\ validated \in 0..MaxSeq /\ epoch \in 0..MaxEpoch
      /\ pc \in [Threads -> PCs] /\ hand \in [Threads -> Seq(Tags)]
      /\ played \subseteq 1..MaxSeq
  BY DEF TypeInv, TypeOK, QueueTypeOK, Threads
<1>2. TagsOf(robot_q) \in Seq(Tags)
  BY <1>1, TagsOfTypes
<1>3. 1..MaxSeq \subseteq Int
  BY LimitsAssumption
<1> QED
  BY <1>1, <1>2, <1>3

\* A hand is filled where its thread goes on to use it, and emptied there.
LEMMA HandSteps ==
    ASSUME TypeInv, HandInv, OneShot = FALSE, [Next]_vars PROVE HandInv'
<1>1. /\ pc \in [Threads -> PCs] /\ hand \in [Threads -> Seq(Tags)]
      /\ Threads = {"inf", "man", "gui", "rel"} /\ Drivers = {"inf", "rel"}
  BY LineTypes DEF Threads, Drivers
<1> USE DEF HandInv
<1>2. ASSUME NEW t \in Threads, NEW to, pc' = [pc EXCEPT ![t] = to], UNCHANGED hand,
             t = "gui" => pc["gui"] # "enqueue",
             t = "rel" => to \notin {"idle", "pop", "latch", "drop", "hold"}
                          \/ pc["rel"] \in {"idle", "pop", "latch", "drop", "hold"}
      PROVE  HandInv'
  BY <1>1, <1>2
<1>3. ASSUME NEW t \in Threads, NEW to, pc' = [pc EXCEPT ![t] = to], to # "enqueue",
             hand' = [hand EXCEPT ![t] = NoHand]
      PROVE  HandInv'
  BY <1>1, <1>3
<1>4. CASE UNCHANGED <<pc, hand>>
  BY <1>4
<1>5. CASE Inf
  <2>1. \/ UNCHANGED <<pc, hand>>
        \/ UNCHANGED hand /\ \E to : pc' = [pc EXCEPT !["inf"] = to]
    BY <1>5 DEF Inf, AppendCheck, AppendStart, AppendFinish, InfClear, InfMove, Goto
  <2> QED
    BY <1>1, <1>2, <1>4, <2>1
<1>6. CASE Man
  <2>1. UNCHANGED hand /\ \E to : pc' = [pc EXCEPT !["man"] = to]
    BY <1>6 DEF Man, ValidateStart, ValidateOk, ValidateFail, Goto
  <2> QED
    BY <1>1, <1>2, <2>1
<1>7. CASE Release
  <2>1. CASE ReleaseCheck \/ ReleaseNothing
    <3>1. /\ UNCHANGED hand /\ pc["gui"] # "enqueue"
          /\ \E to : pc' = [pc EXCEPT !["gui"] = to]
      BY <2>1 DEF ReleaseCheck, ReleaseNothing, Goto
    <3> QED
      BY <1>1, <1>2, <3>1
  <2>2. CASE Enqueue
    BY <1>1, <1>3, <2>2 DEF Enqueue, Goto
  <2>3. ASSUME NEW n \in 1..MaxSeq, ReleaseTake(n) PROVE HandInv'
    <3>1. /\ pc' = [pc EXCEPT !["gui"] = "enqueue"]
          /\ hand' = [hand EXCEPT !["gui"] = SubSeq(staged, 1, n)]
      BY <2>3 DEF ReleaseTake, Goto
    <3> QED
      BY <1>1, <3>1
  <2>4. ~OneShotCheck /\ ~OneShotReplace
    BY DEF OneShotCheck, OneShotReplace, TypeInv, Goto
  <2> QED
    BY <1>7, <2>1, <2>2, <2>3, <2>4 DEF Release
<1>8. CASE Rel
  <2>1. CASE \E next : GiveUp("rel", "popped", next) /\ next # "enqueue"
    BY <1>1, <1>3, <2>1 DEF GiveUp, Goto
  <2>2. CASE /\ robot_q # <<>> /\ pc' = [pc EXCEPT !["rel"] = "popped"]
             /\ hand' = [hand EXCEPT !["rel"] = <<Head(robot_q).tag>>]
    BY <1>1, <2>2
  <2>3. CASE /\ UNCHANGED hand
             /\ \/ pc' = [pc EXCEPT !["rel"] = "guard"]
                \/ /\ pc["rel"] \in {"idle", "pop"}
                   /\ \E to : pc' = [pc EXCEPT !["rel"] = to]
    <3>1. CASE pc' = [pc EXCEPT !["rel"] = "guard"]
      BY <1>1, <2>3, <3>1
    <3>2. CASE /\ pc["rel"] \in {"idle", "pop"}
               /\ \E to : pc' = [pc EXCEPT !["rel"] = to]
      BY <1>1, <2>3, <3>2
    <3> QED
      BY <2>3, <3>1, <3>2
  <2> QED
    <3>1. CASE RelPoll
      BY <2>3, <3>1 DEF RelPoll, Goto
    <3>2. CASE RelPop
      BY <2>2, <2>3, <3>2 DEF RelPop, PopNextSubstep, Goto
    <3>3. CASE RelFirmware
      BY <2>1, <2>3, <3>3 DEF RelFirmware, Goto
    <3> QED
      BY <1>8, <3>1, <3>2, <3>3 DEF Rel
<1>9. ASSUME NEW t \in Drivers, Drive(t) PROVE HandInv'
  <2>1. CASE \E to : /\ to # "enqueue" /\ pc' = [pc EXCEPT ![t] = to]
                     /\ hand' = [hand EXCEPT ![t] = NoHand]
    BY <1>1, <1>3, <2>1
  <2>2. CASE \E to \in {"guard", "stream", "send"} :
                pc' = [pc EXCEPT ![t] = to] /\ UNCHANGED hand
    <3>1. PICK to \in {"guard", "stream", "send"} : pc' = [pc EXCEPT ![t] = to]
      BY <2>2
    <3>2. UNCHANGED hand
      BY <2>2
    <3>3. t \in Threads /\ t # "gui"
      BY <1>1
    <3> QED
      BY <1>2, <3>1, <3>2, <3>3
  <2>3. CASE Guard(t)
    BY <2>1, <2>2, <2>3 DEF Guard, GiveUp, Goto
  <2>4. CASE Test(t)
    BY <2>1, <2>2, <2>4 DEF Test, GiveUp, Goto
  <2>5. CASE Send(t)
    BY <2>1, <2>2, <2>5 DEF Send, GiveUp, Goto
  <2> QED
    BY <1>9, <2>3, <2>4, <2>5 DEF Drive
<1>10. ASSUME NEW t \in Drivers \cup {"gui"}, Lock(t) PROVE HandInv'
  <2>1. t \in Threads
    BY <1>1
  <2>2. PICK to : /\ pc' = [pc EXCEPT ![t] = to] /\ UNCHANGED hand
                  /\ pc[t] \in {"latch", "drop", "hold"}
    BY <1>10 DEF Lock, LockLatch, LockDrop, LockHold, Goto
  <2> QED
    BY <1>2, <2>1, <2>2
<1>11. CASE EStopButton
  BY <1>1, <1>2, <1>11 DEF EStopButton, Goto
<1>12. CASE ResetEStop \/ UNCHANGED vars
  BY <1>4, <1>12 DEF ResetEStop, vars
<1> QED
  BY <1>5, <1>6, <1>7, <1>8, <1>9, <1>10, <1>11, <1>12 DEF Next

\* What the operations make of the line.  Places only lose substeps, ...
LEMMA LineShrinks ==
    ASSUME NEW h, NEW q, NEW g, NEW s, NEW sent, NEW last, InLine(h, q, g, s, sent, last),
           NEW h2 \in {h, <<>>}, NEW q2 \in {q, <<>>}, NEW g2 \in {g, <<>>}, NEW s2 \in {s, <<>>}
    PROVE  InLine(h2, q2, g2, s2, sent, last)
<1>1. /\ Rising(h2) /\ Rising(q2) /\ Rising(g2) /\ Rising(s2)
      /\ Nums(h2) \subseteq Nums(h) /\ Nums(q2) \subseteq Nums(q)
      /\ Nums(g2) \subseteq Nums(g) /\ Nums(s2) \subseteq Nums(s)
  BY NumsEmpty DEF InLine
<1> QED
  BY <1>1 DEF InLine, Below, Alive

\* ... the first of the staged go to the empty hand of the Tk thread, ...
LEMMA LineTakes ==
    ASSUME NEW h, NEW q, NEW a \in Seq(Tags), NEW b \in Seq(Tags), NEW sent, NEW last,
           InLine(h, q, <<>>, a \o b, sent, last)
    PROVE  InLine(h, q, a, b, sent, last) /\ Alive(h, q, a, b) = Alive(h, q, <<>>, a \o b)
BY NumsConcat, NumsEmpty DEF InLine, Below, Alive

\* ... from there to the queue, ...
LEMMA LineQueues ==
    ASSUME NEW h, NEW q \in Seq(Tags), NEW g \in Seq(Tags), NEW s, NEW sent, NEW last,
           InLine(h, q, g, s, sent, last)
    PROVE  InLine(h, q \o g, <<>>, s, sent, last) /\ Alive(h, q \o g, <<>>, s) = Alive(h, q, g, s)
BY NumsConcat, NumsEmpty DEF InLine, Below, Alive

\* ... or back to the front of the staged, ...
LEMMA LineRestages ==
    ASSUME NEW h, NEW q, NEW g \in Seq(Tags), NEW s \in Seq(Tags), NEW sent, NEW last,
           InLine(h, q, g, s, sent, last)
    PROVE  InLine(h, q, <<>>, g \o s, sent, last) /\ Alive(h, q, <<>>, g \o s) = Alive(h, q, g, s)
BY NumsConcat, NumsEmpty DEF InLine, Below, Alive

\* ... the head of the queue to the empty hand of the release loop, ...
LEMMA LinePops ==
    ASSUME NEW a \in Seq(Tags), NEW b \in Seq(Tags), NEW g, NEW s, NEW sent, NEW last,
           InLine(<<>>, a \o b, g, s, sent, last)
    PROVE  InLine(a, b, g, s, sent, last) /\ Alive(a, b, g, s) = Alive(<<>>, a \o b, g, s)
BY NumsConcat, NumsEmpty DEF InLine, Below, Alive

\* ... from there to the robot, ...
LEMMA LinePlays ==
    ASSUME NEW h, NEW q, NEW g, NEW s, NEW sent, NEW last, InLine(h, q, g, s, sent, last)
    PROVE  InLine(<<>>, q, g, s, sent \cup Nums(h), last)
BY NumsEmpty DEF InLine, Below, Alive

\* ... and new ones are staged behind the others.
LEMMA LineGrows ==
    ASSUME NEW h, NEW q, NEW g, NEW s \in Seq(Tags), NEW t \in Seq(Tags), NEW sent,
           NEW last \in Nat, NEW top \in Nat, last <= top, InLine(h, q, g, s, sent, last),
           Nums(t) = (last + 1)..top, Rising(t)
    PROVE  /\ InLine(h, q, g, s \o t, sent, top)
           /\ Alive(h, q, g, s \o t) = Alive(h, q, g, s) \cup Nums(t)
<1>1. \A A : A \subseteq 1..last => Below(A, Nums(t)) /\ A \subseteq 1..top
  BY DEF Below
<1>2. /\ Nums(h) \subseteq 1..last /\ Nums(q) \subseteq 1..last /\ Nums(g) \subseteq 1..last
      /\ Nums(s) \subseteq 1..last /\ sent \subseteq 1..last
  BY DEF InLine, Alive
<1>3. /\ Nums(s \o t) = Nums(s) \cup Nums(t) /\ Rising(s \o t)
  BY <1>1, <1>2, NumsConcat DEF InLine
<1>4. Nums(t) \subseteq 1..top
  OBVIOUS
<1>5. /\ Below(sent, Nums(t)) /\ Below(Nums(h), Nums(t)) /\ Below(Nums(q), Nums(t))
      /\ Below(Nums(g), Nums(t))
      /\ sent \cup Alive(h, q, g, s \o t) \subseteq 1..top
  BY <1>1, <1>2, <1>3, <1>4 DEF Alive
<1> QED
  BY <1>3, <1>5 DEF InLine, Below, Alive

\* Numbers in the line are lost only by auto-inference taking over, or on the
\* way into a latched E-stop.
Losing == \/ AutoRuns \/ estop \/ pc'["rel"] = "latch"
          \/ \E t \in Drivers \cup {"gui"} : pc[t] = "drop"

\* Every step keeps the line in order, and accounts for what was in it.
LEMMA LineSteps ==
    ASSUME TypeInv, QueueInv, HandInv, LineInv, OneShot = FALSE, [Next]_vars
    PROVE  /\ LineInv'
           /\ \/ Known' = Known /\ UNCHANGED validated
              \/ /\ validated' \in Nat /\ validated <= validated'
                 /\ Known' = Known \cup ((validated + 1)..validated')
              \/ UNCHANGED validated /\ Losing
<1> DEFINE Goal == /\ LineInv'
                   /\ \/ Known' = Known /\ UNCHANGED validated
                      \/ /\ validated' \in Nat /\ validated <= validated'
                         /\ Known' = Known \cup ((validated + 1)..validated')
                      \/ UNCHANGED validated /\ Losing
<1>1. /\ hand["rel"] \in Seq(Tags) /\ hand["gui"] \in Seq(Tags)
      /\ staged \in Seq(Tags) /\ robot_q \in Seq(Substep) /\ TagsOf(robot_q) \in Seq(Tags)
      /\ validated \in 0..MaxSeq /\ validated \in Nat /\ epoch \in 0..MaxEpoch
      /\ pc \in [Threads -> PCs] /\ hand \in [Threads -> Seq(Tags)]
      /\ Threads = {"inf", "man", "gui", "rel"} /\ Drivers = {"inf", "rel"}
  BY LineTypes, LimitsAssumption DEF Threads, Drivers
<1>2. /\ InLine(hand["rel"], TagsOf(robot_q), hand["gui"], staged, played, validated)
      /\ NoHand = <<>> /\ TagsOf(<<>>) = <<>>
  BY NumsEmpty DEF LineInv
<1>3. ASSUME UNCHANGED <<hand, robot_q, staged, played, validated>> PROVE Goal
  BY <1>2, <1>3 DEF LineInv, Known
<1>4. CASE Inf
  <2>1. CASE AppendFinish
    <3>1. UNCHANGED <<hand, staged, played, validated>>
      BY <2>1 DEF AppendFinish, manualVars
    <3>2. CASE AppendAbort
      BY <1>3, <3>1, <3>2 DEF AppendAbort
    <3>3. ASSUME NEW traj \in Expansions(append.start_id, append.last_id),
                 AppendSplice(traj, Unnumbered)
          PROVE  Goal
      <4>1. /\ Nums(TagsOf(robot_q')) = Nums(TagsOf(robot_q))
            /\ Rising(TagsOf(robot_q)) => Rising(TagsOf(robot_q'))
        BY <1>1, <3>3, SpliceNums
      <4> QED
        BY <1>2, <3>1, <4>1 DEF LineInv, InLine, Known, Alive
    <3> QED
      BY <2>1, <3>2, <3>3 DEF AppendFinish
  <2>2. CASE InfClear
    <3>1. /\ robot_q' = <<>> /\ staged' \in {staged, <<>>} /\ AutoRuns
          /\ UNCHANGED <<hand, played, validated>>
      BY <2>2 DEF InfClear, ClearQueue
    <3>2. LineInv'
      BY <1>2, <3>1, LineShrinks DEF LineInv
    <3> QED
      BY <3>1, <3>2 DEF Losing
  <2>3. CASE AppendCheck \/ AppendStart \/ InfMove
    BY <1>3, <2>3
    DEF AppendCheck, AppendStart, AppendRead, InfMove, queueVars, manualVars
  <2> QED
    BY <1>4, <2>1, <2>2, <2>3 DEF Inf
<1>5. CASE Man
  <2>1. ASSUME NEW n \in 1..MaxSeq, ValidateOk(n) PROVE Goal
    <3>1. PICK t : t = [i \in 1..n |-> validated + i]
      OBVIOUS
    <3>2. /\ validated + n <= MaxSeq /\ staged' = staged \o t /\ validated' = validated + n
          /\ UNCHANGED <<hand, robot_q, played>>
      BY <2>1, <3>1 DEF ValidateOk, queueVars
    <3>3. n \in Nat
      BY LimitsAssumption
    <3>4. t \in Seq(Tags) /\ Nums(t) = (validated + 1)..(validated + n) /\ Rising(t)
      BY <1>1, <3>1, <3>2, <3>3, StagedNums
    <3>5. /\ InLine(hand["rel"], TagsOf(robot_q), hand["gui"], staged \o t, played,
                    validated + n)
          /\ Alive(hand["rel"], TagsOf(robot_q), hand["gui"], staged \o t) =
               Alive(hand["rel"], TagsOf(robot_q), hand["gui"], staged)
               \cup ((validated + 1)..(validated + n))
      <4>1. PICK top : top = validated + n
        OBVIOUS
      <4>2. /\ validated \in Nat /\ top \in Nat /\ validated <= top
            /\ Nums(t) = (validated + 1)..top /\ Rising(t)
        BY <1>1, <3>3, <3>4, <4>1
      <4>3. /\ InLine(hand["rel"], TagsOf(robot_q), hand["gui"], staged \o t, played, top)
            /\ Alive(hand["rel"], TagsOf(robot_q), hand["gui"], staged \o t) =
                 Alive(hand["rel"], TagsOf(robot_q), hand["gui"], staged) \cup Nums(t)
        BY <1>1, <1>2, <3>4, <4>2, LineGrows
      <4> QED
        BY <3>4, <4>1, <4>3
    <3>6. LineInv'
      BY <3>2, <3>5 DEF LineInv
    <3>7. Known' = Known \cup ((validated + 1)..validated')
      BY <3>2, <3>5 DEF Known
    <3>8. validated' \in Nat /\ validated <= validated'
      BY <1>1, <3>2, <3>3
    <3> QED
      BY <3>6, <3>7, <3>8
  <2> QED
    BY <1>3, <1>5, <2>1 DEF Man, ValidateStart, ValidateFail, queueVars, manualVars
<1>6. CASE Release
  <2>1. ASSUME NEW n \in 1..MaxSeq, ReleaseTake(n) PROVE Goal
    <3>1. PICK a, b : a = SubSeq(staged, 1, n) /\ b = SubSeq(staged, n + 1, Len(staged))
      OBVIOUS
    <3>2. /\ n \in 1..Len(staged) /\ pc["gui"] = "take"
          /\ hand' = [hand EXCEPT !["gui"] = a] /\ staged' = b
          /\ UNCHANGED <<robot_q, played, validated>>
      BY <2>1, <3>1 DEF ReleaseTake, Goto, queueVars
    <3>3. a \in Seq(Tags) /\ b \in Seq(Tags) /\ staged = a \o b
      BY <1>1, <3>1, <3>2, TakeFirst
    <3>4. hand["gui"] = <<>> /\ hand'["gui"] = a /\ hand'["rel"] = hand["rel"]
      BY <1>1, <1>2, <3>2 DEF HandInv
    <3>5. /\ InLine(hand["rel"], TagsOf(robot_q), a, b, played, validated)
          /\ Alive(hand["rel"], TagsOf(robot_q), a, b) =
               Alive(hand["rel"], TagsOf(robot_q), hand["gui"], staged)
      BY <1>2, <3>3, <3>4, LineTakes
    <3> QED
      BY <3>2, <3>4, <3>5 DEF LineInv, Known
  <2>2. CASE Enqueue
    <3>1. /\ hand'["gui"] = <<>> /\ hand'["rel"] = hand["rel"]
          /\ UNCHANGED <<played, validated>>
      BY <1>1, <1>2, <2>2 DEF Enqueue
    <3>2. CASE EnqueueManual(Manual(hand["gui"])) /\ UNCHANGED staged
      <4>1. /\ robot_q' = robot_q \o Manual(hand["gui"])
            /\ TagsOf(robot_q') = TagsOf(robot_q) \o hand["gui"]
        <5>1. PICK m : m = Manual(hand["gui"])
          OBVIOUS
        <5>2. m \in Seq(Substep) /\ TagsOf(m) = hand["gui"]
          BY <1>1, <5>1, TagsOfManual
        <5>3. robot_q' = robot_q \o m
          BY <3>2, <5>1 DEF EnqueueManual
        <5>4. TagsOf(robot_q \o m) = TagsOf(robot_q) \o TagsOf(m)
          BY <1>1, <5>2, TagsOfConcat
        <5> QED
          BY <5>1, <5>2, <5>3, <5>4
      <4>2. /\ InLine(hand["rel"], TagsOf(robot_q) \o hand["gui"], <<>>, staged, played, validated)
            /\ Alive(hand["rel"], TagsOf(robot_q) \o hand["gui"], <<>>, staged) =
                 Alive(hand["rel"], TagsOf(robot_q), hand["gui"], staged)
        BY <1>1, <1>2, LineQueues
      <4> QED
        BY <3>1, <3>2, <4>1, <4>2 DEF LineInv, Known
    <3>3. CASE staged' = Restage(hand["gui"]) /\ UNCHANGED queueVars
      <4>1. staged' = hand["gui"] \o staged /\ robot_q' = robot_q
        BY <3>3 DEF Restage, queueVars
      <4>2. /\ InLine(hand["rel"], TagsOf(robot_q), <<>>, hand["gui"] \o staged, played, validated)
            /\ Alive(hand["rel"], TagsOf(robot_q), <<>>, hand["gui"] \o staged) =
                 Alive(hand["rel"], TagsOf(robot_q), hand["gui"], staged)
        BY <1>1, <1>2, LineRestages
      <4> QED
        BY <3>1, <4>1, <4>2 DEF LineInv, Known
    <3> QED
      BY <2>2, <3>2, <3>3 DEF Enqueue
  <2>3. CASE ReleaseCheck \/ ReleaseNothing
    BY <1>3, <2>3 DEF ReleaseCheck, ReleaseNothing, queueVars, manualVars
  <2>4. ~OneShotCheck /\ ~OneShotReplace
    BY DEF OneShotCheck, OneShotReplace, TypeInv, Goto
  <2> QED
    BY <1>6, <2>1, <2>2, <2>3, <2>4 DEF Release
\* A driver that gives up drops what the release loop holds.
<1>7. ASSUME NEW t \in Drivers, NEW from, NEW next, GiveUp(t, from, next),
             estop \/ (t = "rel" /\ next = "latch") \/ t = "inf"
      PROVE  Goal
  <2>1. /\ hand' = [hand EXCEPT ![t] = NoHand] /\ pc' = [pc EXCEPT ![t] = next]
        /\ UNCHANGED <<robot_q, staged, played, validated>>
    BY <1>7 DEF GiveUp, Goto, queueVars, manualVars
  <2>2. CASE t = "inf"
    <3>1. hand' = hand
      BY <1>1, <2>1, <2>2 DEF HandInv
    <3> QED
      BY <1>3, <2>1, <3>1
  <2>3. CASE t = "rel"
    <3>1. hand'["rel"] = <<>> /\ hand'["gui"] = hand["gui"] /\ pc'["rel"] = next
      BY <1>1, <1>2, <2>1, <2>3
    <3>2. LineInv'
      BY <1>2, <2>1, <3>1, LineShrinks DEF LineInv
    <3>3. Losing
      BY <1>7, <2>3, <3>1 DEF Losing
    <3> QED
      BY <2>1, <3>2, <3>3
  <2> QED
    BY <1>1, <2>2, <2>3
<1>8. CASE Rel
  <2>1. CASE PopNextSubstep /\ RelPop
    <3>1. PICK a, b : a = <<Head(robot_q).tag>> /\ b = TagsOf(Tail(robot_q))
      OBVIOUS
    <3>2. /\ robot_q # <<>> /\ robot_q' = Tail(robot_q) /\ pc["rel"] = "pop"
          /\ UNCHANGED <<staged, played, validated>>
      BY <2>1 DEF PopNextSubstep, RelPop, Goto, manualVars
    <3>3. hand' = [hand EXCEPT !["rel"] = a]
      BY <2>1, <3>1, <3>2 DEF RelPop
    <3>4. a \in Seq(Tags) /\ b \in Seq(Tags) /\ TagsOf(robot_q) = a \o b
      BY <1>1, <3>1, <3>2, TagsOfPop
    <3>5. hand["rel"] = <<>> /\ hand'["rel"] = a /\ hand'["gui"] = hand["gui"]
      BY <1>1, <1>2, <3>2, <3>3 DEF HandInv
    <3>6. /\ InLine(a, b, hand["gui"], staged, played, validated)
          /\ Alive(a, b, hand["gui"], staged) =
               Alive(hand["rel"], TagsOf(robot_q), hand["gui"], staged)
      BY <1>2, <3>4, <3>5, LinePops
    <3> QED
      BY <3>1, <3>2, <3>5, <3>6 DEF LineInv, Known
  <2>2. CASE RelPoll \/ (RelPop /\ ~PopNextSubstep)
    BY <1>3, <2>2 DEF RelPoll, RelPop, queueVars, manualVars
  <2>3. CASE RelFirmware
    <3>1. CASE GiveUp("rel", "popped", "latch")
      BY <1>1, <1>7, <3>1
    <3> QED
      BY <1>3, <2>3, <3>1 DEF RelFirmware, queueVars, manualVars
  <2> QED
    BY <1>8, <2>1, <2>2, <2>3 DEF Rel
<1>9. ASSUME NEW t \in Drivers, Drive(t) PROVE Goal
  <2>1. CASE UNCHANGED <<queueVars, manualVars, played, hand>>
    BY <1>3, <2>1 DEF queueVars, manualVars
  <2>2. CASE /\ played' = played \cup (SeqsOf(hand[t]) \ {Unnumbered})
             /\ hand' = [hand EXCEPT ![t] = NoHand]
             /\ UNCHANGED <<queueVars, manualVars>>
    <3>1. UNCHANGED <<robot_q, staged, validated>>
      BY <2>2 DEF queueVars, manualVars
    <3>2. CASE t = "inf"
      <4>1. hand' = hand
        BY <1>1, <2>2, <3>2 DEF HandInv
      <4>2. SeqsOf(hand[t]) = {}
        BY <1>2, <3>2 DEF HandInv, SeqsOf
      <4>3. played' = played
        BY <2>2, <4>2
      <4> QED
        BY <1>3, <3>1, <4>1, <4>3
    <3>3. CASE t = "rel"
      <4>1. /\ hand'["rel"] = <<>> /\ hand'["gui"] = hand["gui"]
            /\ played' = played \cup Nums(hand["rel"])
        BY <1>1, <1>2, <2>2, <3>3 DEF Nums
      <4>2. /\ InLine(<<>>, TagsOf(robot_q), hand["gui"], staged, played', validated)
            /\ played' \cup Alive(<<>>, TagsOf(robot_q), hand["gui"], staged) =
                 played \cup Alive(hand["rel"], TagsOf(robot_q), hand["gui"], staged)
        <5>1. InLine(<<>>, TagsOf(robot_q), hand["gui"], staged,
                     played \cup Nums(hand["rel"]), validated)
          BY <1>2, LinePlays
        <5> QED
          BY <4>1, <5>1, NumsEmpty DEF Alive
      <4>3. TagsOf(robot_q') = TagsOf(robot_q) /\ staged' = staged /\ validated' = validated
        BY <3>1
      <4>4. LineInv'
        BY <4>1, <4>2, <4>3 DEF LineInv
      <4>5. Known' = Known
        <5>1. Known' = played' \cup Alive(<<>>, TagsOf(robot_q), hand["gui"], staged)
          BY <4>1, <4>3 DEF Known
        <5>2. Known = played \cup Alive(hand["rel"], TagsOf(robot_q), hand["gui"], staged)
          BY DEF Known
        <5> QED
          BY <4>2, <5>1, <5>2
      <4> QED
        BY <4>3, <4>4, <4>5
    <3> QED
      BY <1>1, <3>2, <3>3
  <2>3. CASE estop /\ \E from, next : GiveUp(t, from, next)
    BY <1>7, <2>3
  <2>4. CASE \/ GiveUp(t, "guard", "latch")
             \/ GiveUp(t, "send", IF t = "rel" THEN "latch" ELSE "idle")
    <3>1. t = "rel" \/ t = "inf"
      BY <1>1
    <3> QED
      BY <1>7, <2>4, <3>1
  <2> QED
    <3>1. CASE Guard(t)
      BY <2>1, <2>3, <2>4, <3>1 DEF Guard
    <3>2. CASE Test(t)
      BY <2>1, <2>3, <3>2 DEF Test
    <3>3. CASE Send(t)
      BY <2>1, <2>2, <2>4, <3>3 DEF Send
    <3> QED
      BY <1>9, <3>1, <3>2, <3>3 DEF Drive
<1>10. ASSUME NEW t \in Drivers \cup {"gui"}, Lock(t) PROVE Goal
  <2>1. CASE LockDrop(t)
    <3>1. /\ robot_q' = <<>> /\ staged' = <<>> /\ pc[t] = "drop"
          /\ UNCHANGED <<hand, played, validated>>
      BY <2>1 DEF LockDrop, ClearQueue, Goto
    <3>2. LineInv'
      BY <1>2, <3>1, LineShrinks DEF LineInv
    <3> QED
      BY <3>1, <3>2 DEF Losing
  <2> QED
    BY <1>3, <1>10, <2>1 DEF Lock, LockLatch, LockHold, queueVars, manualVars
<1>11. CASE EStopButton \/ ResetEStop \/ UNCHANGED vars
  BY <1>3, <1>11 DEF EStopButton, ResetEStop, vars, queueVars, manualVars
<1> QED
  BY <1>4, <1>5, <1>6, <1>8, <1>9, <1>10, <1>11 DEF Next

\* The line is in order, in terms of what the runs check.
LEMMA LineInOrder ==
    ASSUME TypeInv, LineInv
    PROVE  ManualInOrder /\ Nums(Waiting) = Alive(hand["rel"], TagsOf(robot_q), hand["gui"], staged)
<1>1. /\ hand["rel"] \in Seq(Tags) /\ hand["gui"] \in Seq(Tags)
      /\ staged \in Seq(Tags) /\ TagsOf(robot_q) \in Seq(Tags)
  BY LineTypes
<1>2. PICK h, q, g : h = hand["rel"] /\ q = TagsOf(robot_q) /\ g = hand["gui"]
  OBVIOUS
<1>3. /\ h \in Seq(Tags) /\ q \in Seq(Tags) /\ g \in Seq(Tags) /\ staged \in Seq(Tags)
      /\ InLine(h, q, g, staged, played, validated) /\ Waiting = h \o (q \o (g \o staged))
  BY <1>1, <1>2 DEF LineInv, Waiting
<1>4. PICK gs : gs = g \o staged
  OBVIOUS
<1>5. gs \in Seq(Tags) /\ Nums(gs) = Nums(g) \cup Nums(staged) /\ Rising(gs)
  BY <1>3, <1>4, NumsConcat DEF InLine
<1>6. PICK qgs : qgs = q \o gs
  OBVIOUS
<1>7. Below(Nums(q), Nums(gs))
  BY <1>3, <1>5 DEF InLine, Below
<1>8. qgs \in Seq(Tags) /\ Nums(qgs) = Nums(q) \cup Nums(gs) /\ Rising(qgs)
  BY <1>3, <1>5, <1>6, <1>7, NumsConcat DEF InLine
<1>9. Below(Nums(h), Nums(qgs))
  BY <1>3, <1>5, <1>8 DEF InLine, Below
<1>10. PICK w : w = h \o qgs
  OBVIOUS
<1>11. w \in Seq(Tags) /\ Nums(w) = Nums(h) \cup Nums(qgs) /\ Rising(w)
  BY <1>3, <1>8, <1>9, <1>10, NumsConcat DEF InLine
<1>12. Nums(w) = Alive(h, q, g, staged)
  BY <1>5, <1>8, <1>11 DEF Alive
<1>13. Below(played, Nums(w))
  BY <1>3, <1>12 DEF InLine
<1>14. \A i \in Numbered(w) : w[i] \in Nums(w)
  BY <1>11, NumTypes
<1>15. Waiting = w
  BY <1>3, <1>4, <1>6, <1>10
<1>16. ManualInOrder
  BY <1>11, <1>13, <1>14, <1>15 DEF ManualInOrder, Rising, Below
<1> QED
  BY <1>2, <1>12, <1>15, <1>16

\* Nothing is in line at first.
LEMMA LineStarts == ASSUME Init PROVE HandInv /\ LineInv
<1>1. /\ hand["rel"] = <<>> /\ hand["gui"] = <<>> /\ hand["inf"] = <<>> /\ NoHand = <<>>
      /\ staged = <<>> /\ robot_q = <<>> /\ played = {} /\ validated = 0
  BY NumsEmpty DEF Init, QueueInit, Threads
<1>2. InLine(<<>>, <<>>, <<>>, <<>>, {}, 0)
  BY NumsEmpty DEF InLine, Alive, Below
<1> QED
  BY <1>1, <1>2, NumsEmpty DEF HandInv, LineInv

\* The manual step-through releases what was validated in the order it was
\* validated in, and nothing twice: for any number of validations, releases of
\* any size, refused releases, E-stops and auto-inference calls in between.
\* Only release_to_robot, which plays a validation the buttons may have
\* released as well, is left out: no button of the console calls it.
THEOREM ManualReleasesInOrder ==
    ASSUME OneShot = FALSE
    PROVE  Spec => []ManualInOrder
<1>1. Init => HandInv /\ LineInv
  BY LineStarts
<1>2. TypeInv /\ QueueInv /\ HandInv /\ LineInv /\ [Next]_vars => HandInv' /\ LineInv'
  BY HandSteps, LineSteps
<1>3. TypeInv /\ LineInv => ManualInOrder
  BY LineInOrder
<1> QED
  BY <1>1, <1>2, <1>3, PipelineTypeInvariant, PipelineUsesQueue, QueueInvariant, PTL DEF Spec

-----------------------------------------------------------------------------
\* The latch is set and the staged substeps are dropped only in lock_robot,
\* after the latch was counted.
Pressed ==
    /\ estop => epoch > 0
    /\ \A t \in Drivers \cup {"gui"} : pc[t] \in {"drop", "hold"} => epoch > 0

NothingLost == (epoch = 0 /\ pc["rel"] # "latch") => 1..validated \subseteq Known

\* Once it was counted it stays counted, and who is about to latch does so.
LEMMA PressedSteps ==
    ASSUME TypeInv, Pressed, [Next]_vars
    PROVE  /\ Pressed'
           /\ epoch > 0 => epoch' > 0
           /\ pc["rel"] = "latch" => pc'["rel"] = "latch" \/ epoch' > 0
<1> DEFINE Goal == /\ Pressed'
                   /\ epoch > 0 => epoch' > 0
                   /\ pc["rel"] = "latch" => pc'["rel"] = "latch" \/ epoch' > 0
<1>1. /\ pc \in [Threads -> PCs] /\ epoch \in 0..MaxEpoch /\ epoch \in Nat
      /\ Threads = {"inf", "man", "gui", "rel"} /\ Drivers = {"inf", "rel"}
  BY LineTypes, LimitsAssumption DEF Threads, Drivers
<1>2. ASSUME UNCHANGED <<pc, epoch>>, estop' => estop PROVE Goal
  BY <1>2 DEF Pressed
<1>3. ASSUME NEW t \in Threads, NEW from, NEW to, Goto(t, from, to), from # "latch",
             to \notin {"drop", "hold"}, UNCHANGED <<estop, epoch>>
      PROVE  Goal
  BY <1>1, <1>3 DEF Pressed, Goto
<1>4. CASE Inf
  <2>1. CASE InfClear
    BY <1>2, <2>1 DEF InfClear, latchVars
  <2>2. CASE AppendCheck \/ AppendStart \/ AppendFinish \/ InfMove
    <3>1. /\ UNCHANGED <<estop, epoch>>
          /\ \/ Goto("inf", "idle", "checked") \/ Goto("inf", "checked", "validating")
             \/ Goto("inf", "checked", "idle") \/ Goto("inf", "validating", "idle")
             \/ Goto("inf", "idle", "guard")
      BY <2>2 DEF AppendCheck, AppendStart, AppendFinish, InfMove, latchVars
    <3> QED
      BY <1>1, <1>3, <3>1
  <2> QED
    BY <1>4, <2>1, <2>2 DEF Inf
<1>5. CASE Man
  BY <1>1, <1>3, <1>5 DEF Man, ValidateStart, ValidateOk, ValidateFail, latchVars
<1>6. CASE Release
  <2>1. /\ UNCHANGED <<estop, epoch>>
        /\ \/ Goto("gui", "idle", "take") \/ Goto("gui", "take", "enqueue")
           \/ Goto("gui", "take", "idle") \/ Goto("gui", "enqueue", "idle")
           \/ Goto("gui", "idle", "replace") \/ Goto("gui", "replace", "idle")
    BY <1>6 DEF Release, ReleaseCheck, ReleaseNothing, Enqueue, ReleaseTake, OneShotCheck,
                OneShotReplace, latchVars
  <2> QED
    BY <1>1, <1>3, <2>1
<1>7. CASE Rel
  BY <1>1, <1>3, <1>7 DEF Rel, RelPoll, RelPop, RelFirmware, GiveUp, latchVars
<1>8. ASSUME NEW t \in Drivers, Drive(t) PROVE Goal
  <2>1. t \in Threads
    BY <1>1
  <2>2. PICK from, to : /\ Goto(t, from, to) /\ from # "latch" /\ to \notin {"drop", "hold"}
                        /\ UNCHANGED <<estop, epoch>>
    BY <1>8 DEF Drive, Guard, Test, Send, GiveUp, latchVars
  <2> QED
    BY <1>3, <2>1, <2>2
<1>9. ASSUME NEW t \in Drivers \cup {"gui"}, Lock(t) PROVE Goal
  <2>1. t \in Threads
    BY <1>1
  <2>2. CASE LockLatch(t)
    <3>1. epoch' \in Nat /\ epoch' > 0
      BY <1>1, <2>2 DEF LockLatch, Pressed
    <3> QED
      BY <3>1 DEF Pressed
  <2>3. CASE LockDrop(t)
    <3>1. epoch' = epoch /\ epoch > 0
      BY <1>9, <2>3 DEF LockDrop, Goto, Pressed, latchVars
    <3> QED
      BY <3>1 DEF Pressed
  <2>4. CASE LockHold(t)
    BY <1>3, <2>1, <2>4 DEF LockHold, latchVars
  <2> QED
    BY <1>9, <2>2, <2>3, <2>4 DEF Lock
<1>10. CASE EStopButton
  BY <1>1, <1>3, <1>10 DEF EStopButton, latchVars
<1>11. CASE ResetEStop \/ UNCHANGED vars
  BY <1>2, <1>11 DEF ResetEStop, vars, latchVars
<1> QED
  BY <1>4, <1>5, <1>6, <1>7, <1>8, <1>9, <1>10, <1>11 DEF Next

\* "Don't lose the popped substeps": as long as the E-stop was not pressed and
\* no driver is on its way to press it, every substep the operator validated was
\* played or is still in the line.  Auto-inference, which drops the buffers on
\* purpose before it homes the arms, is not run beside the manual step-through.
THEOREM ManualLosesNothing ==
    ASSUME OneShot = FALSE, AutoRuns = FALSE
    PROVE  Spec => []NoSubstepLost
<1>1. Init => HandInv /\ LineInv /\ Pressed /\ NothingLost
  <2>1. ASSUME Init PROVE Pressed
    BY <2>1 DEF Init, Pressed, Drivers, Threads
  <2>2. ASSUME Init PROVE NothingLost
    BY <2>2 DEF Init, NothingLost
  <2> QED
    BY <2>1, <2>2, LineStarts
<1>2. TypeInv /\ QueueInv /\ HandInv /\ LineInv /\ Pressed /\ NothingLost /\ [Next]_vars
        => HandInv' /\ LineInv' /\ Pressed' /\ NothingLost'
  <2> SUFFICES ASSUME TypeInv, QueueInv, HandInv, LineInv, Pressed, NothingLost, [Next]_vars
               PROVE  HandInv' /\ LineInv' /\ Pressed' /\ NothingLost'
    OBVIOUS
  <2>1. HandInv' /\ LineInv'
    BY HandSteps, LineSteps
  <2>2. /\ Pressed'
        /\ epoch > 0 => epoch' > 0
        /\ pc["rel"] = "latch" => pc'["rel"] = "latch" \/ epoch' > 0
    BY PressedSteps
  <2>3. \/ Known' = Known /\ UNCHANGED validated
        \/ /\ validated' \in Nat /\ validated <= validated'
           /\ Known' = Known \cup ((validated + 1)..validated')
        \/ UNCHANGED validated /\ Losing
    BY LineSteps
  <2>4. validated \in Nat /\ epoch \in Nat
    BY LineTypes, LimitsAssumption
  <2>5. SUFFICES ASSUME epoch' = 0, pc'["rel"] # "latch" PROVE 1..validated' \subseteq Known'
    BY <2>1, <2>2 DEF NothingLost
  <2>6. epoch = 0 /\ pc["rel"] # "latch"
    BY <2>2, <2>4, <2>5
  <2>7. ~Losing
    BY <2>5, <2>6 DEF Losing, Pressed
  <2>8. 1..validated \subseteq Known
    BY <2>6 DEF NothingLost
  <2>9. CASE Known' = Known /\ UNCHANGED validated
    BY <2>8, <2>9
  <2>10. CASE /\ validated' \in Nat /\ validated <= validated'
              /\ Known' = Known \cup ((validated + 1)..validated')
    <3>1. 1..validated' \subseteq (1..validated) \cup ((validated + 1)..validated')
      BY <2>4, <2>10
    <3> QED
      BY <2>8, <2>10, <3>1
  <2> QED
    BY <2>3, <2>7, <2>9, <2>10
<1>3. TypeInv /\ LineInv /\ NothingLost => NoSubstepLost
  <2> SUFFICES ASSUME TypeInv, LineInv, NothingLost, epoch = 0, pc["rel"] # "latch"
               PROVE  1..validated = played \cup (SeqsOf(Waiting) \ {Unnumbered})
    BY DEF NoSubstepLost
  <2>1. Nums(Waiting) = Alive(hand["rel"], TagsOf(robot_q), hand["gui"], staged)
    BY LineInOrder
  <2>2. played \cup Nums(Waiting) = Known
    BY <2>1 DEF Known
  <2>3. Known \subseteq 1..validated
    BY DEF LineInv, InLine, Known
  <2>4. 1..validated \subseteq Known
    BY DEF NothingLost
  <2> QED
    BY <2>2, <2>3, <2>4 DEF Nums
<1> QED
  BY <1>1, <1>2, <1>3, PipelineTypeInvariant, PipelineUsesQueue, QueueInvariant, PTL DEF Spec
=============================================================================
