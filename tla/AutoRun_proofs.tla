--------------------------- MODULE AutoRun_proofs ---------------------------
(* What is proved about AutoRun for every set of monitors, every look-ahead,  *)
(* hold and debounce count: the values of its state, that a pause of the      *)
(* package gate leaves the arm nothing to execute, and that the flip macro    *)
(* measures from the grasp it carries, unless the debounce was bypassed or    *)
(* the loop missed a look at the gripper.                                     *)
EXTENDS AutoRun, TLAPS

PkgType == pkg \in [present : BOOLEAN, paused : BOOLEAN,
                    absent : 0..AbsentToPause, seen : 0..PresentToResume]

\* Why the queue is empty in a pause that no switch of the gate crossed.  The thread
\* pauses at the head of the loop only; on its way there from the gate it has dropped
\* the queue, or skipped that for an E-stop which had dropped it since the loop last
\* tested the latch.
PauseInv ==
    /\ PkgType
    /\ armed \subseteq Monitors /\ slipped \in BOOLEAN
    /\ pkg.paused /\ ~slipped => pending = {} /\ auto \in {"top", "gate", "dead"}
    /\ auto \in {"parking", "parked"} => pending = {}
    /\ estop /\ auto \in {"gate", "park"} => pending = {}
    /\ ~slipped /\ (pkg.paused \/ auto \in Parking) => "pkg" \in armed

-----------------------------------------------------------------------------
\* A counter of the debounces stays within its threshold.
LEMMA CountBound ==
    ASSUME NEW max \in Nat, NEW n \in 0..max
    PROVE  Count(n, max) \in 0..max
BY DEF Count

\* A scan of the gate keeps its type and the pause.
LEMMA PkgScanType ==
    ASSUME PkgType, NEW hit \in BOOLEAN
    PROVE  /\ PkgScan(hit) \in [present : BOOLEAN, paused : BOOLEAN,
                                absent : 0..AbsentToPause, seen : 0..PresentToResume]
           /\ PkgScan(hit).paused = pkg.paused
<1>1. /\ Count(pkg.seen, PresentToResume) \in 0..PresentToResume
      /\ Count(pkg.absent, AbsentToPause) \in 0..AbsentToPause
  BY CountBound, CountsAssumption DEF PkgType
<1>2. 0 \in 0..PresentToResume /\ 0 \in 0..AbsentToPause
  BY CountsAssumption
<1>3. pkg.paused \in BOOLEAN
  BY DEF PkgType
<1> DEFINE seen == IF hit THEN Count(pkg.seen, PresentToResume) ELSE 0
           absent == IF hit THEN 0 ELSE Count(pkg.absent, AbsentToPause)
           present == IF pkg.present THEN absent < AbsentToPause
                                     ELSE seen = PresentToResume
<1>4. seen \in 0..PresentToResume /\ absent \in 0..AbsentToPause /\ present \in BOOLEAN
  <2>1. seen \in 0..PresentToResume
    BY <1>1, <1>2
  <2>2. absent \in 0..AbsentToPause
    BY <1>1, <1>2
  <2>3. present \in BOOLEAN
    <3> HIDE DEF seen, absent
    <3>1. CASE pkg.present
      <4>1. present <=> absent < AbsentToPause
        BY <3>1
      <4> QED
        BY <3>1, <4>1
    <3>2. CASE ~pkg.present
      BY <3>2
    <3> QED
      BY <3>1, <3>2
  <2> QED
    BY <2>1, <2>2, <2>3
<1>5. PkgScan(hit) = [pkg EXCEPT !.seen = seen, !.absent = absent, !.present = present]
  BY DEF PkgScan, PkgType
<1> HIDE DEF seen, absent, present
<1> QED
  BY <1>3, <1>4, <1>5 DEF PkgType

\* The reset state of the gate.
LEMMA PkgResetType ==
    /\ PkgReset \in [present : BOOLEAN, paused : BOOLEAN,
                     absent : 0..AbsentToPause, seen : 0..PresentToResume]
    /\ PkgReset.paused = FALSE
BY CountsAssumption DEF PkgReset

-----------------------------------------------------------------------------
\* A membership is a truth value.
LEMMA BooleanMembership ==
    ASSUME NEW x, NEW S, NEW b, b = (x \in S)
    PROVE  b \in BOOLEAN /\ (x \in S => b)
<1>1. CASE x \in S
  <2>1. (x \in S) = TRUE
    BY <1>1
  <2> QED
    BY <2>1
<1>2. CASE x \notin S
  <2>1. (x \in S) = FALSE
    BY <1>2
  <2> QED
    BY <1>2, <2>1
<1> QED
  BY <1>1, <1>2

\* What the Tk thread does keeps PauseInv.
LEMMA GuiPause == PauseInv /\ Gui => PauseInv'
<1> SUFFICES ASSUME PauseInv, Gui PROVE PauseInv'
  OBVIOUS
<1> USE DEF PauseInv, PkgType, handVars, streamVars, switchVars, Parking
<1>1. CASE Start
  BY <1>1, PkgResetType DEF Start
<1>2. CASE Stop
  BY <1>2, PkgResetType DEF Stop, monitorVars
<1>3. CASE Joined
  BY <1>3, PkgResetType DEF Joined, Goto
<1>4. CASE ScanHeadGates
  BY <1>4, PkgScanType DEF ScanHeadGates
<1>5. CASE ResetEStop
  BY <1>5 DEF ResetEStop, autoVars, monitorVars
<1>6. ASSUME NEW m \in Switches, Toggle(m) PROVE PauseInv'
  <2>1. UNCHANGED <<auto, pending, estop>> /\ armed' \subseteq Monitors
    BY <1>6, MonitorsAssumption DEF Toggle
  <2>2. CASE m = "pkg" /\ m \in armed
    <3>1. pkg' = PkgReset /\ slipped' = (auto \in Parking)
      BY <1>6, <2>2 DEF Toggle
    <3>2. PkgType' /\ pkg'.paused = FALSE
      BY <3>1, PkgResetType
    <3>3. slipped' \in BOOLEAN /\ (auto \in Parking => slipped')
      BY <3>1, BooleanMembership
    <3> QED
      BY <2>1, <3>2, <3>3
  <2>3. CASE ~(m = "pkg" /\ m \in armed)
    <3>1. UNCHANGED <<pkg, slipped>> /\ ("pkg" \in armed => "pkg" \in armed')
      BY <1>6, <2>3 DEF Toggle
    <3> QED
      BY <2>1, <3>1
  <2> QED
    BY <2>2, <2>3
<1> QED
  BY <1>1, <1>2, <1>3, <1>4, <1>5, <1>6 DEF Gui

\* So does the head of the loop, with the homing before it.
LEMMA LoopPause == PauseInv /\ (Begin \/ Loop \/ Exit) => PauseInv'
<1> SUFFICES ASSUME PauseInv, Begin \/ Loop \/ Exit PROVE PauseInv'
  OBVIOUS
<1> USE DEF PauseInv, PkgType, handVars, streamVars, monitorVars, switchVars, Parking, Goto, Stay
<1>1. CASE Begin
  BY <1>1 DEF Begin, HomeArm, HandStay, DropRows, Stream!Drop
<1>2. CASE Loop
  BY <1>2, PkgResetType DEF Loop
<1>3. CASE Exit
  BY <1>3 DEF Exit
<1> QED
  BY <1>1, <1>2, <1>3

\* So does the gate: it alone begins and ends a pause.
LEMMA GatePause == PauseInv /\ (Gate \/ Park \/ Parked) => PauseInv'
<1> SUFFICES ASSUME PauseInv, Gate \/ Park \/ Parked PROVE PauseInv'
  OBVIOUS
<1> USE DEF PauseInv, PkgType, handVars, streamVars, monitorVars, switchVars, Parking, Stay
<1>1. CASE Gate
  <2>1. UNCHANGED <<pending, estop, armed, slipped>> /\ auto = "gate"
    BY <1>1 DEF Gate
  <2>2. CASE auto' = "nfp" /\ UNCHANGED pkg /\ "pkg" \notin armed
    BY <2>1, <2>2
  <2>3. CASE Busy
    BY <2>1, <2>3, PkgResetType DEF Busy
  <2>4. ASSUME NEW hit \in BOOLEAN,
               auto' = "nfp", pkg' = [PkgScan(hit) EXCEPT !.paused = FALSE]
        PROVE  PauseInv'
    BY <2>1, <2>4, PkgScanType
  <2>5. ASSUME NEW hit \in BOOLEAN, NoPackage(PkgScan(hit)), "pkg" \in armed
        PROVE  PauseInv'
    BY <2>1, <2>5, PkgScanType DEF NoPackage
  <2>6. \/ auto' = "nfp" /\ UNCHANGED pkg /\ "pkg" \notin armed
        \/ Busy
        \/ \E hit \in BOOLEAN :
              auto' = "nfp" /\ pkg' = [PkgScan(hit) EXCEPT !.paused = FALSE]
        \/ \E hit \in BOOLEAN : NoPackage(PkgScan(hit)) /\ "pkg" \in armed
    BY <1>1, Zenon DEF Gate
  <2> HIDE DEF PauseInv
  <2> QED
    BY <2>2, <2>3, <2>4, <2>5, <2>6, Zenon
<1>2. CASE Park
  BY <1>2 DEF Park, HomeArm, HandStay, DropRows, Stream!Drop
<1>3. CASE Parked
  BY <1>3 DEF Parked
<1> QED
  BY <1>1, <1>2, <1>3

\* So do the macros, which run with no pause.
LEMMA MacroPause == PauseInv /\ (NoFlip \/ Flip \/ Macro) => PauseInv'
<1> SUFFICES ASSUME PauseInv, NoFlip \/ Flip \/ Macro PROVE PauseInv'
  OBVIOUS
<1> USE DEF PauseInv, PkgType, handVars, streamVars, monitorVars, switchVars, Parking, Goto, Stay
<1>1. CASE NoFlip
  BY <1>1 DEF NoFlip
<1>2. CASE Flip
  BY <1>2 DEF Flip
<1>3. CASE MacroClear
  BY <1>3 DEF MacroClear
<1>4. CASE MacroOut
  BY <1>4 DEF MacroOut
<1>5. CASE MacroOpen
  BY <1>5 DEF MacroOpen
<1>6. CASE MacroBack
  BY <1>6 DEF MacroBack
<1> QED
  BY <1>1, <1>2, <1>3, <1>4, <1>5, <1>6 DEF Macro

\* So does an inference: the splice finds no pause.
LEMMA InferPause == PauseInv /\ Infer => PauseInv'
<1> SUFFICES ASSUME PauseInv, Infer PROVE PauseInv'
  OBVIOUS
<1> USE DEF PauseInv, PkgType, handVars, streamVars, monitorVars, switchVars, Parking,
            Goto, Stay, HandStay
<1>1. CASE Observe
  BY <1>1 DEF Observe, BeginRetreat
<1>2. CASE LetGo
  BY <1>2 DEF LetGo
<1>3. CASE Retreat
  BY <1>3 DEF Retreat
<1>4. CASE AppendTest
  BY <1>4 DEF AppendTest
<1>5. CASE Splice
  BY <1>5 DEF Splice
<1> QED
  BY <1>1, <1>2, <1>3, <1>4, <1>5 DEF Infer

\* So do an E-stop, which drops the rows, and the release thread, which only
\* finishes them.
LEMMA HandPause == PauseInv /\ (LockRobot \/ Streaming) => PauseInv'
<1> SUFFICES ASSUME PauseInv, LockRobot \/ Streaming PROVE PauseInv'
  OBVIOUS
<1> USE DEF PauseInv, PkgType, monitorVars, switchVars, Parking, autoVars, streamVars
<1>1. CASE LockRobot
  <2>1. pending' = {}
    BY <1>1 DEF LockRobot, DropRows, Stream!Drop
  <2>2. UNCHANGED <<auto, pkg, armed, slipped>>
    BY <1>1 DEF LockRobot
  <2> QED
    BY <2>1, <2>2
<1>2. CASE Streaming
  <2>1. UNCHANGED <<auto, pkg, armed, slipped>>
    BY <1>2 DEF Streaming
  <2>2. UNCHANGED estop
    BY <1>2 DEF Streaming, Release, RelPoll, RelPop, RelTest, RelSend, RelStep
  <2>3. pending = {} => pending' = {}
    BY <1>2 DEF Streaming, Release, RelPoll, RelPop, RelTest, RelSend, RelStep, Stream!Execute
  <2> QED
    BY <2>1, <2>2, <2>3
<1> QED
  BY <1>1, <1>2

\* PauseInv holds in every state of the auto loop.
THEOREM PauseInvariant == Spec => []PauseInv
<1>1. Init => PauseInv
  BY PkgResetType DEF Init, HandInit, PauseInv, PkgType, Parking
<1>2. PauseInv /\ [Next]_vars => PauseInv'
  <2>1. PauseInv /\ UNCHANGED vars => PauseInv'
    BY DEF PauseInv, PkgType, vars, handVars, streamVars, autoVars, monitorVars, switchVars, Parking
  <2> QED
    BY <2>1, GuiPause, LoopPause, GatePause, MacroPause, InferPause, HandPause
    DEF Next, Thread
<1> QED
  BY <1>1, <1>2, PTL DEF Spec

\* While the package gate has auto paused nothing is left in the robot queue,
\* for any monitors, bounds and debounce counts, with or without fairness.
THEOREM PauseEmptiesQueue == Spec => []PausedQueueEmpty
<1>1. PauseInv => PausedQueueEmpty
  BY DEF PauseInv, PausedQueueEmpty
<1> QED
  BY <1>1, PauseInvariant, PTL

-----------------------------------------------------------------------------
\* The debounced values of the no-flip macro and of the flip macro.
NfpType == nfp \in [committed : BOOLEAN, seen : 0..CommitCount, absent : 0..CommitCount,
                    timer : BOOLEAN]
FlipType == flip \in [base : Nat, above : BOOLEAN, fired : BOOLEAN]

\* A scan of the no-flip macro keeps its type.
LEMMA NfpScanType ==
    ASSUME NfpType, NEW hit \in BOOLEAN
    PROVE  NfpScan(hit) \in [committed : BOOLEAN, seen : 0..CommitCount,
                             absent : 0..CommitCount, timer : BOOLEAN]
<1>1. /\ Count(nfp.seen, CommitCount) \in 0..CommitCount
      /\ Count(nfp.absent, CommitCount) \in 0..CommitCount
  BY CountBound, CountsAssumption DEF NfpType
<1>2. 0 \in 0..CommitCount
  BY CountsAssumption
<1> DEFINE seen == IF hit THEN Count(nfp.seen, CommitCount) ELSE 0
           absent == IF hit THEN 0 ELSE Count(nfp.absent, CommitCount)
           committed == IF nfp.committed THEN absent < CommitCount
                                         ELSE seen = CommitCount
<1>3. seen \in 0..CommitCount
  BY <1>1, <1>2
<1>4. absent \in 0..CommitCount
  BY <1>1, <1>2
<1>5. committed \in BOOLEAN
  <2> HIDE DEF seen, absent
  <2>1. CASE nfp.committed
    <3>1. committed <=> absent < CommitCount
      BY <2>1
    <3> QED
      BY <2>1, <3>1
  <2>2. CASE ~nfp.committed
    BY <2>2
  <2> QED
    BY <2>1, <2>2
<1>6. NfpScan(hit) = [nfp EXCEPT !.seen = seen, !.absent = absent, !.committed = committed]
  BY DEF NfpScan, NfpType
<1> HIDE DEF seen, absent, committed
<1> QED
  BY <1>3, <1>4, <1>5, <1>6 DEF NfpType

\* The reset states of the three monitors.
LEMMA ResetTypes ==
    /\ FlipReset \in [base : Nat, above : BOOLEAN, fired : BOOLEAN]
    /\ NfpReset \in [committed : BOOLEAN, seen : 0..CommitCount,
                     absent : 0..CommitCount, timer : BOOLEAN]
    /\ PkgReset \in [present : BOOLEAN, paused : BOOLEAN,
                     absent : 0..AbsentToPause, seen : 0..PresentToResume]
BY CountsAssumption DEF FlipReset, NfpReset, PkgReset

\* The part of TypeOK that GripLatch is about, and the rest of it.
HandTypeOK ==
    /\ clock \in 0..MaxRow /\ pending \subseteq 0..MaxRow /\ dropped \in BOOLEAN
    /\ estop \in BOOLEAN /\ rel \in {"idle", "polled", "popped", "sending", "stepping"}
    /\ carried \in Grips /\ leftover \in BOOLEAN
    /\ grip_state \in Grips \cup {Unset} /\ grip_locked_until \in 0..(MaxRow + Lock)
    /\ closed \in BOOLEAN /\ grasp \in Nat /\ disturbed \in Nat
AutoTypeOK ==
    /\ is_auto \in BOOLEAN /\ auto \in AutoPCs /\ gui \in {"idle", "joining"}
    /\ macro \in {"none", "nfp", "flip"} /\ pulsed \in BOOLEAN
    /\ armed \subseteq Monitors /\ slipped \in BOOLEAN
    /\ FlipType /\ NfpType /\ PkgType

\* A step of the release thread keeps the types; so do, of what they set, the
\* operations below.
LEMMA ReleaseType == HandTypeOK /\ Release => HandTypeOK'
<1> SUFFICES ASSUME HandTypeOK, Release PROVE HandTypeOK'
  OBVIOUS
<1> USE AheadAssumption, LockAssumption, RowAssumption
    DEF HandTypeOK, handVars, streamVars, relVars, latchVars, gripVars, Grips, PutDown
<1>1. CASE RelPoll
  BY <1>1 DEF RelPoll
<1>2. CASE RelPop
  BY <1>2 DEF RelPop, Stream!Execute
<1>3. CASE RelTest
  BY <1>3 DEF RelTest
<1>4. CASE RelSend
  <2>1. /\ grip_state' \in Grips \cup {Unset} /\ grip_locked_until' \in 0..(MaxRow + Lock)
    BY <1>4 DEF RelSend, Latch
  <2>2. closed' \in BOOLEAN /\ grasp' \in Nat
    BY <1>4 DEF RelSend, Move
  <2>3. disturbed' \in Nat
    BY <1>4, <2>2 DEF RelSend
  <2>4. /\ UNCHANGED <<clock, pending, dropped, estop>>
        /\ rel' = "stepping" /\ carried' = Open /\ leftover' = FALSE
    BY <1>4 DEF RelSend
  <2> QED
    BY <2>1, <2>2, <2>3, <2>4
<1>5. CASE RelStep
  BY <1>5 DEF RelStep
<1> QED
  BY <1>1, <1>2, <1>3, <1>4, <1>5 DEF Release

\* Dropping the rows.
LEMMA DropType ==
    ASSUME HandTypeOK, DropRows
    PROVE  /\ clock' \in 0..MaxRow /\ pending' \subseteq 0..MaxRow
           /\ dropped' \in BOOLEAN /\ leftover' \in BOOLEAN
BY DEF HandTypeOK, DropRows, Stream!Drop, InFlight

\* Resetting the latch.
LEMMA ResetType ==
    ASSUME HandTypeOK, ResetLatch
    PROVE  grip_state' \in Grips \cup {Unset} /\ grip_locked_until' \in 0..(MaxRow + Lock)
BY LockAssumption, RowAssumption DEF HandTypeOK, ResetLatch

\* Commanding the gripper.
LEMMA CommandType ==
    ASSUME HandTypeOK, NEW b \in Grips, CommandGripper(b)
    PROVE  /\ grip_state' \in Grips \cup {Unset} /\ grip_locked_until' \in 0..(MaxRow + Lock)
           /\ closed' \in BOOLEAN /\ grasp' \in Nat
BY LockAssumption, RowAssumption DEF HandTypeOK, CommandGripper, Move

\* Committing rows.
LEMMA CommitType ==
    ASSUME HandTypeOK, NEW first \in clock..(clock + Ahead), NEW last \in clock..(clock + Ahead),
           Commit(first, last)
    PROVE  clock' \in 0..MaxRow /\ pending' \subseteq 0..MaxRow /\ dropped' \in BOOLEAN
<1>1. clock \in Nat /\ clock \in 0..MaxRow /\ Ahead \in Nat /\ MaxRow \in Nat
  BY AheadAssumption, RowAssumption DEF HandTypeOK
<1>2. /\ last <= MaxRow /\ pending' = pending \cup first..last
      /\ clock' = clock /\ dropped' = FALSE
  BY DEF Commit, Stream!Commit
<1>3. first..last \subseteq 0..MaxRow
  <2>1. first \in Int /\ last \in Int /\ 0 <= first
    BY <1>1
  <2> QED
    BY <1>1, <1>2, <2>1
<1> QED
  BY <1>1, <1>2, <1>3 DEF HandTypeOK

-----------------------------------------------------------------------------
\* Every step of the Tk thread keeps the types.
LEMMA GuiType == HandTypeOK /\ AutoTypeOK /\ Gui => HandTypeOK' /\ AutoTypeOK'
<1> SUFFICES ASSUME HandTypeOK, AutoTypeOK, Gui PROVE HandTypeOK' /\ AutoTypeOK'
  OBVIOUS
<1> USE ResetTypes DEF AutoTypeOK, FlipType, NfpType, PkgType, AutoPCs, switchVars
<1>1. CASE Start
  <2>1. grip_state' \in Grips \cup {Unset} /\ grip_locked_until' \in 0..(MaxRow + Lock)
    BY <1>1, ResetType DEF Start
  <2>2. HandTypeOK'
    BY <1>1, <2>1 DEF Start, HandTypeOK, streamVars, relVars
  <2> QED
    BY <1>1, <2>2 DEF Start
<1>2. CASE Stop
  <2>1. HandTypeOK'
    BY <1>2 DEF Stop, HandTypeOK, handVars, streamVars, relVars, latchVars, gripVars
  <2>2. FlipType' /\ NfpType' /\ PkgType'
    <3>1. CASE auto = "none"
      BY <1>2, <3>1 DEF Stop
    <3>2. CASE auto # "none"
      BY <1>2, <3>2 DEF Stop, monitorVars
    <3> QED
      BY <3>1, <3>2
  <2>3. UNCHANGED <<auto, macro, pulsed, armed, slipped>> /\ is_auto' = FALSE
    BY <1>2 DEF Stop
  <2>4. gui' \in {"idle", "joining"}
    BY <1>2 DEF Stop
  <2> QED
    BY <2>1, <2>2, <2>3, <2>4
<1>3. CASE Joined
  BY <1>3
  DEF Joined, HandTypeOK, handVars, streamVars, relVars, latchVars, gripVars, Goto
<1>4. CASE ScanHeadGates
  <2>1. HandTypeOK'
    BY <1>4 DEF ScanHeadGates, HandTypeOK, handVars, streamVars, relVars, latchVars, gripVars
  <2>2. NfpType'
    BY <1>4, NfpScanType DEF ScanHeadGates
  <2>3. PkgType'
    BY <1>4, PkgScanType DEF ScanHeadGates
  <2> QED
    BY <1>4, <2>1, <2>2, <2>3 DEF ScanHeadGates
<1>5. CASE ResetEStop
  <2>1. grip_state' \in Grips \cup {Unset} /\ grip_locked_until' \in 0..(MaxRow + Lock)
    BY <1>5, ResetType DEF ResetEStop
  <2>2. HandTypeOK'
    BY <1>5, <2>1 DEF ResetEStop, HandTypeOK, streamVars, relVars
  <2> QED
    BY <1>5, <2>2 DEF ResetEStop, autoVars, monitorVars
<1>6. ASSUME NEW m \in Switches, Toggle(m) PROVE HandTypeOK' /\ AutoTypeOK'
  <2>1. HandTypeOK'
    BY <1>6 DEF Toggle, HandTypeOK, handVars, streamVars, relVars, latchVars, gripVars
  <2>2. armed' \subseteq Monitors
    BY <1>6, MonitorsAssumption DEF Toggle
  <2>3. slipped' \in BOOLEAN
    <3>1. slipped' = (auto \in Parking) \/ slipped' = slipped
      BY <1>6, Zenon DEF Toggle
    <3> QED
      BY <3>1, BooleanMembership
  <2>4. PkgType'
    BY <1>6 DEF Toggle
  <2> QED
    BY <1>6, <2>1, <2>2, <2>3, <2>4 DEF Toggle
<1> QED
  BY <1>1, <1>2, <1>3, <1>4, <1>5, <1>6 DEF Gui

\* An E-stop keeps the types.
LEMMA LockType == HandTypeOK /\ AutoTypeOK /\ LockRobot => HandTypeOK' /\ AutoTypeOK'
<1> SUFFICES ASSUME HandTypeOK, AutoTypeOK, LockRobot PROVE HandTypeOK' /\ AutoTypeOK'
  OBVIOUS
<1>1. HandTypeOK'
  <2>1. UNCHANGED <<grip_state, grip_locked_until, closed, grasp, disturbed>> /\ estop' = TRUE
    BY DEF LockRobot, latchVars, gripVars
  <2>2. Stream!Drop /\ rel' \in {rel, "idle"} /\ carried' \in {carried, Open}
        /\ leftover' \in BOOLEAN
    <3>1. CASE DropRows /\ UNCHANGED <<rel, carried>>
      BY <3>1 DEF DropRows, InFlight
    <3>2. CASE Stream!Drop /\ PutDown
      BY <3>2 DEF PutDown
    <3> QED
      BY <3>1, <3>2 DEF LockRobot
  <2>3. clock' = clock /\ pending' = {} /\ dropped' = TRUE
    BY <2>2 DEF Stream!Drop
  <2> QED
    BY <2>1, <2>2, <2>3 DEF HandTypeOK, Grips
<1>2. AutoTypeOK'
  BY DEF LockRobot, AutoTypeOK, FlipType, NfpType, PkgType, monitorVars, switchVars
<1> QED
  BY <1>1, <1>2

\* The inference thread outside _run_inference keeps the types.
LEMMA LoopType ==
    HandTypeOK /\ AutoTypeOK /\ (Begin \/ Loop \/ Exit \/ Gate \/ Park \/ Parked)
       => HandTypeOK' /\ AutoTypeOK'
<1> SUFFICES ASSUME HandTypeOK, AutoTypeOK,
                    Begin \/ Loop \/ Exit \/ Gate \/ Park \/ Parked
             PROVE  HandTypeOK' /\ AutoTypeOK'
  OBVIOUS
<1> USE ResetTypes
    DEF AutoTypeOK, FlipType, NfpType, PkgType, AutoPCs, Goto, Stay, HandStay,
        monitorVars, switchVars, handVars, streamVars, relVars, latchVars, gripVars
<1>1. CASE Begin
  <2>1. HandTypeOK'
    BY <1>1, DropType DEF Begin, HomeArm, HandTypeOK
  <2> QED
    BY <1>1, <2>1 DEF Begin, HomeArm
<1>2. CASE Loop
  <2>1. HandTypeOK'
    BY <1>2 DEF Loop, HandTypeOK
  <2> QED
    BY <1>2, <2>1 DEF Loop
<1>3. CASE Exit
  BY <1>3 DEF Exit, HandTypeOK
<1>4. CASE Gate
  <2>1. HandTypeOK'
    BY <1>4 DEF Gate, HandTypeOK
  <2>2. PkgType'
    BY <1>4, PkgScanType DEF Gate, Busy, NoPackage
  <2>3. auto' \in AutoPCs
    BY <1>4 DEF Gate, Busy, NoPackage
  <2> QED
    BY <1>4, <2>1, <2>2, <2>3 DEF Gate
<1>5. CASE Park
  <2>1. HandTypeOK'
    BY <1>5, DropType DEF Park, HomeArm, HandTypeOK
  <2> QED
    BY <1>5, <2>1 DEF Park, HomeArm
<1>6. CASE Parked
  <2>1. HandTypeOK'
    BY <1>6 DEF Parked, HandTypeOK
  <2>2. PkgType' /\ NfpType'
    BY <1>6 DEF Parked
  <2> QED
    BY <1>6, <2>1, <2>2 DEF Parked
<1> QED
  BY <1>1, <1>2, <1>3, <1>4, <1>5, <1>6

\* The place macros keep the types.
LEMMA MacroType ==
    HandTypeOK /\ AutoTypeOK /\ (NoFlip \/ Flip \/ Macro) => HandTypeOK' /\ AutoTypeOK'
<1> SUFFICES ASSUME HandTypeOK, AutoTypeOK, NoFlip \/ Flip \/ Macro
             PROVE  HandTypeOK' /\ AutoTypeOK'
  OBVIOUS
<1> USE ResetTypes
    DEF AutoTypeOK, FlipType, NfpType, PkgType, AutoPCs, Goto, Stay, HandStay,
        monitorVars, switchVars, handVars, streamVars, relVars, latchVars, gripVars
<1>1. CASE NoFlip
  <2>1. HandTypeOK' /\ closed \in BOOLEAN
    BY <1>1 DEF NoFlip, HandTypeOK
  <2>2. NfpType'
    BY <1>1, <2>1, NfpScanType DEF NoFlip
  <2> QED
    BY <1>1, <2>1, <2>2 DEF NoFlip
<1>2. CASE Flip
  <2>1. HandTypeOK' /\ grasp \in Nat
    BY <1>2 DEF Flip, HandTypeOK
  <2>2. FlipType'
    BY <1>2, <2>1 DEF Flip, FlipLook
  <2> QED
    BY <1>2, <2>1, <2>2 DEF Flip
<1>3. CASE MacroClear
  <2>1. HandTypeOK'
    BY <1>3, DropType DEF MacroClear, HandTypeOK
  <2> QED
    BY <1>3, <2>1 DEF MacroClear
<1>4. CASE MacroOut
  <2>1. HandTypeOK'
    BY <1>4 DEF MacroOut, HandTypeOK
  <2> QED
    BY <1>4, <2>1 DEF MacroOut
<1>5. CASE MacroOpen
  <2>1. HandTypeOK'
    BY <1>5, CommandType DEF MacroOpen, HandTypeOK, Grips
  <2> QED
    BY <1>5, <2>1 DEF MacroOpen
<1>6. CASE MacroBack
  <2>1. HandTypeOK'
    BY <1>6, DropType, ResetType DEF MacroBack, HandTypeOK
  <2> QED
    BY <1>6, <2>1 DEF MacroBack
<1> QED
  BY <1>1, <1>2, <1>3, <1>4, <1>5, <1>6 DEF Macro

\* _run_inference keeps the types.
LEMMA InferType == HandTypeOK /\ AutoTypeOK /\ Infer => HandTypeOK' /\ AutoTypeOK'
<1> SUFFICES ASSUME HandTypeOK, AutoTypeOK, Infer PROVE HandTypeOK' /\ AutoTypeOK'
  OBVIOUS
<1> USE DEF AutoTypeOK, FlipType, NfpType, PkgType, AutoPCs, Goto, Stay, HandStay,
            monitorVars, switchVars, handVars, streamVars, relVars, latchVars, gripVars
<1>1. CASE Observe
  <2>1. HandTypeOK'
    BY <1>1, DropType, ResetType DEF Observe, BeginRetreat, HandTypeOK
  <2> QED
    BY <1>1, <2>1 DEF Observe, BeginRetreat
<1>2. CASE LetGo
  <2>1. HandTypeOK'
    BY <1>2, CommandType DEF LetGo, HandTypeOK, Grips
  <2> QED
    BY <1>2, <2>1 DEF LetGo
<1>3. CASE Retreat
  BY <1>3 DEF Retreat, HandTypeOK
<1>4. CASE AppendTest
  BY <1>4 DEF AppendTest, HandTypeOK
<1>5. CASE Splice
  <2>1. HandTypeOK'
    BY <1>5, CommitType DEF Splice, HandTypeOK
  <2> QED
    BY <1>5, <2>1 DEF Splice
<1> QED
  BY <1>1, <1>2, <1>3, <1>4, <1>5 DEF Infer

\* The values of every state of the auto loop are those TypeOK names, for every
\* value of the constants.
THEOREM AutoTypes == Spec => []TypeOK
<1>1. Init => HandTypeOK /\ AutoTypeOK
  <2>1. Init => HandTypeOK
    <3> SUFFICES ASSUME Init PROVE HandTypeOK
      OBVIOUS
    <3>1. 0 \in 0..MaxRow /\ 0 \in 0..(MaxRow + Lock)
      BY LockAssumption, RowAssumption
    <3>2. clock = 0 /\ pending = {} /\ dropped = TRUE
      BY DEF Init, HandInit, Stream!Init
    <3>3. /\ estop = FALSE /\ rel = "idle" /\ carried = Open /\ leftover = FALSE
          /\ grip_state = Unset /\ grip_locked_until = 0
          /\ closed = FALSE /\ grasp = 0 /\ disturbed = 0
      BY DEF Init, HandInit
    <3> QED
      BY <3>1, <3>2, <3>3 DEF HandTypeOK, Grips
  <2>2. Init => AutoTypeOK
    BY ResetTypes DEF Init, AutoTypeOK, FlipType, NfpType, PkgType, AutoPCs
  <2> QED
    BY <2>1, <2>2
<1>2. HandTypeOK /\ AutoTypeOK /\ [Next]_vars => HandTypeOK' /\ AutoTypeOK'
  <2>1. HandTypeOK /\ AutoTypeOK /\ UNCHANGED vars => HandTypeOK' /\ AutoTypeOK'
    BY DEF HandTypeOK, AutoTypeOK, FlipType, NfpType, PkgType, vars, handVars, streamVars,
           relVars, latchVars, gripVars, autoVars, switchVars, monitorVars
  <2>2. HandTypeOK /\ AutoTypeOK /\ Streaming => HandTypeOK' /\ AutoTypeOK'
    BY ReleaseType
    DEF Streaming, AutoTypeOK, FlipType, NfpType, PkgType, autoVars, switchVars, monitorVars
  <2> QED
    BY <2>1, <2>2, GuiType, LockType, LoopType, MacroType, InferType DEF Next, Thread
<1>3. HandTypeOK /\ AutoTypeOK => TypeOK
  BY DEF HandTypeOK, AutoTypeOK, TypeOK, FlipType, NfpType, PkgType
<1> QED
  BY <1>1, <1>2, <1>3, PTL DEF Spec

-----------------------------------------------------------------------------
(* What the flip macro measures from, with the loop's looks as a history of the *)
(* run: at is the row of the last look, and missed says that, since the baseline *)
(* was taken, the loop came by with the macro switched off, or looked only after *)
(* the rows of a whole hold had been executed.                                   *)

VARIABLES at, missed
watchVars == <<vars, at, missed>>

\* The loop comes by the macro in every step that leaves "flip".
LookStep ==
    IF auto = "flip" /\ auto' # "flip"
    THEN /\ at' = clock
         /\ missed' = /\ flip.base # 0
                      /\ missed \/ "flip" \notin armed \/ clock >= at + Lock
    ELSE UNCHANGED <<at, missed>>

\* The history changes nothing of the run: every behaviour of Spec has one.
WatchSpec == Init /\ at = 0 /\ missed = FALSE /\ [][Next /\ LookStep]_watchVars

\* "Measuring the CHANGE since the grab", for every hold and look-ahead and with the
\* checkbox live: the roll is measured from an earlier grasp than the one about to be
\* released only if the debounce was bypassed, or a look was missed.
FlipMeasuresWatched ==
    [][auto = "flip" /\ auto' = "clear" =>
          flip.base = grasp \/ flip.base <= disturbed \/ missed']_watchVars

\* A macro and a retreat drop the queue before they open the gripper: all that may
\* still be sent is a substep that was in flight then.
Silent == {"out", "open", "back", "letgo", "retreating"}
Quiet == pending = {} /\ (InFlight => leftover)

\* Between a look and the end of the inference that follows it.
Ahd == {"infer", "append", "splice"}

Rows == \A row \in pending : clock <= row
Counted == disturbed <= grasp /\ flip.base <= grasp /\ at \in Nat /\ at <= clock
NothingSent == auto \in Silent => Quiet

\* A grasp the debounce watched over was accepted by it, and an opening ends it.
HeldBy ==
    closed /\ disturbed < grasp =>
        \/ auto = "letgo"
        \/ grip_state = Closed /\ auto \notin {"back", "retreating"}

\* While the baseline may be trusted no grasp followed its own, unless a hold has
\* passed since the last look.  Once the grasp ended, the next cannot begin before
\* the loop has looked: nothing can be sent before that, or the hold of the opening
\* ends a whole hold after the last look.
Watched ==
    disturbed < flip.base /\ ~missed =>
        \/ clock >= at + Lock
        \/ /\ flip.base = grasp
           /\ ~closed => \/ Quiet /\ auto \notin Ahd
                         \/ grip_state = Open /\ grip_locked_until >= at + Lock

FlipInv == Rows /\ Counted /\ NothingSent /\ HeldBy /\ Watched

LEMMA FlipBases ==
    ASSUME TypeOK
    PROVE  /\ FlipReset.base = 0
           /\ \A b : /\ [flip EXCEPT !.above = b].base = flip.base
                    /\ [flip EXCEPT !.fired = b].base = flip.base
BY DEF FlipReset, TypeOK

LEMMA HandNumbers ==
    ASSUME TypeOK
    PROVE  /\ Ahead \in Nat /\ Lock \in Nat /\ clock \in Nat /\ pending \subseteq Nat
           /\ grasp \in Nat /\ disturbed \in Nat /\ grip_locked_until \in Nat
           /\ flip.base \in Nat /\ closed \in BOOLEAN /\ leftover \in BOOLEAN
           /\ estop \in BOOLEAN /\ carried \in Grips
           /\ grip_state \in Grips \cup {Unset}
BY AheadAssumption, LockAssumption, RowAssumption DEF TypeOK

\* The thread moves on, and the gripper and the rows do not.
LEMMA Walk ==
    ASSUME TypeOK, FlipInv, UNCHANGED handVars,
           UNCHANGED <<at, missed>>, flip'.base \in {flip.base, 0},
           \/ auto' = auto
           \/ /\ auto # "letgo" /\ auto' \notin {"back", "retreating", "letgo"}
              /\ auto' \in Silent => auto \in Silent
              /\ auto' \in Ahd => auto \in Ahd
    PROVE  FlipInv'
<1> USE HandNumbers DEF FlipInv
<1>1. /\ UNCHANGED <<clock, pending, rel, leftover, grip_state, grip_locked_until>>
      /\ UNCHANGED <<closed, grasp, disturbed>>
  BY DEF handVars, streamVars, relVars, latchVars, gripVars
<1>2. Rows' /\ Counted'
  BY <1>1 DEF Rows, Counted
<1>3. Quiet' = Quiet
  BY <1>1 DEF Quiet, InFlight
<1>4. NothingSent'
  BY <1>3 DEF NothingSent
<1>5. HeldBy'
  BY <1>1 DEF HeldBy
<1>6. Watched'
  BY <1>1, <1>3 DEF Watched
<1> QED
  BY <1>2, <1>4, <1>5, <1>6

\* The queue is dropped while nothing of the gripper changes.
LEMMA DropsQuiet ==
    ASSUME TypeOK, pending' = {}, (rel' = rel /\ leftover' = InFlight) \/ ~InFlight'
    PROVE  Quiet'
BY DEF Quiet, InFlight

LEMMA DropKeeps ==
    ASSUME TypeOK, FlipInv, UNCHANGED <<clock, grip_state, grip_locked_until, gripVars>>,
           UNCHANGED <<flip, at, missed>>,
           pending' = {}, Quiet',
           \/ auto' = auto
           \/ auto # "letgo" /\ auto' \notin {"back", "retreating", "letgo"} \cup Ahd
    PROVE  FlipInv'
<1> USE HandNumbers DEF FlipInv
<1>1. UNCHANGED <<clock, grip_state, grip_locked_until, closed, grasp, disturbed, flip, at, missed>>
  BY DEF gripVars
<1>2. Rows' /\ Counted' /\ NothingSent'
  BY <1>1 DEF Rows, Counted, NothingSent
<1>3. HeldBy'
  BY <1>1 DEF HeldBy
<1>4. Watched'
  BY <1>1 DEF Watched
<1> QED
  BY <1>2, <1>3, <1>4

\* The operator's resets: whatever grasp there is, the debounce was bypassed in it.
LEMMA Bypassed ==
    ASSUME TypeOK, FlipInv, UNCHANGED <<streamVars, rel, leftover, grasp, closed>>,
           disturbed' = grasp, UNCHANGED <<flip, at, missed>>,
           auto' = auto \/ auto' \notin Silent
    PROVE  FlipInv'
<1> USE HandNumbers DEF FlipInv
<1>1. UNCHANGED <<clock, pending, rel, leftover, grasp>>
  BY DEF streamVars
<1>2. Rows' /\ Counted'
  BY <1>1 DEF Rows, Counted
<1>3. NothingSent'
  BY <1>1 DEF NothingSent, Quiet, InFlight
<1>4. HeldBy' /\ Watched'
  BY <1>1 DEF HeldBy, Watched, Counted
<1> QED
  BY <1>2, <1>3, <1>4

\* The gripper is opened by a command while nothing is sent.
LEMMA OpenKeeps ==
    ASSUME TypeOK, FlipInv, auto \in Silent, auto' \in {"back", "retreating"},
           CommandGripper(Open), UNCHANGED <<streamVars, relVars, disturbed, flip, at, missed>>
    PROVE  FlipInv'
<1> USE HandNumbers DEF FlipInv
<1>1. /\ UNCHANGED <<clock, pending, rel, leftover, disturbed, flip, at, missed>>
      /\ closed' = FALSE /\ grasp' = grasp
  BY DEF CommandGripper, Move, streamVars, relVars, Open, Closed
<1>2. Quiet'
  BY <1>1 DEF NothingSent, Quiet, InFlight
<1> QED
  BY <1>1, <1>2 DEF Rows, Counted, NothingSent, HeldBy, Watched, Ahd

\* The latch is reset and the queue dropped with the gripper open, or about to be.
LEMMA ResetKeeps ==
    ASSUME TypeOK, FlipInv, UNCHANGED <<clock, gripVars, flip, at, missed>>,
           pending' = {}, Quiet',
           \/ auto = "back" /\ auto' = "top"
           \/ closed /\ auto' = "letgo"
    PROVE  FlipInv'
<1> USE HandNumbers DEF FlipInv
<1>1. UNCHANGED <<clock, closed, grasp, disturbed, flip, at, missed>>
  BY DEF gripVars
<1>2. auto = "back" => ~closed \/ disturbed = grasp
  BY DEF HeldBy, Counted
<1>3. Rows' /\ Counted' /\ NothingSent'
  BY <1>1 DEF Rows, Counted, NothingSent
<1>4. HeldBy'
  BY <1>1, <1>2 DEF HeldBy
<1>5. Watched'
  BY <1>1 DEF Watched, Ahd
<1> QED
  BY <1>3, <1>4, <1>5

\* A chunk is appended.
LEMMA CommitKeeps ==
    ASSUME TypeOK, FlipInv, auto = "splice", auto' = "top",
           UNCHANGED <<clock, rel, leftover, latchVars, gripVars, flip, at, missed>>,
           NEW first, NEW last, first \in clock..(clock + Ahead), last \in clock..(clock + Ahead),
           pending' = pending \cup first..last
    PROVE  FlipInv'
<1> USE HandNumbers DEF FlipInv
<1>1. UNCHANGED <<clock, rel, leftover, grip_state, grip_locked_until, closed, grasp,
                  disturbed, flip, at, missed>>
  BY DEF latchVars, gripVars
<1>2. \A row \in first..last : row \in Nat /\ clock <= row /\ row <= clock + Ahead
  OBVIOUS
<1>3. Rows'
  BY <1>1, <1>2 DEF Rows
<1>4. Counted' /\ NothingSent'
  BY <1>1 DEF Counted, NothingSent, Silent
<1>5. HeldBy'
  BY <1>1 DEF HeldBy
<1>6. Watched'
  BY <1>1 DEF Watched, Ahd
<1> QED
  BY <1>3, <1>4, <1>5, <1>6

\* The loop comes by the macro: it takes the baseline, finds it gone, keeps or fires it,
\* and if it is switched off a look is missed.
LEMMA LookKeeps ==
    ASSUME TypeOK, FlipInv, Flip, LookStep
    PROVE  FlipInv'
<1> USE HandNumbers DEF FlipInv
<1>1. /\ auto = "flip" /\ auto' \in {"infer", "clear"} /\ UNCHANGED handVars
      /\ at' = clock
      /\ missed' = (flip.base # 0 /\ (missed \/ "flip" \notin armed \/ clock >= at + Lock))
  BY DEF Flip, LookStep
<1>2. /\ UNCHANGED <<clock, pending, rel, leftover, grip_state, grip_locked_until>>
      /\ UNCHANGED <<closed, grasp, disturbed>>
  BY <1>1 DEF handVars, streamVars, relVars, latchVars, gripVars
<1>3. \/ flip'.base = 0
      \/ flip'.base = flip.base /\ ("flip" \in armed => closed)
      \/ flip'.base = grasp /\ flip.base = 0 /\ closed
  <2>1. ASSUME NEW turned \in BOOLEAN, flip' = FlipLook(turned)
        PROVE  \/ flip'.base = 0
               \/ flip'.base = flip.base /\ closed
               \/ flip'.base = grasp /\ flip.base = 0 /\ closed
    <3>1. CASE ~closed
      BY <2>1, <3>1, FlipBases DEF FlipLook
    <3>2. CASE closed /\ flip.base # 0
      BY <2>1, <3>2, FlipBases DEF FlipLook
    <3>3. CASE closed /\ flip.base = 0
      <4>1. flip' = [flip EXCEPT !.base = grasp, !.above = FALSE]
        BY <2>1, <3>3 DEF FlipLook
      <4>2. flip'.base = grasp
        BY <4>1 DEF TypeOK
      <4> QED
        BY <3>3, <4>2
    <3> QED
      BY <3>1, <3>2, <3>3
  <2>2. CASE \E turned \in BOOLEAN : flip' = FlipLook(turned)
    BY <2>1, <2>2
  <2>3. CASE closed /\ flip' = [flip EXCEPT !.fired = TRUE]
    BY <2>3, FlipBases
  <2>4. CASE ("flip" \notin armed \/ closed) /\ flip' = flip
    BY <2>4
  <2> QED
    BY <2>2, <2>3, <2>4 DEF Flip
<1>4. Rows' /\ Counted' /\ NothingSent' /\ HeldBy'
  BY <1>1, <1>2, <1>3 DEF Rows, Counted, NothingSent, HeldBy, Silent
<1>5. Watched'
  <2>1. SUFFICES ASSUME disturbed < flip'.base, ~missed'
                 PROVE  flip'.base = grasp /\ closed
    BY <1>2 DEF Watched
  <2>2. CASE flip'.base = flip.base /\ ("flip" \in armed => closed)
    <3>1. flip.base # 0 /\ ~missed /\ "flip" \in armed /\ ~(clock >= at + Lock)
      <4>1. flip.base # 0
        BY <2>1, <2>2
      <4> QED
        BY <1>1, <2>1, <4>1, Zenon
    <3> QED
      BY <2>1, <2>2, <3>1 DEF Watched
  <2> QED
    BY <1>3, <2>1, <2>2
<1> QED
  BY <1>4, <1>5

\* A pop: the clock moves to a row that was queued.
LEMMA PopKeeps ==
    ASSUME TypeOK, FlipInv, RelPop, UNCHANGED <<autoVars, at, missed>>
    PROVE  FlipInv'
<1> USE HandNumbers DEF FlipInv
<1>1. /\ UNCHANGED <<grip_state, grip_locked_until, closed, grasp, disturbed>>
      /\ UNCHANGED <<auto, flip, at, missed>>
  BY DEF RelPop, latchVars, gripVars, autoVars, switchVars, monitorVars
<1>2. CASE pending = {}
  <2>1. UNCHANGED <<clock, pending>> /\ ~InFlight'
    BY <1>2 DEF RelPop, streamVars, Stream!Execute, InFlight
  <2>2. Quiet'
    BY <1>2, <2>1 DEF Quiet
  <2> QED
    BY <1>1, <2>1, <2>2 DEF Rows, Counted, NothingSent, HeldBy, Watched
<1>3. CASE pending # {}
  <2>1. PICK row \in pending : Stream!Execute(row)
    BY <1>3 DEF RelPop
  <2>2. /\ clock' = row /\ pending' \subseteq pending /\ clock <= row
        /\ \A r \in pending : row <= r
    BY <2>1 DEF Stream!Execute, Rows
  <2>3. Rows'
    BY <2>2 DEF Rows
  <2>4. ~Quiet /\ auto \notin Silent
    BY <1>3 DEF Quiet, NothingSent
  <2>5. clock' \in Nat /\ (clock >= at + Lock => clock' >= at + Lock)
    BY <2>2 DEF Counted
  <2> QED
    BY <1>1, <2>2, <2>3, <2>4, <2>5 DEF Counted, NothingSent, HeldBy, Watched
<1> QED
  BY <1>2, <1>3

\* The gripper is sent: an opening is held for a whole hold from here, and a grasp that
\* is accepted after it ends that hold.
LEMMA SendKeepsFlip ==
    ASSUME TypeOK, FlipInv, RelSend, UNCHANGED <<autoVars, at, missed>>
    PROVE  FlipInv'
<1> USE HandNumbers DEF FlipInv
<1>1. /\ UNCHANGED <<clock, pending, auto, flip, at, missed>> /\ InFlight /\ ~InFlight'
      /\ Latch(carried) /\ closed' = (grip_state' = Closed)
      /\ grasp' = IF grip_state' = Closed /\ ~closed THEN grasp + 1 ELSE grasp
      /\ disturbed' = IF leftover THEN grasp' ELSE disturbed
  BY DEF RelSend, Move, InFlight, streamVars, autoVars, switchVars, monitorVars
<1>2. grasp' \in Nat /\ grasp <= grasp' /\ Rows'
  BY <1>1 DEF Rows
<1>3. Counted'
  BY <1>1, <1>2 DEF Counted
<1>4. pending = {} => Quiet'
  BY <1>1 DEF Quiet
<1>5. NothingSent'
  BY <1>1, <1>4 DEF NothingSent, Quiet
<1>6. CASE leftover
  <2>1. disturbed' = grasp' /\ flip'.base <= disturbed'
    BY <1>1, <1>2, <1>6 DEF Counted
  <2>2. HeldBy' /\ Watched'
    BY <1>2, <2>1, <1>1 DEF HeldBy, Watched
  <2> QED
    BY <1>2, <1>3, <1>5, <2>2
<1>7. CASE ~leftover
  <2>1. disturbed' = disturbed /\ ~Quiet /\ auto \notin Silent
    BY <1>1, <1>7 DEF Quiet, NothingSent
  <2>2. HeldBy'
    BY <1>1, <2>1 DEF HeldBy, Silent
  <2>3. Watched'
    <3>1. SUFFICES ASSUME disturbed < flip.base, ~missed, ~(clock >= at + Lock)
                   PROVE  /\ flip.base = grasp'
                          /\ ~closed' => grip_state' = Open /\ grip_locked_until' >= at + Lock
      BY <1>1, <2>1 DEF Watched
    <3>2. flip.base = grasp /\ disturbed < grasp
      BY <3>1 DEF Watched
    <3>3. CASE closed
      <4>1. grip_state = Closed
        BY <2>1, <3>2, <3>3 DEF HeldBy, Silent
      <4>2. grasp' = grasp
        BY <1>1, <3>3
      <4>3. ASSUME ~closed' PROVE grip_state' = Open /\ grip_locked_until' >= at + Lock
        <5>1. grip_state' # Closed
          BY <1>1, <4>3
        <5>2. /\ grip_state' = carried /\ carried = Open
              /\ grip_locked_until' = clock + Lock
          BY <1>1, <4>1, <5>1 DEF Latch, Grips, Closed, Open, Unset, latchVars
        <5> QED
          BY <5>2 DEF Counted
      <4> QED
        BY <3>2, <4>2, <4>3
    <3>4. CASE ~closed
      <4>1. grip_state = Open /\ grip_locked_until >= at + Lock
        BY <2>1, <3>1, <3>4 DEF Watched
      <4>2. clock < grip_locked_until
        BY <3>1, <4>1 DEF Counted
      <4>3. UNCHANGED <<grip_state, grip_locked_until>>
        BY <1>1, <4>1, <4>2 DEF Latch, latchVars, Unset, Open
      <4> QED
        BY <1>1, <3>2, <4>1, <4>3 DEF Open, Closed
    <3> QED
      BY <3>3, <3>4
  <2> QED
    BY <1>2, <1>3, <1>5, <2>2, <2>3
<1> QED
  BY <1>6, <1>7

LEMMA ReleaseKeepsFlip ==
    ASSUME TypeOK, FlipInv, Release, UNCHANGED <<autoVars, at, missed>>
    PROVE  FlipInv'
<1> USE HandNumbers DEF FlipInv
<1>1. CASE RelPoll \/ RelTest \/ RelStep
  <2>1. /\ UNCHANGED <<clock, pending, grip_state, grip_locked_until, closed, grasp, disturbed>>
        /\ UNCHANGED <<auto, flip, at, missed>>
        /\ InFlight' => InFlight /\ leftover' = leftover
    BY <1>1 DEF RelPoll, RelTest, RelStep, PutDown, InFlight, streamVars, latchVars, gripVars,
       autoVars, switchVars, monitorVars
  <2>2. Quiet => Quiet'
    BY <2>1 DEF Quiet
  <2> QED
    BY <2>1, <2>2 DEF Rows, Counted, NothingSent, HeldBy, Watched
<1> QED
  BY <1>1, PopKeeps, SendKeepsFlip DEF Release

LEMMA GuiKeepsFlip ==
    ASSUME TypeOK, FlipInv, Gui, UNCHANGED <<at, missed>>
    PROVE  FlipInv'
<1> USE HandNumbers, FlipBases
<1>1. CASE Start
  <2>1. /\ UNCHANGED <<streamVars, rel, leftover, grasp, closed, flip, at, missed>>
        /\ disturbed' = grasp /\ (auto' = auto \/ auto' = "begin")
    BY <1>1 DEF Start, relVars
  <2> QED
    BY <2>1, Bypassed DEF Silent
<1>2. CASE ResetEStop
  <2>1. /\ UNCHANGED <<streamVars, rel, leftover, grasp, closed, flip, auto>>
        /\ disturbed' = grasp
    BY <1>2 DEF ResetEStop, relVars, autoVars, switchVars, monitorVars
  <2> QED
    BY <2>1, Bypassed
<1>3. CASE Stop \/ ScanHeadGates
  <2>1. UNCHANGED handVars /\ auto' = auto
    BY <1>3 DEF Stop, ScanHeadGates
  <2>2. flip' = flip \/ flip' = FlipReset
    BY <1>3 DEF Stop, ScanHeadGates, monitorVars
  <2> QED
    BY <2>1, <2>2, Walk
<1>4. CASE Joined
  <2>1. /\ UNCHANGED handVars /\ auto = "dead" /\ auto' = "none" /\ flip' = FlipReset
    BY <1>4 DEF Joined, Goto
  <2> QED
    BY <2>1, Walk DEF Silent, Ahd
<1>5. ASSUME NEW m \in Switches, Toggle(m) PROVE FlipInv'
  <2>1. UNCHANGED <<handVars, auto, flip>>
    BY <1>5 DEF Toggle
  <2> QED
    BY <2>1, Walk
<1> QED
  BY <1>1, <1>2, <1>3, <1>4, <1>5 DEF Gui

\* A step of the thread that leaves the gripper, the rows and the baseline alone.
LEMMA WalkOn ==
    ASSUME TypeOK, FlipInv, UNCHANGED <<handVars, flip, at, missed>>,
           auto # "letgo", auto' \notin {"back", "retreating", "letgo"},
           auto' \in Silent => auto \in Silent,
           auto' \in Ahd => auto \in Ahd
    PROVE  FlipInv'
BY Walk

LEMMA LockKeepsFlip ==
    ASSUME TypeOK, FlipInv, LockRobot, UNCHANGED <<at, missed>>
    PROVE  FlipInv'
<1>1. /\ UNCHANGED <<clock, grip_state, grip_locked_until, gripVars, flip, auto>>
      /\ pending' = {} /\ ((rel' = rel /\ leftover' = InFlight) \/ ~InFlight')
  BY DEF LockRobot, DropRows, PutDown, InFlight, Stream!Drop, latchVars, switchVars, monitorVars
<1> QED
  BY <1>1, DropsQuiet, DropKeeps

\* _home_arm, and the drop with which a macro begins.
LEMMA HomeKeeps ==
    ASSUME TypeOK, FlipInv, HandStay, UNCHANGED <<latchVars, gripVars, flip, at, missed>>,
           DropRows \/ UNCHANGED <<streamVars, leftover>>,
           auto # "letgo", auto \notin Silent, auto \notin Ahd,
           auto' \notin {"back", "retreating", "letgo"} \cup Ahd,
           auto' \in Silent => DropRows
    PROVE  FlipInv'
<1>1. CASE DropRows
  <2>1. /\ UNCHANGED <<clock, grip_state, grip_locked_until>>
        /\ pending' = {} /\ rel' = rel /\ leftover' = InFlight
    BY <1>1 DEF DropRows, Stream!Drop, HandStay, latchVars
  <2> QED
    BY <2>1, DropsQuiet, DropKeeps
<1>2. CASE UNCHANGED <<streamVars, leftover>> /\ auto' \notin Silent
  <2>1. UNCHANGED handVars
    BY <1>2 DEF HandStay, handVars, relVars
  <2> QED
    BY <1>2, <2>1, WalkOn
<1> QED
  BY <1>1, <1>2

LEMMA LoopKeepsFlip ==
    ASSUME TypeOK, FlipInv, Begin \/ Loop \/ Exit \/ Gate \/ Park \/ Parked,
           UNCHANGED <<at, missed>>
    PROVE  FlipInv'
<1> USE DEF Silent, Ahd
<1>1. CASE auto = "begin" /\ Begin
  <2>1. /\ HandStay /\ UNCHANGED <<latchVars, gripVars, flip, at, missed>>
        /\ DropRows \/ UNCHANGED <<streamVars, leftover>>
        /\ auto' \in {"homing", "top"}
    BY <1>1 DEF Begin, HomeArm, Goto, Stay, switchVars, monitorVars
  <2> QED
    BY <1>1, <2>1, HomeKeeps
<1>2. CASE Park
  <2>1. /\ HandStay /\ UNCHANGED <<latchVars, gripVars, flip, at, missed>>
        /\ DropRows \/ UNCHANGED <<streamVars, leftover>>
        /\ auto = "park" /\ auto' \in {"parking", "parked"}
    BY <1>2 DEF Park, HomeArm, Stay, switchVars, monitorVars
  <2> QED
    BY <2>1, HomeKeeps
<1>3. CASE auto # "begin" /\ Begin
  <2>1. UNCHANGED <<handVars, flip, at, missed>> /\ auto = "homing" /\ auto' = "top"
    BY <1>3 DEF Begin, Goto, Stay, switchVars, monitorVars
  <2> QED
    BY <2>1, WalkOn
<1>4. CASE Loop /\ auto' # "disarmed"
  <2>1. UNCHANGED <<handVars, flip, at, missed>> /\ auto = "top" /\ auto' \in {"dead", "gate"}
    BY <1>4 DEF Loop, Goto, Stay, switchVars, monitorVars
  <2> QED
    BY <2>1, WalkOn
<1>5. CASE Loop /\ auto' = "disarmed"
  <2>1. UNCHANGED handVars /\ auto = "top" /\ flip' = FlipReset
    BY <1>5 DEF Loop, Goto
  <2> QED
    BY <1>5, <2>1, FlipBases, Walk
<1>6. CASE Exit
  <2>1. UNCHANGED <<handVars, flip, at, missed>> /\ auto = "disarmed" /\ auto' = "dead"
    BY <1>6 DEF Exit, Goto, Stay, switchVars, monitorVars
  <2> QED
    BY <2>1, WalkOn
<1>7. CASE Gate
  <2>1. UNCHANGED <<handVars, flip, at, missed>> /\ auto = "gate" /\ auto' \in {"nfp", "top", "park"}
    BY <1>7 DEF Gate, Busy, NoPackage, Stay, switchVars
  <2> QED
    BY <2>1, WalkOn
<1>8. CASE Parked
  <2>1. /\ UNCHANGED <<handVars, flip, at, missed>> /\ auto \in {"parking", "parked"}
        /\ auto' = "top"
    BY <1>8 DEF Parked, Stay, switchVars
  <2> QED
    BY <2>1, WalkOn
<1> QED
  BY <1>1, <1>2, <1>3, <1>4, <1>5, <1>6, <1>7, <1>8

LEMMA MacroKeepsFlip ==
    ASSUME TypeOK, FlipInv, NoFlip \/ Macro, UNCHANGED <<at, missed>>
    PROVE  FlipInv'
<1> USE DEF Silent, Ahd
<1>1. CASE NoFlip
  <2>1. UNCHANGED <<handVars, flip, at, missed>> /\ auto = "nfp" /\ auto' \in {"flip", "clear"}
    BY <1>1 DEF NoFlip, Stay, switchVars
  <2> QED
    BY <2>1, WalkOn
<1>2. CASE MacroClear
  <2>1. /\ HandStay /\ UNCHANGED <<latchVars, gripVars, flip, at, missed>> /\ DropRows
        /\ auto = "clear" /\ auto' = "out"
    BY <1>2 DEF MacroClear, Goto, Stay, switchVars, monitorVars
  <2> QED
    BY <2>1, HomeKeeps
<1>3. CASE MacroOut
  <2>1. UNCHANGED <<handVars, flip, at, missed>> /\ auto = "out" /\ auto' = "open"
    BY <1>3 DEF MacroOut, Goto, Stay, switchVars, monitorVars
  <2> QED
    BY <2>1, WalkOn
<1>4. CASE MacroOpen
  <2>1. /\ CommandGripper(Open) /\ UNCHANGED <<streamVars, relVars, disturbed, flip, at, missed>>
        /\ auto = "open" /\ auto' = "back"
    BY <1>4 DEF MacroOpen, Goto, Stay, switchVars, monitorVars
  <2> QED
    BY <2>1, OpenKeeps
<1>5. CASE MacroBack
  <2>1. /\ UNCHANGED <<clock, gripVars, flip, at, missed>> /\ auto = "back" /\ auto' = "top"
        /\ pending' = {} /\ rel' = rel /\ leftover' = InFlight
    BY <1>5 DEF MacroBack, Goto, Stay, HandStay, DropRows, Stream!Drop, switchVars
  <2> QED
    BY <2>1, DropsQuiet, ResetKeeps
<1> QED
  BY <1>1, <1>2, <1>3, <1>4, <1>5 DEF Macro

LEMMA InferKeepsFlip ==
    ASSUME TypeOK, FlipInv, Infer, UNCHANGED <<at, missed>>
    PROVE  FlipInv'
<1> USE DEF Silent, Ahd
<1>1. CASE Observe
  <2>1. UNCHANGED <<gripVars, flip, at, missed>> /\ HandStay /\ auto = "infer"
    BY <1>1 DEF Observe, BeginRetreat, Goto, Stay, switchVars, monitorVars
  <2>2. CASE auto' \in {"top", "append"} /\ UNCHANGED <<streamVars, leftover, latchVars>>
    <3>1. UNCHANGED handVars
      BY <2>1, <2>2 DEF HandStay, handVars, relVars
    <3> QED
      BY <2>1, <2>2, <3>1, WalkOn
  <2>3. CASE MissedGrasp /\ BeginRetreat
    <3>1. /\ closed /\ auto' = "letgo" /\ clock' = clock
          /\ pending' = {} /\ rel' = rel /\ leftover' = InFlight
      BY <2>1, <2>3 DEF MissedGrasp, BeginRetreat, Goto, DropRows, Stream!Drop, HandStay
    <3> QED
      BY <2>1, <3>1, DropsQuiet, ResetKeeps
  <2> QED
    BY <1>1, <2>2, <2>3 DEF Observe, Goto
<1>2. CASE LetGo
  <2>1. /\ CommandGripper(Open) /\ UNCHANGED <<streamVars, relVars, disturbed, flip, at, missed>>
        /\ auto = "letgo" /\ auto' = "retreating"
    BY <1>2 DEF LetGo, Goto, Stay, switchVars, monitorVars
  <2> QED
    BY <2>1, OpenKeeps
<1>3. CASE Retreat
  <2>1. UNCHANGED <<handVars, flip, at, missed>> /\ auto = "retreating" /\ auto' = "top"
    BY <1>3 DEF Retreat, Goto, Stay, switchVars, monitorVars
  <2> QED
    BY <2>1, WalkOn
<1>4. CASE AppendTest
  <2>1. UNCHANGED <<handVars, flip, at, missed>> /\ auto = "append" /\ auto' \in {"top", "splice"}
    BY <1>4 DEF AppendTest, Stay, switchVars, monitorVars
  <2> QED
    BY <2>1, WalkOn
<1>5. CASE Splice
  <2>1. /\ UNCHANGED <<leftover, latchVars, gripVars, flip, at, missed>> /\ HandStay
        /\ auto = "splice" /\ auto' = "top"
    BY <1>5 DEF Splice, Goto, Stay, switchVars, monitorVars
  <2>2. CASE UNCHANGED streamVars
    <3>1. UNCHANGED handVars
      BY <2>1, <2>2 DEF HandStay, handVars, relVars
    <3> QED
      BY <2>1, <3>1, WalkOn
  <2>3. CASE \E first, last \in clock..(clock + Ahead) : Commit(first, last)
    <3>1. PICK first \in clock..(clock + Ahead), last \in clock..(clock + Ahead) :
              Commit(first, last)
      BY <2>3
    <3>2. pending' = pending \cup first..last /\ clock' = clock /\ rel' = rel
      BY <2>1, <3>1 DEF Commit, Stream!Commit, HandStay
    <3> QED
      BY <2>1, <3>1, <3>2, CommitKeeps
  <2> QED
    BY <1>5, <2>2, <2>3 DEF Splice
<1> QED
  BY <1>1, <1>2, <1>3, <1>4, <1>5 DEF Infer

\* Nothing but the macro's own step leaves "flip".
LEMMA OnlyFlipLooks ==
    ASSUME TypeOK, Next, LookStep
    PROVE  Flip \/ UNCHANGED <<at, missed>>
<1>1. CASE auto = "flip" /\ auto' # "flip"
  <2>1. ~Gui
    BY <1>1 DEF Gui, Start, Stop, Joined, ScanHeadGates, Toggle, ResetEStop, Goto, autoVars
  <2>2. ~LockRobot /\ ~Streaming
    BY <1>1 DEF LockRobot, Streaming, autoVars
  <2>3. Thread => Flip
    BY <1>1 DEF Thread, Begin, HomeArm, Loop, Exit, Gate, Park, Parked, NoFlip, Macro, MacroClear,
       MacroOut, MacroOpen, MacroBack, Infer, Observe, BeginRetreat, LetGo, Retreat, AppendTest,
       Splice, Goto
  <2> QED
    BY <2>1, <2>2, <2>3 DEF Next
<1> QED
  BY <1>1 DEF LookStep

\* The history is one of a run of Spec.
LEMMA WatchTypes == WatchSpec => []TypeOK
<1>1. WatchSpec => Spec
  <2>1. [Next /\ LookStep]_watchVars => [Next]_vars
    BY DEF watchVars
  <2> QED
    BY <2>1, PTL DEF WatchSpec, Spec
<1> QED
  BY <1>1, AutoTypes, PTL

\* The invariant, for any hold, look-ahead and set of switches.
THEOREM FlipInvariant == WatchSpec => []FlipInv
<1>1. Init /\ at = 0 /\ missed = FALSE => FlipInv
  BY HandNumbers
  DEF Init, HandInit, Stream!Init, FlipReset, FlipInv, Rows, Counted, NothingSent, Silent,
      HeldBy, Watched
<1>2. ASSUME TypeOK, FlipInv, [Next /\ LookStep]_watchVars PROVE FlipInv'
  <2>1. CASE UNCHANGED watchVars
    <3>1. UNCHANGED <<handVars, at, missed>> /\ flip' = flip /\ auto' = auto
      BY <2>1 DEF watchVars, vars, autoVars, monitorVars
    <3> QED
      BY <1>2, <3>1, Walk
  <2>2. CASE Next /\ LookStep /\ Flip
    BY <1>2, <2>2, LookKeeps
  <2>3. CASE Next /\ UNCHANGED <<at, missed>> /\ ~Flip
    BY <1>2, <2>3, GuiKeepsFlip, LockKeepsFlip, LoopKeepsFlip, MacroKeepsFlip, InferKeepsFlip,
       ReleaseKeepsFlip
    DEF Next, Thread, Streaming
  <2> QED
    BY <1>2, <2>1, <2>2, <2>3, OnlyFlipLooks
<1> QED
  BY <1>1, <1>2, WatchTypes, PTL DEF WatchSpec

\* FlipPlaceMacro measures the roll from the grasp it is about to release, whatever the
\* hold (_grip_lock_rows), the look-ahead (append_ahead_rows) and the switches are, unless
\* the debounce was bypassed or the loop missed a look in between.
THEOREM FlipMeasures == WatchSpec => FlipMeasuresWatched
<1>1. ASSUME TypeOK, FlipInv, [Next /\ LookStep]_watchVars
      PROVE  [auto = "flip" /\ auto' = "clear" =>
                  flip.base = grasp \/ flip.base <= disturbed \/ missed']_watchVars
  <2>1. SUFFICES ASSUME LookStep, auto = "flip", auto' = "clear", disturbed < flip.base, ~missed'
                 PROVE  flip.base = grasp
    BY <1>1, HandNumbers DEF watchVars, vars, autoVars
  <2>2. flip.base # 0 /\ ~missed /\ ~(clock >= at + Lock)
    BY <1>1, <2>1, HandNumbers DEF LookStep
  <2> QED
    BY <1>1, <2>1, <2>2 DEF FlipInv, Watched
<1>2. WatchSpec => []FlipInv
  BY FlipInvariant
<1> QED
  BY <1>1, <1>2, WatchTypes, PTL DEF WatchSpec, FlipMeasuresWatched
============================================================================
