------------------------------ MODULE AutoRun ------------------------------
(* The auto-inference loop (InferenceController.auto_inference,               *)
(* real_world/inference_controller.py) with all that it calls in its thread:  *)
(* homing, the package gate, the no-flip and the flip place macro, the        *)
(* missed-grasp recovery and append_actions.  The Tk thread starts and stops  *)
(* it, presses and resets the E-stop and scans the gates while auto is off;   *)
(* the release thread of GripLatch executes the rows meanwhile.  A monitor    *)
(* reads the gripper the release thread moves, so what it believes may be     *)
(* several rows old when the loop acts on it.                                 *)
EXTENDS GripLatch

CONSTANTS
    Monitors,           \* which of the optional monitors are loaded
    Switches,           \* those the operator switches on and off meanwhile
    CommitCount,        \* no-flip: scans that latch or unlatch the label
    AbsentToPause,      \* package gate: missed scans that make a pause
    PresentToResume     \* package gate: scans that end it

ASSUME MonitorsAssumption ==
    Monitors \subseteq {"pkg", "nfp", "flip", "rec"} /\ Switches \subseteq Monitors \ {"rec"}
ASSUME CountsAssumption ==
    {CommitCount, AbsentToPause, PresentToResume} \subseteq Nat \ {0}

VARIABLES
    is_auto,            \* is_auto_inference
    auto,               \* where the inference thread is; "none": no thread handle
    gui,                \* the Tk thread is "idle" or "joining" the inference thread
    macro,              \* the place macro that is running
    pulsed,             \* history: the E-stop was latched since auto was started
    armed,              \* the monitors that are loaded and enabled
    slipped,            \* history: the gate was disarmed while the arm was parked
    flip,               \* FlipPlaceMacro: the grasp the wrist roll is measured
                        \* from (0: None), the settle timer, _fired
    nfp,                \* NoFlipPlaceMacro: committed, its counters, the timer
    pkg                 \* PackagePresenceGate: present, paused, its counters

monitorVars == <<flip, nfp, pkg>>
switchVars == <<armed, slipped>>
autoVars == <<is_auto, auto, gui, macro, pulsed, switchVars, monitorVars>>
vars == <<handVars, autoVars>>

FlipReset == [base |-> 0, above |-> FALSE, fired |-> FALSE]
NfpReset == [committed |-> FALSE, seen |-> 0, absent |-> 0, timer |-> FALSE]
PkgReset == [present |-> TRUE, paused |-> FALSE, absent |-> 0, seen |-> 0]

Init ==
    /\ HandInit
    /\ is_auto = FALSE /\ auto = "none" /\ gui = "idle"
    /\ macro = "none" /\ pulsed = FALSE /\ armed = Monitors /\ slipped = FALSE
    /\ flip = FlipReset /\ nfp = NfpReset /\ pkg = PkgReset

Goto(from, to) == auto = from /\ auto' = to
Stay == UNCHANGED <<is_auto, gui, pulsed, switchVars>>
HandStay == UNCHANGED <<rel, carried, estop>>

\* A pause begins: the gate has found no package and the arm is taken home.
Parking == {"park", "parking", "parked"}

\* A counter of consecutive scans, which matters up to its threshold.
Count(n, max) == IF n < max THEN n + 1 ELSE n

-----------------------------------------------------------------------------
(* The monitors' debounces.                                                 *)

\* NoFlipPlaceMacro.scan
NfpScan(hit) ==
    LET seen == IF hit THEN Count(nfp.seen, CommitCount) ELSE 0
        absent == IF hit THEN 0 ELSE Count(nfp.absent, CommitCount)
    IN  [nfp EXCEPT !.seen = seen, !.absent = absent,
                    !.committed = IF @ THEN absent < CommitCount ELSE seen = CommitCount]

\* PackagePresenceGate.scan
PkgScan(hit) ==
    LET seen == IF hit THEN Count(pkg.seen, PresentToResume) ELSE 0
        absent == IF hit THEN 0 ELSE Count(pkg.absent, AbsentToPause)
    IN  [pkg EXCEPT !.seen = seen, !.absent = absent,
                    !.present = IF @ THEN absent < AbsentToPause ELSE seen = PresentToResume]

-----------------------------------------------------------------------------
(* The Tk thread.                                                           *)

\* auto_inference(): a thread that is still alive goes on, a dead one is
\* reaped and replaced.
Start ==
    /\ gui = "idle"
    /\ is_auto' = TRUE
    /\ ResetLatch /\ disturbed' = grasp
    /\ nfp' = NfpReset /\ pkg' = PkgReset
    /\ auto' = IF auto \in {"none", "dead"} THEN "begin" ELSE auto
    /\ pulsed' = FALSE /\ slipped' = (slipped /\ auto \notin {"none", "dead"})
    /\ UNCHANGED <<streamVars, estop, relVars, closed, grasp, gui, macro, armed, flip>>

\* auto_inference(stop=True), as far as the join, which blocks the Tk thread ...
Stop ==
    /\ gui = "idle"
    /\ is_auto' = FALSE
    /\ IF auto = "none"
       THEN /\ flip' = FlipReset /\ nfp' = NfpReset /\ pkg' = PkgReset
            /\ UNCHANGED gui
       ELSE gui' = "joining" /\ UNCHANGED monitorVars
    /\ UNCHANGED <<handVars, auto, macro, pulsed, switchVars>>

\* ... and the rest of it.
Joined ==
    /\ gui = "joining" /\ Goto("dead", "none")
    /\ gui' = "idle"
    /\ flip' = FlipReset /\ nfp' = NfpReset /\ pkg' = PkgReset
    /\ UNCHANGED <<handVars, is_auto, macro, pulsed, switchVars>>

\* scan_head_gates, which the indicators of the console call while auto is off.
ScanHeadGates ==
    /\ gui = "idle" /\ ~is_auto
    /\ IF "nfp" \in armed THEN \E hit \in BOOLEAN : nfp' = NfpScan(hit)
                          ELSE UNCHANGED nfp
    /\ IF "pkg" \in Monitors THEN \E hit \in BOOLEAN : pkg' = PkgScan(hit)
                             ELSE UNCHANGED pkg
    /\ UNCHANGED <<handVars, is_auto, auto, gui, macro, pulsed, switchVars, flip>>

\* The checkbox of a monitor, which stays live during a run.  Disarming the gate
\* ends its pause, but not one that the thread is about to begin.
Toggle(m) ==
    /\ gui = "idle"
    /\ armed' = IF m \in armed THEN armed \ {m} ELSE armed \cup {m}
    /\ \/ m = "pkg" /\ m \in armed /\ pkg' = PkgReset /\ slipped' = (auto \in Parking)
       \/ ~(m = "pkg" /\ m \in armed) /\ UNCHANGED <<pkg, slipped>>
    /\ UNCHANGED <<handVars, is_auto, auto, gui, macro, pulsed, flip, nfp>>

ResetEStop ==
    /\ gui = "idle"
    /\ estop' = FALSE
    /\ ResetLatch /\ disturbed' = grasp
    /\ UNCHANGED <<streamVars, relVars, closed, grasp, autoVars>>

-----------------------------------------------------------------------------
(* lock_robot, called for the button, or for a fault or a watchdog by       *)
(* whoever streams: the release thread or a move of the inference thread.   *)

Moving == {"homing", "parking", "out", "back", "retreating"}

LockRobot ==
    /\ \/ /\ gui = "idle" \/ (auto \in Moving /\ ~estop)
          /\ DropRows /\ UNCHANGED <<rel, carried>>
       \/ /\ rel \in {"popped", "sending", "stepping"}
          /\ Stream!Drop /\ PutDown
    /\ estop' = TRUE /\ pulsed' = (auto \notin {"none", "dead", "disarmed"})
    /\ UNCHANGED <<latchVars, gripVars, is_auto, auto, gui, macro, switchVars, monitorVars>>

-----------------------------------------------------------------------------
(* The inference thread.                                                    *)

\* _home_arm and the homing of a new run: everything queued is dropped first.
\* A latched E-stop skips it.
Mutant_HomeArm(to, skip) ==
    /\ IF estop THEN auto' = skip ELSE auto' = to
    /\ UNCHANGED <<streamVars, leftover>>
HomeArm(to, skip) ==
    IF estop THEN auto' = skip /\ UNCHANGED <<streamVars, leftover>>
             ELSE auto' = to /\ DropRows

Begin ==
    \/ /\ auto = "begin" /\ HomeArm("homing", "top")
       /\ Stay /\ HandStay /\ UNCHANGED <<latchVars, gripVars, macro, monitorVars>>
    \/ /\ Goto("homing", "top")
       /\ Stay /\ UNCHANGED <<handVars, macro, monitorVars>>

\* The head of the loop.
Mutant_Loop ==
    /\ auto = "top" /\ auto' = IF is_auto THEN "gate" ELSE "dead"
    /\ Stay /\ UNCHANGED <<handVars, macro, monitorVars>>
Loop ==
    \/ /\ ~is_auto /\ Goto("top", "dead")
       /\ Stay /\ UNCHANGED <<handVars, macro, monitorVars>>
    \/ /\ is_auto /\ ~estop /\ Goto("top", "gate")
       /\ Stay /\ UNCHANGED <<handVars, macro, monitorVars>>
    \/ /\ is_auto /\ estop /\ Goto("top", "disarmed")
       /\ is_auto' = FALSE /\ pulsed' = FALSE
       /\ flip' = FlipReset /\ nfp' = NfpReset /\ pkg' = PkgReset
       /\ UNCHANGED <<handVars, gui, macro, switchVars>>

\* A loop that disarmed itself returns; until then the thread is alive.
Exit == /\ Goto("disarmed", "dead")
        /\ Stay /\ UNCHANGED <<handVars, macro, monitorVars>>

\* on_busy: with a closed gripper the package counts as present, and a pause is
\* over.
Mutant_Busy == UNCHANGED pkg /\ auto' = IF pkg.paused THEN "top" ELSE "nfp"
Busy == pkg' = PkgReset /\ auto' = "nfp"

\* No package: the arm is parked, once; after that inference is skipped.
Mutant_NoPackage(now) == pkg' = now /\ auto' = IF now.paused THEN "gate" ELSE "park"
NoPackage(now) == pkg' = now /\ auto' = IF now.paused THEN "top" ELSE "park"

\* _maybe_pause_for_package, as far as the homing.
Gate ==
    /\ auto = "gate"
    /\ \/ "pkg" \notin armed /\ auto' = "nfp" /\ UNCHANGED pkg
       \/ "pkg" \in armed /\ closed /\ Busy
       \/ /\ "pkg" \in armed /\ ~closed
          /\ \E hit \in BOOLEAN :
                \/ /\ PkgScan(hit).present
                   /\ auto' = "nfp" /\ pkg' = [PkgScan(hit) EXCEPT !.paused = FALSE]
                \/ ~PkgScan(hit).present /\ NoPackage(PkgScan(hit))
    /\ Stay /\ UNCHANGED <<handVars, macro, flip, nfp>>

\* The arm is parked once, when the pause begins.
Park ==
    /\ auto = "park" /\ HomeArm("parking", "parked")
    /\ Stay /\ HandStay /\ UNCHANGED <<latchVars, gripVars, macro, monitorVars>>
Parked ==
    /\ auto \in {"parking", "parked"} /\ auto' = "top"
    /\ nfp' = NfpReset
    /\ pkg' = [pkg EXCEPT !.paused = TRUE]
    /\ Stay /\ UNCHANGED <<handVars, macro, flip>>

\* NoFlipPlaceMacro.maybe_trigger: a scan, the grip-settle timer, and the place
\* once the label is latched and the object has been held long enough.
NoFlip ==
    /\ auto = "nfp"
    /\ IF "nfp" \notin armed
       THEN auto' = "flip" /\ UNCHANGED <<nfp, macro>>
       ELSE \E hit \in BOOLEAN :
              /\ nfp' = [NfpScan(hit) EXCEPT !.timer = closed]
              /\ \/ auto' = "flip" /\ UNCHANGED macro
                 \/ /\ nfp'.committed /\ closed /\ nfp.timer
                    /\ auto' = "clear" /\ macro' = "nfp"
    /\ Stay /\ UNCHANGED <<handVars, flip, pkg>>

\* FlipPlaceMacro.maybe_trigger: the baseline is captured at the first look that
\* finds the gripper closed; the macro fires, once per closed episode, when the
\* wrist has stayed turned since.  An unreadable arm skips the look.
FlipLook(turned) ==
    IF ~closed THEN FlipReset
    ELSE IF flip.base = 0 THEN [flip EXCEPT !.base = grasp, !.above = FALSE]
    ELSE IF flip.fired THEN flip ELSE [flip EXCEPT !.above = turned]

Flip ==
    /\ auto = "flip"
    /\ \/ /\ "flip" \in armed
          /\ \E turned \in BOOLEAN : flip' = FlipLook(turned)
          /\ auto' = "infer" /\ UNCHANGED macro
       \/ /\ "flip" \in armed /\ closed /\ flip.above /\ ~flip.fired
          /\ flip' = [flip EXCEPT !.fired = TRUE]
          /\ auto' = "clear" /\ macro' = "flip"
       \/ /\ "flip" \notin armed \/ closed
          /\ auto' = "infer" /\ UNCHANGED <<flip, macro>>
    /\ Stay /\ UNCHANGED <<handVars, nfp, pkg>>

-----------------------------------------------------------------------------
(* A place macro (_run): clear, move out, open, come back, clear.  What the *)
(* two moves return is not looked at; an E-stop makes each return early.    *)

MacroClear ==
    /\ Goto("clear", "out") /\ DropRows
    /\ Stay /\ HandStay /\ UNCHANGED <<latchVars, gripVars, macro, monitorVars>>

MacroOut ==
    /\ Goto("out", "open")
    /\ Stay /\ UNCHANGED <<handVars, macro, monitorVars>>

MacroOpen ==
    /\ Goto("open", "back") /\ CommandGripper(Open)
    /\ Stay /\ UNCHANGED <<streamVars, estop, relVars, disturbed, macro, monitorVars>>

MacroBack ==
    /\ Goto("back", "top")
    /\ DropRows /\ ResetLatch
    /\ nfp' = IF macro = "nfp" THEN NfpReset ELSE nfp
    /\ macro' = "none"
    /\ Stay /\ HandStay /\ UNCHANGED <<gripVars, flip, pkg>>

Macro == MacroClear \/ MacroOut \/ MacroOpen \/ MacroBack

-----------------------------------------------------------------------------
(* _run_inference.                                                          *)

\* GraspRecoveryMonitor.maybe_start: the hand camera is looked at while the gripper
\* is commanded closed, and may find nothing in it.
MissedGrasp == "rec" \in Monitors /\ closed

\* _begin_retreat, as far as the gripper: the rows and the latch are dropped, and
\* with the arm unreadable the first of the waypoints is taken.
BeginRetreat == Goto("infer", "letgo") /\ DropRows /\ ResetLatch

\* No fresh observation; or a missed grasp; or the server is asked.
Observe ==
    /\ \/ Goto("infer", "top") /\ UNCHANGED <<streamVars, leftover, latchVars>>
       \/ Goto("infer", "append") /\ UNCHANGED <<streamVars, leftover, latchVars>>
       \/ MissedGrasp /\ BeginRetreat
    /\ Stay /\ HandStay /\ UNCHANGED <<gripVars, macro, monitorVars>>

\* retreat_to_home, from the gripper on.
LetGo ==
    /\ Goto("letgo", "retreating") /\ CommandGripper(Open)
    /\ Stay /\ UNCHANGED <<streamVars, estop, relVars, disturbed, macro, monitorVars>>
Retreat ==
    /\ Goto("retreating", "top")
    /\ Stay /\ UNCHANGED <<handVars, macro, monitorVars>>

\* append_actions: refused while latched ...
AppendTest ==
    /\ auto = "append"
    /\ auto' \in IF estop THEN {"top"} ELSE {"top", "splice"}
    /\ Stay /\ UNCHANGED <<handVars, macro, monitorVars>>

\* ... and the splice that ends it, unless validation failed.
Splice ==
    /\ Goto("splice", "top")
    /\ \/ UNCHANGED streamVars
       \/ \E first, last \in clock..(clock + Ahead) : Commit(first, last)
    /\ Stay /\ HandStay /\ UNCHANGED <<leftover, latchVars, gripVars, macro, monitorVars>>

Infer == Observe \/ LetGo \/ Retreat \/ AppendTest \/ Splice

-----------------------------------------------------------------------------
Gui ==
    \/ Start \/ Stop \/ Joined \/ ScanHeadGates \/ ResetEStop
    \/ \E m \in Switches : Toggle(m)
Thread == Begin \/ Loop \/ Exit \/ Gate \/ Park \/ Parked \/ NoFlip \/ Flip \/ Macro \/ Infer
Streaming == Release /\ UNCHANGED autoVars

Next == Gui \/ LockRobot \/ Thread \/ Streaming

Spec == Init /\ [][Next]_vars

\* The inference thread runs: its server call times out, its moves end.  A join
\* returns once the thread is dead.  The operator owes nothing.
FairSpec == Spec /\ WF_vars(Thread) /\ WF_vars(Joined)

-----------------------------------------------------------------------------
(* Properties.                                                              *)

AutoPCs == {"none", "begin", "homing", "top", "disarmed", "dead", "gate", "park", "parking",
            "parked", "nfp", "flip", "clear", "out", "open", "back", "infer", "letgo",
            "retreating", "append", "splice"}

\* The values of the state.
TypeOK ==
    /\ clock \in 0..MaxRow /\ pending \subseteq 0..MaxRow /\ dropped \in BOOLEAN
    /\ estop \in BOOLEAN /\ rel \in {"idle", "polled", "popped", "sending", "stepping"}
    /\ carried \in Grips /\ leftover \in BOOLEAN
    /\ grip_state \in Grips \cup {Unset} /\ grip_locked_until \in 0..(MaxRow + Lock)
    /\ closed \in BOOLEAN /\ grasp \in Nat /\ disturbed \in Nat
    /\ is_auto \in BOOLEAN /\ auto \in AutoPCs /\ gui \in {"idle", "joining"}
    /\ macro \in {"none", "nfp", "flip"} /\ pulsed \in BOOLEAN
    /\ armed \subseteq Monitors /\ slipped \in BOOLEAN
    /\ flip \in [base : Nat, above : BOOLEAN, fired : BOOLEAN]
    /\ nfp \in [committed : BOOLEAN, seen : 0..CommitCount, absent : 0..CommitCount,
                timer : BOOLEAN]
    /\ pkg \in [present : BOOLEAN, paused : BOOLEAN, absent : 0..AbsentToPause,
                seen : 0..PresentToResume]

\* "Measuring the CHANGE since the grab": the flip macro fires on a roll measured
\* from the grasp it is about to release, although the loop looks at the gripper
\* only between inferences.  Only a debounce that was bypassed after the baseline
\* was taken may let a grasp go unseen.
FlipMeasuresThisGrasp ==
    [][auto = "flip" /\ auto' = "clear" => flip.base = grasp \/ flip.base <= disturbed]_vars

\* While the gate has auto paused nothing is left to execute, unless it was
\* disarmed too late to keep the pause from beginning.
PausedQueueEmpty == pkg.paused /\ ~slipped => pending = {}

\* "Any E-stop source disarms auto": an E-stop that stays latched ends the loop.
AutoDisarms == estop ~> (~estop \/ auto \in {"none", "dead"})

\* The join in the Tk thread, which freezes the console and its E-stop button,
\* returns.
StopReturns == gui = "joining" ~> gui = "idle"

\* The pause "engages ONLY while the gripper is EMPTY": one that met a grasp is
\* dropped, not kept, by a gate that is armed.
PauseDropped ==
    LET Kept == pkg.paused /\ closed /\ "pkg" \in armed
    IN  Kept ~> ~Kept

\* "the operator must press Start again": once the E-stop was latched no chunk is
\* accepted for the robot until auto is started anew.
NoSilentResume == [][auto = "append" /\ auto' = "splice" => ~pulsed]_vars
=============================================================================
