------------------------------ MODULE Console ------------------------------
(* The Console tab: the buttons of the inference panel                        *)
(* (gui/inference_panel.py), the controller's manual step-through and the     *)
(* thread of its auto loop (real_world/inference_controller.py), and what     *)
(* both need the preview for.  The Tk thread runs the buttons, the callbacks  *)
(* of the workers and the poll that waits for the preview; it is deaf while   *)
(* it joins the auto loop.  Chunks have N rows; the E-stop, homing and the    *)
(* place macros are in AutoRun, the robot's queue is in ReleasePipeline.      *)
EXTENDS SimPreview

CONSTANTS
    Workers,        \* worker threads of the panel that may be alive at once
    Looper,         \* the thread of the auto loop
    N,              \* rows of a published chunk
    MaxPolls        \* bound: polls for the preview at once

ASSUME CallersAssumption == Callers = Workers \cup {Looper} /\ Looper \notin Workers
ASSUME RowsAssumption == N \in Nat \ {0} /\ MaxPolls \in Nat

VARIABLES
    tk,             \* what the Tk thread is doing
    is_auto,        \* is_auto_inference
    polls,          \* _await_sim_then_auto callbacks that are scheduled
    auto_pending,   \* _auto_pending
    busy,           \* _manual_busy
    thread,         \* where each thread is
    published,      \* robot_info holds a chunk
    cursor,         \* _exec_cursor
    span,           \* the rows a worker validates
    staged,         \* _staged_release is not empty
    stepped,        \* history: the rows staged since the cursor was last reset
    overlapped      \* history: a thread was started beside another one since then

panelVars == <<tk, polls, auto_pending, busy>>
stepVars == <<published, cursor, span, staged, stepped, overlapped>>
vars == <<simVars, panelVars, is_auto, thread, stepVars>>

Init ==
    /\ SimInit
    /\ tk = "idle" /\ is_auto = FALSE
    /\ polls = 0 /\ auto_pending = FALSE
    /\ busy = FALSE
    /\ thread = [t \in Callers |-> "none"]
    /\ published = FALSE /\ cursor = 0
    /\ span = [w \in Workers |-> <<>>]
    /\ staged = FALSE /\ stepped = <<>> /\ overlapped = FALSE

Goto(t, from, to) == thread[t] = from /\ thread' = [thread EXCEPT ![t] = to]

\* A thread has not finished its work; the auto loop is inside a cycle.
Alive(t) == thread[t] \notin {"none", "done", "ended"}
InCycle == thread[Looper] \in {"infer", "publish", "append", "solve", "wait"}

-----------------------------------------------------------------------------
(* _run_inference: the cursor is reset when the answer is there, and the      *)
(* chunk is published later.                                                  *)

Restart(t) == /\ stepped' = <<>>
              /\ overlapped' = (\E u \in Callers \ {t} : Alive(u))
Mutant_ResetCursor(t) == Restart(t) /\ UNCHANGED cursor
ResetCursor(t) == Restart(t) /\ cursor' = 0

-----------------------------------------------------------------------------
(* The thread of the auto loop.                                             *)

AutoHead ==
    /\ Goto(Looper, "head", IF is_auto THEN "infer" ELSE "ended")
    /\ UNCHANGED <<simVars, panelVars, is_auto, stepVars>>

\* No observation, no answer, a recovery; or a fresh chunk.
AutoInfer ==
    /\ \/ Goto(Looper, "infer", "head") /\ UNCHANGED <<cursor, stepped, overlapped>>
       \/ Goto(Looper, "infer", "publish") /\ ResetCursor(Looper)
    /\ UNCHANGED <<simVars, panelVars, is_auto, published, span, staged>>

AutoPublish ==
    /\ Goto(Looper, "publish", "append")
    /\ published' = TRUE
    /\ UNCHANGED <<simVars, panelVars, is_auto, cursor, span, staged, stepped, overlapped>>

\* append_actions looks the preview up and refuses without one ...
AutoAppend ==
    /\ Goto(Looper, "append", IF sim = 0 THEN "head" ELSE "solve")
    /\ ref' = [ref EXCEPT ![Looper] = sim]
    /\ UNCHANGED <<sim, made, loop, connected, sim_stop, jobs, running, box, shut,
                   panelVars, is_auto, stepVars>>

\* ... has nothing to append or no solution, or submits the validation.
AutoSubmit ==
    /\ \/ /\ Goto(Looper, "solve", "head")
          /\ ref' = [ref EXCEPT ![Looper] = 0]
          /\ UNCHANGED <<sim, made, loop, connected, sim_stop, jobs, running, box, shut>>
       \/ Goto(Looper, "solve", "wait") /\ Submit(Looper, ref[Looper])
    /\ UNCHANGED <<panelVars, is_auto, stepVars>>

\* Nothing catches an exception of the job: it ends the thread.
AutoResult ==
    /\ \/ /\ \E reply \in {"ok", "bad"} : Receive(Looper, reply)
          /\ Goto(Looper, "wait", "head")
       \/ Receive(Looper, "error") /\ Goto(Looper, "wait", "ended")
    /\ UNCHANGED <<panelVars, is_auto, stepVars>>

AutoLoop ==
    AutoHead \/ AutoInfer \/ AutoPublish \/ AutoAppend \/ AutoSubmit \/ AutoResult

-----------------------------------------------------------------------------
(* A worker of "Infer once".                                                *)

InferOnce(w) ==
    /\ \/ Goto(w, "request", "done") /\ UNCHANGED <<cursor, stepped, overlapped>>
       \/ Goto(w, "request", "publish") /\ ResetCursor(w)
    /\ UNCHANGED <<simVars, panelVars, is_auto, published, span, staged>>

InferPublish(w) ==
    /\ Goto(w, "publish", "done")
    /\ published' = TRUE
    /\ UNCHANGED <<simVars, panelVars, is_auto, cursor, span, staged, stepped, overlapped>>

-----------------------------------------------------------------------------
(* A worker of "Validate (step)" and "Validate (all)":                        *)
(* execute_inference_result and, in it, validate_and_stage.                   *)

\* The rows from the cursor on, the first or all of them.
ReadRows(w) ==
    /\ \/ /\ published /\ cursor < N
          /\ \/ Goto(w, "step", "resync")
                /\ span' = [span EXCEPT ![w] = <<cursor + 1>>]
             \/ Goto(w, "all", "resync")
                /\ span' = [span EXCEPT ![w] = [i \in 1..(N - cursor) |-> cursor + i]]
       \/ /\ ~published \/ cursor >= N
          /\ \E from \in {"step", "all"} : Goto(w, from, "done")
          /\ UNCHANGED span
    /\ UNCHANGED <<simVars, panelVars, is_auto, published, cursor, staged, stepped, overlapped>>

\* Without a preview the call is refused.  _resync_to_robot_if_idle is skipped
\* when something is staged or queued, or when the arm cannot be read.
Resync(w) ==
    /\ \/ sim = 0 /\ Goto(w, "resync", "done")
       \/ sim # 0 /\ Goto(w, "resync", "solve")
       \/ sim # 0 /\ ~staged /\ Goto(w, "resync", "reset")
    /\ UNCHANGED <<simVars, panelVars, is_auto, stepVars>>

\* The preview is looked up again: when it went meanwhile, the attribute error
\* ends the worker.
SubmitJob(w, from, to) ==
    /\ IF sim = 0
       THEN Goto(w, from, "none") /\ UNCHANGED simVars
       ELSE Goto(w, from, to) /\ Submit(w, sim)
    /\ UNCHANGED <<panelVars, is_auto, stepVars>>

ResetSim(w) == SubmitJob(w, "reset", "resetting")

ResetDone(w) ==
    /\ \/ /\ \E reply \in {"ok", "bad"} : Receive(w, reply)
          /\ Goto(w, "resetting", "solve")
       \/ Receive(w, "error") /\ Goto(w, "resetting", "none")
    /\ UNCHANGED <<panelVars, is_auto, stepVars>>

\* The inverse kinematics fails or the preview is gone; else it is looked up
\* once more for the validation.
Solve(w) ==
    /\ \/ Goto(w, "solve", "done")
       \/ sim # 0 /\ Goto(w, "solve", "submit")
    /\ UNCHANGED <<simVars, panelVars, is_auto, stepVars>>

SubmitValidation(w) == SubmitJob(w, "submit", "validating")

Validated(w) ==
    /\ \/ Receive(w, "ok") /\ Goto(w, "validating", "store")
       \/ Receive(w, "bad") /\ Goto(w, "validating", "done")
       \/ Receive(w, "error") /\ Goto(w, "validating", "none")
    /\ UNCHANGED <<panelVars, is_auto, stepVars>>

Store(w) ==
    /\ Goto(w, "store", "advance")
    /\ staged' = TRUE
    /\ stepped' = IF overlapped THEN <<>> ELSE stepped \o span[w]
    /\ UNCHANGED <<simVars, panelVars, is_auto, published, cursor, span, overlapped>>

Advance(w) ==
    /\ Goto(w, "advance", "done")
    /\ cursor' = span[w][Len(span[w])]
    /\ UNCHANGED <<simVars, panelVars, is_auto, published, span, staged, stepped, overlapped>>

Worker(w) ==
    \/ InferOnce(w) \/ InferPublish(w)
    \/ ReadRows(w) \/ Resync(w) \/ ResetSim(w) \/ ResetDone(w)
    \/ Solve(w) \/ SubmitValidation(w) \/ Validated(w) \/ Store(w) \/ Advance(w)

-----------------------------------------------------------------------------
(* The Tk thread: the manual buttons.                                       *)

\* No button is disabled while workers are out.  (The panel disables the validate
\* buttons when it learns that nothing is left; a worker then finds nothing to do.)
Press(w, kind) ==
    /\ tk = "idle"
    /\ Goto(w, "none", kind)
    /\ busy' = TRUE
    /\ overlapped' = (overlapped \/ \E u \in Callers : Alive(u))
    /\ UNCHANGED <<simVars, tk, polls, auto_pending, is_auto,
                   published, cursor, span, staged, stepped>>

\* The worker's callback.
Done(w) ==
    /\ tk = "idle"
    /\ Goto(w, "done", "none")
    /\ busy' = FALSE
    /\ span' = [span EXCEPT ![w] = <<>>]
    /\ UNCHANGED <<simVars, tk, polls, auto_pending, is_auto,
                   published, cursor, staged, stepped, overlapped>>

\* Release some of the staged substeps, or all.
Release ==
    /\ tk = "idle" /\ staged
    /\ staged' \in BOOLEAN
    /\ UNCHANGED <<simVars, panelVars, is_auto, thread, published, cursor, span, stepped,
                   overlapped>>

LaunchButton ==
    /\ tk = "idle"
    /\ LaunchSim
    /\ UNCHANGED <<panelVars, is_auto, thread, stepVars>>

-----------------------------------------------------------------------------
(* The Tk thread: auto-run.                                                 *)

\* auto_inference: a thread that has ended is replaced, a live one goes on.
StartLoop ==
    /\ is_auto' = TRUE
    /\ IF Alive(Looper)
       THEN UNCHANGED <<thread, overlapped>>
       ELSE /\ thread' = [thread EXCEPT ![Looper] = "head"]
            /\ overlapped' = (overlapped \/ \E u \in Callers : Alive(u))

\* Start: the preview is launched when there is none, and the first look for it
\* is made at once; auto_inference looks again, and may refuse.
StartAuto ==
    /\ tk = "idle"
    /\ \/ /\ sim # 0 /\ (StartLoop \/ UNCHANGED <<is_auto, thread, overlapped>>)
          /\ auto_pending' = FALSE
          /\ UNCHANGED <<simVars, polls>>
       \/ /\ sim = 0 /\ LaunchSim
          /\ polls < MaxPolls /\ polls' = polls + 1
          /\ auto_pending' = TRUE
          /\ UNCHANGED <<is_auto, thread, overlapped>>
    /\ UNCHANGED <<tk, busy, published, cursor, span, staged, stepped>>

\* _await_sim_then_auto, from the timer: the preview is there, or after fifty
\* looks the poll gives up.
Poll ==
    /\ tk = "idle" /\ polls > 0
    /\ polls' = polls - 1
    /\ auto_pending' = FALSE
    /\ \/ sim # 0 /\ StartLoop
       \/ UNCHANGED <<is_auto, thread, overlapped>>
    /\ UNCHANGED <<simVars, tk, busy, published, cursor, span, staged,
                   stepped>>

\* Stop and the closing of the console drop the flag and join the thread.
Mutant_StopAuto(next, free) ==
    /\ tk = "idle" /\ tk' = free
    /\ is_auto' = FALSE
    /\ UNCHANGED <<simVars, polls, auto_pending, busy, thread, stepVars>>
StopAuto(next, free) ==
    /\ tk = "idle" /\ tk' = next
    /\ is_auto' = FALSE
    /\ UNCHANGED <<simVars, polls, auto_pending, busy, thread, stepVars>>

Joined(from, next) ==
    /\ tk = from /\ ~Alive(Looper)
    /\ tk' = next
    /\ thread' = [thread EXCEPT ![Looper] = "none"]
    /\ UNCHANGED <<simVars, polls, auto_pending, busy, is_auto, stepVars>>

Stop == StopAuto("stopping", "idle")
StopJoined == Joined("stopping", "idle")

\* on_closing: first the auto loop, then the preview.
Mutant_Close ==
    /\ tk = "idle" /\ tk' = "closing"
    /\ is_auto' = FALSE
    /\ sim_stop' = TRUE
    /\ UNCHANGED <<sim, made, loop, connected, jobs, running, ref, box, shut,
                   polls, auto_pending, busy, thread, stepVars>>
Close == StopAuto("closing", "closing")
CloseJoined == Joined("closing", "ending")

\* _stop_sim waits three seconds at most, and the process exits.
StopSim ==
    /\ tk = "ending" /\ tk' = "joining"
    /\ sim_stop' = TRUE
    /\ UNCHANGED <<sim, made, loop, connected, jobs, running, ref, box, shut,
                   polls, auto_pending, busy, is_auto, thread, stepVars>>

Exit ==
    /\ tk = "joining" /\ tk' = "closed"
    /\ UNCHANGED <<simVars, polls, auto_pending, busy, is_auto, thread,
                   stepVars>>

-----------------------------------------------------------------------------
Buttons ==
    \/ \E w \in Workers, kind \in {"request", "step", "all"} : Press(w, kind)
    \/ Release \/ LaunchButton \/ StartAuto \/ Stop \/ Close
Callbacks == Poll \/ StopJoined \/ CloseJoined \/ StopSim \/ Exit

Open == tk # "closed"
Preview(step) == step /\ UNCHANGED <<panelVars, is_auto, thread, stepVars>>

Next ==
    \/ Open /\ (AutoLoop \/ Buttons \/ Callbacks)
    \/ Open /\ (Preview(SimThread) \/ Preview(CloseWindow))
    \/ Open /\ \E w \in Workers : Worker(w) \/ Done(w)
    \/ ~Open /\ UNCHANGED vars

Spec == Init /\ [][Next]_vars

\* The threads run and Tk runs its callbacks; the longest call, the policy
\* server's, has a timeout.  The operator owes nothing.
FairSpec ==
    /\ Spec
    /\ WF_vars(Open /\ Preview(SimThread))
    /\ WF_vars(Open /\ AutoLoop)
    /\ WF_vars(Open /\ Callbacks)
    /\ \A w \in Workers : WF_vars(Open /\ (Worker(w) \/ Done(w)))

-----------------------------------------------------------------------------
(* Properties.                                                              *)

Places == {"none", "head", "infer", "publish", "append", "solve", "wait", "ended",
           "request", "step", "all", "resync", "reset", "resetting", "submit",
           "validating", "store", "advance", "done"}

\* The values of the shared state and of the threads.
TypeOK ==
    /\ SimTypeOK
    /\ tk \in {"idle", "stopping", "closing", "ending", "joining", "closed"}
    /\ polls \in 0..MaxPolls
    /\ \A flag \in {is_auto, auto_pending, busy, published, staged,
                    overlapped} : flag \in BOOLEAN
    /\ thread \in [Callers -> Places]
    /\ cursor \in 0..N
    /\ span \in [Workers -> Seq(1..N)] /\ stepped \in Seq(1..N)

\* The manual step-through stages the rows of a chunk one after the other, none
\* twice and none left out, whatever fails on the way and although the preview
\* comes and goes, as long as the operator lets a worker finish before starting
\* the next one.  When no worker is out the cursor says how far it got.
RowsInStep ==
    ~overlapped => /\ \A i \in 1..Len(stepped) : stepped[i] = i
                   /\ (\A t \in Callers : ~Alive(t)) => cursor = Len(stepped)

\* Whenever the panel lets the operator change the smoothing or the length of
\* the merge buffer, the auto loop is not in the middle of a cycle, which reads
\* both several times.
TuningLocked == is_auto \/ busy \/ auto_pending
TunedOutsideCycle == (tk = "idle" /\ ~TuningLocked) => ~InCycle

\* Stop and the closing of the console wait for the auto loop, which waits for
\* the preview, which Tk does not stop before: they come back, unless the window
\* of the preview was closed while the loop's job was in it.
TkComesBack == tk # "idle" ~> (tk \in {"idle", "closed"} \/ CutOff(Looper))
=============================================================================
