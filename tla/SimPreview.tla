----------------------------- MODULE SimPreview -----------------------------
(* The PyBullet preview: the thread that owns it (RobotControlGUI._sim_loop,  *)
(* robot_control_gui.py) and the queue of jobs other threads hand to it       *)
(* (SimEnv.submit_job, real_world/sim_backend.py).  A submitter waits for its *)
(* job without a timeout, and the queue belongs to one SimEnv: jobs that are  *)
(* left in it when its thread ends are run by nobody.                         *)
EXTENDS Integers, Sequences

CONSTANTS
    Callers,        \* the threads that submit jobs
    MaxSim          \* bound: previews built

ASSUME SimAssumption == MaxSim \in Nat

VARIABLES
    sim,            \* env.sim: the number of the attached preview, 0 for None
    made,           \* how many previews were built: the number of the newest
    loop,           \* where the simulation thread is, "none" without one
    connected,      \* p.isConnected, of the newest preview
    sim_stop,       \* _sim_stop
    jobs,           \* _job_q of the newest preview: whose jobs wait in it
    running,        \* whose job is being run: at most one caller
    ref,            \* the preview a caller works with, 0 when it works with none
    box,            \* what a caller's box holds, "empty" while it waits
    shut            \* history: the previews whose window was closed by hand

simVars == <<sim, made, loop, connected, sim_stop, jobs, running, ref, box, shut>>

Previews == 1..MaxSim
Replies == {"ok", "bad", "error"}

SimInit ==
    /\ sim = 0 /\ made = 0 /\ loop = "none"
    /\ connected = FALSE /\ sim_stop = FALSE
    /\ jobs = <<>> /\ running = {}
    /\ ref = [c \in Callers |-> 0]
    /\ box = [c \in Callers |-> "none"]
    /\ shut = {}

-----------------------------------------------------------------------------
(* The callers.                                                             *)

\* submit_job, up to the wait: the job goes to the preview the caller looked up,
\* which may be one whose thread has ended.
Submit(c, k) ==
    /\ box[c] = "none"
    /\ ref' = [ref EXCEPT ![c] = k]
    /\ box' = [box EXCEPT ![c] = "empty"]
    /\ jobs' = IF k = made THEN Append(jobs, c) ELSE jobs
    /\ UNCHANGED <<sim, made, loop, connected, sim_stop, running, shut>>

\* The event is set: the caller takes the result, or the exception.
Receive(c, reply) ==
    /\ box[c] = reply /\ reply \in Replies
    /\ box' = [box EXCEPT ![c] = "none"]
    /\ ref' = [ref EXCEPT ![c] = 0]
    /\ UNCHANGED <<sim, made, loop, connected, sim_stop, jobs, running, shut>>

Waits(c) == box[c] = "empty"

\* launch_sim: nothing happens while the thread is alive.
LaunchSim ==
    IF loop = "none" /\ made < MaxSim
    THEN /\ loop' = "build" /\ sim_stop' = FALSE
         /\ UNCHANGED <<sim, made, connected, jobs, running, ref, box, shut>>
    ELSE UNCHANGED simVars

-----------------------------------------------------------------------------
(* The simulation thread.                                                   *)

\* SimEnv is built and attached, or its construction raises.
Build ==
    /\ loop = "build"
    /\ \/ /\ loop' = "test"
          /\ made' = made + 1 /\ sim' = made + 1
          /\ connected' = TRUE /\ jobs' = <<>>
       \/ loop' = "none" /\ UNCHANGED <<made, sim, connected, jobs>>
    /\ UNCHANGED <<sim_stop, running, ref, box, shut>>

LoopTest ==
    /\ loop = "test"
    /\ loop' = IF sim_stop \/ ~connected THEN "detach" ELSE "drain"
    /\ UNCHANGED <<sim, made, connected, sim_stop, jobs, running, ref, box, shut>>

\* _drain_jobs runs one job after the other ...
TakeJob ==
    /\ loop = "drain" /\ jobs # <<>>
    /\ loop' = "run"
    /\ running' = {Head(jobs)}
    /\ jobs' = Tail(jobs)
    /\ UNCHANGED <<sim, made, connected, sim_stop, ref, box, shut>>

\* ... and hands each its result or, when the physics server is gone, the
\* exception its calls raise ...
RunJob ==
    /\ loop = "run" /\ loop' = "drain"
    /\ \E c \in running, reply \in Replies :
          /\ reply = "error" => ~connected
          /\ box' = [box EXCEPT ![c] = reply]
    /\ running' = {}
    /\ UNCHANGED <<sim, made, connected, sim_stop, jobs, ref, shut>>

\* ... until none is left; the step of the physics raises as well.
Step ==
    /\ loop = "drain" /\ jobs = <<>>
    /\ loop' = IF connected THEN "test" ELSE "detach"
    /\ UNCHANGED <<sim, made, connected, sim_stop, jobs, running, ref, box, shut>>

\* The end of the loop: the preview is taken from the env and disconnected.
Detach ==
    /\ \/ loop = "detach" /\ loop' = "close" /\ sim' = 0 /\ UNCHANGED connected
       \/ loop = "close" /\ loop' = "none" /\ connected' = FALSE /\ UNCHANGED sim
    /\ UNCHANGED <<made, sim_stop, jobs, running, ref, box, shut>>

SimThread == Build \/ LoopTest \/ TakeJob \/ RunJob \/ Step \/ Detach

\* The operator closes the window of the preview.
CloseWindow ==
    /\ connected
    /\ connected' = FALSE
    /\ shut' = shut \cup {made}
    /\ UNCHANGED <<sim, made, loop, sim_stop, jobs, running, ref, box>>

-----------------------------------------------------------------------------
SimTypeOK ==
    /\ sim \in {0} \cup Previews /\ made \in {0} \cup Previews
    /\ loop \in {"none", "build", "test", "drain", "run", "detach", "close"}
    /\ connected \in BOOLEAN /\ sim_stop \in BOOLEAN
    /\ jobs \in Seq(Callers) /\ running \subseteq Callers
    /\ ref \in [Callers -> {0} \cup Previews]
    /\ box \in [Callers -> {"none", "empty"} \cup Replies]
    /\ shut \subseteq Previews

\* A job that was cut off: its preview was closed by hand.
CutOff(c) == Waits(c) /\ ref[c] \in shut
=============================================================================
