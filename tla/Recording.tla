----------------------------- MODULE Recording -----------------------------
(* Recording an episode: the recorder (real_world/recording.py), the camera    *)
(* hub, the collect thread of HumanoidEnv that drives both, and the recording   *)
(* panel of the main window (gui/data_collection.py).                           *)
(*   - The Tk thread (main) runs the buttons, keys and the R_A button of the    *)
(*     headset, one handler at a time, and the window close.                    *)
(*   - Stop hands the session to a flush thread, which takes it from the        *)
(*     recorder, unpins the cameras, writes the episode and asks the Tk thread  *)
(*     for the save/delete prompt.                                              *)
(*   - The collect thread appends a row per tick to the recorder's session.     *)
(* Started with --data, the record cameras are pinned at launch.  A row is the  *)
(* set of cameras whose video got a frame with it; poses and images are left    *)
(* out.                                                                         *)
EXTENDS Observation, Integers, Sequences

CONSTANTS
    MaxSessions,        \* bound: sessions recorded
    MaxRows             \* bound: rows of a session

ASSUME RecordingAssumption == MaxSessions \in Nat /\ MaxRows \in Nat

VARIABLES
    sess,       \* the sessions started so far: directory, readiness and rows
    rec,        \* _rec and _is_recording: the session being recorded, or none
    disk,       \* per episode name: no directory, an empty one, a session's data
    gui,        \* the flags of the panel
    name,       \* its current episode name
    flush,      \* the flush threads: step and the session they hold
    main,       \* where the Tk thread is
    closing     \* the session env.stop took when the window was closed

opVars == <<sess, rec, disk, gui, name, flush, main, closing>>
recVars == <<fresh, opVars>>
vars == <<hubVars, recVars>>

None == 0               \* no session
NoDir == -1             \* no episode directory; 0 is one without an npz file
Names == 1..MaxSessions         \* a session is known by its place in sess
Flushes == {1, 2}
Idle == [step |-> "idle", sid |-> None]
Session == [name : Names, ready : SUBSET Cams, rows : Seq(SUBSET Cams), torn : BOOLEAN]

Running == main # "gone"
Handling == main = "tk"         \* the Tk thread is free for the next handler

Init ==
    /\ HubInit({}) \/ HubInit(Cams)
    /\ fresh = TRUE
    /\ sess = <<>> /\ rec = None
    /\ disk = [n \in Names |-> NoDir]
    /\ gui = "idle" /\ name = None
    /\ flush = [f \in Flushes |-> Idle]
    /\ main = "tk" /\ closing = None

-----------------------------------------------------------------------------
(* The recorder.                                                             *)

\* start: a fresh session under a new directory, or a refusal that the caller
\* does not look at; mkdir may raise, which leaves no session.
RecorderStart(n) ==
    IF rec # None
    THEN UNCHANGED <<sess, rec, disk, main>>
    ELSE \/ /\ sess' = Append(sess, [name |-> n, ready |-> {}, rows |-> <<>>,
                                     torn |-> FALSE])
            /\ rec' = Len(sess) + 1
            /\ disk' = [disk EXCEPT ![n] = IF @ = NoDir THEN 0 ELSE @]
            /\ main' = "pin"
         \/ UNCHANGED <<sess, rec, disk, main>>

\* What stop leaves behind; the session goes to the caller.
Stopped == None

\* finalize: nothing is written for a session without rows, and no file when
\* the directory is gone; the disk may be full.
Finalize(s) ==
    LET n == sess[s].name
    IN  \/ /\ sess[s].rows # <<>> /\ disk[n] # NoDir
           /\ disk' = [disk EXCEPT ![n] = s]
        \/ UNCHANGED disk
Raises(s) == sess[s].rows # <<>> /\ disk'[sess[s].name] # s

\* tick: the row is appended once every camera has been seen in this session.
\* The joint read comes after the poses were appended; when it raises, the pose
\* columns are one longer than the others and the thread is gone.
Row == [sess[rec] EXCEPT !.ready = @ \cup tick.fresh]
RecorderTick ==
    /\ tick.step = "record"
    /\ IF rec = None
       THEN tick' = Ended("top") /\ UNCHANGED sess
       ELSE IF Row.ready # Cams \/ Len(Row.rows) = MaxRows
       THEN /\ sess' = [sess EXCEPT ![rec] = Row]
            /\ tick' = Ended("top")
       ELSE \/ /\ sess' = [sess EXCEPT ![rec] = [Row EXCEPT !.rows = Append(@, tick.fresh)]]
               /\ tick' = Ended("top")
            \/ /\ sess' = [sess EXCEPT ![rec] = [Row EXCEPT !.torn = TRUE]]
               /\ tick' = Ended("dead")
    /\ UNCHANGED <<want, pinned, open, frames>>
    /\ UNCHANGED <<fresh, rec, disk, gui, name, flush, main, closing>>

\* The SDK reads between the cameras and the recorder: a read that fails leaves
\* no status, and the recorder skips the tick.
SdkRead ==
    /\ tick.step = "sdk"
    /\ \E status, changed \in BOOLEAN :
          /\ Ingest(status, changed)
          /\ tick' = IF status THEN [tick EXCEPT !.step = "record"] ELSE Ended("top")
    /\ UNCHANGED <<want, pinned, open, frames>>
    /\ UNCHANGED opVars

Collect ==
    /\ Running
    /\ \/ BeginTick(main \in {"finalize", "closeall", "exit"}) /\ UNCHANGED recVars
       \/ (\E failed \in SUBSET Cams : Reconcile(failed)) /\ UNCHANGED recVars
       \/ (\E got \in SUBSET Cams : ReadFrames(got)) /\ UNCHANGED recVars
       \/ ReadRaises /\ UNCHANGED recVars
       \/ SdkRead
       \/ RecorderTick

-----------------------------------------------------------------------------
(* The handlers of the panel, on the Tk thread.                            *)

\* _next_name: one more than the largest number on disk.
Taken == {n \in Names : disk[n] # NoDir}
NextName == IF Taken = {} THEN 1
            ELSE 1 + CHOOSE n \in Taken : \A m \in Taken : m <= n

\* recording_start.  MaxSessions bounds the sessions and the directories.
Mutant_Startable == gui # "recording"
Startable == gui = "idle"
Begin ==
    /\ NextName \in Names /\ Len(sess) < MaxSessions
    /\ gui' = "recording" /\ name' = NextName
    /\ RecorderStart(NextName)
    /\ UNCHANGED hubVars /\ UNCHANGED <<fresh, flush, closing>>
RecordingStart == Handling /\ Startable /\ Begin

\* start_recording pins the record cameras after the recorder has started.
PinCameras ==
    /\ main = "pin"
    /\ Pin(Cams)
    /\ main' = "tk"
    /\ UNCHANGED <<fresh, sess, rec, disk, gui, name, flush, closing>>

\* recording_stop.
Mutant_AfterStop == "stopped"
AfterStop == "finalizing"
RecordingStop ==
    /\ Handling /\ gui = "recording"
    /\ gui' = AfterStop
    /\ \E f \in Flushes : /\ flush[f].step = "idle"
                          /\ \A g \in Flushes : g < f => flush[g].step # "idle"
                          /\ flush' = [flush EXCEPT ![f] = [step |-> "stop", sid |-> None]]
    /\ UNCHANGED hubVars /\ UNCHANGED <<fresh, sess, rec, disk, name, main, closing>>

RecordingSave ==
    /\ Handling /\ gui = "stopped"
    /\ gui' = "idle"
    /\ UNCHANGED hubVars
    /\ UNCHANGED <<fresh, sess, rec, disk, name, flush, main, closing>>

\* recording_delete: the directory goes with all it holds.
RecordingDelete ==
    /\ Handling /\ gui = "stopped"
    /\ disk' = [disk EXCEPT ![name] = NoDir]
    /\ gui' = "idle"
    /\ UNCHANGED hubVars /\ UNCHANGED <<fresh, sess, rec, name, flush, main, closing>>

\* _dc_on_vr_record_button with an episode to save: save it and start the next.
\* While recording it is recording_stop, when idle recording_start, and while
\* finalizing it does nothing.
VrSaveAndStart ==
    /\ Handling /\ gui = "stopped"
    /\ Begin

-----------------------------------------------------------------------------
(* The flush threads: env.stop_recording, then the prompt.                   *)

FlushStop(f) ==
    /\ Running /\ flush[f].step = "stop"
    /\ rec' = IF rec = None THEN None ELSE Stopped
    /\ flush' = [flush EXCEPT ![f] = IF rec = None THEN [step |-> "post", sid |-> None]
                                     ELSE [step |-> "unpin", sid |-> rec]]
    /\ UNCHANGED hubVars /\ UNCHANGED <<fresh, sess, disk, gui, name, main, closing>>

FlushUnpin(f) ==
    /\ Running /\ flush[f].step = "unpin"
    /\ Unpin(Cams)
    /\ flush' = [flush EXCEPT ![f].step = "finalize"]
    /\ UNCHANGED <<fresh, sess, rec, disk, gui, name, main, closing>>

\* What finalize raises is caught, the prompt comes all the same.
FlushFinalize(f) ==
    /\ Running /\ flush[f].step = "finalize"
    /\ Finalize(flush[f].sid)
    /\ flush' = [flush EXCEPT ![f] = [step |-> "post", sid |-> None]]
    /\ UNCHANGED hubVars /\ UNCHANGED <<fresh, sess, rec, gui, name, main, closing>>

\* _show_post_stop, queued with root.after.
ShowPostStop(f) ==
    /\ Handling /\ flush[f].step = "post"
    /\ flush' = [flush EXCEPT ![f] = Idle]
    /\ gui' = "stopped"
    /\ UNCHANGED hubVars /\ UNCHANGED <<fresh, sess, rec, disk, name, main, closing>>

-----------------------------------------------------------------------------
(* Closing the window: HumanoidEnv.stop and the end of the process.          *)

CloseVars == <<fresh, sess, gui, name, flush>>

OnClosing ==
    /\ Handling
    /\ main' = "closing"
    /\ UNCHANGED hubVars /\ UNCHANGED CloseVars /\ UNCHANGED <<rec, disk, closing>>

EnvStop ==
    /\ main = "closing"
    /\ closing' = rec
    /\ rec' = IF rec = None THEN None ELSE Stopped
    /\ main' = "finalize"
    /\ UNCHANGED hubVars /\ UNCHANGED CloseVars /\ UNCHANGED disk

\* The threads have been joined, or five seconds have passed.
EnvFinalize ==
    /\ main = "finalize"
    /\ IF closing = None THEN UNCHANGED disk /\ main' = "closeall"
       ELSE /\ Finalize(closing)
            /\ main' = IF Raises(closing) THEN "exit" ELSE "closeall"
    /\ UNCHANGED hubVars /\ UNCHANGED CloseVars /\ UNCHANGED <<rec, closing>>

EnvCloseAll ==
    /\ main = "closeall"
    /\ CloseAll
    /\ main' = "exit"
    /\ UNCHANGED CloseVars /\ UNCHANGED <<rec, disk, closing>>

\* os._exit: whatever the other threads were doing is lost.
Exit ==
    /\ main = "exit"
    /\ main' = "gone"
    /\ UNCHANGED hubVars /\ UNCHANGED CloseVars /\ UNCHANGED <<rec, disk, closing>>

Gone == main = "gone" /\ UNCHANGED vars

-----------------------------------------------------------------------------
Consumers ==
    /\ Running
    /\ \/ (\E c \in Cams : Request(c) \/ GoIdle(c)) /\ UNCHANGED fresh
       \/ GetObs
    /\ UNCHANGED opVars

TimePasses == Running /\ TurnStale /\ UNCHANGED opVars

Next ==
    \/ Consumers \/ TimePasses
    \/ Collect
    \/ RecordingStart \/ PinCameras \/ RecordingStop \/ RecordingSave
    \/ RecordingDelete \/ VrSaveAndStart
    \/ \E f \in Flushes : \/ FlushStop(f) \/ FlushUnpin(f)
                          \/ FlushFinalize(f) \/ ShowPostStop(f)
    \/ OnClosing \/ EnvStop \/ EnvFinalize \/ EnvCloseAll \/ Exit \/ Gone

Spec == Init /\ [][Next]_vars

\* Threads run; a handler that was entered ends and the Tk thread serves what
\* was queued.  Nothing makes an operator press a button.
FairSpec ==
    /\ Spec
    /\ WF_vars(Collect)
    /\ WF_vars(TimePasses)
    /\ WF_vars(PinCameras)
    /\ \A f \in Flushes : /\ WF_vars(FlushStop(f) \/ FlushUnpin(f) \/ FlushFinalize(f))
                          /\ WF_vars(ShowPostStop(f))
-----------------------------------------------------------------------------
(* Properties.                                                              *)

\* The values of the state; the recorder and the panel name sessions and
\* episodes that exist.
TypeOK ==
    /\ HubTypeOK /\ fresh \in BOOLEAN
    /\ sess \in Seq(Session)
    /\ rec \in 0..Len(sess)
    /\ disk \in [Names -> NoDir..Len(sess)]
    /\ gui \in {"idle", "recording", "finalizing", "stopped"}
    /\ name \in 0..MaxSessions
    /\ flush \in [Flushes -> [step : {"idle", "stop", "unpin", "finalize", "post"},
                              sid : 0..Len(sess)]]
    /\ main \in {"tk", "pin", "closing", "finalize", "closeall", "exit", "gone"}
    /\ closing \in 0..Len(sess)

\* "no stale frame on re-activation" (CameraHub._reconcile): until the hub is
\* shut down, whoever looks at a camera never gets a picture from before it was
\* last switched off.
NoStaleFrame ==
    main \in {"tk", "pin", "closing", "finalize"} => \A c \in Cams : frames[c] # "old"

\* "Pins the record cameras so a tick never misses one to idle-eviction"
\* (HumanoidEnv.start_recording): from the end of start_recording to the moment
\* the recorder is stopped no record camera can be evicted, although the end of
\* the previous recording unpins the same cameras on another thread.
PinsHold ==
    rec # None /\ main # "pin" => Cams \subseteq pinned

\* The policy sees nothing stale (the ABORT of InferenceController on a stale
\* observation): when the only producer thread has died of an exception, every
\* observation is marked stale from some moment on.
DeadProducerSeen == ~Producing ~> [](~fresh \/ ~Running)

\* The three-state cycle of DataCollectionMixin: when the panel lets the operator
\* start, the recorder is free and no flush is left of the previous episode, so a
\* start is never refused behind a green RECORDING light; and while it records,
\* the session is the one whose name it shows.
PanelInStep ==
    Handling =>
        /\ gui \in {"idle", "stopped"} =>
              rec = None /\ \A f \in Flushes : flush[f].step = "idle"
        /\ gui = "recording" /\ rec # None => sess[rec].name = name

\* "the collect thread stops touching it immediately" (recording.py): a session
\* that was taken from the recorder to be written, or is written, gets no row.
Held(s) ==
    \/ closing = s
    \/ \E f \in Flushes : flush[f].sid = s
    \/ \E n \in Names : disk[n] = s
Sealed == [][\A s \in DOMAIN sess : Held(s) => sess'[s] = sess[s]]_vars
=============================================================================
