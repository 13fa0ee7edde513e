----------------------------- MODULE CameraHub -----------------------------
(* Camera subscriptions (CameraHub, real_world/camera.py).  Consumers on any   *)
(* thread ask for a camera; the collect thread of HumanoidEnv is the only one  *)
(* that opens and closes cameras, once per tick and in steps: it computes the  *)
(* wanted set under the hub lock, reconciles the open cameras with it, and     *)
(* reads and publishes one frame per open camera.  The clock is left out: a    *)
(* request turns idle by itself, at any moment.  A frame is whether it comes   *)
(* from the subscription that is open now.                                     *)
EXTENDS FiniteSets

CONSTANT Cams           \* the cameras a consumer may ask for

VARIABLES
    want,       \* _active and _last_requested: never or no more, recent, idle
    pinned,     \* _pinned
    open,       \* the cameras of _cams, the live subscriptions
    frames,     \* _frames: nothing, a frame of this subscription, of an older one
    tick        \* the tick of the collect thread: its step, desired and fresh

hubVars == <<want, pinned, open, frames, tick>>

Steps == {"top", "reconcile", "read", "sdk", "record", "done", "dead"}
Ended(step) == [step |-> step, desired |-> {}, fresh |-> {}]
Producing == tick.step \notin {"done", "dead"}

HubTypeOK ==
    /\ want \in [Cams -> {"off", "recent", "idle"}]
    /\ pinned \subseteq Cams
    /\ open \subseteq Cams
    /\ frames \in [Cams -> {"none", "live", "old"}]
    /\ tick \in [step : Steps, desired : SUBSET Cams, fresh : SUBSET Cams]

HubInit(pins) ==
    /\ want = [c \in Cams |-> "off"]
    /\ pinned = pins
    /\ open = {}
    /\ frames = [c \in Cams |-> "none"]
    /\ tick = Ended("top")

-----------------------------------------------------------------------------
(* The consumers.                                                            *)

\* request, and get_frame, which also copies the published frame.
Request(c) ==
    /\ want' = [want EXCEPT ![c] = "recent"]
    /\ UNCHANGED <<pinned, open, frames, tick>>

\* idle_timeout passes without another request.
GoIdle(c) ==
    /\ want[c] = "recent"
    /\ want' = [want EXCEPT ![c] = "idle"]
    /\ UNCHANGED <<pinned, open, frames, tick>>

Pin(names) ==
    /\ pinned' = pinned \cup names
    /\ UNCHANGED <<want, open, frames, tick>>

Unpin(names) ==
    /\ pinned' = pinned \ names
    /\ UNCHANGED <<want, open, frames, tick>>

CloseAll ==
    /\ open' = {}
    /\ UNCHANGED <<want, pinned, frames, tick>>

-----------------------------------------------------------------------------
(* capture_tick, on the collect thread.                                      *)

\* The head of the loop, then the first locked section.
BeginTick(stopping) ==
    LET stale == {c \in Cams : want[c] = "idle" /\ c \notin pinned}
    IN  /\ tick.step = "top"
        /\ IF stopping
           THEN /\ tick' = Ended("done")
                /\ UNCHANGED want
           ELSE /\ want' = [c \in Cams |-> IF c \in stale THEN "off" ELSE want[c]]
                /\ tick' = [step    |-> "reconcile",
                            desired |-> {c \in Cams : want'[c] # "off"} \cup pinned,
                            fresh   |-> {}]
        /\ UNCHANGED <<pinned, open, frames>>

\* _reconcile: closing a camera drops its frame, so that a later subscription
\* starts without one.  A camera that fails to open is tried again next tick.
Mutant_Reconcile(failed) ==
    /\ tick.step = "reconcile"
    /\ failed \subseteq tick.desired \ open
    /\ open' = tick.desired \ failed
    /\ frames' = [c \in Cams |-> IF c \in tick.desired \ open /\ frames[c] = "live"
                                 THEN "old" ELSE frames[c]]
    /\ tick' = [tick EXCEPT !.step = "read"]
    /\ UNCHANGED <<want, pinned>>
Reconcile(failed) ==
    /\ tick.step = "reconcile"
    /\ failed \subseteq tick.desired \ open
    /\ open' = tick.desired \ failed
    /\ frames' = [c \in Cams |->
                    IF c \in open \ tick.desired THEN "none"
                    ELSE IF c \in tick.desired \ open /\ frames[c] = "live" THEN "old"
                    ELSE frames[c]]
    /\ tick' = [tick EXCEPT !.step = "read"]
    /\ UNCHANGED <<want, pinned>>

\* _read_frames and the second locked section.  A camera that is warming up, or
\* drops this tick, has no image.
ReadFrames(got) ==
    /\ tick.step = "read"
    /\ got \subseteq tick.desired \cap open
    /\ frames' = [c \in Cams |-> IF c \in got THEN "live" ELSE frames[c]]
    /\ tick' = [step |-> "sdk", desired |-> {}, fresh |-> got]
    /\ UNCHANGED <<want, pinned, open>>

\* get_latest_image raises: nothing catches it, the thread is gone.
ReadRaises ==
    /\ tick.step = "read"
    /\ tick.desired \cap open # {}
    /\ tick' = Ended("dead")
    /\ UNCHANGED <<want, pinned, open, frames>>
=============================================================================
