---------------------------- MODULE Observation ----------------------------
(* The observation buffers of the inference (ObsCollector, real_world/        *)
(* observer.py), which the collect thread fills right after its camera step.  *)
(* The buffers are latest-wins; what matters of them is whether anything in   *)
(* them changed within stale_timeout.  The clock is left out: an observation  *)
(* that nothing refreshes turns stale by itself.  So is the firmware error,   *)
(* which only marks more of them stale.                                       *)
EXTENDS CameraHub

VARIABLE fresh      \* _fresh_mono lies less than stale_timeout back

\* The SDK reads of one tick and ingest.  They fail as one: then there is no
\* pose to compare.  A frame or a pose that differs from the last one makes the
\* observation fresh.
Ingest(status, changed) ==
    /\ tick.step = "sdk"
    /\ changed => status \/ tick.fresh # {}
    /\ fresh' = (fresh \/ changed)

\* stale_timeout passes without a change.
TurnStale ==
    /\ fresh
    /\ fresh' = FALSE
    /\ UNCHANGED hubVars

\* get_obs keeps the cameras warm.
Mutant_GetObs ==
    /\ want' = [c \in Cams |-> "recent"]
    /\ fresh' = TRUE
    /\ UNCHANGED <<pinned, open, frames, tick>>
GetObs ==
    /\ want' = [c \in Cams |-> "recent"]
    /\ UNCHANGED <<pinned, open, frames, tick, fresh>>
=============================================================================
