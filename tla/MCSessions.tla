----------------------------- MODULE MCSessions -----------------------------
(* The model checked instance of the sessions of the operator: Recording and   *)
(* Teleop, see sessions.cfg.  They share nothing, so that either of them is    *)
(* explored for itself, while the other does not move.                         *)
EXTENDS Recording, Teleop

VARIABLE desk   \* which of the two moves

everything == <<desk, vars, teleopVars>>

RecordingAlone == desk = "recording" /\ UNCHANGED <<desk, teleopVars>>
TeleopAlone == desk = "teleop" /\ UNCHANGED <<desk, vars>>

\* Teleoperation is explored beside the one of the initial states of Recording in
\* which no camera is pinned.
SessionsInit ==
    /\ Init /\ TeleopInit
    /\ desk \in {"recording", "teleop"} /\ (desk = "teleop" => pinned = {})
SessionsNext ==
    \/ RecordingAlone /\ Next
    \/ TeleopAlone /\ TeleopNext

\* The fairness of Recording and of Teleop.  Only one of the two moves, so that a
\* disjunction over them is as fair as fairness of each.
TickOrExecute == (RecordingAlone /\ Collect) \/ (TeleopAlone /\ Execute)
TimeOrCallback == (RecordingAlone /\ TimePasses) \/ (TeleopAlone /\ Callback)
PinsOrSilence ==
    (RecordingAlone /\ PinCameras) \/ (TeleopAlone /\ cb = "join" /\ Silence)
SessionsSpec ==
    /\ SessionsInit /\ [][SessionsNext]_everything
    /\ WF_everything(TickOrExecute)
    /\ WF_everything(TimeOrCallback)
    /\ WF_everything(PinsOrSilence)
    /\ \A f \in Flushes :
          /\ WF_everything(RecordingAlone /\ (FlushStop(f) \/ FlushUnpin(f) \/ FlushFinalize(f)))
          /\ WF_everything(RecordingAlone /\ ShowPostStop(f))
=============================================================================
