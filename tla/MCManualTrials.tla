--------------------------- MODULE MCManualTrials ---------------------------
(* The model checked instance of the release buttons of ReleasePipeline and of *)
(* EvalTrials, the scoring tool beside the console: see manual_trials.cfg.     *)
(* They share nothing, so that either of them is explored for itself, while    *)
(* the other does not move; and neither has fairness here, nothing being said  *)
(* of what must happen.                                                        *)
EXTENDS MCReleasePipeline, EvalTrials

VARIABLE part   \* which of the two moves

everything == <<part, vars, scoringVars>>

ManualAlone == part = "manual" /\ UNCHANGED <<part, scoringVars>>
TrialsAlone == part = "trials" /\ UNCHANGED <<part, vars>>

\* The trials are explored beside the initial state in which the arms are known.
ManualTrialsInit ==
    /\ Init /\ ScoringInit
    /\ part \in {"manual", "trials"} /\ (part = "trials" => arm_known)
ManualTrialsNext ==
    \/ ManualAlone /\ Next
    \/ TrialsAlone /\ ScoringNext
ManualTrialsSpec == ManualTrialsInit /\ [][ManualTrialsNext]_everything
=============================================================================
