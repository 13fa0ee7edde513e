------------------------------ MODULE MCLinks ------------------------------
(* The model checked instance of the TCP links: PlanningLink, HeadsetLink and *)
(* HeadsetView, see links.cfg.  They share nothing, so that each of them is   *)
(* explored for itself, while the other two do not move.                      *)
EXTENDS PlanningLink, HeadsetLink, HeadsetView

VARIABLE link   \* which of the three moves

all == <<link, vars, headsetVars, viewVars>>

MCMessages == [kind : {"state", "image", "ack"}, id : 0..MaxRequests]

PlanningAlone == link = "planning" /\ UNCHANGED <<link, headsetVars, viewVars>>
HeadsetAlone == link = "headset" /\ UNCHANGED <<link, vars, viewVars>>
ViewAlone == link = "view" /\ UNCHANGED <<link, vars, headsetVars>>

LinksInit == Init /\ HeadsetInit /\ ViewInit /\ link \in {"planning", "headset", "view"}
LinksNext ==
    \/ PlanningAlone /\ Next
    \/ HeadsetAlone /\ HeadsetNext
    \/ ViewAlone /\ ViewNext

\* The fairness of PlanningLink; and the threads of the headset app and of its
\* server run, whereas nothing makes a sample, a picture or a failure happen.
\* Only one of the three moves, so that a disjunction over them is as fair as
\* fairness of each.
AcceptOrDial ==
    \/ PlanningAlone /\ AcceptLoop /\ UNCHANGED linkVars /\ UNCHANGED slips
    \/ HeadsetAlone /\ App
    \/ ViewAlone /\ Receiver
RunsThread(n) ==
    \/ PlanningAlone /\ n \in Conns /\ Reader(n)
    \/ HeadsetAlone /\ n \in Links /\ HeadsetServer(n)
    \/ ViewAlone /\ n \in Views /\ Publisher(n)
LinksSpec ==
    /\ LinksInit /\ [][LinksNext]_all
    /\ WF_all(AcceptOrDial)
    /\ \A n \in Conns \cup Links \cup Views : WF_all(RunsThread(n))
    /\ WF_all(ViewAlone /\ UpdateTexture)

\* Either direction of the headset link keeps only the newest there is, and skips
\* what it has no time for, but never the newest for good: the pose of the operator
\* reaches the callback, and the picture the operator steers by reaches the texture,
\* whatever broke and was dialled again before.
HeadsetLags == Outstanding \/ Behind
NewestArrives == HeadsetLags ~> ~HeadsetLags
=============================================================================
