---------------------------- MODULE PlanningLink ----------------------------
(* The planning process between its operator and the GUI (planning_server/     *)
(* server.py over tcp_server.py).  The operator works at one IPython prompt:   *)
(* TriggerDetection asks the GUI for an image and looks for objects in it,     *)
(* PlanGrab plans and caches a trajectory, SendTrajectory hands it to the GUI. *)
(* The answers arrive on the reader threads, as do the joint states of the     *)
(* robot, which are shown unless a plan is being computed.                     *)
(*                                                                             *)
(* Requests and plans are numbered.  An acknowledgement stands for the result   *)
(* as well, which is waited for in the same way.  Joint values and the scene    *)
(* are left out, and so are starting and stopping the server.                   *)
EXTENDS TcpServer

CONSTANTS
    MaxRequests,        \* bound: requests, that is request and trajectory ids
    MaxPlans            \* bound: plans computed

ASSUME LinkAssumption ==
    /\ MaxRequests \in Nat /\ MaxPlans \in Nat
    /\ Messages = [kind : {"state", "image", "ack"}, id : 0..MaxRequests]

VARIABLES
    call,       \* the operator's call: step, what it sends, its socket, its waits
    requests,   \* requests made so far
    waiter,     \* the request in _detection_waiters or _trajectory_waiters, or 0
    got,        \* the events set for it
    asked,      \* what has reached the GUI: request, and the plan it carried
    pending,    \* pending_trajectory: the plan, or 0
    plans,      \* plans computed so far
    live,       \* _live_state_enabled
    was,        \* what SuppressLiveState restores
    slips       \* history: states applied during the plan under way

linkVars == <<call, requests, waiter, got, asked, pending, plans, live, was>>
vars == <<tcpVars, linkVars, slips>>

Requests == 1..MaxRequests
NoPlan == 0
Idle == [step |-> "idle", id |-> 0, plan |-> NoPlan, sock |-> Nobody, waits |-> {}]

Init ==
    /\ TcpInit
    /\ call = Idle /\ requests = 0
    /\ waiter = 0 /\ got = {} /\ asked = {}
    /\ pending = NoPlan /\ plans = 0
    /\ live = TRUE /\ was = TRUE
    /\ slips = [c \in Conns |-> 0]

liveVars == <<live, was>>
planVars == <<pending, plans>>

-----------------------------------------------------------------------------
(* A request and its answer.                                                 *)

\* Every request has an id of its own; it registers a waiter unless it waits for
\* nothing.
Begin(plan, waits) ==
    /\ call.step = "idle" /\ requests < MaxRequests
    /\ client # Nobody
    /\ requests' = requests + 1
    /\ call' = [step |-> "send", id |-> requests', plan |-> plan, sock |-> Nobody,
                waits |-> waits]
    /\ waiter' = IF waits = {} THEN 0 ELSE requests'
    /\ got' = {}
    /\ UNCHANGED tcpVars
    /\ UNCHANGED <<asked, planVars, liveVars, slips>>

TriggerDetection == Begin(NoPlan, {"image"})
SendTrajectory ==
    /\ pending # NoPlan
    /\ \E waits \in {{}, {"ack"}} : Begin(pending, waits)

\* It returns or raises: the waiter is popped.
Finish ==
    /\ call' = Idle
    /\ waiter' = 0 /\ got' = {}

\* send_json takes the socket.
TakeSock ==
    /\ call.step = "send"
    /\ IF client = Nobody THEN Finish
       ELSE /\ call' = [call EXCEPT !.step = "sendall", !.sock = client]
            /\ UNCHANGED <<waiter, got>>
    /\ UNCHANGED tcpVars
    /\ UNCHANGED <<requests, asked, planVars, liveVars, slips>>

\* A trajectory that was sent is dropped from the cache and the live state is
\* switched on again, before any answer.
Mutant_Sent ==
    /\ call' = [call EXCEPT !.step = "wait", !.sock = Nobody]
    /\ UNCHANGED <<pending, live>>
Sent ==
    /\ call' = [call EXCEPT !.step = "wait", !.sock = Nobody]
    /\ IF call.plan = NoPlan THEN UNCHANGED <<pending, live>>
       ELSE pending' = NoPlan /\ live' = TRUE

\* sendall: to a GUI that is gone it may still succeed.  A socket another thread
\* closed fails.
SendAll ==
    /\ call.step = "sendall"
    /\ sock[call.sock] = "open"
    /\ Sent
    /\ asked' = IF peer[call.sock] = "up"
                THEN asked \cup {[conn |-> call.sock, id |-> call.id, plan |-> call.plan]}
                ELSE asked
    /\ UNCHANGED tcpVars
    /\ UNCHANGED <<requests, waiter, got, plans, was, slips>>

SendFails ==
    \/ /\ call.step = "sendall"
       /\ sock[call.sock] = "closed" \/ peer[call.sock] = "gone"
       /\ call' = [call EXCEPT !.step = "close"]
       /\ UNCHANGED <<tcpVars, waiter, got>>
       /\ UNCHANGED <<requests, asked, planVars, liveVars, slips>>
    \/ /\ call.step = "close"
       /\ call' = [call EXCEPT !.step = "drop", !.sock = client]
       /\ UNCHANGED <<tcpVars, waiter, got>>
       /\ UNCHANGED <<requests, asked, planVars, liveVars, slips>>
    \/ /\ call.step = "drop"
       /\ CloseClient(call.sock)
       /\ Finish
       /\ UNCHANGED <<peer, inbox, accept, reader>>
       /\ UNCHANGED <<requests, asked, planVars, liveVars, slips>>

\* What the detector makes of the image, or whether the ack is negative, does not
\* matter here.
Answered ==
    /\ call.step = "wait" /\ call.waits \subseteq got
    /\ Finish
    /\ UNCHANGED tcpVars
    /\ UNCHANGED <<requests, asked, planVars, liveVars, slips>>

TimesOut ==
    /\ call.step = "wait" /\ ~(call.waits \subseteq got)
    /\ Finish
    /\ UNCHANGED tcpVars
    /\ UNCHANGED <<requests, asked, planVars, liveVars, slips>>

-----------------------------------------------------------------------------
(* Plans and the live state.                                                 *)

Rest == <<tcpVars, requests, waiter, got, asked>>
NoSlips == slips' = [c \in Conns |-> 0]

\* PlanGrab for an object of the scene, under SuppressLiveState.
PlanGrab ==
    /\ call.step = "idle" /\ plans < MaxPlans
    /\ call' = [Idle EXCEPT !.step = "plan"]
    /\ was' = live /\ live' = FALSE
    /\ NoSlips
    /\ UNCHANGED planVars /\ UNCHANGED Rest

\* No feasible grasp, no path or an exception leaves the older plan in the cache.
Planned ==
    /\ call.step = "plan"
    /\ call' = Idle
    /\ live' = was /\ was' = TRUE
    /\ \/ plans' = plans + 1 /\ pending' = plans'
       \/ UNCHANGED planVars
    /\ NoSlips
    /\ UNCHANGED Rest

DiscardTrajectory ==
    /\ call.step = "idle"
    /\ pending' = NoPlan /\ live' = TRUE
    /\ UNCHANGED <<call, plans, was, slips>> /\ UNCHANGED Rest

\* PauseLiveState, ResumeLiveState.
SetLiveState ==
    /\ call.step = "idle"
    /\ live' \in BOOLEAN
    /\ UNCHANGED <<call, planVars, was, slips>> /\ UNCHANGED Rest

-----------------------------------------------------------------------------
(* The reader threads: _dispatch and the handlers of the frames.             *)

\* A state is applied to the model of the robot after the test, not with it.  An
\* answer whose request nobody waits for any more is dropped.
Mutant_Resolves(m) == waiter # 0
Resolves(m) == m.id = waiter

Mutant_AfterFrame(c, m) == IF m.kind = "state" THEN Go(c, "apply") ELSE Loop(c)
AfterFrame(c, m) == IF m.kind = "state" /\ live THEN Go(c, "apply") ELSE Loop(c)

Dispatch(c) ==
    /\ At(c, "dispatch")
    /\ LET m == Head(reader[c].frame)
       IN  /\ reader' = [reader EXCEPT ![c] = AfterFrame(c, m)]
           /\ got' = IF m.kind # "state" /\ waiter # 0 /\ Resolves(m)
                     THEN got \cup {m.kind} ELSE got
    /\ UNCHANGED <<client, sock, peer, inbox, accept, slips>>
    /\ UNCHANGED <<call, requests, waiter, asked, planVars, liveVars>>

ApplyState(c) ==
    /\ At(c, "apply")
    /\ reader' = [reader EXCEPT ![c] = Loop(c)]
    /\ slips' = [slips EXCEPT ![c] = IF call.step = "plan" /\ @ < 2 THEN @ + 1 ELSE @]
    /\ UNCHANGED <<client, sock, peer, inbox, accept>>
    /\ UNCHANGED linkVars

-----------------------------------------------------------------------------
\* What the GUI sends: states, and answers to what it was asked.
Answers(q) == [kind : IF q.plan = NoPlan THEN {"image"} ELSE {"ack"}, id : {q.id}]
GuiFrames(c) == [kind : {"state"}, id : {0}]
                \cup UNION {Answers(q) : q \in {r \in asked : r.conn = c}}

Gui(c) == Connect(c) \/ GoAway(c) \/ \E m \in GuiFrames(c) : Send(c, m)

AcceptLoop == (\E c \in Conns : Accept(c)) \/ AcceptClose \/ Install \/ Spawn

Reader(c) ==
    \/ /\ Receive(c) \/ EndOfStream(c) \/ ReaderClose(c)
       /\ UNCHANGED linkVars /\ UNCHANGED slips
    \/ Dispatch(c) \/ ApplyState(c)

\* What the operator's thread does once a call was typed.
Caller ==
    \/ TakeSock \/ SendAll \/ SendFails \/ Answered \/ TimesOut
    \/ Planned

Operator ==
    \/ TriggerDetection \/ SendTrajectory
    \/ PlanGrab \/ DiscardTrajectory \/ SetLiveState

Next ==
    \/ (\E c \in Conns : Gui(c) \/ ReceiveFails(c)) /\ UNCHANGED linkVars /\ UNCHANGED slips
    \/ AcceptLoop /\ UNCHANGED linkVars /\ UNCHANGED slips
    \/ \E c \in Conns : Reader(c)
    \/ Caller \/ Operator

Spec == Init /\ [][Next]_vars

\* The threads of the server run; neither the operator nor the GUI owes anything.
\* A receive on a socket that another thread closed may block for as long as the
\* GUI is silent.
FairSpec ==
    /\ Spec
    /\ WF_vars(AcceptLoop /\ UNCHANGED linkVars /\ UNCHANGED slips)
    /\ \A c \in Conns : WF_vars(Reader(c))
-----------------------------------------------------------------------------
(* Properties.                                                               *)

\* The values of the state.
TypeOK ==
    /\ TcpTypeOK
    /\ call \in [step : {"idle", "send", "sendall", "close", "drop", "wait",
                         "plan"},
                 id : 0..MaxRequests, plan : 0..MaxPlans, sock : 0..MaxConns,
                 waits : SUBSET {"image", "ack"}]
    /\ requests \in 0..MaxRequests /\ waiter \in 0..MaxRequests
    /\ got \subseteq call.waits
    /\ asked \subseteq [conn : Conns, id : Requests, plan : 0..MaxPlans]
    /\ pending \in 0..plans /\ plans \in 0..MaxPlans
    /\ live \in BOOLEAN /\ was \in BOOLEAN
    /\ slips \in [Conns -> 0..2]

\* A plan moves the arm at most once: however acknowledgements time out, GUIs
\* restart and the operator calls SendTrajectory again, no plan reaches a GUI
\* twice ("Clear cache", SendTrajectory).
PlannedOnce ==
    \A q, r \in asked : q.plan # NoPlan /\ q.plan = r.plan => q = r

\* What a call takes for its answer was sent for this call: a late answer to a
\* request that timed out does not resolve the retry.
OwnAnswer ==
    call.step = "wait" /\ got # {} => \E q \in asked : q.id = call.id

\* "one active client at a time" (tcp_server.py): a connection that was replaced
\* or dropped receives nothing more, but for the frame under way.
SingleClient ==
    [][\A c \in Conns : client # c /\ ~At(c, "recv") => reader'[c].step # "recv"]_vars

\* "During planning + replay live-state updates from the GUI are suppressed"
\* (PlanGrab): of the states a connection delivers, only one whose handler had
\* passed the test before may still move the model of the robot under a plan.
FreezeHolds == \A c \in Conns : slips[c] <= 1

\* A GUI that went away does not stay the client, so that the next call is refused
\* at once instead of waiting for it.
DeadClient == client # Nobody /\ peer[client] = "gone"
DeadGuiDropped == DeadClient ~> ~DeadClient
=============================================================================
