---------------------------- MODULE HeadsetLink ----------------------------
(* The uplink of the headset (pico_vr): the frame loop of the headset app      *)
(* overwrites one buffer with its newest sample, a sender thread polls it and  *)
(* sends what it has not sent yet, and dials again when a send fails; the      *)
(* server in the console gives every connection a thread of its own, which     *)
(* calls back with each pose (_handle_vr_joints, see Teleop).  A connection    *)
(* may break under all of them, and the app may be killed and started again.   *)
(*                                                                             *)
(* A pose is the number of its sample.  A frame that is cut short is dropped   *)
(* by the receiver, so a wire carries whole ones.  Stopping the server is left *)
(* out.                                                                        *)
EXTENDS Integers, Sequences

CONSTANTS
    MaxPoses,       \* bound: samples taken
    MaxLinks,       \* bound: connections made
    MaxWire,        \* bound: poses of one connection on their way
    MaxLaunches     \* bound: launches of the app

ASSUME HeadsetAssumption == {MaxPoses, MaxLinks, MaxWire, MaxLaunches} \subseteq Nat

VARIABLES
    poses,          \* history: samples taken so far
    outgoing,       \* outgoing_joints: the pose (0: None) and its version
    last_sent,      \* _last_sent_version
    sender,         \* the sender thread: step, connection, what get() returned
    launches,       \* launches of the app so far
    net,            \* connections: "none", "up", "fin" (closed by the app) or "cut"
    wire,           \* poses a connection carries
    server,         \* server threads: step and the pose of the callback
    given,          \* history: the connection each pose was handed over from, or 0
    lost            \* history: poses that broken connections swallowed

appVars == <<outgoing, last_sent, sender>>
headsetVars == <<poses, launches, appVars, net, wire, server, given, lost>>

Poses == 1..MaxPoses
Links == 1..MaxLinks
Offline == [step |-> "dial", link |-> 0, pose |-> 0, version |-> 0]
Fresh == [pose |-> 0, version |-> 0]
Elements(s) == {s[i] : i \in 1..Len(s)}

HeadsetInit ==
    /\ poses = 0 /\ launches = 1
    /\ outgoing = Fresh /\ last_sent = 0 /\ sender = Offline
    /\ net = [l \in Links |-> "none"]
    /\ wire = [l \in Links |-> <<>>]
    /\ server = [l \in Links |-> [step |-> "none", pose |-> 0]]
    /\ given = [p \in Poses |-> 0]
    /\ lost = {}

\* The last connection the bound allows does not fail, as nothing could follow it.
Spare(l) == l < MaxLinks

-----------------------------------------------------------------------------
(* The app.                                                                  *)

\* A frame: sync() may find the session out of focus, else JointStateBuffer.set.
Sample ==
    /\ poses < MaxPoses
    /\ poses' = poses + 1
    /\ outgoing' = [pose |-> poses', version |-> outgoing.version + 1]
    /\ UNCHANGED <<launches, last_sent, sender, net, wire, server, given, lost>>

Dial(l) ==
    /\ sender.step = "dial"
    /\ net[l] = "none" /\ \A k \in 1..(l - 1) : net[k] # "none"
    /\ net' = [net EXCEPT ![l] = "up"]
    /\ sender' = [Offline EXCEPT !.step = "get", !.link = l]
    /\ UNCHANGED <<poses, launches, outgoing, last_sent, wire, server, given, lost>>

\* _send_loop polls the buffer ...
Mutant_Get ==
    /\ sender.step = "get"
    /\ outgoing.pose # 0 /\ outgoing.version # last_sent
    /\ sender' = [sender EXCEPT !.step = "send", !.pose = outgoing.pose,
                                !.version = outgoing.version]
    /\ last_sent' = outgoing.version
    /\ UNCHANGED <<poses, launches, outgoing, net, wire, server, given, lost>>
Get ==
    /\ sender.step = "get"
    /\ outgoing.pose # 0 /\ outgoing.version # last_sent
    /\ sender' = [sender EXCEPT !.step = "send", !.pose = outgoing.pose,
                                !.version = outgoing.version]
    /\ UNCHANGED <<poses, launches, outgoing, last_sent, net, wire, server, given, lost>>

\* ... and sends: a socket that has room takes a pose, even for a while after the
\* connection broke, and then the version counts as sent.
Mutant_Transmit ==
    LET l == sender.link
    IN  /\ sender.step = "send"
        /\ \/ /\ net[l] = "up" /\ Len(wire[l]) < MaxWire
              /\ wire' = [wire EXCEPT ![l] = Append(@, outgoing.pose)]
              /\ UNCHANGED lost
           \/ /\ net[l] = "cut"
              /\ lost' = lost \cup {outgoing.pose}
              /\ UNCHANGED wire
        /\ last_sent' = sender.version
        /\ sender' = [Offline EXCEPT !.step = "get", !.link = l]
        /\ UNCHANGED <<poses, launches, outgoing, net, server, given>>
Transmit ==
    LET l == sender.link
    IN  /\ sender.step = "send"
        /\ \/ /\ net[l] = "up" /\ Len(wire[l]) < MaxWire
              /\ wire' = [wire EXCEPT ![l] = Append(@, sender.pose)]
              /\ UNCHANGED lost
           \/ /\ net[l] = "cut"
              /\ lost' = lost \cup {sender.pose}
              /\ UNCHANGED wire
        /\ last_sent' = sender.version
        /\ sender' = [Offline EXCEPT !.step = "get", !.link = l]
        /\ UNCHANGED <<poses, launches, outgoing, net, server, given>>

\* The send raises, as the connection broke or took nothing for five seconds: the
\* socket is closed, and the sender dials again.
TransmitFails ==
    LET l == sender.link
    IN  /\ sender.step = "send"
        /\ \/ net[l] = "cut" /\ UNCHANGED net
           \/ /\ net[l] = "up" /\ Len(wire[l]) = MaxWire /\ Spare(l)
              /\ net' = [net EXCEPT ![l] = "fin"]
        /\ sender' = Offline
        /\ UNCHANGED <<poses, launches, outgoing, last_sent, wire, server, given, lost>>

\* The app is killed and launched again; its socket is closed for it.
Relaunch ==
    /\ launches < MaxLaunches /\ launches' = launches + 1
    /\ \A l \in Links : net[l] = "up" => Spare(l)
    /\ outgoing' = Fresh /\ last_sent' = 0 /\ sender' = Offline
    /\ net' = [l \in Links |-> IF net[l] = "up" THEN "fin" ELSE net[l]]
    /\ UNCHANGED <<poses, wire, server, given, lost>>

App == Get \/ Transmit \/ TransmitFails \/ \E l \in Links : Dial(l)

-----------------------------------------------------------------------------
(* The network: a connection breaks, and what has not arrived yet is lost.    *)

Swallow(l, kept) ==
    /\ lost' = lost \cup Elements(SubSeq(wire[l], kept + 1, Len(wire[l])))
    /\ wire' = [wire EXCEPT ![l] = SubSeq(@, 1, kept)]
    /\ net' = [net EXCEPT ![l] = "cut"]

Break(l) ==
    /\ net[l] = "up" /\ Spare(l)
    /\ \E kept \in 0..Len(wire[l]) : Swallow(l, kept)
    /\ UNCHANGED <<poses, launches, appVars, server, given>>

-----------------------------------------------------------------------------
(* The server: _accept_loop, and one _serve_client thread per connection.     *)

Serve(l, step, pose) == server' = [server EXCEPT ![l] = [step |-> step, pose |-> pose]]

Spawned(l) ==
    /\ server[l].step = "none" /\ net[l] # "none"
    /\ \A k \in 1..(l - 1) : server[k].step # "none"
    /\ Serve(l, "recv", 0)
    /\ UNCHANGED <<poses, launches, appVars, net, wire, given, lost>>

\* recv_message returns a pose, and on_joints is called with it.
Deliver(l) ==
    /\ server[l].step = "recv" /\ wire[l] # <<>>
    /\ Serve(l, "callback", Head(wire[l]))
    /\ wire' = [wire EXCEPT ![l] = Tail(@)]
    /\ given' = [given EXCEPT ![Head(wire[l])] = l]
    /\ UNCHANGED <<poses, launches, appVars, net, lost>>

Return(l) ==
    /\ server[l].step = "callback"
    /\ Serve(l, "recv", 0)
    /\ UNCHANGED <<poses, launches, appVars, net, wire, given, lost>>

\* A callback that raises ends the thread, which closes its connection; what was
\* received and not read is lost with it.
Raise(l) ==
    /\ server[l].step = "callback" /\ Spare(l)
    /\ Serve(l, "gone", 0)
    /\ Swallow(l, 0)
    /\ UNCHANGED <<poses, launches, appVars, given>>

\* The end of the stream.  A connection that broke without a word is never seen
\* to end: its thread may as well wait for ever.
EndOfLink(l) ==
    /\ server[l].step = "recv" /\ wire[l] = <<>> /\ net[l] \in {"fin", "cut"}
    /\ Serve(l, "gone", 0)
    /\ UNCHANGED <<poses, launches, appVars, net, wire, given, lost>>

HeadsetServer(l) == Spawned(l) \/ Deliver(l) \/ Return(l)

-----------------------------------------------------------------------------
HeadsetNext ==
    \/ Sample \/ App \/ Relaunch
    \/ \E l \in Links : Break(l) \/ HeadsetServer(l) \/ Raise(l) \/ EndOfLink(l)

HeadsetSpec == HeadsetInit /\ [][HeadsetNext]_headsetVars

-----------------------------------------------------------------------------
(* Properties.                                                              *)

\* A pose reaches the callback at most once, reconnects and relaunches included,
\* and after a newer one only from a connection that was given up before the newer
\* one was sent: the thread of the old connection drains beside its successor.
PosesInOrder ==
    [][\A l \in Links, p \in Poses :
          server[l].step = "recv" /\ server'[l] = [step |-> "callback", pose |-> p] =>
             /\ given[p] = 0
             /\ \A q \in Poses : q > p /\ given[q] # 0 => given[q] > l]_headsetVars

\* The newest sample is on its way: it has neither reached the callback nor been
\* swallowed by a connection that broke.
Outstanding ==
    /\ outgoing.pose # 0
    /\ given[outgoing.pose] = 0 /\ outgoing.pose \notin lost
=============================================================================
