---------------------------- MODULE HeadsetView ----------------------------
(* The downlink of the headset (pico_vr): the console composes the pictures of *)
(* its cameras into one and hands it to the server, which sends the latest one *)
(* to every connection, again and again; a receiver thread of the app keeps    *)
(* the last one it got, from which the frame loop refreshes the texture.       *)
(*                                                                             *)
(* A picture is its number; the example image is number 0.  The joint states   *)
(* that are sent along with it are stored and looked at by nobody, and are     *)
(* left out, as is stopping either side.                                       *)
EXTENDS Integers, Sequences

CONSTANTS
    MaxPictures,    \* bound: pictures composed
    MaxViews,       \* bound: connections made
    MaxFrames       \* bound: pictures of one connection on their way

ASSUME ViewAssumption == {MaxPictures, MaxViews, MaxFrames} \subseteq Nat

VARIABLES
    image_jpeg,     \* _image_jpeg: the picture the server sends
    publisher,      \* the server's thread per connection: step, picture
    view_net,       \* connections: "none", "up", "reset", or "silent": broken unnoticed
    frames_sent,    \* pictures a connection carries
    receiver,       \* the connection the receiver reads, or 0
    frame,          \* _frame, or NoPicture
    frame_new,      \* _frame_id differs from _last_frame_id
    texture         \* the picture the layer shows, or NoPicture

viewVars == <<image_jpeg, publisher, view_net, frames_sent, receiver, frame, frame_new, texture>>

Views == 1..MaxViews
NoPicture == -1

ViewInit ==
    /\ image_jpeg = 0
    /\ publisher = [v \in Views |-> [step |-> "none", picture |-> NoPicture]]
    /\ view_net = [v \in Views |-> "none"]
    /\ frames_sent = [v \in Views |-> <<>>]
    /\ receiver = 0 /\ frame = NoPicture /\ frame_new = FALSE
    /\ texture = NoPicture

appView == <<receiver, frame, frame_new, texture>>

-----------------------------------------------------------------------------
(* The console.                                                              *)

\* stream_loop composes what the cameras show and calls set_image.
SetImage ==
    /\ image_jpeg < MaxPictures
    /\ image_jpeg' = image_jpeg + 1
    /\ UNCHANGED <<publisher, view_net, frames_sent, appView>>

Publish(v, step, picture) ==
    publisher' = [publisher EXCEPT ![v] = [step |-> step, picture |-> picture]]

\* _serve_client: the picture of a tick is read, then sent.
ServeView(v) ==
    /\ publisher[v].step = "none" /\ view_net[v] # "none"
    /\ Publish(v, "tick", NoPicture)
    /\ UNCHANGED <<image_jpeg, view_net, frames_sent, appView>>
Tick(v) ==
    /\ publisher[v].step = "tick"
    /\ Publish(v, "send", image_jpeg)
    /\ UNCHANGED <<image_jpeg, view_net, frames_sent, appView>>

\* A socket that is full blocks the thread; one that was reset makes it end.
SendPicture(v) ==
    /\ publisher[v].step = "send"
    /\ \/ /\ view_net[v] = "up" /\ Len(frames_sent[v]) < MaxFrames
          /\ frames_sent' = [frames_sent EXCEPT ![v] = Append(@, publisher[v].picture)]
          /\ Publish(v, "tick", publisher[v].picture)
       \/ /\ view_net[v] = "reset"
          /\ Publish(v, "gone", NoPicture)
          /\ UNCHANGED frames_sent
    /\ UNCHANGED <<image_jpeg, view_net, appView>>

Publisher(v) == ServeView(v) \/ Tick(v) \/ SendPicture(v)

-----------------------------------------------------------------------------
(* The network.  A connection may break without the app getting to know.      *)

Drop(v) ==
    /\ view_net[v] = "up" /\ v < MaxViews
    /\ \E how \in {"reset", "silent"} : view_net' = [view_net EXCEPT ![v] = how]
    /\ frames_sent' = [frames_sent EXCEPT ![v] = <<>>]
    /\ UNCHANGED <<image_jpeg, publisher, appView>>

-----------------------------------------------------------------------------
(* The app: the receiver thread, and the frame loop.                          *)

DialView(v) ==
    /\ receiver = 0
    /\ view_net[v] = "none" /\ \A u \in 1..(v - 1) : view_net[u] # "none"
    /\ view_net' = [view_net EXCEPT ![v] = "up"]
    /\ receiver' = v
    /\ UNCHANGED <<image_jpeg, publisher, frames_sent, frame, frame_new, texture>>

ReceivePicture ==
    /\ receiver # 0 /\ frames_sent[receiver] # <<>>
    /\ frame' = Head(frames_sent[receiver]) /\ frame_new' = TRUE
    /\ frames_sent' = [frames_sent EXCEPT ![receiver] = Tail(@)]
    /\ UNCHANGED <<image_jpeg, publisher, view_net, receiver, texture>>

\* The receive raises, or finds the end of the stream.  A receive that only times
\* out is repeated for ever.
ReceiverEnds ==
    /\ receiver # 0 /\ view_net[receiver] = "reset"
    /\ receiver' = 0
    /\ UNCHANGED <<image_jpeg, publisher, view_net, frames_sent, frame, frame_new, texture>>

Receiver == ReceivePicture \/ ReceiverEnds \/ \E v \in Views : DialView(v)

\* latest_frame and update_texture, once a frame.
UpdateTexture ==
    /\ frame # NoPicture /\ frame_new
    /\ texture' = frame /\ frame_new' = FALSE
    /\ UNCHANGED <<image_jpeg, publisher, view_net, frames_sent, receiver, frame>>

-----------------------------------------------------------------------------
ViewNext ==
    \/ SetImage \/ Receiver \/ UpdateTexture
    \/ \E v \in Views : Publisher(v) \/ Drop(v)

\* The headset does not show the latest picture, for another reason than that its
\* connection broke unnoticed: nothing ends a receive that only times out.
Behind ==
    /\ image_jpeg # 0 /\ texture # image_jpeg
    /\ ~(receiver # 0 /\ view_net[receiver] = "silent")
=============================================================================
